----------------------------- MODULE Preprocess -----------------------------
(***************************************************************************)
(* PrepareSource of src/src/lang.cc after the syntax tree is released:     *)
(* comments and docstrings are cut out of the source, the offsets of what  *)
(* remains are recorded, and scopes and lines are carried over.            *)
(***************************************************************************)
EXTENDS OffsetMap, FiniteSets

CONSTANTS
  MaxSource,    \* bound: bytes of the source
  MaxRemovals   \* bound: comments and docstrings

\* A byte of code, of white space inside a line, and the end of a line.
Bytes == {"x", " ", "\n"}

VARIABLES
  source,    \* the original source
  removals,  \* the ranges to remove: [start, end), in order
  round,     \* the range that is next
  cursor,    \* how far the source is copied
  cleaned,   \* the source without them
  map,       \* the offsets
  refused,   \* the map has thrown
  dense      \* the original boundary of each cleaned one (auxiliary)

preprocessVars == <<source, removals, round, cursor, cleaned, map, refused, dense>>

\* The byte at an offset that is counted from zero.
At(offset) == source[offset + 1]
Space(byte) == byte # "x"

\* Comments and docstrings begin and end with a byte of code.
Ranges ==
  {[start |-> first - 1, end |-> last] :
     first, last \in {i \in DOMAIN source : ~Space(source[i])}}

\* In order, and one inside another where they are not apart: the nodes of a
\* tree, none of which begins where another one does.
Ordered(a, b) == a.start < b.start /\ (a.end <= b.start \/ b.end <= a.end)

Init ==
  /\ source \in UNION {[1..n -> Bytes] : n \in 1..MaxSource}
  /\ removals \in UNION {[1..n -> Ranges] : n \in 0..MaxRemovals}
  /\ \A i \in DOMAIN removals :
       /\ removals[i].start < removals[i].end
       /\ \A j \in 1..(i - 1) : Ordered(removals[j], removals[i])
  /\ round = 1 /\ cursor = 0
  /\ cleaned = <<>> /\ map = Empty /\ refused = FALSE /\ dense = <<>>

\* AppendSource.
Copied(end) == SubSeq(source, cursor + 1, end)
RunOf(start, end) == [i \in 1..(end - start) |-> start + i - 1]

\* The ends of lines in a range, as offsets in order.
Newlines(start, end) ==
  LET count == Cardinality({o \in start..(end - 1) : At(o) = "\n"})
  IN  CHOOSE s \in [1..count -> start..(end - 1)] :
        /\ \A i \in DOMAIN s : At(s[i]) = "\n"
        /\ \A i, j \in DOMAIN s : i < j => s[i] < s[j]

AllAppended(m, offsets) ==
  LET appended[i \in 0..Len(offsets)] ==
        IF i = 0 THEN m ELSE Appended(appended[i - 1], offsets[i])
  IN  appended[Len(offsets)]

\* OffsetMap throws otherwise.
AllAccepted(m, offsets) ==
  \A i \in DOMAIN offsets :
    CanAppend(AllAppended(m, SubSeq(offsets, 1, i - 1)), offsets[i])

\* A slip that the checks notice: no space takes the place of a comment.
Glued(text, end) == FALSE

\* What is before and after a range would read as one word.
Separated(text, end) ==
  /\ text # <<>> /\ ~Space(text[Len(text)])
  /\ end < Len(source) /\ ~Space(At(end))

\* A range that begins inside the one before, a comment inside a docstring, is
\* gone already.
SkipRange ==
  /\ round <= Len(removals) /\ removals[round].start < cursor
  /\ round' = round + 1
  /\ UNCHANGED <<source, removals, cursor, cleaned, map, refused, dense>>

RemoveRange ==
  /\ round <= Len(removals) /\ removals[round].start >= cursor
  /\ LET start == removals[round].start
         end   == removals[round].end
         before == cleaned \o Copied(start)
         copied == RunAppended(map, cursor, start - cursor)
         lines == Newlines(start, end)
         kept  == IF lines = <<>> /\ Separated(before, end) THEN <<start>> ELSE lines
     IN  /\ refused' = ~(CanAppendRun(map, cursor, start - cursor)
                          /\ AllAccepted(copied, kept))
         /\ cleaned' = before \o
              [i \in DOMAIN kept |-> IF lines = <<>> THEN " " ELSE "\n"]
         /\ map' = AllAppended(copied, kept)
         /\ dense' = dense \o RunOf(cursor, start) \o kept
         /\ cursor' = end
  /\ round' = round + 1
  /\ UNCHANGED <<source, removals>>

\* The rest of the source, and the boundary at its end.
Finish ==
  /\ round = Len(removals) + 1
  /\ refused' = ~(CanAppendRun(map, cursor, Len(source) - cursor)
       /\ CanAppend(RunAppended(map, cursor, Len(source) - cursor), Len(source)))
  /\ cleaned' = cleaned \o Copied(Len(source))
  /\ map' = Appended(RunAppended(map, cursor, Len(source) - cursor), Len(source))
  /\ dense' = dense \o RunOf(cursor, Len(source)) \o <<Len(source)>>
  /\ cursor' = Len(source) /\ round' = round + 1
  /\ UNCHANGED <<source, removals>>

RemoveRanges == ~refused /\ (SkipRange \/ RemoveRange \/ Finish)

Done == round = Len(removals) + 2

-----------------------------------------------------------------------------
\* CollectLineStarts and the ranges of a line that are not white space.
LineStarts(text) == {0} \cup {i \in DOMAIN text : text[i] = "\n"}

MeaningfulRange(text, line) ==
  LET end == CHOOSE e \in line..Len(text) :
               /\ e = Len(text) \/ text[e + 1] = "\n"
               /\ \A i \in (line + 1)..e : text[i] # "\n"
      code == {i \in (line + 1)..end : ~Space(text[i])}
  IN  IF code = {} THEN {}
      ELSE {[start |-> (CHOOSE i \in code : \A j \in code : i <= j) - 1,
             end |-> CHOOSE i \in code : \A j \in code : j <= i]}

MeaningfulRanges(text) == UNION {MeaningfulRange(text, line) : line \in LineStarts(text)}

\* A scope or a function in the cleaned source, if anything is left of it.
Remapped(start, end) ==
  {r \in {[start |-> CleanedOffset(map, start), end |-> CleanedOffset(map, end)]} :
     r.start < r.end}

PreprocessSpec == Init /\ [][RemoveRanges]_preprocessVars

-----------------------------------------------------------------------------
\* The spans stand for the dense mapping, in both directions, while it grows
\* (offset_map.h:62: "Equivalent to lower_bound on the former dense mapping"),
\* and no offset of a source of Limit bytes is refused (offset_map.h:87, 123).
OffsetsTrue ==
  /\ ~refused
  /\ map.size = Len(dense)
  /\ \A i \in DOMAIN dense : OriginalOffset(map, i - 1) = dense[i]
  /\ \A original \in 0..Len(source) :
       CleanedOffset(map, original) =
         Cardinality({i \in DOMAIN dense : dense[i] < original})

Removed(offset) ==
  \E i \in DOMAIN removals : removals[i].start <= offset /\ offset < removals[i].end

(***************************************************************************)
(* The cleaned source has every byte outside the removed ranges, in order  *)
(* and mapped to itself, and as many lines as the original; two bytes of   *)
(* code that a removed range parts are still parted.  A scope is carried   *)
(* over to what is left of it: the same bytes are in it as before; and     *)
(* every byte of code is in the meaningful range of its line               *)
(* (lang.cc:905-953, 1004-1033; analyze.cc:312 asserts the lines).         *)
(***************************************************************************)
CleanedTrue ==
  Done =>
    /\ \A offset \in 0..(Len(source) - 1) :
         /\ ~Removed(offset) \/ At(offset) = "\n" =>
              Cardinality({i \in DOMAIN cleaned :
                             dense[i] = offset /\ cleaned[i] = At(offset)}) = 1
         /\ \A end \in (offset + 1)..Len(source), i \in DOMAIN cleaned :
              offset <= dense[i] /\ dense[i] < end <=>
                \E scope \in Remapped(offset, end) : scope.start < i /\ i <= scope.end
    /\ \A i \in DOMAIN cleaned :
         /\ i > 1 => dense[i - 1] <= dense[i]
         /\ Removed(dense[i]) => Space(cleaned[i])
         /\ i > 1 /\ ~Space(cleaned[i]) /\ ~Space(cleaned[i - 1]) =>
              dense[i] = dense[i - 1] + 1
    /\ Cardinality({i \in DOMAIN cleaned : cleaned[i] = "\n"}) =
         Cardinality({i \in DOMAIN source : source[i] = "\n"})
    /\ LET ranges == MeaningfulRanges(cleaned)
       IN  /\ \A i \in DOMAIN cleaned : ~Space(cleaned[i]) =>
                \E r \in ranges : r.start < i /\ i <= r.end
           /\ \A r \in ranges, i \in DOMAIN cleaned :
                r.start < i /\ i <= r.end => cleaned[i] # "\n"

\* PrepareSource in all: the offsets are true and the cleaned source is
\* (offset_map.h:47-151, lang.cc:905-1062).
PreparedTrue == OffsetsTrue /\ CleanedTrue
=============================================================================
