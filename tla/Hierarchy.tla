------------------------------ MODULE Hierarchy ------------------------------
(***************************************************************************)
(* Analyze of src/src/core.cc: tokens of high entropy and the ends of      *)
(* scopes cut a file, or the span of one function in it, into units, and   *)
(* the units become a tree by the depth of the scopes they begin in.       *)
(* Bytes are counted from the start of the file or span.                   *)
(***************************************************************************)
EXTENDS Integers, Sequences, FiniteSets

CONSTANTS
  Layouts,    \* bound: the ends of the tokens, of one source or another
  MaxEvents,  \* bound: structural events
  Depths      \* bound: their depths

VARIABLES
  ends,       \* token -> its end_byte
  entropy,    \* token -> "none", "low" or "high" (>= tau)
  lines,      \* line_starts
  events,     \* structural_events, by scope_start
  ranges,     \* meaningful_ranges, in order
  mode,       \* hierarchy_mode
  span_starts_source,  \* the tokens are those of a file or of its first function
  stage,
  indices,    \* the tokens at which intervals begin, and the end of the last
  interval,   \* the interval that is next
  eventIndex, rangeIndex,
  ending,     \* the events in the priority queue
  active,     \* active_depths: depth -> how often
  units,      \* the semantic units
  arena,      \* the nodes of the tree
  stack       \* the nodes that may still get children

sourceVars == <<ends, entropy, lines, events, ranges, mode, span_starts_source>>
scanVars == <<interval, eventIndex, rangeIndex, ending, active, units>>
treeVars == <<arena, stack>>
hierarchyVars == <<sourceVars, stage, indices, scanVars, treeVars>>

Tokens == DOMAIN ends
Start(token) == IF token = 1 THEN 0 ELSE ends[token - 1]
SourceEnd == ends[Len(ends)]
Lowest(S) == CHOOSE x \in S : \A y \in S : x <= y
Highest(S) == CHOOSE x \in S : \A y \in S : y <= x

-----------------------------------------------------------------------------
\* What PrepareSource and AlignTokens hand over.
Scopes == {[start |-> s, end |-> e, depth |-> d] :
             s \in 0..(SourceEnd - 1), e \in 1..SourceEnd, d \in Depths}

LineRanges(starts) ==
  LET End(line) == Lowest({l \in starts \cup {SourceEnd} : l > line})
  IN  {[start |-> line + skipped, end |-> End(line)] : line \in starts, skipped \in {0, 1}}

InOrder(seq) == \A i \in 2..Len(seq) : seq[i - 1].end <= seq[i].start

Init ==
  /\ ends \in Layouts
  /\ entropy \in [Tokens -> {"none", "low", "high"}]
  /\ span_starts_source \in BOOLEAN
  /\ \A token \in Tokens : entropy[token] = "none" <=> token = 1 /\ span_starts_source
  /\ lines \in {{0} \cup later : later \in SUBSET {SourceEnd \div 2}}
  /\ events \in UNION {[1..n -> Scopes] : n \in 0..MaxEvents}
  /\ \A i \in DOMAIN events :
       /\ events[i].start < events[i].end
       /\ \A j \in DOMAIN events : i < j =>
            /\ events[i].start <= events[j].start
            /\ events[j].end <= events[i].end \/ events[i].end <= events[j].start
  /\ ranges \in UNION {[1..n -> LineRanges(lines)] : n \in 0..Cardinality(lines)}
  /\ \A i \in DOMAIN ranges : ranges[i].start < ranges[i].end
  /\ InOrder(ranges)
  /\ mode \in {"structural", "reference"}
  /\ stage = "detect" /\ indices = <<>>
  /\ interval = 0 /\ eventIndex = 1 /\ rangeIndex = 1
  /\ ending = {} /\ active = [d \in Depths |-> 0]
  /\ units = <<>> /\ arena = <<>> /\ stack = <<>>

\* TokenIndexAt: the first token that starts at or after a byte.
TokenIndexAt(byte) ==
  LET token == Lowest({t \in Tokens : ends[t] >= byte} \cup {Len(ends) + 1})
  IN  IF token \in Tokens /\ Start(token) < byte THEN token + 1 ELSE token

FirstOverlappingToken(byte) ==
  Lowest({t \in Tokens : ends[t] > byte} \cup {Len(ends) + 1})

MeaningfulStart == IF ranges = <<>> THEN 0 ELSE ranges[1].start
MeaningfulEnd == IF ranges = <<>> THEN SourceEnd ELSE ranges[Len(ranges)].end

LineOf(token) == Highest({line \in lines : line <= Start(token)})
FirstTokenOnLine(token) ==
  Lowest({t \in Tokens : t <= token /\ (t = token \/ Start(t) >= LineOf(token))})

SourceStartToken == FirstOverlappingToken(MeaningfulStart)
SourceEndToken == TokenIndexAt(MeaningfulEnd)

\* The first token of the source never opens a block; that of a function span
\* later in the file may.
FirstOpener == SourceStartToken + (IF span_starts_source THEN 1 ELSE 0)
Openers == {t \in FirstOpener..(SourceEndToken - 1) : entropy[t] = "high"}

\* A marker opens a block at the first token of its line.
Markers ==
  {IF FirstTokenOnLine(t) < SourceStartToken THEN SourceStartToken
   ELSE FirstTokenOnLine(t) : t \in Openers}

Boundaries ==
  {SourceStartToken, SourceEndToken} \cup
  {b \in Markers \cup (IF mode = "structural"
                         THEN {TokenIndexAt(events[i].end) : i \in DOMAIN events} ELSE {}) :
     SourceStartToken < b /\ b < SourceEndToken}

Sorted(S) ==
  CHOOSE s \in [1..Cardinality(S) -> S] : \A i, j \in DOMAIN s : i < j => s[i] < s[j]

\* In the reference mode what comes before the first marker has no unit.
DetectBoundaries ==
  /\ stage = "detect"
  /\ indices' = Sorted(Boundaries)
  /\ interval' = IF mode = "reference" /\ SourceStartToken \notin Markers THEN 2 ELSE 1
  /\ stage' = "scan"
  /\ UNCHANGED <<sourceVars, eventIndex, rangeIndex, ending, active, units, treeVars>>

IntervalStart == Start(indices[interval])
IntervalEnd == ends[indices[interval + 1] - 1]

\* The range that is next for an interval: the first that ends after its start.
NextRange ==
  Lowest({r \in rangeIndex..Len(ranges) : ranges[r].end > IntervalStart}
         \cup {Len(ranges) + 1})

Blank ==
  ranges # <<>> /\ (NextRange > Len(ranges) \/ ranges[NextRange].start >= IntervalEnd)

SkipInterval ==
  /\ stage = "scan" /\ interval < Len(indices) /\ Blank
  /\ interval' = interval + 1 /\ rangeIndex' = NextRange
  /\ UNCHANGED <<sourceVars, stage, indices, eventIndex, ending, active, units, treeVars>>

\* A slip that the checks notice: a scope still contains the byte at its end.
EndsAfter(scope, byte) == scope.end < byte

EndsBy(scope, byte) == scope.end <= byte

\* Scopes that begin by the start of the unit become active, and those that
\* end by it are active no more.
AddUnit ==
  /\ stage = "scan" /\ interval < Len(indices) /\ ~Blank
  /\ LET start == IF ranges = <<>> \/ ranges[NextRange].start < IntervalStart
                    THEN IntervalStart ELSE ranges[NextRange].start
         next  == Lowest({e \in eventIndex..Len(events) : events[e].start > start}
                         \cup {Len(events) + 1})
         begun == eventIndex..(next - 1)
         ended == {e \in ending \cup begun : EndsBy(events[e], start)}
         Count(S, d) == Cardinality({e \in S : events[e].depth = d})
         now   == [d \in Depths |-> active[d] + Count(begun, d) - Count(ended, d)]
     IN  /\ eventIndex' = next
         /\ ending' = (ending \cup begun) \ ended
         /\ active' = now
         /\ units' = Append(units,
              [start |-> start,
               end |-> IF IntervalEnd < MeaningfulEnd THEN IntervalEnd ELSE MeaningfulEnd,
               depth |-> Highest({0} \cup {d \in Depths : now[d] > 0})])
  /\ interval' = interval + 1 /\ rangeIndex' = NextRange
  /\ UNCHANGED <<sourceVars, stage, indices, treeVars>>

\* A single unit of the structural mode is the root itself.
Scanned ==
  /\ stage = "scan" /\ interval >= Len(indices)
  /\ stage' = IF mode = "structural" /\ Len(units) = 1 THEN "done" ELSE "build"
  /\ UNCHANGED <<sourceVars, indices, scanVars, treeVars>>

-----------------------------------------------------------------------------
Nests(depth, below) == depth < below

\* BuildHierarchyImpl, one unit at a time; 0 is the root.
Place ==
  /\ stage = "build" /\ Len(arena) < Len(units)
  /\ LET unit == units[Len(arena) + 1]
         kept == SubSeq(stack, 1,
                   Highest({0} \cup {i \in DOMAIN stack :
                                       Nests(arena[stack[i]].depth, unit.depth)}))
         parent == IF kept = <<>> THEN 0 ELSE kept[Len(kept)]
     IN  /\ arena' = Append(arena,
              [start |-> unit.start, end |-> unit.end, depth |-> unit.depth,
               parent |-> parent,
               level |-> IF parent = 0 THEN 2 ELSE arena[parent].level + 1])
         /\ stack' = Append(kept, Len(arena) + 1)
  /\ UNCHANGED <<sourceVars, stage, indices, scanVars>>

\* A node and the nodes above it.
Ancestors ==
  LET above[n \in DOMAIN arena] ==
        {n} \cup (IF arena[n].parent = 0 THEN {} ELSE above[arena[n].parent])
  IN  above

Below(node) == {n \in DOMAIN arena : node \in Ancestors[n]}

\* A node ends where the last of its descendants does.
Materialize ==
  /\ stage = "build" /\ Len(arena) = Len(units)
  /\ arena' = [n \in DOMAIN arena |->
       [arena[n] EXCEPT !.end = Highest({arena[m].end : m \in Below(n)})]]
  /\ stage' = "done"
  /\ UNCHANGED <<sourceVars, indices, scanVars, stack>>

Analyze ==
  DetectBoundaries \/ SkipInterval \/ AddUnit \/ Scanned \/ Place \/ Materialize

HierarchySpec == Init /\ [][Analyze]_hierarchyVars

-----------------------------------------------------------------------------
Meaningful(byte) ==
  IF ranges = <<>> THEN byte < SourceEnd
  ELSE \E i \in DOMAIN ranges : ranges[i].start <= byte /\ byte < ranges[i].end

Covers(unit, byte) == unit.start <= byte /\ byte < unit.end
Unopened(byte) ==
  mode = "reference" /\ \A t \in Openers : byte < Start(FirstTokenOnLine(t))

(***************************************************************************)
(* The units are a partition: each byte of code is in one of them, except, *)
(* in the reference mode, those before the line of the first marker, which *)
(* are in none.  None goes on into the line of a marker.  A unit is as     *)
(* deep as the deepest scope it begins in, whichever the scan has passed   *)
(* before (core.cc:184-284).                                               *)
(***************************************************************************)
UnitsTrue ==
  stage \in {"build", "done"} =>
    /\ \A byte \in 0..(SourceEnd - 1) :
         LET covering == {i \in DOMAIN units : Covers(units[i], byte)}
         IN  /\ Cardinality(covering) <= 1
             /\ Meaningful(byte) => (covering = {} <=> Unopened(byte))
    /\ \A t \in Openers : \A i \in DOMAIN units :
         Covers(units[i], Start(t)) => units[i].start >= LineOf(t)
    /\ \A i \in DOMAIN units :
         units[i].depth =
           Highest({0} \cup {events[e].depth :
                               e \in {e \in DOMAIN events : Covers(events[e], units[i].start)}})

(***************************************************************************)
(* The parent of a unit is the nearest one before it that is less deep,    *)
(* its level counts its ancestors, and what a unit spans with its          *)
(* descendants is inside its parent and apart from its siblings            *)
(* (core.cc:293-360).                                                      *)
(***************************************************************************)
TreeTrue ==
  stage = "done" =>
    /\ Len(units) # 1 \/ mode = "reference" => Len(arena) = Len(units)
    /\ \A n \in DOMAIN arena :
         LET node == arena[n]
         IN  /\ node.parent = Highest({0} \cup {m \in 1..(n - 1) : arena[m].depth < node.depth})
             /\ node.level = 1 + Cardinality({m \in DOMAIN arena : n \in Below(m)})
             /\ node.parent # 0 => node.end <= arena[node.parent].end
             /\ \A m \in DOMAIN arena :
                  m < n /\ n \notin Below(m) => arena[m].end <= node.start

\* Analyze in all: the units are a true partition, and the tree is theirs
\* (core.cc:115-345).
HierarchyTrue == UnitsTrue /\ TreeTrue
=============================================================================
