------------------------------ MODULE OffsetMap ------------------------------
(***************************************************************************)
(* OffsetMap of src/src/offset_map.h: for each boundary of the cleaned     *)
(* source, the boundary of the original source it comes from.  Boundaries  *)
(* at a constant distance share a span.  Spans are in the order they were  *)
(* appended, and boundaries are counted from zero.                         *)
(***************************************************************************)
EXTENDS Integers, Sequences

CONSTANT Limit   \* UINT32_MAX

Empty == [spans |-> <<>>, size |-> 0]

LastSpan(map) == map.spans[Len(map.spans)]
\* The original boundary of the last cleaned boundary of a span.
LastOriginal(span) == span.original + (span.length - 1) * span.stride

Monotonic(map, original) ==
  map.spans # <<>> => LastOriginal(LastSpan(map)) <= original

NewSpan(map, original, length) ==
  [spans |-> Append(map.spans, [cleaned |-> map.size, original |-> original,
                                length |-> length, stride |-> 1]),
   size |-> map.size + length]

Extended(map, span) ==
  [spans |-> [map.spans EXCEPT ![Len(map.spans)] = span],
   size |-> map.size + span.length - LastSpan(map).length]

-----------------------------------------------------------------------------
\* Append throws otherwise.
CanAppend(map, original) ==
  map.size <= Limit /\ original <= Limit /\ Monotonic(map, original)

\* A slip that the checks notice: a boundary continues a span at any distance.
ContinuesAny(map, original) ==
  map.spans # <<>> /\ LastSpan(map).length < Limit

\* A span of one boundary takes the distance of the second.
Continues(map, original) ==
  LET last == LastSpan(map)
      stride == original - LastOriginal(last)
  IN  /\ map.spans # <<>>
      /\ last.cleaned + last.length = map.size
      /\ last.length < Limit
      /\ last.length = 1 \/ stride = last.stride

Appended(map, original) ==
  IF Continues(map, original)
    THEN LET last == LastSpan(map)
         IN  Extended(map, [last EXCEPT !.length = @ + 1,
                              !.stride = original - LastOriginal(last)])
    ELSE NewSpan(map, original, 1)

\* AppendRun throws otherwise.
CanAppendRun(map, original, length) ==
  length # 0 =>
    /\ map.size + length <= Limit /\ original + length <= Limit + 1
    /\ Monotonic(map, original)

ContinuesRun(map, original, length) ==
  LET last == LastSpan(map)
  IN  /\ map.spans # <<>>
      /\ last.stride = 1
      /\ last.cleaned + last.length = map.size
      /\ last.original + last.length = original
      /\ last.length + length <= Limit

RunAppended(map, original, length) ==
  IF length = 0 THEN map
  ELSE IF ContinuesRun(map, original, length)
         THEN Extended(map, [LastSpan(map) EXCEPT !.length = @ + length])
  ELSE NewSpan(map, original, length)

-----------------------------------------------------------------------------
\* The span that has a cleaned boundary, found by upper_bound.
OriginalOffset(map, cleaned) ==
  LET span == map.spans[CHOOSE i \in DOMAIN map.spans :
                /\ map.spans[i].cleaned <= cleaned
                /\ i = Len(map.spans) \/ map.spans[i + 1].cleaned > cleaned]
  IN  span.original + (cleaned - span.cleaned) * span.stride

\* The first span that ends at or after an original boundary, and the first of
\* its boundaries that is not before it.
CleanedOffset(map, original) ==
  LET Reaches(i) == LastOriginal(map.spans[i]) >= original
      span == map.spans[CHOOSE i \in DOMAIN map.spans :
                Reaches(i) /\ (i = 1 \/ ~Reaches(i - 1))]
  IN  IF ~\E i \in DOMAIN map.spans : Reaches(i) THEN map.size
      ELSE IF original <= span.original \/ span.stride = 0 THEN span.cleaned
      ELSE span.cleaned + (original - span.original + span.stride - 1) \div span.stride
=============================================================================
