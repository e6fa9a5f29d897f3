------------------------------ MODULE Alignment ------------------------------
(***************************************************************************)
(* AlignTokens and NormalizeDummyPrefix of src/src/jsonl.cc: the pieces a  *)
(* tokenizer made of the source are laid over it.  A SentencePiece         *)
(* tokenizer puts a space before the source that is not part of it.        *)
(***************************************************************************)
EXTENDS Naturals, Sequences

CONSTANTS
  Letters,      \* bytes other than a space
  MaxText       \* bound: bytes of the source

VARIABLES
  text,      \* the preprocessed source
  dummy,     \* the tokenizer puts a space before it
  pieces,    \* EntropyRecord::bytes, in order
  next,      \* the record that is next
  offset,    \* the bytes that are covered
  tokens,    \* the tokens so far
  verdict    \* "none", "aligned" or "mismatch"

alignmentVars == <<text, dummy, pieces, next, offset, tokens, verdict>>

Blank == " "
Texts == UNION {[1..n -> Letters \cup {Blank}] : n \in 1..MaxText}

StartsWith(whole, part) ==
  Len(part) <= Len(whole) /\ SubSeq(whole, 1, Len(part)) = part

\* The ways to cut a text into pieces, by the places where they end.
Endings(whole) ==
  {ends \in UNION {[1..n -> 1..Len(whole)] : n \in 1..Len(whole)} :
     /\ ends[Len(ends)] = Len(whole)
     /\ \A i \in 2..Len(ends) : ends[i - 1] < ends[i]}

Cut(whole, ends) ==
  [i \in DOMAIN ends |-> SubSeq(whole, IF i = 1 THEN 1 ELSE ends[i - 1] + 1, ends[i])]

Cuts(whole) == {Cut(whole, ends) : ends \in Endings(whole)}

\* The records are those of the source, or, from a damaged entry, of another.
Init ==
  /\ text \in Texts
  /\ dummy \in BOOLEAN
  /\ \E scored \in Texts :
       pieces \in Cuts(IF dummy THEN <<Blank>> \o scored ELSE scored)
  /\ next = 1 /\ offset = 0 /\ tokens = <<>> /\ verdict = "none"

\* A first piece that is not how the source begins, but is without its space.
HasDummyPrefix(piece) ==
  /\ piece[1] = Blank
  /\ ~StartsWith(text, piece)
  /\ StartsWith(text, Tail(piece))

\* A slip that the checks notice: the space is dropped from every piece.
PrefixAnywhere(record) ==
  IF record[1] = Blank THEN Tail(record) ELSE record

\* The bytes that a record covers.
Covered(record) ==
  IF next = 1 /\ HasDummyPrefix(record) THEN Tail(record) ELSE record

AlignToken ==
  /\ verdict = "none" /\ next <= Len(pieces)
  /\ LET bytes == Covered(pieces[next])
         end == offset + Len(bytes)
     IN  IF end > Len(text) \/ SubSeq(text, offset + 1, end) # bytes
           THEN verdict' = "mismatch" /\ UNCHANGED <<next, offset, tokens>>
           ELSE /\ next' = next + 1 /\ offset' = end
                /\ tokens' = IF bytes = <<>> THEN tokens
                             ELSE Append(tokens, [start |-> offset, end |-> end, record |-> next])
                /\ UNCHANGED verdict
  /\ UNCHANGED <<text, dummy, pieces>>

AlignEnd ==
  /\ verdict = "none" /\ next > Len(pieces)
  /\ verdict' = IF offset = Len(text) THEN "aligned" ELSE "mismatch"
  /\ UNCHANGED <<text, dummy, pieces, next, offset, tokens>>

AlignTokens == AlignToken \/ AlignEnd

AlignmentSpec == Init /\ [][AlignTokens]_alignmentVars

\* NormalizeDummyPrefix: what is published; a piece that is only the space
\* stays, and the entry is incomplete.
Normalized ==
  IF pieces # <<>> /\ HasDummyPrefix(pieces[1]) /\ Len(pieces[1]) > 1
    THEN [pieces EXCEPT ![1] = Tail(@)] ELSE pieces

Joined(parts) ==
  LET joined[i \in 0..Len(parts)] == IF i = 0 THEN <<>> ELSE joined[i - 1] \o parts[i]
  IN  joined[Len(parts)]

(***************************************************************************)
(* Records are aligned only with the source they are of, and then the      *)
(* tokens tile it.  Those of the source are, unless the space could be     *)
(* its own.  What is published of an aligned source spells the source and  *)
(* has the same tokens, unless its first piece was nothing but the space   *)
(* (jsonl.cc:147-208, analyze.cc:276-282).                                 *)
(***************************************************************************)
AlignedTrue ==
  /\ verdict = "aligned" =>
       /\ Joined([i \in DOMAIN tokens |-> SubSeq(text, tokens[i].start + 1, tokens[i].end)]) = text
       /\ \A i \in DOMAIN tokens :
            tokens[i].start = (IF i = 1 THEN 0 ELSE tokens[i - 1].end)
       /\ Joined(pieces) \in {text, <<Blank>> \o text}
       /\ Len(tokens) = Len(pieces) =>
            /\ Joined(Normalized) = text
            /\ \A i \in DOMAIN tokens :
                 Len(Normalized[i]) = tokens[i].end - tokens[i].start
  /\ verdict = "mismatch" =>
       IF dummy THEN Joined(pieces) = <<Blank>> \o text => StartsWith(text, pieces[1])
                ELSE Joined(pieces) # text
=============================================================================
