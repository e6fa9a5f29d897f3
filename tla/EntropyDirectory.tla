-------------------------- MODULE EntropyDirectory --------------------------
(***************************************************************************)
(* What the entropy cache promises of its directory, whatever the          *)
(* interleaving, crashes and failed calls: files disappear, or one entry   *)
(* is installed whole, and an installation never leaves the directory over *)
(* its budget.  Nothing else touches an entry's bytes.                     *)
(***************************************************************************)
EXTENDS Integers

CONSTANTS Keys,      \* cache keys
          MaxSize,   \* the largest entry
          Limit,     \* the storage budget
          Bytes(_)   \* the storage a directory occupies

VARIABLE size        \* key -> length of its file, 0 when absent

Init == size \in [Keys -> 0..MaxSize]

Reclaim == \E S \in SUBSET Keys :
             size' = [k \in Keys |-> IF k \in S THEN 0 ELSE size[k]]

Install == \E k \in Keys, s \in 1..MaxSize :
             /\ size' = [size EXCEPT ![k] = s]
             /\ Bytes(size') <= Limit

Next == Reclaim \/ Install

Spec == Init /\ [][Next]_size
=============================================================================
