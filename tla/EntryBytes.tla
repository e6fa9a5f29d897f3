----------------------------- MODULE EntryBytes -----------------------------
(***************************************************************************)
(* What the cache counts.  An entropy directory is a function from keys to *)
(* the length of the entry file, 0 for a key that has none: an entry is    *)
(* only ever created by renaming a complete non-empty file into place.     *)
(* The bytes of a directory are counted as the number of its byte          *)
(* positions, which needs no summation over keys.                          *)
(***************************************************************************)
EXTENDS Integers, FiniteSets

CONSTANTS Keys,     \* cache keys, one file <key>.cbor each
          MaxSize   \* kMaxEntropyCacheEntryBytes, in units of storage

ASSUME KeysAssumption == IsFiniteSet(Keys)
ASSUME MaxSizeAssumption == MaxSize \in Nat \ {0}

Directories == [Keys -> 0..MaxSize]

Present(d) == {k \in Keys : d[k] > 0}

\* The byte positions a directory occupies: byte i of entry k.
Blocks(d) == {b \in Keys \X (1..MaxSize) : b[2] <= d[b[1]]}

Bytes(d) == Cardinality(Blocks(d))
Count(d) == Cardinality(Present(d))

\* The directory once the files of S are unlinked.
Removed(d, S) == [k \in Keys |-> IF k \in S THEN 0 ELSE d[k]]

\* The directory once a file of s bytes has been renamed over entry k.
Replaced(d, k, s) == [d EXCEPT ![k] = s]
=============================================================================
