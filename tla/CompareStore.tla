---------------------------- MODULE CompareStore ----------------------------
(***************************************************************************)
(* The object store that compare stages share (src/src/compare/store.cc    *)
(* and s3.cc), with its two kinds of objects: results by item and          *)
(* fingerprint (result_cache.cc), native entropies by engine and content   *)
(* (entropy_tier.h).                                                       *)
(*                                                                         *)
(* An item stands for one (blob, language) pair and for the bytes of that  *)
(* blob.  A measurement says of which bytes and by which engine it was     *)
(* computed; nobody can read that off a stored object, so the checks of    *)
(* the code have to make it come out right.                                *)
(***************************************************************************)
EXTENDS Naturals, FiniteSets

CONSTANTS
  Items,         \* (blob, language) pairs, as the numbers of their keys
  Scorers,       \* builds of llm-cc with their backend and host
  Models,        \* digests of model files
  Fingerprints,  \* what plans are scored with: scorer, model and settings
  Damaged,       \* bytes that are not those of any item
  None,          \* "nothing"
  Unusable,      \* an object that a reader refuses
  Earlier,       \* the results that earlier comparisons may have stored
  MaxFaults      \* bound on everything that goes wrong

Engines == [scorer : Scorers, model : Models]
Contents == Items \cup {Damaged}
Measurements == [of : Contents, by : Engines]

ASSUME ItemsAssumption == Items \subseteq Nat /\ IsFiniteSet(Items)
ASSUME FingerprintsAssumption ==
  \A f \in Fingerprints : f.scorer \in Scorers /\ f.model \in Models
ASSUME EarlierAssumption == Earlier \subseteq Items \X Fingerprints
ASSUME DamagedAssumption == Damaged \notin Items
ASSUME NoneAssumption ==
  /\ None \notin Items \cup Contents \cup Measurements
  /\ Unusable \notin Measurements
  /\ None # Unusable
ASSUME FaultsAssumption == MaxFaults \in Nat

VARIABLES
  objects,  \* results/v2: item, fingerprint -> stored result
  entries,  \* entropy/v2: engine, content -> stored entropies
  faults    \* what went wrong so far

storeVars == <<objects, entries, faults>>

Engine(f) == [scorer |-> f.scorer, model |-> f.model]

\* What ResultCache::Put stored under a key.
Stored(k) == [of |-> k[1], by |-> Engine(k[2])]

StoreInit ==
  /\ \E kept \in SUBSET Earlier :
       objects = [k \in Items \X Fingerprints |-> IF k \in kept THEN Stored(k) ELSE None]
  /\ entries = [k \in Engines \X Contents |-> None]
  /\ faults = 0

Fault == faults < MaxFaults /\ faults' = faults + 1

\* ResultCache::Get believes the object: its fields, digest and age pass.
Usable(o) == o \notin {None, Unusable}

SetObject(k, m) == objects' = [objects EXCEPT ![k] = m]
SetEntry(k, m) == entries' = [entries EXCEPT ![k] = m]

\* Store::Put returns.
PutObject(k, m) == SetObject(k, m) /\ UNCHANGED <<entries, faults>>
PutEntry(k, m) == SetEntry(k, m) /\ UNCHANGED <<objects, faults>>

\* Store::Put throws after its last attempt.  An attempt whose answer was
\* lost may have been applied all the same.
PutObjectFails(k, m) ==
  /\ Fault
  /\ SetObject(k, m) \/ UNCHANGED objects
  /\ UNCHANGED entries
PutEntryFails(k, m) ==
  /\ Fault
  /\ SetEntry(k, m) \/ UNCHANGED entries
  /\ UNCHANGED objects

\* Store::Get throws.
GetFails == Fault /\ UNCHANGED <<objects, entries>>

\* What else happens to the objects of a shared bucket: they expire, are
\* removed by its retention or replaced by something corrupt or foreign.
Disturb ==
  /\ Fault
  /\ \E o \in {None, Unusable} :
       \/ \E k \in Items \X Fingerprints :
            /\ Usable(objects[k])
            /\ objects' = [objects EXCEPT ![k] = o]
            /\ UNCHANGED entries
       \/ \E k \in Engines \X Contents :
            /\ Usable(entries[k])
            /\ entries' = [entries EXCEPT ![k] = o]
            /\ UNCHANGED objects

StoreTypeOK ==
  /\ objects \in [Items \X Fingerprints -> Measurements \cup {None, Unusable}]
  /\ entries \in [Engines \X Contents -> Measurements \cup {None, Unusable}]
  /\ faults \in 0..MaxFaults
=============================================================================
