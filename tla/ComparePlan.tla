----------------------------- MODULE ComparePlan -----------------------------
(***************************************************************************)
(* compare prepare (src/src/compare/prepare.cc, plan.cc): looks up every   *)
(* item of both revisions in the result cache, writes the blobs of the     *)
(* misses, partitions the misses over the workers and writes plan.json.    *)
(* Several plans are prepared at once, for several pipelines or for one    *)
(* that is prepared again; they meet in the store.                         *)
(***************************************************************************)
EXTENDS CompareStore, FiniteSetsExt

CONSTANTS
  Plans,       \* preparations
  Requests,    \* what may be asked for: plan -> the scorable items of its two
               \* revisions and the fingerprint to score them with
  MaxWorkers,  \* plan -> --max-workers
  Size         \* item -> size of its blob

ASSUME PlansAssumption ==
  /\ Requests \subseteq
       [Plans -> [items : SUBSET Items, fingerprint : Fingerprints]]
  /\ MaxWorkers \in [Plans -> 1..4]
  /\ Size \in [Items -> Nat]

VARIABLES
  inventory,    \* plan -> its items
  fingerprint,  \* plan -> its fingerprint
  stage,        \* plan -> where its preparation is
  looked,       \* plan -> the items looked up so far
  hit,          \* plan -> item -> its cached result
  refreshing,   \* plan -> the hits that are about to be stored again
  blobs,        \* plan -> item -> the bytes in blobs/
  left,         \* plan -> the misses no worker has yet
  keys,         \* plan -> worker -> its items
  bytes         \* plan -> worker -> their sizes' sum

planVars == <<inventory, fingerprint, stage, looked, hit, refreshing, blobs,
              left, keys, bytes>>
options == <<inventory, fingerprint>>
assignment == <<left, keys, bytes>>

Workers == 0..3
Key(p, i) == <<i, fingerprint[p]>>

Misses(p) == {i \in inventory[p] : hit[p][i] = None}

\* The workers that Partition starts with.
Pool(p) ==
  {w \in Workers : w < MaxWorkers[p] /\ w < Cardinality(Misses(p))}

\* Largest files first, then by key.
Before(i, j) == Size[i] > Size[j] \/ (Size[i] = Size[j] /\ i < j)
First(S, i) == i \in S /\ \A j \in S \ {i} : Before(i, j)

\* A slip that the checks notice: the heaviest worker comes first.
LighterReversed(p, w, v) ==
  bytes[p][w] > bytes[p][v] \/ (bytes[p][w] = bytes[p][v] /\ w < v)

\* The order of the workers by bytes, then by id.
Lighter(p, w, v) ==
  bytes[p][w] < bytes[p][v] \/ (bytes[p][w] = bytes[p][v] /\ w < v)

\* What ValidatePlan asks of hits, workers and their keys.
ValidPlan(p) ==
  /\ \A w \in Pool(p) : keys[p][w] # {}
  /\ \A w \in Pool(p) :
       bytes[p][w] = MapThenSumSet(LAMBDA i : Size[i], keys[p][w])
  /\ \A v, w \in Pool(p) : v # w => keys[p][v] \cap keys[p][w] = {}
  /\ UNION {keys[p][w] : w \in Pool(p)} = Misses(p)

PlanInit ==
  /\ \E r \in Requests :
       /\ inventory = [p \in Plans |-> r[p].items]
       /\ fingerprint = [p \in Plans |-> r[p].fingerprint]
  /\ stage = [p \in Plans |-> "lookup"]
  /\ looked = [p \in Plans |-> {}]
  /\ hit = [p \in Plans |-> [i \in Items |-> None]]
  /\ refreshing = [p \in Plans |-> {}]
  /\ blobs = [p \in Plans |-> [i \in Items |-> Damaged]]
  /\ left = [p \in Plans |-> {}]
  /\ keys = [p \in Plans |-> [w \in Workers |-> {}]]
  /\ bytes = [p \in Plans |-> [w \in Workers |-> 0]]

Advance(p, s) == stage' = [stage EXCEPT ![p] = s]

\* ResultCache::Get reads the object of item i, in some thread of the pool.
\* At any time a result may be old enough to be stored again.
Lookup(p, i) ==
  LET o == objects[Key(p, i)]
  IN  /\ stage[p] = "lookup"
      /\ i \in inventory[p] \ looked[p]
      /\ looked' = [looked EXCEPT ![p] = @ \cup {i}]
      /\ \/ /\ Usable(o)
            /\ hit' = [hit EXCEPT ![p][i] = o]
            /\ \/ refreshing' = [refreshing EXCEPT ![p] = @ \cup {i}]
               \/ UNCHANGED refreshing
         \/ ~ Usable(o) /\ UNCHANGED <<hit, refreshing>>
      /\ UNCHANGED <<storeVars, options, stage, blobs, assignment>>

\* ... and stores such a result again.  Threads finish what they have begun
\* even if another one has failed.
Refresh(p, i) ==
  /\ i \in refreshing[p]
  /\ refreshing' = [refreshing EXCEPT ![p] = @ \ {i}]
  /\ \/ PutObject(Key(p, i), hit[p][i]) /\ UNCHANGED stage
     \/ PutObjectFails(Key(p, i), hit[p][i]) /\ Advance(p, "failed")
  /\ UNCHANGED <<options, looked, hit, blobs, assignment>>

LookupFails(p) ==
  /\ stage[p] = "lookup"
  /\ looked[p] # inventory[p]
  /\ GetFails
  /\ Advance(p, "failed")
  /\ UNCHANGED <<options, looked, hit, refreshing, blobs, assignment>>

\* All lookups have returned; the blobs of the misses are written.
WriteBlobs(p) ==
  /\ stage[p] = "lookup"
  /\ looked[p] = inventory[p]
  /\ refreshing[p] = {}
  /\ blobs' = [blobs EXCEPT
                 ![p] = [i \in Items |-> IF i \in Misses(p) THEN i ELSE @[i]]]
  /\ left' = [left EXCEPT ![p] = Misses(p)]
  /\ Advance(p, "partition")
  /\ UNCHANGED <<storeVars, options, looked, hit, refreshing, keys, bytes>>

\* A slip that the checks notice: of the items of one size only one is kept.
AssignBySize(p, i, w) ==
  /\ stage[p] = "partition"
  /\ First(left[p], i)
  /\ w \in Pool(p)
  /\ \A v \in Pool(p) \ {w} : Lighter(p, w, v)
  /\ keys' = [keys EXCEPT ![p][w] = @ \cup {i}]
  /\ bytes' = [bytes EXCEPT ![p][w] = @ + Size[i]]
  /\ left' = [left EXCEPT ![p] = {j \in @ : Size[j] # Size[i]}]
  /\ UNCHANGED <<storeVars, options, stage, looked, hit, refreshing,
                 blobs>>

\* One turn of Partition's loop.
Assign(p, i, w) ==
  /\ stage[p] = "partition"
  /\ First(left[p], i)
  /\ w \in Pool(p)
  /\ \A v \in Pool(p) \ {w} : Lighter(p, w, v)
  /\ keys' = [keys EXCEPT ![p][w] = @ \cup {i}]
  /\ bytes' = [bytes EXCEPT ![p][w] = @ + Size[i]]
  /\ left' = [left EXCEPT ![p] = @ \ {i}]
  /\ UNCHANGED <<storeVars, options, stage, looked, hit, refreshing,
                 blobs>>

\* ValidatePlan, then plan.json.
Publish(p) ==
  /\ stage[p] = "partition"
  /\ left[p] = {}
  /\ Advance(p, IF ValidPlan(p) THEN "planned" ELSE "rejected")
  /\ UNCHANGED <<storeVars, options, looked, hit, refreshing, blobs,
                 assignment>>

\* Reading git objects or writing a file throws.
PrepareFails(p) ==
  /\ stage[p] = "partition"
  /\ Fault
  /\ Advance(p, "failed")
  /\ UNCHANGED <<objects, entries, options, looked, hit, refreshing,
                 blobs, assignment>>

Prepare(p) ==
  \/ \E i \in Items : Lookup(p, i) \/ Refresh(p, i)
  \/ \E i \in Items, w \in Workers : Assign(p, i, w)
  \/ WriteBlobs(p) \/ Publish(p)
  \/ LookupFails(p) \/ PrepareFails(p)

PlanNext == \E p \in Plans : Prepare(p)
PlanSpec == StoreInit /\ PlanInit /\ [][PlanNext]_<<storeVars, planVars>>

Stages == {"lookup", "partition", "planned", "rejected", "failed"}

PlanTypeOK ==
  /\ inventory \in [Plans -> SUBSET Items]
  /\ fingerprint \in [Plans -> Fingerprints]
  /\ stage \in [Plans -> Stages]
  /\ looked \in [Plans -> SUBSET Items]
  /\ hit \in [Plans -> [Items -> Measurements \cup {None}]]
  /\ refreshing \in [Plans -> SUBSET Items]
  /\ \A p \in Plans : \A i \in refreshing[p] : hit[p][i] # None
  /\ blobs \in [Plans -> [Items -> Contents]]
  /\ left \in [Plans -> SUBSET Items]
  /\ keys \in [Plans -> [Workers -> SUBSET Items]]
  /\ bytes \in [Plans -> [Workers -> Nat]]

(***************************************************************************)
(* From the first turn of Partition's loop on, every item of a plan is in  *)
(* exactly one place: among the hits, with one worker, or still to be      *)
(* assigned.  No file is scored twice or although it has been looked up,   *)
(* and none is forgotten.                                                  *)
(***************************************************************************)
Partitioned ==
  \A p \in Plans :
    LET hits == {i \in Items : hit[p][i] # None}
        given == UNION {keys[p][w] : w \in Workers}
    IN  stage[p] \in {"partition", "planned", "rejected"} =>
          /\ hits \cup given \cup left[p] = inventory[p]
          /\ hits \cap (given \cup left[p]) = {}
          /\ given \cap left[p] = {}
          /\ \A v, w \in Workers : v # w => keys[p][v] \cap keys[p][w] = {}

(***************************************************************************)
(* No worker of a plan has more to do than any other one plus the smallest *)
(* file of its own (plan.cc:264), however the sizes and the hits fall.     *)
(***************************************************************************)
Balanced ==
  \A p \in Plans : \A v, w \in Pool(p) : \A i \in keys[p][w] :
    (\A j \in keys[p][w] : Size[i] <= Size[j])
      => bytes[p][w] <= bytes[p][v] + Size[i]

(***************************************************************************)
(* Preparation ends with a plan unless a request or a file operation fails *)
(* (prepare.h:48): ValidatePlan, which prepare runs on its own plan, never *)
(* rejects it.                                                             *)
(***************************************************************************)
PlanAccepted == \A p \in Plans : stage[p] # "rejected"
=============================================================================
