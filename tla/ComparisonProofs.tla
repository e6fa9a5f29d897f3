-------------------------- MODULE ComparisonProofs --------------------------
(***************************************************************************)
(* Theorems about Comparison, for any items, plans, workers, fingerprints, *)
(* machines and any number of faults.                                      *)
(***************************************************************************)
EXTENDS Comparison, FiniteSetTheorems, TLAPS

-----------------------------------------------------------------------------
(* Types.                                                                  *)

\* What a worker has at hand, by the place where it is.
Equipped(s) ==
  /\ pc[s] \in Working => machine[s] \in Engines
  /\ pc[s] \in {"fetch", "share", "put"} =>
       item[s] \in Items /\ content[s] \in Contents
  /\ pc[s] \in {"share", "put"} => entropy[s] \in Measurements

TypeInv == TypeOK /\ \A s \in Seats : Equipped(s)

\* A request to the store keeps its types, whatever comes of it.
LEMMA StoreSteps ==
  ASSUME StoreTypeOK, NEW k, NEW x \in Measurements,
         \/ PutObject(k, x) \/ PutObjectFails(k, x)
         \/ PutEntry(k, x) \/ PutEntryFails(k, x)
         \/ GetFails \/ UNCHANGED storeVars
  PROVE  StoreTypeOK'
<1> USE FaultsAssumption DEF StoreTypeOK, Fault
<1>1. CASE PutObject(k, x)
  BY <1>1 DEF PutObject, SetObject
<1>2. CASE PutObjectFails(k, x)
  BY <1>2 DEF PutObjectFails, SetObject
<1>3. CASE PutEntry(k, x)
  BY <1>3 DEF PutEntry, SetEntry
<1>4. CASE PutEntryFails(k, x)
  BY <1>4 DEF PutEntryFails, SetEntry
<1>5. CASE GetFails
  BY <1>5 DEF GetFails
<1>6. CASE UNCHANGED storeVars
  BY <1>6 DEF storeVars
<1> QED
  BY <1>1, <1>2, <1>3, <1>4, <1>5, <1>6

\* The store begins with results that are there or not.
LEMMA StoredFirst ==
  ASSUME Init
  PROVE  /\ objects = [k \in Items \X Fingerprints |-> objects[k]]
         /\ \A k \in Items \X Fingerprints : objects[k] \in {None, Stored(k)}
<1>1. PICK kept \in SUBSET Earlier :
        objects = [k \in Items \X Fingerprints |-> IF k \in kept THEN Stored(k) ELSE None]
  BY DEF Init, StoreInit
<1> QED
  BY <1>1

LEMMA TypeInit == Init => TypeInv
<1> SUFFICES ASSUME Init PROVE TypeInv
  OBVIOUS
<1>1. StoreTypeOK
  <2>1. \A k \in Items \X Fingerprints : Stored(k) \in Measurements
    BY FingerprintsAssumption DEF Stored, Engine, Measurements, Engines, Contents
  <2>2. objects \in [Items \X Fingerprints -> Measurements \cup {None, Unusable}]
    BY <2>1, StoredFirst
  <2> QED
    BY <2>2, FaultsAssumption DEF Init, StoreInit, StoreTypeOK
<1>2. PlanTypeOK
  BY PlansAssumption DEF Init, PlanInit, PlanTypeOK, Stages, Contents
<1>3. WorkerTypeOK
  BY DEF Init, WorkerInit, WorkerTypeOK, NoResults
<1>4. \A s \in Seats : Equipped(s)
  BY DEF Init, WorkerInit, Equipped, Working
<1> QED
  BY <1>1, <1>2, <1>3, <1>4
     DEF TypeInv, TypeOK, Init, NoResults

\* Every step of a preparation keeps the types.
LEMMA PlanTypes ==
  ASSUME StoreTypeOK, PlanTypeOK, NEW p \in Plans, Prepare(p)
  PROVE  StoreTypeOK' /\ PlanTypeOK'
<1> USE DEF PlanTypeOK, options, assignment, Advance, Stages
<1>0. \A i \in Items : Key(p, i) \in Items \X Fingerprints
  BY DEF Key
<1>1. ASSUME NEW i \in Items, Lookup(p, i)
      PROVE  StoreTypeOK' /\ PlanTypeOK'
  <2>1. StoreTypeOK'
    BY <1>1 DEF Lookup, storeVars, StoreTypeOK
  <2>2. objects[Key(p, i)] \in Measurements \cup {None, Unusable}
    BY <1>0 DEF StoreTypeOK
  <2>3. CASE Usable(objects[Key(p, i)])
    <3>1. objects[Key(p, i)] \in Measurements /\ objects[Key(p, i)] # None
      BY <2>2, <2>3 DEF Usable
    <3>2. /\ hit' = [hit EXCEPT ![p][i] = objects[Key(p, i)]]
          /\ \/ refreshing' = [refreshing EXCEPT ![p] = @ \cup {i}]
             \/ UNCHANGED refreshing
      BY <1>1, <2>3 DEF Lookup
    <3>3. hit' \in [Plans -> [Items -> Measurements \cup {None}]]
      BY <3>1, <3>2
    <3>4. \A r \in Plans : \A j \in refreshing'[r] : hit'[r][j] # None
      BY <3>1, <3>2
    <3>5. /\ looked' = [looked EXCEPT ![p] = @ \cup {i}]
          /\ UNCHANGED <<options, stage, blobs, assignment>>
      BY <1>1 DEF Lookup
    <3>6. refreshing' \in [Plans -> SUBSET Items]
      <4>1. [refreshing EXCEPT ![p] = @ \cup {i}] \in [Plans -> SUBSET Items]
        OBVIOUS
      <4> QED
        BY <4>1, <3>2
    <3>7. looked' \in [Plans -> SUBSET Items]
      BY <3>5
    <3> QED
      BY <2>1, <3>3, <3>4, <3>5, <3>6, <3>7
  <2>4. CASE ~ Usable(objects[Key(p, i)])
    BY <1>1, <2>1, <2>4 DEF Lookup
  <2> QED
    BY <2>3, <2>4
<1>2. ASSUME NEW i \in Items, Refresh(p, i)
      PROVE  StoreTypeOK' /\ PlanTypeOK'
  <2>1. hit[p][i] \in Measurements
    BY <1>2 DEF Refresh
  <2>2. StoreTypeOK'
    BY <1>2, <2>1, StoreSteps DEF Refresh
  <2> QED
    BY <1>2, <2>2 DEF Refresh
<1>3. ASSUME NEW i \in Items, NEW w \in Workers, Assign(p, i, w)
      PROVE  StoreTypeOK' /\ PlanTypeOK'
  <2>1. StoreTypeOK'
    BY <1>3 DEF Assign, storeVars, StoreTypeOK
  <2>2. bytes' \in [Plans -> [Workers -> Nat]]
    BY <1>3, PlansAssumption DEF Assign
  <2> QED
    BY <1>3, <2>1, <2>2 DEF Assign
<1>4. ASSUME WriteBlobs(p)
      PROVE  StoreTypeOK' /\ PlanTypeOK'
  <2>1. StoreTypeOK'
    BY <1>4 DEF WriteBlobs, storeVars, StoreTypeOK
  <2> QED
    BY <1>4, <2>1 DEF WriteBlobs, Misses, Contents
<1>5. ASSUME Publish(p)
      PROVE  StoreTypeOK' /\ PlanTypeOK'
  <2>1. StoreTypeOK'
    BY <1>5 DEF Publish, storeVars, StoreTypeOK
  <2> QED
    BY <1>5, <2>1 DEF Publish
<1>6. ASSUME LookupFails(p)
      PROVE  StoreTypeOK' /\ PlanTypeOK'
  <2>1. StoreTypeOK'
    BY <1>6, FaultsAssumption DEF LookupFails, GetFails, Fault, StoreTypeOK
  <2> QED
    BY <1>6, <2>1 DEF LookupFails
<1>7. ASSUME PrepareFails(p)
      PROVE  StoreTypeOK' /\ PlanTypeOK'
  <2>1. StoreTypeOK'
    BY <1>7, FaultsAssumption DEF PrepareFails, Fault, StoreTypeOK
  <2> QED
    BY <1>7, <2>1 DEF PrepareFails
<1> QED
  BY <1>1, <1>2, <1>3, <1>4, <1>5, <1>6, <1>7 DEF Prepare

\* ... and of a worker, with what it needs at its next place.
LEMMA WorkerTypes ==
  ASSUME TypeInv, NEW s \in Seats,
         Start(s) \/ Run(s) \/ Kill(s) \/ Hang(s) \/ Expire(s)
  PROVE  StoreTypeOK' /\ WorkerTypeOK' /\ \A z \in Seats : Equipped(z)'
<1> USE DEF WorkerTypeOK, Equipped, GoTo, Working, Ended
<1>0. /\ StoreTypeOK /\ PlanTypeOK /\ WorkerTypeOK
      /\ Plan(s) \in Plans /\ s[2] \in Workers
      /\ \A z \in Seats : Equipped(z)
      /\ Released(s) \in Seats \cup {None}
  BY DEF TypeInv, TypeOK, Seats, Plan, Released
<1>a. ASSUME UNCHANGED storeVars PROVE StoreTypeOK'
  BY <1>0, <1>a DEF storeVars, StoreTypeOK
<1>b. ASSUME Fault, UNCHANGED <<objects, entries>> PROVE StoreTypeOK'
  BY <1>0, <1>b, FaultsAssumption DEF Fault, StoreTypeOK
<1>c. ASSUME NEW e \in BOOLEAN, Leave(s, e), pc[s] \in Working,
             UNCHANGED <<identity, machine, todo, got, late, artifacts>>
      PROVE  WorkerTypeOK' /\ \A z \in Seats : Equipped(z)'
  <2>1. err' \in [Seats -> BOOLEAN]
    BY <1>0, <1>c DEF Leave
  <2>2. /\ pc' = [pc EXCEPT ![s] = "write"]
        /\ lease' = Released(s)
        /\ item' = [item EXCEPT ![s] = None]
        /\ content' = [content EXCEPT ![s] = None]
        /\ entropy' = [entropy EXCEPT ![s] = None]
        /\ pc[s] \in Working
        /\ UNCHANGED <<identity, machine, todo, got, late, artifacts>>
    BY <1>c DEF Leave
  <2>3. WorkerTypeOK'
    BY <1>0, <2>1, <2>2
  <2> QED
    BY <1>0, <2>2, <2>3
<1>1. ASSUME Start(s)
      PROVE  StoreTypeOK' /\ WorkerTypeOK' /\ \A z \in Seats : Equipped(z)'
  <2>1. PICK e \in Engines :
          /\ machine' = [machine EXCEPT ![s] = e]
          /\ IF e = Engine(Wanted(s)) THEN UNCHANGED faults ELSE Fault
    BY <1>1 DEF Start
  <2>2. StoreTypeOK'
    BY <1>0, <1>1, <2>1, FaultsAssumption DEF Start, Fault, StoreTypeOK
  <2>3. keys[Plan(s)][s[2]] \in SUBSET Items
    BY <1>0 DEF PlanTypeOK
  <2>4. /\ todo' = [todo EXCEPT ![s] = keys[Plan(s)][s[2]]]
        /\ UNCHANGED <<identity, got, late, item, content, entropy, lease,
                       artifacts>>
        /\ pc[s] \in {"idle", "failed", "dead"}
        /\ \/ pc' = [pc EXCEPT ![s] = "deadline"] /\ err' = err
           \/ /\ pc' = [pc EXCEPT ![s] = "write"]
              /\ err' = [err EXCEPT ![s] = TRUE]
    BY <1>1 DEF Start, fileVars
  <2>5. WorkerTypeOK'
    BY <1>0, <2>1, <2>3, <2>4
  <2>6. \A z \in Seats : Equipped(z)'
    BY <1>0, <2>1, <2>4
  <2> QED
    BY <2>2, <2>5, <2>6
<1>2. ASSUME CheckDeadline(s)
      PROVE  StoreTypeOK' /\ WorkerTypeOK' /\ \A z \in Seats : Equipped(z)'
  <2>1. CASE Leave(s, TRUE)
    BY <1>2, <2>1, <1>a, <1>c DEF CheckDeadline
  <2>2. CASE UNCHANGED <<err, lease, fileVars>> /\ pc' \in {[pc EXCEPT ![s] = "lease"],
                                            [pc EXCEPT ![s] = "open"]}
    BY <1>0, <1>2, <2>2, <1>a DEF CheckDeadline, fileVars
  <2> QED
    BY <1>2, <2>1, <2>2 DEF CheckDeadline
<1>3. ASSUME AcquireLease(s)
      PROVE  StoreTypeOK' /\ WorkerTypeOK' /\ \A z \in Seats : Equipped(z)'
  <2>1. CASE Leave(s, TRUE)
    BY <1>3, <2>1, <1>a, <1>c DEF AcquireLease
  <2>2. CASE lease' = s /\ GoTo(s, "open") /\ UNCHANGED <<err, fileVars>>
    BY <1>0, <1>3, <2>2, <1>a DEF AcquireLease, fileVars
  <2> QED
    BY <1>3, <2>1, <2>2 DEF AcquireLease
<1>4. ASSUME OpenSession(s)
      PROVE  StoreTypeOK' /\ WorkerTypeOK' /\ \A z \in Seats : Equipped(z)'
  <2>1. CASE Leave(s, TRUE)
    BY <1>4, <2>1, <1>a, <1>c DEF OpenSession
  <2>2. CASE GoTo(s, "file") /\ UNCHANGED <<err, lease, fileVars>>
    BY <1>0, <1>4, <2>2, <1>a DEF OpenSession, fileVars
  <2> QED
    BY <1>4, <2>1, <2>2 DEF OpenSession
<1>5. ASSUME OpenFails(s)
      PROVE  StoreTypeOK' /\ WorkerTypeOK' /\ \A z \in Seats : Equipped(z)'
  BY <1>5, <1>b, <1>c DEF OpenFails, GetFails
<1>6. ASSUME ReadBlob(s)
      PROVE  StoreTypeOK' /\ WorkerTypeOK' /\ \A z \in Seats : Equipped(z)'
  <2>1. CASE (Leave(s, TRUE) \/ Leave(s, FALSE)) /\ UNCHANGED todo
    BY <1>6, <2>1, <1>a, <1>c DEF ReadBlob
  <2>2. ASSUME NEW i \in todo[s],
               \/ /\ GoTo(s, "fetch")
                  /\ item' = [item EXCEPT ![s] = i]
                  /\ content' = [content EXCEPT ![s] = blobs[Plan(s)][i]]
                  /\ UNCHANGED <<todo, err, entropy>>
               \/ /\ err' = [err EXCEPT ![s] = TRUE]
                  /\ todo' = [todo EXCEPT ![s] = @ \ {i}]
                  /\ UNCHANGED <<pc, fileVars>>,
               UNCHANGED lease
        PROVE  StoreTypeOK' /\ WorkerTypeOK' /\ \A z \in Seats : Equipped(z)'
    <3>1. i \in Items
      BY <1>0
    <3>2. blobs[Plan(s)][i] \in Contents
      BY <1>0, <3>1 DEF PlanTypeOK
    <3>3. UNCHANGED <<storeVars, identity, machine, got, late, artifacts>>
          /\ pc[s] = "file"
      BY <1>6 DEF ReadBlob
    <3>4. CASE /\ pc' = [pc EXCEPT ![s] = "fetch"]
               /\ item' = [item EXCEPT ![s] = i]
               /\ content' = [content EXCEPT ![s] = blobs[Plan(s)][i]]
               /\ UNCHANGED <<todo, err, entropy>>
      <4>1. WorkerTypeOK'
        BY <1>0, <2>2, <3>1, <3>2, <3>3, <3>4
      <4>2. \A z \in Seats : Equipped(z)'
        BY <1>0, <3>1, <3>2, <3>3, <3>4
      <4> QED
        BY <1>a, <3>3, <4>1, <4>2
    <3>5. CASE /\ err' = [err EXCEPT ![s] = TRUE]
               /\ todo' = [todo EXCEPT ![s] = @ \ {i}]
               /\ UNCHANGED <<pc, fileVars>>
      BY <1>0, <1>a, <2>2, <3>3, <3>5 DEF fileVars
    <3> QED
      BY <2>2, <3>4, <3>5
  <2> QED
    BY <1>6, <2>1, <2>2 DEF ReadBlob
<1>7. ASSUME Fetch(s)
      PROVE  StoreTypeOK' /\ WorkerTypeOK' /\ \A z \in Seats : Equipped(z)'
  <2>1. /\ machine[s] \in Engines /\ content[s] \in Contents
        /\ item[s] \in Items
    BY <1>0, <1>7 DEF Fetch
  <2>2. [of |-> content[s], by |-> machine[s]] \in Measurements
    BY <2>1 DEF Measurements
  <2>3. EntryKey(s) \in Engines \X Contents
    <3>1. Wanted(s) \in Fingerprints
      BY <1>0 DEF Wanted, PlanTypeOK
    <3> QED
      BY <2>1, <3>1, FingerprintsAssumption DEF EntryKey, Engines
  <2>4. Usable(entries[EntryKey(s)]) => entries[EntryKey(s)] \in Measurements
    BY <1>0, <2>3 DEF StoreTypeOK, Usable
  <2>5. PICK x \in Measurements : entropy' = [entropy EXCEPT ![s] = x]
    BY <1>7, <2>2, <2>4 DEF Fetch
  <2>6. /\ pc' \in {[pc EXCEPT ![s] = "share"], [pc EXCEPT ![s] = "put"]}
        /\ UNCHANGED <<storeVars, identity, machine, todo, got, err,
                       late, item, content, lease, artifacts>>
    BY <1>7 DEF Fetch
  <2> QED
    BY <1>0, <1>a, <2>1, <2>5, <2>6
<1>8. ASSUME FetchAborts(s)
      PROVE  StoreTypeOK' /\ WorkerTypeOK' /\ \A z \in Seats : Equipped(z)'
  BY <1>8, <1>b, <1>c DEF FetchAborts, GetFails
<1>9. ASSUME FileFails(s)
      PROVE  StoreTypeOK' /\ WorkerTypeOK' /\ \A z \in Seats : Equipped(z)'
  BY <1>0, <1>9, <1>b DEF FileFails, GetFails, NextFile
<1>10. ASSUME Share(s)
       PROVE  StoreTypeOK' /\ WorkerTypeOK' /\ \A z \in Seats : Equipped(z)'
  <2>1. entropy[s] \in Measurements
    BY <1>0, <1>10 DEF Share
  <2>2. StoreTypeOK'
    BY <1>0, <1>10, <2>1, StoreSteps DEF Share
  <2>3. CASE Leave(s, TRUE)
    BY <1>10, <2>2, <2>3, <1>c DEF Share
  <2>4. CASE GoTo(s, "put") /\ UNCHANGED <<err, lease, fileVars>>
    BY <1>0, <1>10, <2>2, <2>4 DEF Share, fileVars
  <2> QED
    BY <1>10, <2>3, <2>4 DEF Share
<1>11. ASSUME Put(s)
       PROVE  StoreTypeOK' /\ WorkerTypeOK' /\ \A z \in Seats : Equipped(z)'
  <2>1. entropy[s] \in Measurements /\ item[s] \in Items
    BY <1>0, <1>11 DEF Put
  <2>2. StoreTypeOK'
    BY <1>0, <1>11, <2>1, StoreSteps DEF Put
  <2>3. CASE Leave(s, TRUE) /\ UNCHANGED <<got, todo>>
    BY <1>11, <2>2, <2>3, <1>c DEF Put
  <2>4. CASE /\ got' = [got EXCEPT ![s][item[s]] = entropy[s]]
             /\ NextFile(s, FALSE)
             /\ UNCHANGED lease
    BY <1>0, <1>11, <2>1, <2>2, <2>4 DEF Put, NextFile
  <2> QED
    BY <1>11, <2>3, <2>4 DEF Put
<1>12. ASSUME Write(s)
       PROVE  StoreTypeOK' /\ WorkerTypeOK' /\ \A z \in Seats : Equipped(z)'
  <2>1. [plan |-> Plan(s), worker |-> s[2], identity |-> identity[Plan(s)],
         fingerprint |-> Wanted(s), complete |-> Complete(s),
         errors |-> err[s], results |-> got[s]] \in Artifacts
    BY <1>0 DEF Artifacts, Wanted, PlanTypeOK, Complete
  <2>2. \A a \in artifacts' : a \in Artifacts
    BY <1>0, <1>12, <2>1 DEF Write
  <2> QED
    BY <1>0, <1>12, <1>a, <2>2 DEF Write, Gone, NoResults
<1>13. ASSUME Kill(s)
       PROVE  StoreTypeOK' /\ WorkerTypeOK' /\ \A z \in Seats : Equipped(z)'
  BY <1>0, <1>13, <1>b DEF Kill, Gone, NoResults
<1>14. ASSUME Hang(s)
       PROVE  StoreTypeOK' /\ WorkerTypeOK' /\ \A z \in Seats : Equipped(z)'
  BY <1>0, <1>14, <1>b DEF Hang, fileVars
<1>15. ASSUME Expire(s)
       PROVE  StoreTypeOK' /\ WorkerTypeOK' /\ \A z \in Seats : Equipped(z)'
  BY <1>0, <1>15, <1>a DEF Expire, fileVars
<1> QED
  BY <1>1, <1>2, <1>3, <1>4, <1>5, <1>6, <1>7, <1>8, <1>9, <1>10, <1>11,
     <1>12, <1>13, <1>14, <1>15 DEF Run

ReportTypeOK ==
  /\ seen \in [Plans -> SUBSET Workers]
  /\ merged \in [Plans -> [Items -> Measurements \cup {None}]]
  /\ bad \in [Plans -> BOOLEAN]
  /\ report \in [Plans -> {None, "failed", "incomplete", "complete"}]
  /\ clean \in [Plans -> BOOLEAN]

\* ... and of an aggregation.
LEMMA ReportTypes ==
  ASSUME TypeInv, NEW p \in Plans, Aggregate(p)
  PROVE  StoreTypeOK' /\ ReportTypeOK'
<1>0. StoreTypeOK /\ WorkerTypeOK /\ ReportTypeOK
  BY DEF TypeInv, TypeOK, ReportTypeOK
<1> USE DEF ReportTypeOK
<1>1. ASSUME NEW a \in artifacts, Collect(p, a)
      PROVE  StoreTypeOK' /\ ReportTypeOK'
  <2>1. /\ a.worker \in Workers
        /\ a.results \in [Items -> Measurements \cup {None}]
    BY <1>0 DEF WorkerTypeOK, Artifacts
  <2>2. StoreTypeOK'
    BY <1>0, <1>1 DEF Collect, storeVars, StoreTypeOK
  <2>3. seen' \in [Plans -> SUBSET Workers] /\ UNCHANGED report
    BY <1>0, <1>1, <2>1 DEF Collect
  <2>4. merged' \in [Plans -> [Items -> Measurements \cup {None}]]
    <3>1. [i \in Items |-> IF a.results[i] # None THEN a.results[i]
                           ELSE merged[p][i]]
            \in [Items -> Measurements \cup {None}]
      BY <1>0, <2>1
    <3>2. \/ UNCHANGED merged
          \/ merged' = [merged EXCEPT
               ![p] = [i \in Items |-> IF a.results[i] # None
                                       THEN a.results[i] ELSE merged[p][i]]]
      BY <1>0, <1>1 DEF Collect
    <3> QED
      BY <1>0, <3>1, <3>2
  <2>5. bad' \in [Plans -> BOOLEAN]
    BY <1>0, <1>1 DEF Collect, Blame
  <2>6. clean' \in [Plans -> BOOLEAN]
    BY <1>0, <1>1 DEF Collect
  <2> QED
    BY <1>0, <2>2, <2>3, <2>4, <2>5, <2>6
<1>2. ASSUME CollectGarbage(p)
      PROVE  StoreTypeOK' /\ ReportTypeOK'
  <2>1. StoreTypeOK'
    BY <1>0, <1>2, FaultsAssumption
       DEF CollectGarbage, Fault, StoreTypeOK
  <2> QED
    BY <1>0, <1>2, <2>1 DEF CollectGarbage, Blame
<1>3. ASSUME Report(p)
      PROVE  StoreTypeOK' /\ ReportTypeOK'
  <2>1. StoreTypeOK'
    BY <1>0, <1>3 DEF Report, storeVars, StoreTypeOK
  <2>2. Status(p) \in {"failed", "incomplete", "complete"}
    BY DEF Status
  <2> QED
    BY <1>0, <1>3, <2>1, <2>2 DEF Report
<1>4. ASSUME ReportFailure(p)
      PROVE  StoreTypeOK' /\ ReportTypeOK'
  <2>1. StoreTypeOK'
    BY <1>0, <1>4 DEF ReportFailure, storeVars, StoreTypeOK
  <2> QED
    BY <1>0, <1>4, <2>1 DEF ReportFailure
<1> QED
  BY <1>1, <1>2, <1>3, <1>4 DEF Aggregate

\* What the steps of the parts leave alone.
LEMMA Frames ==
  /\ PlanNext => \E p \in Plans : Prepare(p)
  /\ \A p \in Plans : Aggregate(p) => UNCHANGED <<planVars, workerVars>>
  /\ WorkerNext => UNCHANGED <<options, stage, looked, hit, refreshing,
                               assignment>>
<1>1. PlanNext => \E p \in Plans : Prepare(p)
  BY DEF PlanNext
<1>2. \A p \in Plans : Aggregate(p) => UNCHANGED <<planVars, workerVars>>
  BY DEF Aggregate, Collect, CollectGarbage, Report, ReportFailure
<1>3. ASSUME NEW s \in Seats, Start(s) \/ Run(s) \/ Kill(s) \/ Hang(s) \/ Expire(s)
      PROVE  UNCHANGED planVars
  BY <1>3 DEF Run, Start, CheckDeadline, AcquireLease, OpenSession, OpenFails,
              ReadBlob, Fetch, FetchAborts, FileFails, Share, Put, Write,
              Kill, Hang, Expire
<1>4. ASSUME NEW p \in Plans, NEW i \in Items, Damage(p, i)
      PROVE  UNCHANGED <<options, stage, looked, hit, refreshing, assignment>>
  BY <1>4 DEF Damage
<1> QED
  BY <1>1, <1>2, <1>3, <1>4 DEF WorkerNext, planVars, options, assignment

LEMMA TypeStep == TypeInv /\ [Next]_vars => TypeInv'
<1> SUFFICES ASSUME TypeInv, [Next]_vars PROVE TypeInv'
  OBVIOUS
<1>0. /\ StoreTypeOK /\ PlanTypeOK /\ WorkerTypeOK /\ ReportTypeOK
      /\ \A s \in Seats : Equipped(s)
  BY DEF TypeInv, TypeOK, ReportTypeOK
<1>a. UNCHANGED planVars => PlanTypeOK'
  BY <1>0 DEF planVars, options, assignment, PlanTypeOK
<1>b. UNCHANGED workerVars => WorkerTypeOK' /\ \A s \in Seats : Equipped(s)'
  BY <1>0 DEF workerVars, WorkerTypeOK, Equipped
<1>c. UNCHANGED reportVars => ReportTypeOK'
  BY <1>0 DEF reportVars, ReportTypeOK
<1>d. /\ StoreTypeOK' /\ PlanTypeOK' /\ WorkerTypeOK' /\ ReportTypeOK'
      /\ \A s \in Seats : Equipped(s)'
      => TypeInv'
  BY DEF TypeInv, TypeOK, ReportTypeOK
<1>1. CASE PlanNext /\ UNCHANGED <<workerVars, reportVars>>
  <2>1. PICK p \in Plans : Prepare(p)
    BY <1>1 DEF PlanNext
  <2> QED
    BY <1>0, <1>1, <2>1, PlanTypes, <1>b, <1>c, <1>d
<1>2. CASE WorkerNext /\ UNCHANGED reportVars
  <2>1. ASSUME NEW s \in Seats,
               Start(s) \/ Run(s) \/ Kill(s) \/ Hang(s) \/ Expire(s)
        PROVE  TypeInv'
    <3>1. UNCHANGED planVars
      BY <2>1 DEF Run, Start, CheckDeadline, AcquireLease, OpenSession,
                  OpenFails, ReadBlob, Fetch, FetchAborts, FileFails, Share,
                  Put, Write, Kill, Hang, Expire
    <3> QED
      BY <1>2, <2>1, <3>1, WorkerTypes, <1>a, <1>c, <1>d
  <2>2. ASSUME NEW p \in Plans, NEW i \in Items, Damage(p, i)
        PROVE  TypeInv'
    <3>1. StoreTypeOK'
      BY <1>0, <2>2, FaultsAssumption DEF Damage, Fault, StoreTypeOK
    <3>2. PlanTypeOK'
      BY <1>0, <2>2 DEF Damage, PlanTypeOK, Contents, options, assignment
    <3>3. UNCHANGED workerVars
      BY <2>2 DEF Damage
    <3> QED
      BY <1>2, <3>1, <3>2, <3>3, <1>b, <1>c, <1>d
  <2> QED
    BY <1>2, <2>1, <2>2 DEF WorkerNext
<1>3. CASE Disturb /\ UNCHANGED <<planVars, workerVars, reportVars>>
  <2>1. StoreTypeOK'
    BY <1>0, <1>3, FaultsAssumption DEF Disturb, Fault, StoreTypeOK
  <2> QED
    BY <1>3, <2>1, <1>a, <1>b, <1>c, <1>d
<1>4. ASSUME NEW p \in Plans, Aggregate(p)
      PROVE  TypeInv'
  <2>1. UNCHANGED <<planVars, workerVars>>
    BY <1>4, Frames
  <2> QED
    BY <1>4, <2>1, ReportTypes, <1>a, <1>b, <1>d
<1>5. CASE UNCHANGED vars
  <2>1. StoreTypeOK'
    BY <1>0, <1>5 DEF vars, storeVars, StoreTypeOK
  <2> QED
    BY <1>5, <2>1, <1>a, <1>b, <1>c, <1>d DEF vars
<1> QED
  BY <1>1, <1>2, <1>3, <1>4, <1>5 DEF Next

(***************************************************************************)
(* The state stays well typed, for any plans, machines and faults: in      *)
(* particular no worker gets to a place of Score without what that place   *)
(* uses.                                                                   *)
(***************************************************************************)
THEOREM TypeCorrect == Spec => []TypeOK
<1>1. TypeInv => TypeOK
  BY DEF TypeInv
<1> QED
  BY TypeInit, TypeStep, <1>1, PTL DEF Spec

-----------------------------------------------------------------------------
(* Plans: the partition of the misses.                                     *)

Hits(p) == {i \in Items : hit[p][i] # None}
Given(p) == UNION {keys[p][w] : w \in Workers}

\* Lookups are within the inventory, and are over when partitioning begins.
LookedUp(p) ==
  /\ looked[p] \subseteq inventory[p]
  /\ Hits(p) \subseteq looked[p]
  /\ stage[p] = "lookup" => left[p] = {} /\ \A w \in Workers : keys[p][w] = {}
  /\ stage[p] \in {"partition", "planned", "rejected"} => refreshing[p] = {}
  /\ stage[p] \in {"planned", "rejected"} => left[p] = {}

Disjoint(p) ==
  stage[p] \in {"partition", "planned", "rejected"} =>
    /\ Hits(p) \cup Given(p) \cup left[p] = inventory[p]
    /\ Hits(p) \cap (Given(p) \cup left[p]) = {}
    /\ Given(p) \cap left[p] = {}
    /\ \A v, w \in Workers : v # w => keys[p][v] \cap keys[p][w] = {}

\* Only workers of the pool have items, and all of them larger ones than
\* those still to be assigned.
Dealt(p) ==
  /\ \A w \in Workers : w \notin Pool(p) => keys[p][w] = {}
  /\ \A w \in Workers : \A i \in keys[p][w], j \in left[p] : Size[j] <= Size[i]

Even(p) ==
  \A v, w \in Pool(p) : \A i \in keys[p][w] :
    (\A j \in keys[p][w] : Size[i] <= Size[j])
      => bytes[p][w] <= bytes[p][v] + Size[i]

PlanOK(p) == LookedUp(p) /\ Disjoint(p) /\ Dealt(p) /\ Even(p)
PlanInv == \A p \in Plans : PlanOK(p)

\* A plan that a step does not touch stays as it was.
Untouched(p) ==
  /\ inventory'[p] = inventory[p] /\ fingerprint'[p] = fingerprint[p]
  /\ stage'[p] = stage[p] /\ looked'[p] = looked[p] /\ hit'[p] = hit[p]
  /\ refreshing'[p] = refreshing[p] /\ left'[p] = left[p]
  /\ keys'[p] = keys[p] /\ bytes'[p] = bytes[p]

LEMMA PlanUntouched ==
  ASSUME NEW p \in Plans, PlanOK(p), Untouched(p)
  PROVE  PlanOK(p)'
<1>1. Pool(p)' = Pool(p) /\ Hits(p)' = Hits(p) /\ Given(p)' = Given(p)
  BY DEF Untouched, Pool, Misses, Hits, Given
<1> QED
  BY <1>1 DEF Untouched, PlanOK, LookedUp, Disjoint, Dealt, Even

LEMMA PlanInitially == Init => PlanInv
<1> SUFFICES ASSUME Init, NEW p \in Plans PROVE PlanOK(p)
  BY DEF PlanInv
<1>1. /\ stage[p] = "lookup" /\ looked[p] = {} /\ refreshing[p] = {}
      /\ hit[p] = [i \in Items |-> None] /\ left[p] = {}
      /\ keys[p] = [w \in Workers |-> {}]
  BY DEF Init, PlanInit
<1>2. Hits(p) = {}
  BY <1>1 DEF Hits
<1>3. LookedUp(p) /\ Disjoint(p) /\ Dealt(p)
  BY <1>1, <1>2 DEF LookedUp, Disjoint, Dealt
<1>4. Even(p)
  BY <1>1 DEF Even, Pool
<1> QED
  BY <1>3, <1>4 DEF PlanOK

\* One turn of Partition's loop.
LEMMA AssignKeeps ==
  ASSUME TypeInv, NEW p \in Plans, PlanOK(p),
         NEW i \in Items, NEW w \in Workers, Assign(p, i, w)
  PROVE  PlanOK(p)'
<1>0. /\ keys[p] \in [Workers -> SUBSET Items]
      /\ bytes[p] \in [Workers -> Nat]
      /\ left[p] \subseteq Items
      /\ Size \in [Items -> Nat]
  BY PlansAssumption DEF TypeInv, TypeOK, PlanTypeOK
<1>1. /\ stage[p] = "partition" /\ i \in left[p] /\ w \in Pool(p)
      /\ \A j \in left[p] : Size[j] <= Size[i]
      /\ \A v \in Pool(p) \ {w} : bytes[p][w] <= bytes[p][v]
  <2>1. \A j \in left[p] \ {i} : Size[j] <= Size[i]
    BY <1>0 DEF Assign, First, Before
  <2>2. \A v \in Pool(p) \ {w} : bytes[p][w] <= bytes[p][v]
    BY <1>0 DEF Assign, Lighter, Pool
  <2> QED
    BY <1>0, <2>1, <2>2 DEF Assign, First
<1>2. /\ keys'[p] = [keys[p] EXCEPT ![w] = @ \cup {i}]
      /\ bytes'[p] = [bytes[p] EXCEPT ![w] = @ + Size[i]]
      /\ left'[p] = left[p] \ {i}
      /\ stage'[p] = "partition"
      /\ UNCHANGED <<inventory, hit, looked, refreshing>>
  BY <1>1 DEF Assign, options, TypeInv, TypeOK, PlanTypeOK
<1>3. Pool(p)' = Pool(p) /\ Hits(p)' = Hits(p)
  BY <1>2 DEF Pool, Misses, Hits
<1>4. Given(p)' = Given(p) \cup {i}
  BY <1>0, <1>2 DEF Given
<1>5. LookedUp(p)'
  BY <1>1, <1>2, <1>3 DEF PlanOK, LookedUp
<1>6. Disjoint(p)'
  <2>1. i \notin Hits(p) /\ \A v \in Workers : i \notin keys[p][v]
    BY <1>1 DEF PlanOK, Disjoint, Given
  <2>2. /\ Hits(p)' \cup Given(p)' \cup left'[p] = inventory'[p]
        /\ Hits(p)' \cap (Given(p)' \cup left'[p]) = {}
        /\ Given(p)' \cap left'[p] = {}
    BY <1>1, <1>2, <1>3, <1>4, <2>1 DEF PlanOK, Disjoint
  <2>3. \A u, v \in Workers : u # v => keys'[p][u] \cap keys'[p][v] = {}
    BY <1>0, <1>1, <1>2, <2>1 DEF PlanOK, Disjoint
  <2> QED
    BY <2>2, <2>3 DEF Disjoint
<1>7. Dealt(p)'
  BY <1>0, <1>1, <1>2, <1>3 DEF PlanOK, Dealt, Pool
<1>8. Even(p)'
  <2>0. Pool(p) \subseteq Workers
    BY DEF Pool
  <2> SUFFICES ASSUME NEW u \in Pool(p), NEW v \in Pool(p),
                      NEW k \in keys'[p][v],
                      \A j \in keys'[p][v] : Size[k] <= Size[j]
               PROVE  bytes'[p][v] <= bytes'[p][u] + Size[k]
    BY <1>3 DEF Even
  <2>1. k \in Items
    BY <1>0, <1>2, <2>0
  <2>2. CASE v = w
    <3>1. Size[k] = Size[i]
      <4>1. i \in keys'[p][w]
        BY <1>0, <1>2, <2>0
      <4>2. Size[k] <= Size[i]
        BY <2>2, <4>1
      <4>3. k = i \/ k \in keys[p][w]
        BY <1>0, <1>2, <2>2
      <4>4. Size[i] <= Size[k]
        BY <1>0, <1>1, <4>3, <2>1 DEF PlanOK, Dealt
      <4> QED
        BY <1>0, <2>1, <4>2, <4>4
    <3>2. bytes'[p][w] = bytes[p][w] + Size[i]
      BY <1>0, <1>2
    <3>3. CASE u = w
      BY <1>0, <2>0, <2>1, <2>2, <3>2, <3>3
    <3>4. CASE u # w
      <4>1. bytes'[p][u] = bytes[p][u] /\ bytes[p][w] <= bytes[p][u]
        BY <1>0, <1>1, <1>2, <2>0, <3>4
      <4> QED
        BY <1>0, <2>0, <2>1, <2>2, <3>1, <3>2, <4>1
    <3> QED
      BY <3>3, <3>4
  <2>3. CASE v # w
    <3>1. keys'[p][v] = keys[p][v] /\ bytes'[p][v] = bytes[p][v]
      BY <1>0, <1>2, <2>0, <2>3
    <3>2. bytes[p][v] <= bytes[p][u] + Size[k]
      BY <3>1 DEF PlanOK, Even
    <3>3. bytes[p][u] <= bytes'[p][u]
      BY <1>0, <1>2, <2>0
    <3>4. /\ bytes[p][v] \in Nat /\ bytes[p][u] \in Nat /\ bytes'[p][u] \in Nat
          /\ Size[k] \in Nat
      BY <1>0, <1>2, <2>0, <2>1
    <3> QED
      BY <3>1, <3>2, <3>3, <3>4
  <2> QED
    BY <2>2, <2>3
<1> QED
  BY <1>5, <1>6, <1>7, <1>8 DEF PlanOK

LEMMA PrepareKeeps ==
  ASSUME TypeInv, NEW p \in Plans, PlanOK(p), Prepare(p)
  PROVE  PlanOK(p)'
<1>0. /\ stage \in [Plans -> Stages] /\ looked \in [Plans -> SUBSET Items]
      /\ hit \in [Plans -> [Items -> Measurements \cup {None}]]
      /\ refreshing \in [Plans -> SUBSET Items]
      /\ left \in [Plans -> SUBSET Items]
      /\ keys \in [Plans -> [Workers -> SUBSET Items]]
      /\ inventory[p] \subseteq Items
  BY DEF TypeInv, TypeOK, PlanTypeOK
<1> USE DEF options, assignment, Advance
<1>1. ASSUME NEW i \in Items, Lookup(p, i)
      PROVE  PlanOK(p)'
  <2>1. /\ stage[p] = "lookup" /\ stage' = stage /\ UNCHANGED assignment
        /\ looked'[p] = looked[p] \cup {i} /\ i \in inventory[p]
        /\ \A j \in Items : j # i => hit'[p][j] = hit[p][j]
        /\ UNCHANGED inventory
    BY <1>0, <1>1 DEF Lookup
  <2>2. LookedUp(p)'
    BY <1>0, <2>1 DEF PlanOK, LookedUp, Hits
  <2>3. \A w \in Workers : keys'[p][w] = {}
    BY <2>1 DEF PlanOK, LookedUp
  <2>4. Disjoint(p)' /\ Dealt(p)' /\ Even(p)'
    BY <2>1, <2>3 DEF Disjoint, Dealt, Even, Pool
  <2> QED
    BY <2>2, <2>4 DEF PlanOK
<1>2. ASSUME NEW i \in Items, Refresh(p, i)
      PROVE  PlanOK(p)'
  <2>1. /\ stage[p] \notin {"partition", "planned", "rejected"}
        /\ stage'[p] = stage[p] \/ stage'[p] = "failed"
        /\ UNCHANGED <<inventory, looked, hit, assignment>>
    BY <1>0, <1>2 DEF Refresh, PlanOK, LookedUp
  <2>2. Pool(p)' = Pool(p) /\ Hits(p)' = Hits(p)
    BY <2>1 DEF Pool, Misses, Hits
  <2> QED
    BY <2>1, <2>2 DEF PlanOK, LookedUp, Disjoint, Dealt, Even
<1>3. ASSUME NEW i \in Items, NEW w \in Workers, Assign(p, i, w)
      PROVE  PlanOK(p)'
  BY <1>3, AssignKeeps
<1>4. ASSUME WriteBlobs(p)
      PROVE  PlanOK(p)'
  <2>1. /\ stage[p] = "lookup" /\ stage'[p] = "partition"
        /\ looked[p] = inventory[p] /\ refreshing[p] = {}
        /\ left'[p] = Misses(p)
        /\ UNCHANGED <<inventory, looked, hit, refreshing, keys, bytes>>
    BY <1>0, <1>4 DEF WriteBlobs
  <2>2. \A w \in Workers : keys'[p][w] = {}
    BY <2>1 DEF PlanOK, LookedUp
  <2>3. LookedUp(p)'
    BY <2>1 DEF PlanOK, LookedUp, Hits
  <2>4. Given(p)' = {}
    BY <2>2 DEF Given
  <2>5. Disjoint(p)'
    <3>1. Hits(p) \cup Misses(p) = inventory[p] /\ Hits(p) \cap Misses(p) = {}
      BY <1>0, <2>1 DEF PlanOK, LookedUp, Hits, Misses
    <3>2. Hits(p)' = Hits(p)
      BY <2>1 DEF Hits
    <3> QED
      BY <2>1, <2>2, <2>4, <3>1, <3>2 DEF Disjoint
  <2>6. Dealt(p)' /\ Even(p)'
    BY <2>2 DEF Dealt, Even, Pool
  <2> QED
    BY <2>3, <2>5, <2>6 DEF PlanOK
<1>5. ASSUME Publish(p)
      PROVE  PlanOK(p)'
  <2>1. /\ stage[p] = "partition" /\ stage'[p] \in {"planned", "rejected"}
        /\ left[p] = {}
        /\ UNCHANGED <<inventory, looked, hit, refreshing, assignment>>
    BY <1>0, <1>5 DEF Publish
  <2>2. Pool(p)' = Pool(p) /\ Hits(p)' = Hits(p) /\ Given(p)' = Given(p)
    BY <2>1 DEF Pool, Misses, Hits, Given
  <2> QED
    BY <2>1, <2>2 DEF PlanOK, LookedUp, Disjoint, Dealt, Even
<1>6. ASSUME LookupFails(p) \/ PrepareFails(p)
      PROVE  PlanOK(p)'
  <2>1. /\ stage'[p] = "failed"
        /\ UNCHANGED <<inventory, looked, hit, refreshing, assignment>>
    BY <1>0, <1>6 DEF LookupFails, PrepareFails
  <2>2. Pool(p)' = Pool(p) /\ Hits(p)' = Hits(p)
    BY <2>1 DEF Pool, Misses, Hits
  <2> QED
    BY <2>1, <2>2 DEF PlanOK, LookedUp, Disjoint, Dealt, Even
<1> QED
  BY <1>1, <1>2, <1>3, <1>4, <1>5, <1>6 DEF Prepare

\* A preparation leaves the other ones alone.
LEMMA OthersUntouched ==
  ASSUME PlanTypeOK, NEW p \in Plans, NEW r \in Plans \ {p}, Prepare(p)
  PROVE  Untouched(r)
BY DEF PlanTypeOK, Prepare, Lookup, Refresh, Assign, WriteBlobs, Publish,
       LookupFails, PrepareFails, Advance, Untouched, options, assignment

LEMMA PlanStep == TypeInv /\ PlanInv /\ [Next]_vars => PlanInv'
<1> SUFFICES ASSUME TypeInv, PlanInv, [Next]_vars, NEW r \in Plans
             PROVE  PlanOK(r)'
  BY DEF PlanInv
<1>1. CASE Untouched(r)
  BY <1>1, PlanUntouched DEF PlanInv
<1>2. ASSUME NEW p \in Plans, Prepare(p)
      PROVE  PlanOK(r)'
  <2>1. CASE r = p
    BY <1>2, <2>1, PrepareKeeps DEF PlanInv
  <2>2. CASE r # p
    BY <1>1, <1>2, <2>2, OthersUntouched DEF TypeInv, TypeOK
  <2> QED
    BY <2>1, <2>2
<1>3. PlanNext \/ UNCHANGED <<options, stage, looked, hit, refreshing, assignment>>
  BY Frames DEF Next, vars, planVars, options, assignment
<1> QED
  BY <1>1, <1>2, <1>3 DEF PlanNext, Untouched, options, assignment

LEMMA PlanInvariant == Spec => [](TypeInv /\ PlanInv)
BY TypeInit, TypeStep, PlanInitially, PlanStep, PTL DEF Spec

(***************************************************************************)
(* For any sizes and any number of items and plans, each item of a plan is *)
(* a cached result, with one worker, or still to be assigned.              *)
(***************************************************************************)
THEOREM EachItemOnce == Spec => []Partitioned
<1>1. PlanInv => Partitioned
  BY DEF PlanInv, PlanOK, Disjoint, Hits, Given, Partitioned
<1> QED
  BY PlanInvariant, <1>1, PTL

(***************************************************************************)
(* For any sizes, Partition gives no worker more than any other one plus   *)
(* its own smallest file.                                                  *)
(***************************************************************************)
THEOREM SharesEven == Spec => []Balanced
<1>1. PlanInv => Balanced
  BY DEF PlanInv, PlanOK, Even, Balanced
<1> QED
  BY PlanInvariant, <1>1, PTL

-----------------------------------------------------------------------------
(* Results: what is stored, carried and merged was measured as it says.    *)

StoreTrue ==
  /\ \A i \in Items, f \in Fingerprints :
       Usable(objects[<<i, f>>]) => IsTrue(objects[<<i, f>>], i, f)
  /\ \A e \in Engines, c \in Contents :
       Usable(entries[<<e, c>>]) => entries[<<e, c>>] = [of |-> c, by |-> e]

HitsTrue ==
  \A p \in Plans, i \in Items :
    hit[p][i] # None => IsTrue(hit[p][i], i, fingerprint[p])

\* From place to place a worker has checked more of what it works with.
Checked(s) ==
  /\ pc[s] \in {"deadline", "lease", "open"} => machine[s].scorer = Wanted(s).scorer
  /\ pc[s] \in {"file", "fetch", "share", "put"} =>
       machine[s] = Engine(Wanted(s))
  /\ pc[s] \in {"fetch", "share", "put"} => content[s] = item[s]
  /\ pc[s] \in {"share", "put"} => IsTrue(entropy[s], item[s], Wanted(s))

GotTrue(s) ==
  \A i \in Items : got[s][i] # None => IsTrue(got[s][i], i, Wanted(s))

ArtifactsTrue ==
  \A a \in artifacts, i \in Items :
    a.results[i] # None => IsTrue(a.results[i], i, a.fingerprint)

MergedTrue ==
  \A p \in Plans, i \in Items :
    merged[p][i] # None => IsTrue(merged[p][i], i, fingerprint[p])

SeatsTrue == \A s \in Seats : Checked(s) /\ GotTrue(s)

TrueInv == StoreTrue /\ HitsTrue /\ SeatsTrue /\ ArtifactsTrue /\ MergedTrue

LEMMA TrueInitially == Init => TrueInv
<1> SUFFICES ASSUME Init PROVE TrueInv
  OBVIOUS
<1>1. StoreTrue
  <2>1. ASSUME NEW i \in Items, NEW f \in Fingerprints, Usable(objects[<<i, f>>])
        PROVE  IsTrue(objects[<<i, f>>], i, f)
    <3>1. objects[<<i, f>>] = Stored(<<i, f>>)
      BY <2>1, StoredFirst DEF Usable
    <3> QED
      BY <3>1 DEF Stored, IsTrue
  <2>2. \A e \in Engines, c \in Contents : ~Usable(entries[<<e, c>>])
    BY DEF Init, StoreInit, Usable
  <2> QED
    BY <2>1, <2>2 DEF StoreTrue
<1>2. HitsTrue /\ SeatsTrue /\ ArtifactsTrue /\ MergedTrue
  BY DEF Init, PlanInit, WorkerInit, NoResults, HitsTrue, SeatsTrue, Checked, GotTrue,
         ArtifactsTrue, MergedTrue
<1> QED
  BY <1>1, <1>2 DEF TrueInv

\* A request that stores the truth, or fails, or none, leaves the store true.
LEMMA StoreStaysTrue ==
  ASSUME StoreTypeOK, StoreTrue, NEW x,
         \/ \E i \in Items, f \in Fingerprints :
              /\ IsTrue(x, i, f)
              /\ PutObject(<<i, f>>, x) \/ PutObjectFails(<<i, f>>, x)
         \/ \E e \in Engines, c \in Contents :
              /\ x = [of |-> c, by |-> e]
              /\ PutEntry(<<e, c>>, x) \/ PutEntryFails(<<e, c>>, x)
         \/ UNCHANGED <<objects, entries>>
         \/ Disturb
  PROVE  StoreTrue'
<1> USE DEF StoreTypeOK, StoreTrue, IsTrue
<1>1. CASE UNCHANGED <<objects, entries>>
  BY <1>1 DEF Usable
<1>2. ASSUME NEW i \in Items, NEW f \in Fingerprints, IsTrue(x, i, f),
             PutObject(<<i, f>>, x) \/ PutObjectFails(<<i, f>>, x)
      PROVE  StoreTrue'
  <2>1. /\ UNCHANGED entries
        /\ \/ objects' = [objects EXCEPT ![<<i, f>>] = x]
           \/ UNCHANGED objects
    BY <1>2 DEF PutObject, PutObjectFails, SetObject
  <2> QED
    BY <1>2, <2>1 DEF Usable
<1>3. ASSUME NEW e \in Engines, NEW c \in Contents, x = [of |-> c, by |-> e],
             PutEntry(<<e, c>>, x) \/ PutEntryFails(<<e, c>>, x)
      PROVE  StoreTrue'
  <2>1. /\ UNCHANGED objects
        /\ \/ entries' = [entries EXCEPT ![<<e, c>>] = x]
           \/ UNCHANGED entries
    BY <1>3 DEF PutEntry, PutEntryFails, SetEntry
  <2> QED
    BY <1>3, <2>1 DEF Usable
<1>4. CASE Disturb
  BY <1>4 DEF Disturb, Usable
<1> QED
  BY <1>1, <1>2, <1>3, <1>4

LEMMA PrepareTrue ==
  ASSUME TypeInv, StoreTrue, HitsTrue, NEW p \in Plans, Prepare(p)
  PROVE  StoreTrue' /\ HitsTrue' /\ UNCHANGED fingerprint
<1>0. /\ StoreTypeOK
      /\ hit \in [Plans -> [Items -> Measurements \cup {None}]]
      /\ \A r \in Plans : fingerprint[r] \in Fingerprints
      /\ \A r \in Plans : \A i \in refreshing[r] : hit[r][i] # None
  BY DEF TypeInv, TypeOK, PlanTypeOK
<1> USE DEF HitsTrue, options, assignment, storeVars
<1>1. ASSUME NEW i \in Items, Lookup(p, i)
      PROVE  StoreTrue' /\ HitsTrue' /\ UNCHANGED fingerprint
  <2>1. UNCHANGED <<objects, entries, fingerprint>>
    BY <1>1 DEF Lookup
  <2>2. StoreTrue'
    BY <1>0, <2>1, StoreStaysTrue
  <2>3. \/ UNCHANGED hit
        \/ /\ Usable(objects[Key(p, i)])
           /\ hit' = [hit EXCEPT ![p][i] = objects[Key(p, i)]]
    BY <1>1 DEF Lookup
  <2>4. HitsTrue'
    BY <1>0, <2>1, <2>3 DEF StoreTrue, Key, IsTrue
  <2> QED
    BY <2>1, <2>2, <2>4
<1>2. ASSUME NEW i \in Items, Refresh(p, i)
      PROVE  StoreTrue' /\ HitsTrue' /\ UNCHANGED fingerprint
  <2>1. IsTrue(hit[p][i], i, fingerprint[p])
    BY <1>0, <1>2 DEF Refresh
  <2>2. StoreTrue'
    BY <1>0, <1>2, <2>1, StoreStaysTrue DEF Refresh, Key
  <2> QED
    BY <1>2, <2>2 DEF Refresh, IsTrue
<1>3. ASSUME \/ \E i \in Items, w \in Workers : Assign(p, i, w)
             \/ WriteBlobs(p) \/ Publish(p) \/ LookupFails(p)
             \/ PrepareFails(p)
      PROVE  StoreTrue' /\ HitsTrue' /\ UNCHANGED fingerprint
  <2>1. UNCHANGED <<objects, entries, hit, fingerprint>>
    BY <1>3 DEF Assign, WriteBlobs, Publish, LookupFails, PrepareFails,
                GetFails
  <2> QED
    BY <1>0, <2>1, StoreStaysTrue DEF IsTrue
<1> QED
  BY <1>1, <1>2, <1>3 DEF Prepare

\* What a seat's own steps leave of the other seats.
Others(s) ==
  \A z \in Seats \ {s} :
    /\ pc'[z] = pc[z] /\ machine'[z] = machine[z] /\ got'[z] = got[z]
    /\ item'[z] = item[z] /\ content'[z] = content[z]
    /\ entropy'[z] = entropy[z]

LEMMA OthersTrue ==
  ASSUME SeatsTrue, NEW s \in Seats, Others(s), UNCHANGED fingerprint,
         (Checked(s) /\ GotTrue(s))'
  PROVE  SeatsTrue'
BY DEF SeatsTrue, Checked, GotTrue, Others, IsTrue, Wanted

LEMMA WorkerTrue ==
  ASSUME TypeInv, StoreTrue, SeatsTrue, ArtifactsTrue, NEW s \in Seats,
         Start(s) \/ Run(s) \/ Kill(s) \/ Hang(s) \/ Expire(s)
  PROVE  StoreTrue' /\ SeatsTrue' /\ ArtifactsTrue'
<1>0. /\ StoreTypeOK /\ WorkerTypeOK /\ Equipped(s)
      /\ Checked(s) /\ GotTrue(s)
      /\ Wanted(s) \in Fingerprints /\ Plan(s) \in Plans
  BY DEF TypeInv, TypeOK, PlanTypeOK, SeatsTrue, Seats, Plan, Wanted
<1>1. UNCHANGED planVars
  BY DEF Run, Start, CheckDeadline, AcquireLease, OpenSession, OpenFails,
         ReadBlob, Fetch, FetchAborts, FileFails, Share, Put, Write, Kill,
         Hang, Expire
<1>2. UNCHANGED <<fingerprint, blobs>> /\ Wanted(s)' = Wanted(s)
  BY <1>1 DEF planVars, options, Wanted
<1>3. Others(s)
  BY <1>0 DEF WorkerTypeOK, Run, Start, CheckDeadline, AcquireLease,
              OpenSession, OpenFails, ReadBlob, Fetch, FetchAborts, FileFails,
              Share, Put, Write, Kill, Hang, Expire, Leave, NextFile, Gone,
              GoTo, Others, fileVars
<1>a. ASSUME UNCHANGED <<objects, entries>> PROVE StoreTrue'
  BY <1>0, <1>a, StoreStaysTrue
<1>b. ASSUME UNCHANGED artifacts PROVE ArtifactsTrue'
  BY <1>b DEF ArtifactsTrue
<1>c. ASSUME (Checked(s) /\ GotTrue(s))' PROVE SeatsTrue'
  BY <1>2, <1>3, <1>c, OthersTrue
<1>d. ASSUME UNCHANGED got PROVE GotTrue(s)'
  BY <1>0, <1>2, <1>d DEF GotTrue, IsTrue
<1>e. ASSUME pc'[s] \in {"write", "done", "failed", "dead", "hung"}
      PROVE  Checked(s)'
  BY <1>e DEF Checked
<1>f. ASSUME NEW e, Leave(s, e) PROVE pc'[s] = "write"
  BY <1>0, <1>f DEF Leave, GoTo, WorkerTypeOK
<1> USE DEF GoTo, WorkerTypeOK
<1>4. CASE Start(s)
  <2>1. /\ UNCHANGED <<objects, entries, got, artifacts>>
        /\ \/ machine'[s].scorer = Wanted(s).scorer /\ pc'[s] = "deadline"
           \/ pc'[s] = "write"
    BY <1>0, <1>4 DEF Start, ScorerMatches
  <2>2. Checked(s)'
    BY <1>2, <2>1 DEF Checked
  <2> QED
    BY <2>1, <2>2, <1>a, <1>b, <1>c, <1>d
<1>5. CASE CheckDeadline(s) \/ AcquireLease(s)
  <2>1. /\ UNCHANGED <<objects, entries, got, artifacts, machine>>
        /\ pc[s] \in {"deadline", "lease"}
        /\ pc'[s] \in {"lease", "open", "write"}
    BY <1>0, <1>5, <1>f DEF CheckDeadline, AcquireLease, storeVars
  <2>2. Checked(s)'
    BY <1>0, <1>2, <2>1 DEF Checked
  <2> QED
    BY <2>1, <2>2, <1>a, <1>b, <1>c, <1>d
<1>6. CASE OpenSession(s)
  <2>1. UNCHANGED <<objects, entries, got, artifacts, machine>>
    BY <1>6 DEF OpenSession, storeVars
  <2>2. CASE Leave(s, TRUE)
    BY <2>1, <2>2, <1>a, <1>b, <1>c, <1>d, <1>e, <1>f
  <2>3. CASE ModelMatches(s) /\ GoTo(s, "file")
    <3>1. machine[s].scorer = Wanted(s).scorer
      BY <1>0, <1>6 DEF OpenSession, Checked
    <3>2. machine[s] \in Engines
      BY <1>0, <1>6 DEF OpenSession, Equipped, Working
    <3>3. machine[s] = Engine(Wanted(s))
      BY <2>3, <3>1, <3>2 DEF ModelMatches, Engine, Engines
    <3>4. Checked(s)'
      BY <1>0, <1>2, <2>1, <2>3, <3>3 DEF Checked
    <3> QED
      BY <2>1, <3>4, <1>a, <1>b, <1>c, <1>d
  <2> QED
    BY <1>6, <2>2, <2>3 DEF OpenSession
<1>7. CASE OpenFails(s) \/ FetchAborts(s)
  <2>1. /\ UNCHANGED <<objects, entries, got, artifacts>>
        /\ Leave(s, TRUE)
    BY <1>7 DEF OpenFails, FetchAborts, GetFails
  <2> QED
    BY <2>1, <1>a, <1>b, <1>c, <1>d, <1>e, <1>f
<1>8. CASE ReadBlob(s)
  <2>1. /\ UNCHANGED <<objects, entries, got, artifacts, machine>>
        /\ pc[s] = "file"
    BY <1>8 DEF ReadBlob, storeVars
  <2>2. CASE Leave(s, TRUE) \/ Leave(s, FALSE)
    BY <2>1, <2>2, <1>a, <1>b, <1>c, <1>d, <1>e, <1>f
  <2>3. ASSUME NEW i \in todo[s], Verified(s, i), GoTo(s, "fetch"),
               item' = [item EXCEPT ![s] = i],
               content' = [content EXCEPT ![s] = blobs[Plan(s)][i]]
        PROVE  StoreTrue' /\ SeatsTrue' /\ ArtifactsTrue'
    <3>1. content'[s] = item'[s] /\ pc'[s] = "fetch"
      BY <1>0, <2>3 DEF Verified
    <3>2. Checked(s)'
      BY <1>0, <1>2, <2>1, <3>1 DEF Checked
    <3> QED
      BY <2>1, <3>2, <1>a, <1>b, <1>c, <1>d
  <2>4. CASE UNCHANGED <<pc, fileVars>>
    <3>1. Checked(s)'
      BY <1>0, <1>2, <2>1, <2>4 DEF Checked, fileVars
    <3> QED
      BY <2>1, <3>1, <1>a, <1>b, <1>c, <1>d
  <2> QED
    BY <1>8, <2>2, <2>3, <2>4 DEF ReadBlob
<1>9. CASE Fetch(s)
  <2>1. /\ UNCHANGED <<objects, entries, got, artifacts, machine, item,
                       content>>
        /\ pc[s] = "fetch" /\ pc'[s] \in {"share", "put"}
    BY <1>0, <1>9 DEF Fetch, storeVars
  <2>2. /\ machine[s] = Engine(Wanted(s)) /\ content[s] = item[s]
        /\ content[s] \in Contents /\ machine[s] \in Engines
    BY <1>0, <2>1 DEF Checked, Equipped, Working
  <2>3. EntryKey(s) = <<machine[s], content[s]>>
    BY <2>2 DEF EntryKey, Engine
  <2>4. entropy'[s] = [of |-> content[s], by |-> machine[s]]
    BY <1>0, <1>9, <2>2, <2>3 DEF Fetch, StoreTrue
  <2>5. Checked(s)'
    BY <1>2, <2>1, <2>2, <2>4 DEF Checked, IsTrue
  <2> QED
    BY <2>1, <2>5, <1>a, <1>b, <1>c, <1>d
<1>10. CASE FileFails(s)
  <2>1. /\ UNCHANGED <<objects, entries, got, artifacts, machine>>
        /\ pc[s] = "fetch" /\ pc'[s] = "file"
    BY <1>0, <1>10 DEF FileFails, GetFails, NextFile
  <2>2. Checked(s)'
    BY <1>0, <1>2, <2>1 DEF Checked
  <2> QED
    BY <2>1, <2>2, <1>a, <1>b, <1>c, <1>d
<1>11. CASE Share(s)
  <2>1. /\ UNCHANGED <<got, artifacts, machine>>
        /\ pc[s] = "share"
    BY <1>11 DEF Share
  <2>2. /\ machine[s] = Engine(Wanted(s)) /\ content[s] = item[s]
        /\ content[s] \in Contents /\ machine[s] \in Engines
        /\ entropy[s] \in Measurements
        /\ IsTrue(entropy[s], item[s], Wanted(s))
    BY <1>0, <2>1 DEF Checked, Equipped, Working
  <2>3. /\ EntryKey(s) = <<machine[s], content[s]>>
        /\ entropy[s] = [of |-> content[s], by |-> machine[s]]
    BY <2>2 DEF EntryKey, Engine, IsTrue, Measurements
  <2>4. StoreTrue'
    <3>1. \/ PutEntry(<<machine[s], content[s]>>, entropy[s])
          \/ PutEntryFails(<<machine[s], content[s]>>, entropy[s])
          \/ UNCHANGED <<objects, entries>>
      BY <1>11, <2>3 DEF Share, storeVars
    <3> QED
      BY <1>0, <2>2, <2>3, <3>1, StoreStaysTrue
  <2>5. CASE Leave(s, TRUE)
    BY <2>1, <2>4, <2>5, <1>b, <1>c, <1>d, <1>e, <1>f
  <2>6. CASE GoTo(s, "put") /\ UNCHANGED fileVars
    <3>1. Checked(s)'
      BY <1>0, <1>2, <2>1, <2>2, <2>6 DEF Checked, fileVars, IsTrue
    <3> QED
      BY <2>1, <2>4, <3>1, <1>b, <1>c, <1>d
  <2> QED
    BY <1>11, <2>5, <2>6 DEF Share
<1>12. CASE Put(s)
  <2>1. /\ UNCHANGED <<artifacts, machine>>
        /\ pc[s] = "put"
    BY <1>12 DEF Put
  <2>2. /\ IsTrue(entropy[s], item[s], Wanted(s)) /\ item[s] \in Items
        /\ machine[s] = Engine(Wanted(s))
    BY <1>0, <2>1 DEF Checked, Equipped
  <2>3. StoreTrue'
    BY <1>0, <1>12, <2>2, StoreStaysTrue DEF Put, Key, Wanted
  <2>4. CASE Leave(s, TRUE) /\ UNCHANGED got
    BY <2>1, <2>3, <2>4, <1>b, <1>c, <1>d, <1>e, <1>f
  <2>5. CASE /\ got' = [got EXCEPT ![s][item[s]] = entropy[s]]
             /\ NextFile(s, FALSE)
    <3>1. pc'[s] = "file"
      BY <1>0, <2>5 DEF NextFile
    <3>2. Checked(s)'
      BY <1>2, <2>1, <2>2, <3>1 DEF Checked
    <3>3. GotTrue(s)'
      BY <1>0, <1>2, <2>2, <2>5 DEF GotTrue, IsTrue
    <3> QED
      BY <2>1, <2>3, <3>2, <3>3, <1>b, <1>c
  <2> QED
    BY <1>12, <2>4, <2>5 DEF Put
<1>13. CASE Write(s)
  <2>1. /\ UNCHANGED <<objects, entries>>
        /\ pc'[s] \in {"done", "failed"}
        /\ got'[s] = NoResults
    BY <1>0, <1>13 DEF Write, storeVars, Gone
  <2>2. ArtifactsTrue'
    BY <1>0, <1>13 DEF Write, ArtifactsTrue, GotTrue
  <2>3. GotTrue(s)'
    BY <2>1 DEF GotTrue, NoResults
  <2> QED
    BY <2>1, <2>2, <2>3, <1>a, <1>c, <1>e
<1>14. CASE Kill(s)
  <2>1. /\ UNCHANGED <<objects, entries, artifacts>>
        /\ pc'[s] = "dead"
        /\ got'[s] = NoResults
    BY <1>0, <1>14 DEF Kill, Gone
  <2>2. GotTrue(s)'
    BY <2>1 DEF GotTrue, NoResults
  <2> QED
    BY <2>1, <2>2, <1>a, <1>b, <1>c, <1>e
<1>15. CASE Hang(s)
  <2>1. UNCHANGED <<objects, entries, artifacts, got>> /\ pc'[s] = "hung"
    BY <1>0, <1>15 DEF Hang
  <2> QED
    BY <2>1, <1>a, <1>b, <1>c, <1>d, <1>e
<1>16. CASE Expire(s)
  <2>1. UNCHANGED <<objects, entries, artifacts, got, pc, machine, fileVars>>
    BY <1>16 DEF Expire, storeVars
  <2>2. Checked(s)'
    BY <1>0, <1>2, <2>1 DEF Checked, fileVars, IsTrue
  <2> QED
    BY <2>1, <2>2, <1>a, <1>b, <1>c, <1>d
<1> QED
  BY <1>4, <1>5, <1>6, <1>7, <1>8, <1>9, <1>10, <1>11, <1>12, <1>13, <1>14,
     <1>15, <1>16 DEF Run

LEMMA TrueStep == TypeInv /\ TrueInv /\ [Next]_vars => TrueInv'
<1> SUFFICES ASSUME TypeInv, TrueInv, [Next]_vars PROVE TrueInv'
  OBVIOUS
<1>0. /\ StoreTrue /\ HitsTrue /\ SeatsTrue /\ ArtifactsTrue /\ MergedTrue
      /\ StoreTypeOK
  BY DEF TrueInv, TypeInv, TypeOK
<1>a. UNCHANGED <<objects, entries>> => StoreTrue'
  BY <1>0, StoreStaysTrue
<1>b. UNCHANGED <<hit, fingerprint>> => HitsTrue'
  BY <1>0 DEF HitsTrue, IsTrue
<1>c. UNCHANGED <<workerVars, fingerprint>> => SeatsTrue' /\ ArtifactsTrue'
  BY <1>0 DEF workerVars, SeatsTrue, Checked, GotTrue, ArtifactsTrue, Wanted,
              IsTrue
<1>d. UNCHANGED <<merged, fingerprint>> => MergedTrue'
  BY <1>0 DEF MergedTrue, IsTrue
<1>1. CASE PlanNext /\ UNCHANGED <<workerVars, reportVars>>
  <2>1. PICK p \in Plans : Prepare(p)
    BY <1>1 DEF PlanNext
  <2>2. StoreTrue' /\ HitsTrue' /\ UNCHANGED fingerprint
    BY <1>0, <2>1, PrepareTrue
  <2> QED
    BY <1>1, <2>2, <1>c, <1>d DEF TrueInv, reportVars
<1>2. CASE WorkerNext /\ UNCHANGED reportVars
  <2>1. UNCHANGED <<hit, fingerprint, merged>>
    BY <1>2, Frames DEF options, reportVars
  <2>2. ASSUME NEW s \in Seats,
               Start(s) \/ Run(s) \/ Kill(s) \/ Hang(s) \/ Expire(s)
        PROVE  TrueInv'
    BY <1>0, <2>1, <2>2, WorkerTrue, <1>b, <1>d DEF TrueInv
  <2>3. ASSUME NEW p \in Plans, NEW i \in Items, Damage(p, i)
        PROVE  TrueInv'
    <3>1. UNCHANGED <<objects, entries, workerVars>>
      BY <2>3 DEF Damage
    <3> QED
      BY <2>1, <3>1, <1>a, <1>b, <1>c, <1>d DEF TrueInv
  <2> QED
    BY <1>2, <2>2, <2>3 DEF WorkerNext
<1>3. CASE Disturb /\ UNCHANGED <<planVars, workerVars, reportVars>>
  <2>1. StoreTrue'
    BY <1>0, <1>3, StoreStaysTrue
  <2> QED
    BY <1>3, <2>1, <1>b, <1>c, <1>d DEF TrueInv, planVars, options, reportVars
<1>4. ASSUME NEW p \in Plans, Aggregate(p)
      PROVE  TrueInv'
  <2>1. UNCHANGED <<objects, entries, planVars, workerVars>>
    BY <1>4 DEF Aggregate, Collect, CollectGarbage, Report, ReportFailure,
                storeVars
  <2>2. MergedTrue'
    <3>1. ASSUME NEW a \in artifacts, Collect(p, a)
          PROVE  MergedTrue'
      <4>1. CASE UNCHANGED merged
        BY <2>1, <4>1, <1>d DEF planVars, options
      <4>2. CASE /\ ~ Foreign(p, a)
                 /\ merged' = [merged EXCEPT
                      ![p] = [i \in Items |-> IF a.results[i] # None
                                THEN a.results[i] ELSE merged[p][i]]]
        <5>1. a.fingerprint = fingerprint[p]
          BY <4>2 DEF Foreign
        <5>2. merged \in [Plans -> [Items -> Measurements \cup {None}]]
          BY DEF TypeInv, TypeOK
        <5> QED
          BY <1>0, <2>1, <4>2, <5>1, <5>2
             DEF MergedTrue, ArtifactsTrue, IsTrue, planVars, options
      <4>3. merged \in [Plans -> [Items -> Measurements \cup {None}]]
        BY DEF TypeInv, TypeOK
      <4> QED
        BY <3>1, <4>1, <4>2, <4>3 DEF Collect
    <3>2. CASE UNCHANGED merged
      BY <2>1, <3>2, <1>d DEF planVars, options
    <3> QED
      BY <1>4, <3>1, <3>2
         DEF Aggregate, CollectGarbage, Report, ReportFailure
  <2> QED
    BY <2>1, <2>2, <1>a, <1>b, <1>c DEF TrueInv, planVars, options
<1>5. CASE UNCHANGED vars
  BY <1>5, <1>a, <1>b, <1>c, <1>d
     DEF vars, storeVars, planVars, options, reportVars, TrueInv
<1> QED
  BY <1>1, <1>2, <1>3, <1>4, <1>5 DEF Next

LEMMA TrueInvariant == Spec => []TrueInv
BY PlanInvariant, TrueInitially, TrueStep, PTL DEF Spec

(***************************************************************************)
(* Whatever machines, damaged blobs, corrupt objects and failing requests  *)
(* there are: no result in the store, in a plan, in an artifact or in a    *)
(* report was measured on other bytes or by another engine than it says.   *)
(***************************************************************************)
THEOREM NoWrongResult == Spec => []ResultsTrue
<1>1. TrueInv => ResultsTrue
  BY DEF TrueInv, StoreTrue, HitsTrue, ArtifactsTrue, MergedTrue, ResultsTrue,
         Result
<1> QED
  BY TrueInvariant, <1>1, PTL

-----------------------------------------------------------------------------
(***************************************************************************)
(* What the report of a comparison may be relied on for.                   *)
(***************************************************************************)

(* Artifacts: they belong to a published plan and to its pool.             *)

Assigned(s) == keys[Plan(s)][s[2]]

\* A worker at work, and where it is.
AtWork(s) ==
  pc[s] \in Working =>
    /\ stage[Plan(s)] = "planned"
    /\ s[2] \in Pool(Plan(s))
    /\ todo[s] \subseteq Assigned(s)
    /\ Measured(got[s]) \subseteq Assigned(s)
    /\ pc[s] \in {"fetch", "share", "put"} => item[s] \in todo[s]

\* A process that is none, or not yet, has no results.
Empty(s) == pc[s] \notin Working \cup {"hung"} => Measured(got[s]) = {}

Published(a) ==
  /\ stage[a.plan] = "planned"
  /\ a.worker \in Pool(a.plan)
  /\ ~ Foreign(a.plan, a)
  /\ a.complete => Sound(a.plan, a)

WorkInv ==
  /\ \A s \in Seats : AtWork(s) /\ Empty(s)
  /\ \A a \in artifacts : Published(a)

\* What is left of a published plan once it is used.
Frozen(p) ==
  stage[p] = "planned" =>
    /\ stage'[p] = "planned"
    /\ keys'[p] = keys[p]
    /\ hit'[p] = hit[p]

LEMMA PlansFreeze ==
  ASSUME TypeInv, PlanInv, [Next]_vars
  PROVE  /\ UNCHANGED <<inventory, fingerprint, identity>>
         /\ artifacts \subseteq artifacts'
         /\ \A p \in Plans : Frozen(p)
         /\ \A p \in Plans : stage[p] \in {"failed", "rejected"}
              => stage'[p] \in {"failed", "rejected"}
<1> DEFINE Kept == /\ UNCHANGED <<inventory, fingerprint, identity>>
                   /\ artifacts \subseteq artifacts'
                   /\ \A p \in Plans : Frozen(p)
                   /\ \A p \in Plans : stage[p] \in {"failed", "rejected"}
                        => stage'[p] \in {"failed", "rejected"}
<1>1. ASSUME NEW p \in Plans, Prepare(p), UNCHANGED workerVars
      PROVE  Kept
  <2>1. \A r \in Plans \ {p} : Untouched(r)
    BY <1>1, OthersUntouched DEF TypeInv, TypeOK
  <2>2. UNCHANGED options
    BY <1>1 DEF Prepare, Lookup, Refresh, Assign, WriteBlobs, Publish,
                LookupFails, PrepareFails
  <2>3. /\ stage[p] = "planned" => refreshing[p] = {}
        /\ stage[p] = "rejected" => refreshing[p] = {}
        /\ stage \in [Plans -> Stages]
    BY DEF TypeInv, TypeOK, PlanTypeOK, PlanInv, PlanOK, LookedUp
  <2>4. stage[p] # "planned"
    BY <1>1, <2>3 DEF Prepare, Lookup, Refresh, Assign, WriteBlobs, Publish,
                LookupFails, PrepareFails
  <2>5. stage[p] \in {"failed", "rejected"} => stage'[p] = "failed" \/ stage' = stage
    BY <1>1, <2>3 DEF Prepare, Lookup, Refresh, Assign, WriteBlobs, Publish,
                LookupFails, PrepareFails, Advance
  <2> QED
    BY <1>1, <2>1, <2>2, <2>4, <2>5
       DEF Untouched, Frozen, options, workerVars
<1>2. ASSUME WorkerNext
      PROVE  Kept
  <2>1. UNCHANGED <<options, stage, looked, hit, refreshing, assignment>>
    BY <1>2, Frames
  <2>2. UNCHANGED identity /\ artifacts \subseteq artifacts'
    BY <1>2 DEF WorkerNext, Run, Start, CheckDeadline, AcquireLease,
                OpenSession, OpenFails, ReadBlob, Fetch, FetchAborts,
                FileFails, Share, Put, Write, Kill, Hang, Expire, Damage,
                workerVars
  <2> QED
    BY <2>1, <2>2 DEF Frozen, options, assignment
<1>3. ASSUME UNCHANGED <<planVars, workerVars>>
      PROVE  Kept
  BY <1>3 DEF Frozen, planVars, options, assignment, workerVars
<1>4. \A p \in Plans : Aggregate(p) => UNCHANGED <<planVars, workerVars>>
  BY Frames
<1> QED
  BY <1>1, <1>2, <1>3, <1>4 DEF Next, PlanNext, vars

LEMMA WorkInitially == Init => WorkInv
BY DEF Init, WorkerInit, WorkInv, AtWork, Empty, Working, NoResults, Measured

\* A seat that a step does not touch stays where it is.
LEMMA SeatUntouched ==
  ASSUME NEW s \in Seats, AtWork(s), Empty(s), Plan(s) \in Plans,
         Frozen(Plan(s)), UNCHANGED inventory,
         pc'[s] = pc[s], todo'[s] = todo[s], got'[s] = got[s],
         item'[s] = item[s]
  PROVE  AtWork(s)' /\ Empty(s)'
<1>1. stage[Plan(s)] = "planned" => Pool(Plan(s))' = Pool(Plan(s))
  BY DEF Frozen, Pool, Misses
<1> QED
  BY <1>1 DEF AtWork, Empty, Assigned, Frozen, Measured

LEMMA ArtifactStays ==
  ASSUME NEW a \in Artifacts, Published(a), Frozen(a.plan),
         UNCHANGED <<inventory, fingerprint, identity>>
  PROVE  Published(a)'
<1>1. stage[a.plan] = "planned" => Pool(a.plan)' = Pool(a.plan)
  BY DEF Frozen, Pool, Misses
<1> QED
  BY <1>1 DEF Published, Foreign, Sound, Frozen

\* The status of an artifact counts results; for those of its own worker
\* that is as good as comparing them with the assignment.
LEMMA CompleteIsSound ==
  ASSUME TypeInv, NEW s \in Seats, pc[s] = "write", AtWork(s), Complete(s)
  PROVE  Measured(got[s]) = Assigned(s) /\ ~ err[s]
<1>1. Assigned(s) \in SUBSET Items
  BY DEF TypeInv, TypeOK, PlanTypeOK, Assigned, Seats, Plan
<1>2. IsFiniteSet(Assigned(s))
  BY <1>1, FS_Subset, ItemsAssumption
<1>3. Measured(got[s]) \in SUBSET Assigned(s)
  BY DEF AtWork, Working
<1> QED
  BY <1>2, <1>3, FS_Subset DEF Complete, Assigned

\* A worker's step leaves the other workers where they are.
LEMMA OthersStay ==
  ASSUME WorkerTypeOK, NEW s \in Seats,
         Start(s) \/ Run(s) \/ Kill(s) \/ Hang(s) \/ Expire(s)
  PROVE  \A z \in Seats \ {s} :
           /\ pc'[z] = pc[z] /\ todo'[z] = todo[z] /\ got'[z] = got[z]
           /\ item'[z] = item[z]
BY DEF WorkerTypeOK, Run, Start, CheckDeadline, AcquireLease, OpenSession,
       OpenFails, ReadBlob, Fetch, FetchAborts, FileFails, Share, Put, Write,
       Kill, Hang, Expire, Leave, NextFile, Gone, GoTo, fileVars

\* ... and the step of a worker keeps what is known of its place.
LEMMA OwnStep ==
  ASSUME TypeInv, PlanInv, NEW s \in Seats, AtWork(s), Empty(s),
         Start(s) \/ Run(s) \/ Kill(s) \/ Hang(s) \/ Expire(s)
  PROVE  AtWork(s)' /\ Empty(s)'
<1>0. /\ WorkerTypeOK /\ Plan(s) \in Plans /\ s[2] \in Workers
      /\ Equipped(s)
  BY DEF TypeInv, TypeOK, Seats, Plan
<1>1. UNCHANGED planVars
  BY DEF Run, Start, CheckDeadline, AcquireLease, OpenSession, OpenFails,
         ReadBlob, Fetch, FetchAborts, FileFails, Share, Put, Write, Kill,
         Hang, Expire
<1>2. /\ UNCHANGED stage /\ Assigned(s)' = Assigned(s)
      /\ Pool(Plan(s))' = Pool(Plan(s))
  BY <1>1 DEF planVars, options, assignment, Assigned, Pool, Misses
<1> USE DEF GoTo, WorkerTypeOK
<1>a. ASSUME pc[s] \in Working, UNCHANGED <<todo, got>>,
             \/ pc'[s] \in {"deadline", "lease", "open", "file", "write", "hung"}
             \/ pc'[s] \in Working /\ item'[s] \in todo'[s]
      PROVE  AtWork(s)' /\ Empty(s)'
  BY <1>0, <1>2, <1>a DEF AtWork, Empty, Measured, Working
<1>b. ASSUME NEW e, Leave(s, e) PROVE pc'[s] = "write"
  BY <1>0, <1>b DEF Leave
<1>3. CASE Start(s)
  <2>1. /\ stage[Plan(s)] = "planned" /\ s[2] \in Pool(Plan(s))
        /\ todo'[s] = Assigned(s) /\ got'[s] = got[s]
        /\ pc[s] \notin Working \cup {"hung"}
        /\ pc'[s] \in {"deadline", "write"}
    BY <1>0, <1>3 DEF Start, Assigned, Working
  <2> QED
    BY <1>2, <2>1 DEF AtWork, Empty, Measured, Working
<1>4. CASE \/ CheckDeadline(s) \/ AcquireLease(s) \/ OpenSession(s)
           \/ OpenFails(s) \/ FetchAborts(s)
  <2>1. /\ UNCHANGED <<todo, got>>
        /\ pc[s] \in Working
        /\ pc'[s] \in {"lease", "open", "file", "write"}
    BY <1>0, <1>4, <1>b DEF CheckDeadline, AcquireLease, OpenSession, OpenFails,
                     FetchAborts, Working
  <2> QED
    BY <1>a, <2>1
<1>5. CASE ReadBlob(s)
  <2>1. UNCHANGED got /\ pc[s] = "file"
    BY <1>5 DEF ReadBlob
  <2>2. CASE (Leave(s, TRUE) \/ Leave(s, FALSE)) /\ UNCHANGED todo
    BY <2>1, <2>2, <1>a, <1>b DEF Working
  <2>3. ASSUME NEW i \in todo[s], GoTo(s, "fetch"), UNCHANGED todo,
               item' = [item EXCEPT ![s] = i]
        PROVE  AtWork(s)' /\ Empty(s)'
    <3>1. pc'[s] = "fetch" /\ item'[s] \in todo'[s]
      BY <1>0, <2>3
    <3> QED
      BY <2>1, <2>3, <3>1, <1>a DEF Working
  <2>4. ASSUME NEW i \in todo[s], UNCHANGED <<pc, fileVars>>,
               todo' = [todo EXCEPT ![s] = @ \ {i}]
        PROVE  AtWork(s)' /\ Empty(s)'
    BY <1>0, <1>2, <2>1, <2>4 DEF AtWork, Empty, Measured, Working
  <2> QED
    BY <1>5, <2>2, <2>3, <2>4 DEF ReadBlob
<1>6. CASE Fetch(s)
  <2>1. /\ UNCHANGED <<todo, got, item>>
        /\ pc[s] = "fetch" /\ pc'[s] \in {"share", "put"}
    BY <1>0, <1>6 DEF Fetch
  <2>2. item[s] \in todo[s]
    BY <2>1 DEF AtWork, Working
  <2> QED
    BY <2>1, <2>2, <1>a DEF Working
<1>7. CASE FileFails(s)
  <2>1. /\ UNCHANGED got /\ pc[s] = "fetch" /\ pc'[s] = "file"
        /\ todo'[s] \subseteq todo[s]
    BY <1>0, <1>7 DEF FileFails, NextFile
  <2> QED
    BY <1>2, <2>1 DEF AtWork, Empty, Measured, Working
<1>8. CASE Share(s)
  <2>1. /\ UNCHANGED <<todo, got>> /\ pc[s] = "share"
        /\ item[s] \in todo[s]
    BY <1>8 DEF Share, AtWork, Working
  <2>2. \/ pc'[s] = "write"
        \/ pc'[s] = "put" /\ item'[s] = item[s]
    BY <1>0, <1>8, <1>b DEF Share, fileVars
  <2> QED
    BY <2>1, <2>2, <1>a DEF Working
<1>9. CASE Put(s)
  <2>1. pc[s] = "put"
    BY <1>9 DEF Put
  <2>2. item[s] \in todo[s] /\ item[s] \in Assigned(s)
    BY <2>1 DEF AtWork, Working
  <2>3. CASE Leave(s, TRUE) /\ UNCHANGED <<got, todo>>
    BY <2>1, <2>3, <1>a, <1>b DEF Working
  <2>4. CASE /\ got' = [got EXCEPT ![s][item[s]] = entropy[s]]
             /\ NextFile(s, FALSE)
    <3>1. pc'[s] = "file" /\ todo'[s] \subseteq todo[s]
      BY <1>0, <2>4 DEF NextFile
    <3>2. \A i \in Items : i # item[s] => got'[s][i] = got[s][i]
      BY <1>0, <2>4
    <3>3. Measured(got'[s]) \subseteq Measured(got[s]) \cup {item[s]}
      BY <3>2 DEF Measured
    <3>4. Measured(got'[s]) \subseteq Assigned(s)
      BY <2>1, <2>2, <3>3 DEF AtWork, Working
    <3> QED
      BY <1>2, <2>1, <3>1, <3>4 DEF AtWork, Empty, Measured, Working
  <2> QED
    BY <1>9, <2>3, <2>4 DEF Put
<1>10. CASE Write(s) \/ Kill(s)
  <2>1. got'[s] = NoResults /\ pc'[s] \notin Working
    BY <1>0, <1>10 DEF Write, Kill, Gone, Working
  <2> QED
    BY <2>1 DEF AtWork, Empty, Measured, NoResults
<1>11. CASE Hang(s) \/ Expire(s)
  <2>1. /\ UNCHANGED <<todo, got, item>>
        /\ pc[s] \in Working
        /\ pc'[s] \in {"deadline", "lease", "open", "file", "hung"}
    BY <1>0, <1>11 DEF Hang, Expire, fileVars, Working
  <2> QED
    BY <2>1, <1>a
<1> QED
  BY <1>3, <1>4, <1>5, <1>6, <1>7, <1>8, <1>9, <1>10, <1>11 DEF Run

LEMMA WorkStep == TypeInv /\ PlanInv /\ WorkInv /\ [Next]_vars => WorkInv'
<1> SUFFICES ASSUME TypeInv, PlanInv, WorkInv, [Next]_vars PROVE WorkInv'
  OBVIOUS
<1>0. /\ WorkerTypeOK
      /\ UNCHANGED <<inventory, fingerprint, identity>>
      /\ \A p \in Plans : Frozen(p)
      /\ \A s \in Seats : AtWork(s) /\ Empty(s) /\ Plan(s) \in Plans
      /\ \A a \in artifacts :
           a \in Artifacts /\ a.plan \in Plans /\ Published(a)
  BY PlansFreeze DEF TypeInv, TypeOK, WorkInv, Seats, Plan, WorkerTypeOK,
                     Artifacts
<1>a. \A a \in artifacts : Published(a)'
  BY <1>0, ArtifactStays
<1>1. ASSUME NEW s \in Seats,
             Start(s) \/ Run(s) \/ Kill(s) \/ Hang(s) \/ Expire(s)
      PROVE  WorkInv'
  <2>1. \A z \in Seats : AtWork(z)' /\ Empty(z)'
    <3>1. ASSUME NEW z \in Seats \ {s} PROVE AtWork(z)' /\ Empty(z)'
      BY <1>0, <1>1, <3>1, OthersStay, SeatUntouched
    <3>2. AtWork(s)' /\ Empty(s)'
      BY <1>0, <1>1, OwnStep
    <3> QED
      BY <3>1, <3>2
  <2>2. CASE artifacts' = artifacts
    BY <2>1, <2>2, <1>a DEF WorkInv
  <2>3. CASE Write(s)
    <3> DEFINE new == [plan |-> Plan(s), worker |-> s[2],
                       identity |-> identity[Plan(s)],
                       fingerprint |-> Wanted(s), complete |-> Complete(s),
                       errors |-> err[s], results |-> got[s]]
    <3>1. /\ artifacts' = artifacts \cup {new} /\ pc[s] = "write"
          /\ UNCHANGED planVars
      BY <2>3 DEF Write
    <3>2. /\ stage[Plan(s)] = "planned" /\ s[2] \in Pool(Plan(s))
      BY <1>0, <3>1 DEF AtWork, Working
    <3>3. Complete(s) => Measured(got[s]) = Assigned(s) /\ ~ err[s]
      BY <1>0, <3>1, CompleteIsSound
    <3>4. Published(new)
      BY <3>2, <3>3 DEF Published, Foreign, Sound, Wanted, Assigned
    <3>5. new \in Artifacts
      <4>1. s[2] \in Workers /\ Wanted(s) \in Fingerprints
        BY <1>0 DEF Seats, Wanted, TypeInv, TypeOK, PlanTypeOK
      <4>2. Complete(s) \in BOOLEAN
        BY DEF Complete
      <4> QED
        BY <1>0, <4>1, <4>2 DEF Artifacts, WorkerTypeOK
    <3>6. ASSUME NEW a, a = new PROVE Published(a)'
      BY <1>0, <3>4, <3>5, <3>6, ArtifactStays
    <3>7. \A a \in artifacts' : Published(a)'
      BY <3>1, <3>6, <1>a
    <3> QED
      BY <2>1, <3>7 DEF WorkInv
  <2> QED
    BY <1>1, <2>2, <2>3
       DEF Run, Start, CheckDeadline, AcquireLease, OpenSession, OpenFails,
           ReadBlob, Fetch, FetchAborts, FileFails, Share, Put, Kill, Hang,
           Expire
<1>2. CASE UNCHANGED workerVars
  <2>1. \A s \in Seats : AtWork(s)' /\ Empty(s)'
    BY <1>0, <1>2, SeatUntouched DEF workerVars
  <2> QED
    BY <1>2, <2>1, <1>a DEF WorkInv, workerVars
<1>3. \A p \in Plans : Aggregate(p) => UNCHANGED workerVars
  BY Frames
<1>4. ASSUME NEW p \in Plans, NEW i \in Items, Damage(p, i)
      PROVE  UNCHANGED workerVars
  BY <1>4 DEF Damage
<1> QED
  BY <1>1, <1>2, <1>3, <1>4 DEF Next, WorkerNext, vars

LEMMA WorkInvariant == Spec => [](TypeInv /\ PlanInv /\ WorkInv)
BY PlanInvariant, WorkInitially, WorkStep, PTL DEF Spec

-----------------------------------------------------------------------------
(* Reports.                                                                *)

\* Aggregation begins with a plan, and ends with its report.
Timely(p) ==
  /\ seen[p] # {} => stage[p] = "planned"
  /\ report[p] \in {"complete", "incomplete"} => stage[p] = "planned"
  /\ report[p] # None => stage[p] \in {"planned", "failed", "rejected"}
  /\ stage[p] = "planned" /\ report[p] # None =>
       (report[p] = "failed" <=> Failed(p))

\* What is merged comes from sound artifacts, one for each worker, and is in
\* the plan.
Witnessed(p, w) ==
  \E a \in artifacts :
    /\ a.worker = w /\ a.complete /\ a.identity = identity[p]
    /\ \A i \in keys[p][w] : a.results[i] = merged[p][i]
    /\ \A i \in keys[p][w] : merged[p][i] # None

Gathered(p) ==
  /\ \A i \in Items : merged[p][i] # None => i \in inventory[p]
  /\ ~ bad[p] => \A w \in seen[p] : Witnessed(p, w)
  /\ clean[p] => ~ bad[p]

ReportOK(p) == Timely(p) /\ Gathered(p)
ReportInv == \A p \in Plans : ReportOK(p)

LEMMA ReportInitially == Init => ReportInv
BY ReportAssumption DEF Init, ReportInv, ReportOK, Timely, Gathered, NoResults

\* A report that a step does not touch stays as it was.
LEMMA ReportUntouched ==
  ASSUME NEW p \in Plans, ReportOK(p), Frozen(p),
         stage[p] \in {"failed", "rejected"} => stage'[p] \in {"failed", "rejected"},
         UNCHANGED <<inventory, identity>>, artifacts \subseteq artifacts',
         seen'[p] = seen[p], merged'[p] = merged[p], bad'[p] = bad[p],
         report'[p] = report[p], clean'[p] = clean[p]
  PROVE  ReportOK(p)'
<1>1. stage[p] = "planned" => Failed(p)' = Failed(p)
  BY DEF Frozen, Failed, Pool, Misses, Missing, Result
<1>2. Timely(p)'
  BY <1>1 DEF ReportOK, Timely, Frozen
<1>3. \A w \in seen[p] : Witnessed(p, w) => Witnessed(p, w)'
  BY DEF ReportOK, Timely, Frozen, Witnessed
<1>4. Gathered(p)'
  BY <1>3 DEF ReportOK, Gathered
<1> QED
  BY <1>2, <1>4 DEF ReportOK

\* One artifact is taken, or one file that is none.
LEMMA CollectKeeps ==
  ASSUME TypeInv, PlanInv, WorkInv, NEW p \in Plans, ReportOK(p),
         NEW a \in artifacts, Collect(p, a)
  PROVE  ReportOK(p)'
<1>0. /\ stage[p] = "planned" /\ report[p] = None
      /\ UNCHANGED <<planVars, workerVars, report>>
      /\ a \in Artifacts /\ Published(a)
  BY DEF Collect, Aggregating, TypeInv, TypeOK, WorkerTypeOK, WorkInv
<1>1. /\ seen \in [Plans -> SUBSET Workers] /\ bad \in [Plans -> BOOLEAN]
      /\ merged \in [Plans -> [Items -> Measurements \cup {None}]]
      /\ clean \in [Plans -> BOOLEAN]
      /\ keys[p] \in [Workers -> SUBSET Items]
  BY DEF TypeInv, TypeOK, PlanTypeOK
<1>2. clean'[p] = (clean[p] /\ a.plan = p /\ a.complete /\ a.worker \notin seen[p])
  BY <1>1 DEF Collect
<1>3. Timely(p)'
  BY <1>0 DEF Timely, planVars
<1>4. UNCHANGED <<inventory, keys, identity, artifacts, stage>>
  BY <1>0 DEF planVars, options, assignment, workerVars
<1>5. CASE Foreign(p, a) \/ Unexpected(p, a)
  <2>1. bad'[p] = TRUE /\ merged'[p] = merged[p]
    BY <1>1, <1>5 DEF Collect, Blame
  <2>2. a.plan = p => ~ (a.worker \notin seen[p])
    BY <1>0, <1>5 DEF Published, Unexpected
  <2>3. ~ clean'[p]
    BY <1>2, <2>2
  <2> QED
    BY <1>3, <1>4, <2>1, <2>3 DEF ReportOK, Gathered
<1>6. CASE ~ Foreign(p, a) /\ ~ Unexpected(p, a) /\ ~ Sound(p, a)
  <2>1. bad'[p] = TRUE /\ merged'[p] = merged[p]
    BY <1>1, <1>6 DEF Collect, Blame
  <2>2. ~ (a.plan = p /\ a.complete)
    BY <1>0, <1>6 DEF Published
  <2>3. ~ clean'[p]
    BY <1>2, <2>2
  <2> QED
    BY <1>3, <1>4, <2>1, <2>3 DEF ReportOK, Gathered
<1>7. CASE ~ Foreign(p, a) /\ ~ Unexpected(p, a) /\ Sound(p, a)
  <2>1. /\ seen'[p] = seen[p] \cup {a.worker}
        /\ merged'[p] = [i \in Items |-> IF a.results[i] # None
                                         THEN a.results[i] ELSE merged[p][i]]
        /\ bad' = bad
    BY <1>1, <1>7 DEF Collect
  <2>2. /\ Measured(a.results) = keys[p][a.worker] /\ a.complete
        /\ a.worker \in Workers /\ a.worker \notin seen[p]
        /\ a.identity = identity[p]
    BY <1>0, <1>7 DEF Sound, Unexpected, Foreign, Artifacts
  <2>3. \A i \in Items : i \in keys[p][a.worker] <=> a.results[i] # None
    BY <2>2 DEF Measured
  <2>4. keys[p][a.worker] \subseteq inventory[p]
    BY <1>0, <2>2 DEF PlanInv, PlanOK, Disjoint, Given
  <2>5. \A i \in Items : merged'[p][i] # None => i \in inventory'[p]
    BY <1>4, <2>1, <2>3, <2>4 DEF ReportOK, Gathered
  <2>6. Witnessed(p, a.worker)'
    BY <1>1, <1>4, <2>1, <2>2, <2>3 DEF Witnessed
  <2>7. ASSUME NEW w \in seen[p], Witnessed(p, w)
        PROVE  Witnessed(p, w)'
    <3>1. w \in Workers /\ w # a.worker
      BY <1>1, <2>2
    <3>2. keys[p][w] \cap keys[p][a.worker] = {}
      BY <1>0, <2>2, <3>1 DEF PlanInv, PlanOK, Disjoint
    <3>3. \A i \in keys[p][w] : merged'[p][i] = merged[p][i]
      BY <1>1, <2>1, <2>3, <3>1, <3>2
    <3> QED
      BY <1>4, <2>7, <3>3 DEF Witnessed
  <2>8. ~ bad'[p] => \A w \in seen'[p] : Witnessed(p, w)'
    BY <2>1, <2>6, <2>7 DEF ReportOK, Gathered
  <2>9. clean'[p] => ~ bad'[p]
    BY <1>2, <2>1 DEF ReportOK, Gathered
  <2> QED
    BY <1>3, <2>5, <2>8, <2>9 DEF ReportOK, Gathered
<1> QED
  BY <1>5, <1>6, <1>7

LEMMA AggregateKeeps ==
  ASSUME TypeInv, PlanInv, WorkInv, NEW p \in Plans, ReportOK(p), Aggregate(p)
  PROVE  ReportOK(p)'
<1>0. UNCHANGED <<planVars, workerVars>>
  BY Frames
<1>1. UNCHANGED <<inventory, keys, identity, artifacts, stage, hit>>
  BY <1>0 DEF planVars, options, assignment, workerVars
<1>2. /\ bad \in [Plans -> BOOLEAN] /\ clean \in [Plans -> BOOLEAN]
      /\ report \in [Plans -> {None, "failed", "incomplete", "complete"}]
  BY DEF TypeInv, TypeOK
<1>3. ASSUME NEW a \in artifacts, Collect(p, a)
      PROVE  ReportOK(p)'
  BY <1>3, CollectKeeps
<1>4. CASE CollectGarbage(p)
  <2>1. /\ bad'[p] = TRUE /\ clean'[p] = FALSE
        /\ UNCHANGED <<seen, merged, report>>
        /\ report[p] = None /\ stage[p] = "planned"
    BY <1>2, <1>4 DEF CollectGarbage, Blame, Aggregating
  <2> QED
    BY <1>1, <2>1 DEF ReportOK, Timely, Gathered
<1>5. CASE Report(p)
  <2>1. /\ report'[p] = Status(p) /\ stage[p] = "planned"
        /\ UNCHANGED <<seen, merged, bad, clean>>
    BY <1>2, <1>5 DEF Report, Aggregating
  <2>2. Failed(p)' = Failed(p)
    BY <1>1, <2>1 DEF Failed, Pool, Misses, Missing, Result
  <2>3. Timely(p)'
    BY <1>1, <2>1, <2>2 DEF Timely, Status
  <2>4. Gathered(p)'
    BY <1>1, <2>1 DEF ReportOK, Gathered, Witnessed
  <2> QED
    BY <2>3, <2>4 DEF ReportOK
<1>6. CASE ReportFailure(p)
  <2>1. /\ report'[p] = "failed" /\ stage[p] \in {"failed", "rejected"}
        /\ UNCHANGED <<seen, merged, bad, clean>>
    BY <1>2, <1>6 DEF ReportFailure
  <2> QED
    BY <1>1, <2>1 DEF ReportOK, Timely, Gathered, Witnessed
<1> QED
  BY <1>3, <1>4, <1>5, <1>6 DEF Aggregate

\* An aggregation leaves the reports of other plans alone.
LEMMA OtherReports ==
  ASSUME TypeInv, NEW p \in Plans, NEW r \in Plans \ {p}, Aggregate(p)
  PROVE  /\ seen'[r] = seen[r] /\ merged'[r] = merged[r] /\ bad'[r] = bad[r]
         /\ report'[r] = report[r] /\ clean'[r] = clean[r]
BY DEF TypeInv, TypeOK, Aggregate, Collect, CollectGarbage, Report,
       ReportFailure, Blame

LEMMA ReportStep ==
  TypeInv /\ PlanInv /\ WorkInv /\ ReportInv /\ [Next]_vars => ReportInv'
<1> SUFFICES ASSUME TypeInv, PlanInv, WorkInv, ReportInv, [Next]_vars,
                    NEW r \in Plans
             PROVE  ReportOK(r)'
  BY DEF ReportInv
<1>0. /\ UNCHANGED <<inventory, identity>> /\ artifacts \subseteq artifacts'
      /\ Frozen(r) /\ ReportOK(r)
      /\ stage[r] \in {"failed", "rejected"} => stage'[r] \in {"failed", "rejected"}
  BY PlansFreeze DEF ReportInv
<1>1. CASE UNCHANGED reportVars
  BY <1>0, <1>1, ReportUntouched DEF reportVars
<1>2. ASSUME NEW p \in Plans, Aggregate(p)
      PROVE  ReportOK(r)'
  <2>1. CASE r = p
    BY <1>0, <1>2, <2>1, AggregateKeeps
  <2>2. CASE r # p
    BY <1>0, <1>2, <2>2, OtherReports, ReportUntouched
  <2> QED
    BY <2>1, <2>2
<1> QED
  BY <1>1, <1>2 DEF Next, vars

LEMMA ReportInvariant == Spec => [](TypeInv /\ PlanInv /\ ReportInv)
BY WorkInvariant, ReportInitially, ReportStep, PTL DEF Spec

(***************************************************************************)
(* For any number of plans, workers, artifacts and faults: a report that   *)
(* is not failed has a result for each file of the plan and for no other,  *)
(* and those of each worker are what one complete artifact of that worker  *)
(* and pipeline says.                                                      *)
(***************************************************************************)
THEOREM ReportCovers == Spec => []NothingUnmeasured
<1>1. ASSUME TypeInv, PlanInv, ReportInv PROVE NothingUnmeasured
  <2> SUFFICES ASSUME NEW p \in Plans,
                      report[p] \in {"complete", "incomplete"}
               PROVE  /\ {i \in Items : Result(p, i) # None} = inventory[p]
                      /\ \A w \in Pool(p) : Witnessed(p, w)
    BY DEF NothingUnmeasured, Witnessed
  <2>1. ~ Failed(p)
    BY <1>1, ReportAssumption DEF ReportInv, ReportOK, Timely
  <2>2. Missing(p) = {} /\ Pool(p) \subseteq seen[p] /\ ~ bad[p]
    BY <2>1 DEF Failed
  <2>3. \A i \in Items : Result(p, i) # None => i \in inventory[p]
    BY <1>1 DEF Result, ReportInv, ReportOK, Gathered, PlanInv, PlanOK, LookedUp,
                Hits
  <2>4. inventory[p] \subseteq Items
    BY <1>1 DEF TypeInv, TypeOK, PlanTypeOK
  <2> QED
    BY <1>1, <2>2, <2>3, <2>4 DEF Missing, ReportInv, ReportOK, Gathered
<1> QED
  BY ReportInvariant, <1>1, PTL

(***************************************************************************)
(* For any number of plans, workers and faults elsewhere: nothing but the  *)
(* complete artifacts of the plan's own workers, all of them, never makes  *)
(* a failed report.                                                        *)
(***************************************************************************)
THEOREM AlarmJustified == Spec => []NoFalseAlarm
<1>1. ASSUME TypeInv, PlanInv, ReportInv PROVE NoFalseAlarm
  <2> SUFFICES ASSUME NEW p \in Plans, stage[p] = "planned",
                      report[p] = "failed", clean[p], Pool(p) \subseteq seen[p]
               PROVE  FALSE
    BY DEF NoFalseAlarm
  <2>1. Failed(p) /\ ~ bad[p]
    BY <1>1, ReportAssumption DEF ReportInv, ReportOK, Timely,
                                     Gathered
  <2>2. PICK i \in inventory[p] : Result(p, i) = None
    BY <2>1 DEF Failed, Missing
  <2>3. i \in Items /\ i \notin Hits(p) /\ merged[p][i] = None
    BY <1>1, <2>2 DEF Result, Hits, TypeInv, TypeOK, PlanTypeOK
  <2>4. PICK w \in Workers : i \in keys[p][w]
    BY <1>1, <2>2, <2>3 DEF PlanInv, PlanOK, LookedUp, Disjoint, Given
  <2>5. w \in seen[p]
    BY <1>1, <2>4 DEF PlanInv, PlanOK, Dealt
  <2> QED
    BY <1>1, <2>1, <2>3, <2>4, <2>5
       DEF ReportInv, ReportOK, Gathered, Witnessed
<1> QED
  BY ReportInvariant, <1>1, PTL
=============================================================================
