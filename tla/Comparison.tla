----------------------------- MODULE Comparison -----------------------------
(***************************************************************************)
(* compare aggregate (src/src/compare/aggregate.cc) on top of plans and    *)
(* workers: the whole of a comparison in CI.  A coordinator hands the      *)
(* aggregation whatever artifacts it has, in any order, also several of    *)
(* one worker, those of other pipelines and files that are none, and asks  *)
(* for the report whenever it likes.                                       *)
(***************************************************************************)
EXTENDS CompareWorker

CONSTANT Oversized  \* plans with a supported file too large to be scored

ASSUME OversizedAssumption == Oversized \subseteq Plans
ASSUME ReportAssumption == None \notin {"failed", "incomplete", "complete"}

VARIABLES
  seen,    \* plan -> the workers whose artifact was taken
  merged,  \* plan -> item -> the result taken from a worker
  bad,     \* plan -> the report has errors
  report,  \* plan -> the status of its report
  clean    \* plan -> nothing but new, complete artifacts of its own workers
           \* was handed in (not kept by the code)

reportVars == <<seen, merged, bad, report, clean>>
vars == <<storeVars, planVars, workerVars, reportVars>>

Init ==
  /\ StoreInit /\ PlanInit /\ WorkerInit
  /\ seen = [p \in Plans |-> {}]
  /\ merged = [p \in Plans |-> NoResults]
  /\ bad = [p \in Plans |-> FALSE]
  /\ report = [p \in Plans |-> None]
  /\ clean = [p \in Plans |-> TRUE]

\* Aggregation runs once no worker of the plan does any more, or those that
\* do have been given up.
Aggregating(p) ==
  /\ stage[p] = "planned"
  /\ report[p] = None
  /\ \A s \in Seats : Plan(s) = p => pc[s] \notin Working

Foreign(p, a) ==
  a.identity # identity[p] \/ a.fingerprint # fingerprint[p]

Unexpected(p, a) == a.worker \notin Pool(p) \/ a.worker \in seen[p]

\* A slip that the checks notice: the results are expected to cover all
\* misses.
SoundForAll(p, a) ==
  /\ Measured(a.results) = Misses(p)
  /\ a.complete
  /\ ~ a.errors

\* The results cover the assignment and the worker reported no error.
Sound(p, a) ==
  /\ Measured(a.results) = keys[p][a.worker]
  /\ a.complete
  /\ ~ a.errors

Blame(p) == bad' = [bad EXCEPT ![p] = TRUE]

\* CollectWorkers turns to the next artifact.
Collect(p, a) ==
  /\ Aggregating(p)
  /\ clean' = [clean EXCEPT
                 ![p] = @ /\ a.plan = p /\ a.complete
                          /\ a.worker \notin seen[p]]
  /\ \/ /\ Foreign(p, a) \/ Unexpected(p, a)
        /\ Blame(p)
        /\ UNCHANGED <<seen, merged>>
     \/ /\ ~ Foreign(p, a) /\ ~ Unexpected(p, a)
        /\ seen' = [seen EXCEPT ![p] = @ \cup {a.worker}]
        /\ \/ ~ Sound(p, a) /\ Blame(p) /\ UNCHANGED merged
           \/ /\ Sound(p, a)
              /\ merged' = [merged EXCEPT
                   ![p] = [i \in Items |-> IF a.results[i] # None
                                           THEN a.results[i] ELSE @[i]]]
              /\ UNCHANGED bad
  /\ UNCHANGED <<storeVars, planVars, workerVars, report>>

\* ... or to a file that cannot be read or is malformed.
CollectGarbage(p) ==
  /\ Aggregating(p)
  /\ Fault
  /\ Blame(p)
  /\ clean' = [clean EXCEPT ![p] = FALSE]
  /\ UNCHANGED <<objects, entries, planVars, workerVars, seen, merged,
                 report>>

\* What the report says of item i: the hits, then the workers' results.
Result(p, i) == IF merged[p][i] # None THEN merged[p][i] ELSE hit[p][i]
Missing(p) == {i \in inventory[p] : Result(p, i) = None}
Failed(p) == bad[p] \/ ~ (Pool(p) \subseteq seen[p]) \/ Missing(p) # {}

\* A slip that the checks notice: coverage is looked at before errors.
StatusByCoverage(p) ==
  IF p \in Oversized THEN "incomplete"
  ELSE IF Failed(p) THEN "failed" ELSE "complete"

Status(p) ==
  IF Failed(p) THEN "failed"
  ELSE IF p \in Oversized THEN "incomplete" ELSE "complete"

Report(p) ==
  /\ Aggregating(p)
  /\ report' = [report EXCEPT ![p] = Status(p)]
  /\ UNCHANGED <<storeVars, planVars, workerVars, seen, merged, bad, clean>>

\* There is no plan to aggregate.
ReportFailure(p) ==
  /\ stage[p] \in {"failed", "rejected"}
  /\ report[p] = None
  /\ report' = [report EXCEPT ![p] = "failed"]
  /\ UNCHANGED <<storeVars, planVars, workerVars, seen, merged, bad, clean>>

Aggregate(p) ==
  \/ \E a \in artifacts : Collect(p, a)
  \/ CollectGarbage(p) \/ Report(p) \/ ReportFailure(p)

Next ==
  \/ PlanNext /\ UNCHANGED <<workerVars, reportVars>>
  \/ WorkerNext /\ UNCHANGED reportVars
  \/ Disturb /\ UNCHANGED <<planVars, workerVars, reportVars>>
  \/ \E p \in Plans : Aggregate(p)

Spec == Init /\ [][Next]_vars

\* Workers run unless they are killed or hang, and time passes.
FairSpec ==
  /\ Spec
  /\ \A s \in Seats :
       /\ WF_vars(Run(s) /\ UNCHANGED reportVars)
       /\ WF_vars(Expire(s) /\ UNCHANGED reportVars)

-----------------------------------------------------------------------------
TypeOK ==
  /\ StoreTypeOK /\ PlanTypeOK /\ WorkerTypeOK
  /\ seen \in [Plans -> SUBSET Workers]
  /\ merged \in [Plans -> [Items -> Measurements \cup {None}]]
  /\ bad \in [Plans -> BOOLEAN]
  /\ report \in [Plans -> {None, "failed", "incomplete", "complete"}]
  /\ clean \in [Plans -> BOOLEAN]

IsTrue(r, i, f) == r.of = i /\ r.by = Engine(f)

(***************************************************************************)
(* Every result that a report or a later plan would use was computed from  *)
(* the bytes its key names by the scorer and the model of its fingerprint: *)
(* in the store, in the entropies shared by several fingerprints, in       *)
(* plans, artifacts and reports, whatever machines, blobs and objects were *)
(* handed to prepare, workers and aggregation.                             *)
(***************************************************************************)
ResultsTrue ==
  /\ \A i \in Items, f \in Fingerprints :
       Usable(objects[<<i, f>>]) => IsTrue(objects[<<i, f>>], i, f)
  /\ \A e \in Engines, c \in Contents :
       Usable(entries[<<e, c>>]) => entries[<<e, c>>] = [of |-> c, by |-> e]
  /\ \A a \in artifacts, i \in Items :
       a.results[i] # None => IsTrue(a.results[i], i, a.fingerprint)
  /\ \A p \in Plans, i \in Items :
       Result(p, i) # None => IsTrue(Result(p, i), i, fingerprint[p])

(***************************************************************************)
(* A report that is not failed measures exactly the files of both          *)
(* revisions: each by the cache or by the one worker that had it.  A dead, *)
(* late or foreign worker, a lost artifact or a failed file cannot go      *)
(* unnoticed.                                                              *)
(***************************************************************************)
NothingUnmeasured ==
  \A p \in Plans : report[p] \in {"complete", "incomplete"} =>
    /\ {i \in Items : Result(p, i) # None} = inventory[p]
    /\ \A w \in Pool(p) : \E a \in artifacts :
         /\ a.worker = w /\ a.complete /\ a.identity = identity[p]
         /\ \A i \in keys[p][w] : a.results[i] = merged[p][i]

(***************************************************************************)
(* The aggregation raises no false alarm: when every worker of the plan    *)
(* has handed in its complete artifact, and nothing else was handed in,    *)
(* the report is not failed.                                               *)
(***************************************************************************)
NoFalseAlarm ==
  \A p \in Plans :
    stage[p] = "planned" /\ report[p] = "failed"
      => ~ clean[p] \/ ~ (Pool(p) \subseteq seen[p])

(***************************************************************************)
(* A worker that has been started ends, with an artifact or killed, even   *)
(* if another one hangs while it holds the GPU: the deadline also ends the *)
(* wait for the lease.                                                     *)
(***************************************************************************)
WorkersEnd ==
  \A s \in Seats : (pc[s] \in Working) ~> (pc[s] \in Ended)
=============================================================================
