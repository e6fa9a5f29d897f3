---------------------------- MODULE CompareWorker ----------------------------
(***************************************************************************)
(* compare worker (src/src/compare/worker.cc): each worker of a plan runs  *)
(* on a machine of its own or shares a GPU, scores its items one after     *)
(* another against a deadline, stores what it has and writes an artifact.  *)
(* It may be killed, hang, or be started again.                            *)
(***************************************************************************)
EXTENDS ComparePlan

CONSTANTS
  Identities,  \* of pipelines
  Hosted       \* plans whose workers run on one execution host, where they
               \* share a GPU

ASSUME HostedAssumption == Hosted \subseteq Plans

VARIABLES
  identity,   \* plan -> the pipeline it belongs to
  pc,         \* seat -> where its worker is
  machine,    \* seat -> the build and the model it runs with
  todo,       \* seat -> its unfinished items
  got,        \* seat -> item -> the result in its artifact
  err,        \* seat -> it has recorded an error
  late,       \* seat -> its deadline has passed
  item,       \* seat -> the item it works on
  content,    \* seat -> the bytes it read for it
  entropy,    \* seat -> the entropies it has for them
  lease,      \* the seat that holds the lock of the shared GPU
  artifacts   \* the worker-N.json files written so far

Seats == {s \in Plans \X Workers : s[2] < MaxWorkers[s[1]]}
Plan(s) == s[1]
Wanted(s) == fingerprint[Plan(s)]

fileVars == <<item, content, entropy>>
workerVars == <<identity, pc, machine, todo, got, err, late, item, content,
                entropy, lease, artifacts>>

NoResults == [i \in Items |-> None]

WorkerInit ==
  /\ identity \in [Plans -> Identities]
  /\ pc = [s \in Seats |-> "idle"]
  /\ machine = [s \in Seats |-> None]
  /\ todo = [s \in Seats |-> {}]
  /\ got = [s \in Seats |-> NoResults]
  /\ err = [s \in Seats |-> FALSE]
  /\ late = [s \in Seats |-> FALSE]
  /\ item = [s \in Seats |-> None]
  /\ content = [s \in Seats |-> None]
  /\ entropy = [s \in Seats |-> None]
  /\ lease = None
  /\ artifacts = {}

Working == {"deadline", "lease", "open", "file", "fetch", "share", "put",
            "write"}
Ended == {"done", "failed", "dead", "hung"}

GoTo(s, point) == pc' = [pc EXCEPT ![s] = point]
Released(s) == IF lease = s THEN None ELSE lease

\* Score returns or unwinds: the lease is let go before the artifact is
\* written, and an exception becomes an error in it.
Leave(s, failed) ==
  /\ GoTo(s, "write")
  /\ err' = [err EXCEPT ![s] = @ \/ failed]
  /\ lease' = Released(s)
  /\ item' = [item EXCEPT ![s] = None]
  /\ content' = [content EXCEPT ![s] = None]
  /\ entropy' = [entropy EXCEPT ![s] = None]

\* The file at hand is finished, or its error recorded.
NextFile(s, failed) ==
  /\ GoTo(s, "file")
  /\ err' = [err EXCEPT ![s] = @ \/ failed]
  /\ todo' = [todo EXCEPT ![s] = @ \ {item[s]}]
  /\ item' = [item EXCEPT ![s] = None]
  /\ content' = [content EXCEPT ![s] = None]
  /\ entropy' = [entropy EXCEPT ![s] = None]

ScorerMatches(s) == machine'[s].scorer = Wanted(s).scorer
ModelMatches(s) == machine[s].model = Wanted(s).model

\* RunWorker reads and validates the plan and compares its build with the
\* plan's.  A worker that failed or was killed may be started again; to start
\* one on a machine with another build or model is a fault.
Start(s) ==
  /\ stage[Plan(s)] = "planned"
  /\ s[2] \in Pool(Plan(s))
  /\ pc[s] \in {"idle", "failed", "dead"}
  /\ \E e \in Engines :
       /\ machine' = [machine EXCEPT ![s] = e]
       /\ IF e = Engine(Wanted(s)) THEN UNCHANGED faults ELSE Fault
  /\ todo' = [todo EXCEPT ![s] = keys[Plan(s)][s[2]]]
  /\ \/ /\ ScorerMatches(s)
        /\ GoTo(s, "deadline")
        /\ UNCHANGED err
     \/ /\ ~ ScorerMatches(s)
        /\ GoTo(s, "write")
        /\ err' = [err EXCEPT ![s] = TRUE]
  /\ UNCHANGED <<objects, entries, planVars, identity, got, late, fileVars,
                 lease, artifacts>>

\* An exhausted deadline is reported before the scorer is opened.
CheckDeadline(s) ==
  /\ pc[s] = "deadline"
  /\ \/ late[s] /\ Leave(s, TRUE)
     \/ /\ ~ late[s]
        /\ GoTo(s, IF Plan(s) \in Hosted THEN "lease" ELSE "open")
        /\ UNCHANGED <<err, lease, fileVars>>
  /\ UNCHANGED <<storeVars, planVars, identity, machine, todo, got, late,
                 artifacts>>

\* A slip that the checks notice: the wait for the lock has no deadline.
AcquireLeaseForEver(s) ==
  /\ pc[s] = "lease"
  /\ lease = None
  /\ lease' = s
  /\ GoTo(s, "open")
  /\ UNCHANGED <<storeVars, planVars, identity, machine, todo, got, err, late,
                 fileVars, artifacts>>

\* AcquireGpuLease waits for the lock, but not beyond the deadline.
AcquireLease(s) ==
  /\ pc[s] = "lease"
  /\ \/ lease = None /\ lease' = s /\ GoTo(s, "open")
                     /\ UNCHANGED <<err, fileVars>>
     \/ lease # None /\ late[s] /\ Leave(s, TRUE)
  /\ UNCHANGED <<storeVars, planVars, identity, machine, todo, got, late,
                 artifacts>>

GrantedLate(s) == lease = s /\ late[s]

\* A lock granted late is of no use.  Then the session is opened and its
\* model's digest compared with the plan's.
OpenSession(s) ==
  /\ pc[s] = "open"
  /\ \/ (GrantedLate(s) \/ ~ ModelMatches(s)) /\ Leave(s, TRUE)
     \/ /\ ~ GrantedLate(s) /\ ModelMatches(s)
        /\ GoTo(s, "file")
        /\ UNCHANGED <<err, lease, fileVars>>
  /\ UNCHANGED <<storeVars, planVars, identity, machine, todo, got, late,
                 artifacts>>

\* The host is not the declared one, its lock file cannot be opened, or the
\* session cannot.
OpenFails(s) ==
  /\ pc[s] \in {"lease", "open"}
  /\ GetFails
  /\ Leave(s, TRUE)
  /\ UNCHANGED <<planVars, identity, machine, todo, got, late, artifacts>>

\* A slip that the checks notice: only that the file exists is checked.
VerifiedToExist(s, i) == blobs[Plan(s)][i] # None

\* ReadVerifiedBlob: the bytes hash to the blob's id.
Verified(s, i) == blobs[Plan(s)][i] = i

\* The head of the loop over the keys: the deadline, then the next file.
ReadBlob(s) ==
  /\ pc[s] = "file"
  /\ \/ todo[s] = {} /\ Leave(s, FALSE) /\ UNCHANGED todo
     \/ todo[s] # {} /\ late[s] /\ Leave(s, TRUE) /\ UNCHANGED todo
     \/ \E i \in todo[s] :
          /\ ~ late[s]
          /\ First(todo[s], i)
          /\ \/ /\ Verified(s, i)
                /\ GoTo(s, "fetch")
                /\ item' = [item EXCEPT ![s] = i]
                /\ content' = [content EXCEPT ![s] = blobs[Plan(s)][i]]
                /\ UNCHANGED <<todo, err, entropy>>
             \/ /\ ~ Verified(s, i)
                /\ err' = [err EXCEPT ![s] = TRUE]
                /\ todo' = [todo EXCEPT ![s] = @ \ {i}]
                /\ UNCHANGED <<pc, fileVars>>
          /\ UNCHANGED lease
  /\ UNCHANGED <<storeVars, planVars, identity, machine, got, late,
                 artifacts>>

\* The name of an entropy entry: the plan's scorer, the session's model and
\* the bytes to score.
EntryKey(s) ==
  <<[scorer |-> Wanted(s).scorer, model |-> machine[s].model], content[s]>>

\* StoreEntropyTier::Fetch; a miss is scored.  A file without anything to
\* score is neither looked up nor shared.
Fetch(s) ==
  LET entry == entries[EntryKey(s)]
      scored == [of |-> content[s], by |-> machine[s]]
  IN  /\ pc[s] = "fetch"
      /\ \/ /\ entropy' = [entropy EXCEPT ![s] = scored]
            /\ GoTo(s, "put")
         \/ /\ Size[item[s]] # 0
            /\ Usable(entry)
            /\ entropy' = [entropy EXCEPT ![s] = entry]
            /\ GoTo(s, "put")
         \/ /\ Size[item[s]] # 0
            /\ ~ Usable(entry)
            /\ entropy' = [entropy EXCEPT ![s] = scored]
            /\ GoTo(s, "share")
      /\ UNCHANGED <<storeVars, planVars, identity, machine, todo, got, err,
                     late, item, content, lease, artifacts>>

\* A store error, or a scorer that cannot be created or loses its GPU, ends
\* the worker.
FetchAborts(s) ==
  /\ pc[s] = "fetch"
  /\ GetFails
  /\ Leave(s, TRUE)
  /\ UNCHANGED <<planVars, identity, machine, todo, got, late, artifacts>>

\* Any other exception fails this file alone.
FileFails(s) ==
  /\ pc[s] = "fetch"
  /\ GetFails
  /\ NextFile(s, TRUE)
  /\ UNCHANGED <<planVars, identity, machine, got, late, lease, artifacts>>

\* StoreEntropyTier::Store, unless the records cannot be encoded.
Share(s) ==
  /\ pc[s] = "share"
  /\ \/ /\ PutEntry(EntryKey(s), entropy[s]) \/ UNCHANGED storeVars
        /\ GoTo(s, "put")
        /\ UNCHANGED <<err, lease, fileVars>>
     \/ /\ PutEntryFails(EntryKey(s), entropy[s])
        /\ Leave(s, TRUE)
  /\ UNCHANGED <<planVars, identity, machine, todo, got, late, artifacts>>

\* ResultRecord and ResultCache::Put, then results[key].
Put(s) ==
  LET k == Key(Plan(s), item[s])
  IN  /\ pc[s] = "put"
      /\ \/ /\ PutObject(k, entropy[s])
            /\ got' = [got EXCEPT ![s][item[s]] = entropy[s]]
            /\ NextFile(s, FALSE)
            /\ UNCHANGED lease
         \/ /\ PutObjectFails(k, entropy[s])
            /\ Leave(s, TRUE)
            /\ UNCHANGED <<got, todo>>
      /\ UNCHANGED <<planVars, identity, machine, late, artifacts>>

\* The process is no more, and what it kept in memory neither.
Gone(s) ==
  /\ machine' = [machine EXCEPT ![s] = None]
  /\ todo' = [todo EXCEPT ![s] = {}]
  /\ got' = [got EXCEPT ![s] = NoResults]
  /\ err' = [err EXCEPT ![s] = FALSE]
  /\ late' = [late EXCEPT ![s] = FALSE]
  /\ item' = [item EXCEPT ![s] = None]
  /\ content' = [content EXCEPT ![s] = None]
  /\ entropy' = [entropy EXCEPT ![s] = None]

Measured(results) == {i \in Items : results[i] # None}

\* The status of the artifact.
Complete(s) ==
  /\ ~ err[s]
  /\ keys[Plan(s)][s[2]] # {}
  /\ Cardinality(Measured(got[s])) = Cardinality(keys[Plan(s)][s[2]])

Write(s) ==
  /\ pc[s] = "write"
  /\ artifacts' = artifacts \cup
       {[plan |-> Plan(s), worker |-> s[2], identity |-> identity[Plan(s)],
         fingerprint |-> Wanted(s), complete |-> Complete(s),
         errors |-> err[s], results |-> got[s]]}
  /\ GoTo(s, IF Complete(s) THEN "done" ELSE "failed")
  /\ Gone(s)
  /\ UNCHANGED <<storeVars, planVars, identity, lease>>

\* The worker's process is killed, or cannot write its artifact; the kernel
\* drops its lock.
Kill(s) ==
  /\ pc[s] \in Working
  /\ Fault
  /\ GoTo(s, "dead")
  /\ Gone(s)
  /\ lease' = Released(s)
  /\ UNCHANGED <<objects, entries, planVars, identity, artifacts>>

\* The worker stops for ever, in a driver or in the network, with its lock.
Hang(s) ==
  /\ pc[s] \in Working
  /\ Fault
  /\ GoTo(s, "hung")
  /\ UNCHANGED <<objects, entries, planVars, identity, machine, todo, got,
                 err, late, fileVars, lease, artifacts>>

\* Time passes beyond the deadline.  The worker looks at its clock at these
\* points only; what passes elsewhere it sees at the next one.
Expire(s) ==
  /\ pc[s] \in {"deadline", "lease", "open", "file"}
  /\ ~ late[s]
  /\ late' = [late EXCEPT ![s] = TRUE]
  /\ UNCHANGED <<storeVars, planVars, identity, pc, machine, todo, got, err,
                 fileVars, lease, artifacts>>

\* A blob is lost or damaged on its way to the workers.
Damage(p, i) ==
  /\ stage[p] = "planned"
  /\ blobs[p][i] = i
  /\ Fault
  /\ blobs' = [blobs EXCEPT ![p][i] = Damaged]
  /\ UNCHANGED <<objects, entries, options, stage, looked, hit,
                 refreshing, assignment, workerVars>>

\* The worker's own steps.
Run(s) ==
  \/ CheckDeadline(s) \/ AcquireLease(s) \/ OpenSession(s) \/ OpenFails(s)
  \/ ReadBlob(s) \/ Fetch(s) \/ FetchAborts(s) \/ FileFails(s)
  \/ Share(s) \/ Put(s) \/ Write(s)

WorkerNext ==
  \/ \E s \in Seats : Start(s) \/ Run(s) \/ Kill(s) \/ Hang(s) \/ Expire(s)
  \/ \E p \in Plans, i \in Items : Damage(p, i)

Artifacts ==
  [plan : Plans, worker : Workers, identity : Identities,
   fingerprint : Fingerprints, complete : BOOLEAN, errors : BOOLEAN,
   results : [Items -> Measurements \cup {None}]]

WorkerTypeOK ==
  /\ identity \in [Plans -> Identities]
  /\ pc \in [Seats -> Working \cup Ended \cup {"idle"}]
  /\ machine \in [Seats -> Engines \cup {None}]
  /\ todo \in [Seats -> SUBSET Items]
  /\ got \in [Seats -> [Items -> Measurements \cup {None}]]
  /\ err \in [Seats -> BOOLEAN]
  /\ late \in [Seats -> BOOLEAN]
  /\ item \in [Seats -> Items \cup {None}]
  /\ content \in [Seats -> Contents \cup {None}]
  /\ entropy \in [Seats -> Measurements \cup {None}]
  /\ lease \in Seats \cup {None}
  /\ \A a \in artifacts : a \in Artifacts
=============================================================================
