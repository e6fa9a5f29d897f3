---------------------------- MODULE HostReduction ----------------------------
(***************************************************************************)
(* HostReductionPool of src/src/score_cmd.cc: threads that outlive a batch *)
(* reduce its rows of logits together with the thread that scores, and     *)
(* sleep in between.  The batch is described by spans into the caller's    *)
(* vectors, which are gone once the call has returned.                     *)
(***************************************************************************)
EXTENDS Naturals, FiniteSets

CONSTANTS
  Helpers,     \* the threads of the pool
  Scorer,      \* the thread that owns it and calls Reduce
  MaxRows,     \* bound: rows of a batch
  MaxBatches   \* bound: batches

VARIABLES
  created,     \* the threads started so far
  spans,       \* how many rows the spans describe, 0 when they are cleared
  asked,       \* rows of the caller's vectors
  unsound,     \* those of them whose logits ScoreToken refuses
  scores,      \* those that have their score
  generation, workersPending, nextRow, workerError, stopping,
  at,          \* thread -> where it is
  row,         \* thread -> the row it took last
  observed,    \* thread -> the generation it saw last
  returned     \* how the last call of Reduce ended

batch == <<spans, asked, unsound, scores>>
vars == <<created, batch, generation, workersPending, nextRow, workerError,
          stopping, at, row, observed, returned>>

Threads == Helpers \cup {Scorer}
Rows == 0..(asked - 1)

Move(t, here, there) == at[t] = here /\ at' = [at EXCEPT ![t] = there]

Init ==
  /\ created = {}
  /\ spans = 0 /\ asked = 0 /\ unsound = {} /\ scores = {}
  /\ generation = 0 /\ workersPending = 0 /\ nextRow = 0
  /\ workerError = FALSE /\ stopping = FALSE
  /\ at = [t \in Threads |-> IF t = Scorer THEN "create" ELSE "none"]
  /\ row = [t \in Threads |-> 0]
  /\ observed = [t \in Helpers |-> 0]
  /\ returned = "none"

-----------------------------------------------------------------------------
\* The constructor; starting a thread may fail, and those that run are
\* stopped then.
Create(h) ==
  /\ at[Scorer] = "create"
  /\ h \in Helpers \ created
  /\ created' = created \cup {h}
  /\ at' = [at EXCEPT ![h] = "look"]
  /\ UNCHANGED <<batch, generation, workersPending, nextRow, workerError,
                 stopping, row, observed, returned>>

Constructed ==
  /\ created = Helpers
  /\ Move(Scorer, "create", "idle")
  /\ UNCHANGED <<created, batch, generation, workersPending, nextRow,
                 workerError, stopping, row, observed, returned>>

ConstructorThrows ==
  /\ created # Helpers
  /\ Move(Scorer, "create", "stop")
  /\ UNCHANGED <<created, batch, generation, workersPending, nextRow,
                 workerError, stopping, row, observed, returned>>

\* A waiter looks at its condition with the mutex held, and sleeps until a
\* notification when it does not hold.
Wake(waiters) == [t \in Threads |-> IF t \in waiters /\ at[t] = "asleep"
                                    THEN "look" ELSE at[t]]

Submit ==
  /\ generation < MaxBatches
  /\ Move(Scorer, "idle", "notify")
  /\ \E n \in 1..MaxRows : \E bad \in SUBSET (0..(n - 1)) :
       spans' = n /\ asked' = n /\ unsound' = bad
  /\ scores' = {}
  /\ workerError' = FALSE
  /\ workersPending' = Cardinality(created)
  /\ nextRow' = 0
  /\ generation' = generation + 1
  /\ UNCHANGED <<created, stopping, row, observed, returned>>

\* task_ready_.notify_all(), after the mutex was let go.
TasksReady ==
  /\ at[Scorer] \in {"notify", "notifyStop"}
  /\ at' = [Wake(Helpers) EXCEPT
              ![Scorer] = IF at[Scorer] = "notify" THEN "take" ELSE "join"]
  /\ UNCHANGED <<created, batch, generation, workersPending, nextRow,
                 workerError, stopping, row, observed, returned>>

\* WorkerLoop's wait.
Look(h) ==
  /\ IF stopping
       THEN Move(h, "look", "exited") /\ UNCHANGED observed
       ELSE IF generation # observed[h]
              THEN /\ Move(h, "look", "take")
                   /\ observed' = [observed EXCEPT ![h] = generation]
              ELSE Move(h, "look", "asleep") /\ UNCHANGED observed
  /\ UNCHANGED <<created, batch, generation, workersPending, nextRow,
                 workerError, stopping, row, returned>>

\* ReduceRows, by a helper or by the scorer.
Take(t) ==
  /\ Move(t, "take", "row")
  /\ row' = [row EXCEPT ![t] = nextRow]
  /\ nextRow' = nextRow + 1
  /\ UNCHANGED <<created, batch, generation, workersPending, workerError,
                 stopping, observed, returned>>

NoMoreRows(t) ==
  /\ row[t] >= spans
  /\ Move(t, "row", IF t = Scorer THEN "await" ELSE "finish")
  /\ UNCHANGED <<created, batch, generation, workersPending, nextRow,
                 workerError, stopping, row, observed, returned>>

RowInRange(t) ==
  /\ row[t] < spans
  /\ Move(t, "row", "score")
  /\ UNCHANGED <<created, batch, generation, workersPending, nextRow,
                 workerError, stopping, row, observed, returned>>

ScoreToken(t) ==
  /\ row[t] \notin unsound
  /\ Move(t, "score", "take")
  /\ scores' = scores \cup {row[t]}
  /\ UNCHANGED <<created, spans, asked, unsound, generation, workersPending,
                 nextRow, workerError, stopping, row, observed, returned>>

ScoreTokenThrows(t) ==
  /\ row[t] \in unsound
  /\ Move(t, "score", IF t = Scorer THEN "await" ELSE "finish")
  /\ workerError' = TRUE
  /\ UNCHANGED <<created, batch, generation, workersPending, nextRow, stopping,
                 row, observed, returned>>

\* The last helper notifies the scorer, with the mutex held.
Finish(h) ==
  /\ at[h] = "finish"
  /\ workersPending' = workersPending - 1
  /\ at' = [IF workersPending = 1 THEN Wake({Scorer}) ELSE at
              EXCEPT ![h] = "look"]
  /\ UNCHANGED <<created, batch, generation, nextRow, workerError, stopping,
                 row, observed, returned>>

\* A slip that the checks notice: all rows are taken, not all are scored.
RowsTaken == nextRow >= spans
HelpersDone == workersPending = 0

Sleep ==
  /\ ~HelpersDone
  /\ at[Scorer] \in {"await", "look"}
  /\ at' = [at EXCEPT ![Scorer] = "asleep"]
  /\ UNCHANGED <<created, batch, generation, workersPending, nextRow,
                 workerError, stopping, row, observed, returned>>

Return ==
  /\ at[Scorer] \in {"await", "look"}
  /\ HelpersDone
  /\ at' = [at EXCEPT ![Scorer] = "idle"]
  /\ returned' = IF workerError THEN "threw" ELSE "normally"
  /\ spans' = 0
  /\ UNCHANGED <<created, asked, unsound, scores, generation, workersPending,
                 nextRow, workerError, stopping, row, observed>>

\* ~HostReductionPool, or what is left of the constructor.
StopWorkers ==
  /\ at[Scorer] \in {"idle", "stop"}
  /\ at' = [at EXCEPT ![Scorer] = "notifyStop"]
  /\ stopping' = TRUE
  /\ UNCHANGED <<created, batch, generation, workersPending, nextRow,
                 workerError, row, observed, returned>>

Joined ==
  /\ \A h \in created : at[h] = "exited"
  /\ Move(Scorer, "join", "gone")
  /\ UNCHANGED <<created, batch, generation, workersPending, nextRow,
                 workerError, stopping, row, observed, returned>>

ReduceRows(t) == Take(t) \/ NoMoreRows(t) \/ RowInRange(t) \/ ScoreToken(t)
             \/ ScoreTokenThrows(t)
WorkerLoop(h) == Look(h) \/ ReduceRows(h) \/ Finish(h)
Owner ==
  \/ \E h \in Helpers : Create(h)
  \/ Constructed \/ ConstructorThrows \/ Submit \/ TasksReady
  \/ ReduceRows(Scorer) \/ Sleep \/ Return \/ StopWorkers \/ Joined

Next == Owner \/ \E h \in Helpers : WorkerLoop(h)

Spec == Init /\ [][Next]_vars

\* Threads run; the owner gets on with the call, or the clean-up, it is in.
Busy == at[Scorer] \notin {"create", "idle"} /\ Owner
Fairness == WF_vars(Busy) /\ \A h \in Helpers : WF_vars(WorkerLoop(h))

-----------------------------------------------------------------------------
(***************************************************************************)
(* The rows of a batch are dealt out without a lock: each goes to one      *)
(* thread, none is touched before the batch is announced or after Reduce   *)
(* has returned and the caller's vectors may be gone, and Reduce returns   *)
(* normally only with all scores and throws only for a row that threw      *)
(* (score_cmd.cc:947-976, 1018-1035).                                      *)
(***************************************************************************)
RowsScored ==
  /\ \A t \in Threads : at[t] = "score" =>
       /\ row[t] \in Rows \ scores
       /\ at[Scorer] \in {"take", "row", "score", "await", "asleep", "look",
                         "notify"}
       /\ \A u \in Threads \ {t} : at[u] = "score" => row[u] # row[t]
  /\ returned = "normally" /\ at[Scorer] = "idle" => scores = Rows
  /\ returned = "threw" /\ at[Scorer] = "idle" => unsound # {}

\* What must not last: neither a call of Reduce nor the destructor waits for ever, whichever rows
\* throw and whenever the helpers fall asleep (score_cmd.cc:965, 985).
Waiting == at[Scorer] \notin {"create", "idle", "gone"}
=============================================================================
