------------------------------ MODULE Analyzer ------------------------------
(***************************************************************************)
(* Processes that run `llm-cc analyze` on the same tree: RunAnalyze of     *)
(* src/src/cli/main.cc goes through the files, ProjectAnalyzer of          *)
(* src/src/analyze.cc looks each one up in the entropy cache and creates   *)
(* the scorer when the first one is missing, and the scorer of             *)
(* src/src/score_cmd.cc holds the inference lock of its GPU as long as it  *)
(* lives.                                                                  *)
(***************************************************************************)
EXTENDS Naturals, Sequences, FiniteSets

CONSTANTS
  Procs,     \* the processes
  Nobody,    \* no holder of the inference lock
  MaxFiles,  \* bound: files of the tree
  MaxKills   \* bound: processes killed

\* What a file turns out to be: to be scored, without any code, above the size
\* limit when it is looked at, or gone or too large when it is read.
Kinds == {"text", "blank", "oversize", "broken"}

VARIABLES
  files,     \* discovery.sources, the kind of each
  backend,   \* process -> "cpu" or "gpu"
  caching,   \* process -> ProjectAnalysisOptions::cache
  cached,    \* <<backend, file>>: entries of the entropy cache
  known,     \* process -> cached when it started (auxiliary)
  holder,    \* who has the inference lock of the GPU
  device,    \* the processes that have a model on the GPU
  pc,        \* process -> where it is
  provider,  \* process -> provider_ and initialization_error_
  events,    \* process -> how each file so far ended
  totals,    \* process -> it has written its totals
  status,    \* process -> its exit status
  kills

analyzerVars == <<files, backend, caching, cached, known, holder, device, pc,
                  provider, events, totals, status, kills>>
inputs == <<files, backend, caching>>
gpuState == <<holder, device>>
result == <<totals, status>>

Outcomes == {"scored", "hit", "blank", "failed", "fatal"}

Init ==
  /\ files \in UNION {[1..n -> Kinds] : n \in 0..MaxFiles}
  /\ backend \in [Procs -> {"cpu", "gpu"}]
  /\ caching \in [Procs -> BOOLEAN]
  /\ cached = {} /\ known = [p \in Procs |-> {}]
  /\ holder = Nobody /\ device = {}
  /\ pc = [p \in Procs |-> "idle"]
  /\ provider = [p \in Procs |-> "none"]
  /\ events = [p \in Procs |-> <<>>]
  /\ totals = [p \in Procs |-> FALSE]
  /\ status = [p \in Procs |-> "none"]
  /\ kills = 0

Goto(p, place) == pc' = [pc EXCEPT ![p] = place]
File(p) == Len(events[p]) + 1
Entry(p) == <<backend[p], File(p)>>

\* progress.FinishFile or FailFile, and the event of the file.
Ends(p, outcome) ==
  /\ events' = [events EXCEPT ![p] = Append(@, outcome)]
  /\ Goto(p, "next")

\* An exception that leaves RunAnalyze: the scorer is destroyed, and Main
\* returns 2.
Leave(p) ==
  /\ Goto(p, "unload")
  /\ status' = [status EXCEPT ![p] = "2"]
  /\ UNCHANGED totals

-----------------------------------------------------------------------------
\* RunAnalyze until the first file.
DiscoverFails(p) ==
  /\ pc[p] = "idle"
  /\ Leave(p)
  /\ UNCHANGED <<inputs, cached, known, gpuState, provider, events, kills>>

Refused == \A i \in DOMAIN files : files[i] = "oversize"

\* Nothing was discovered, or every file is refused: no model is needed.
Preflight(p) ==
  /\ pc[p] = "idle" /\ Refused
  /\ events' = [events EXCEPT ![p] = [i \in DOMAIN files |-> "failed"]]
  /\ totals' = [totals EXCEPT ![p] = TRUE]
  /\ status' = [status EXCEPT ![p] = IF files = <<>> THEN "0" ELSE "1"]
  /\ Goto(p, "unload")
  /\ UNCHANGED <<inputs, cached, known, gpuState, provider, kills>>

\* A backend, the model and its identity; not the scorer.
OpenScorerSession(p) ==
  /\ pc[p] = "idle" /\ ~Refused
  /\ known' = [known EXCEPT ![p] = cached]
  /\ Goto(p, "next")
  /\ UNCHANGED <<inputs, cached, gpuState, provider, events, result, kills>>

OpenScorerSessionFails(p) ==
  /\ pc[p] = "idle" /\ ~Refused
  /\ Leave(p)
  /\ UNCHANGED <<inputs, cached, known, gpuState, provider, events, kills>>

-----------------------------------------------------------------------------
\* One file.
Unscored(p) ==
  /\ pc[p] = "next" /\ File(p) \in DOMAIN files
  /\ files[File(p)] # "text"
  /\ Ends(p, IF files[File(p)] = "blank" THEN "blank" ELSE "failed")
  /\ UNCHANGED <<inputs, cached, known, gpuState, provider, result, kills>>

\* A slip that the checks notice: after a fatal error nothing is looked up.
HitUntilFatal(p) ==
  caching[p] /\ Entry(p) \in cached /\ provider[p] # "broken"

Hit(p) == caching[p] /\ Entry(p) \in cached

\* ReadRecords and Provider: a scorer that could not be created is not tried
\* again.
ReadRecords(p) ==
  /\ pc[p] = "next" /\ File(p) \in DOMAIN files
  /\ files[File(p)] = "text"
  /\ \/ Hit(p) /\ Ends(p, "hit")
     \/ ~Hit(p) /\ provider[p] = "broken" /\ Ends(p, "fatal")
     \/ ~Hit(p) /\ provider[p] = "loaded" /\ Goto(p, "score") /\ UNCHANGED events
     \/ ~Hit(p) /\ provider[p] = "none" /\ Goto(p, "create") /\ UNCHANGED events
  /\ UNCHANGED <<inputs, cached, known, gpuState, provider, result, kills>>

\* The factory throws GpuRecoverableError, which ends the run, or another
\* exception, which is remembered.
Recoverable(p) ==
  /\ backend[p] = "gpu"
  /\ events' = events /\ provider' = provider
  /\ Leave(p)

Remembered(p) ==
  /\ provider' = [provider EXCEPT ![p] = "broken"]
  /\ Ends(p, "fatal") /\ UNCHANGED result

\* CreateBackendRuntime: with a GPU every failure is recoverable.
CreateBackendRuntime(p) ==
  /\ pc[p] = "create"
  /\ Goto(p, IF backend[p] = "cpu" THEN "load" ELSE "lock")
  /\ UNCHANGED <<inputs, cached, known, gpuState, provider, events, result, kills>>

CreateBackendRuntimeFails(p) ==
  /\ pc[p] = "create"
  /\ Recoverable(p) \/ (backend[p] = "cpu" /\ Remembered(p))
  /\ UNCHANGED <<inputs, cached, known, gpuState, kills>>

\* InferenceGuard: at once if the lock is free, else by waiting for it.
TryLock(p) ==
  /\ pc[p] = "lock"
  /\ IF holder = Nobody
       THEN holder' = p /\ Goto(p, "load")
       ELSE Goto(p, "wait") /\ UNCHANGED holder
  /\ UNCHANGED <<inputs, cached, known, device, provider, events, result, kills>>

WaitForLock(p) ==
  /\ pc[p] = "wait" /\ holder = Nobody
  /\ holder' = p /\ Goto(p, "load")
  /\ UNCHANGED <<inputs, cached, known, device, provider, events, result, kills>>

LockFails(p) ==
  /\ pc[p] \in {"lock", "wait"}
  /\ Remembered(p)
  /\ UNCHANGED <<inputs, cached, known, gpuState, kills>>

Load(p) ==
  /\ pc[p] = "load"
  /\ device' = IF backend[p] = "gpu" THEN device \cup {p} ELSE device
  /\ provider' = [provider EXCEPT ![p] = "loaded"]
  /\ Goto(p, "score")
  /\ UNCHANGED <<inputs, cached, known, holder, events, result, kills>>

\* A slip that the checks notice: the lock's descriptor is not closed.
Kept(p) == holder

\* InferenceGuard::~InferenceGuard; the lock is a member of the scorer.
Unlocked(p) == IF holder = p THEN Nobody ELSE holder

\* No memory, or no model.
LoadFails(p) ==
  /\ pc[p] = "load"
  /\ Recoverable(p) \/ Remembered(p)
  /\ holder' = Unlocked(p)
  /\ UNCHANGED <<inputs, cached, known, device, kills>>

\* The file is scored, and its entropies are published unless that fails.
Score(p) ==
  /\ pc[p] = "score"
  /\ Ends(p, "scored")
  /\ cached' \in {cached} \cup (IF caching[p] THEN {cached \cup {Entry(p)}} ELSE {})
  /\ UNCHANGED <<inputs, known, gpuState, provider, result, kills>>

\* Before inference begins, on the CPU, or when the tokens are aligned, only
\* this file is lost; a GPU that fails ends the run.
ScoreFails(p) ==
  /\ pc[p] = "score"
  /\ \/ Recoverable(p)
     \/ Ends(p, "failed") /\ UNCHANGED <<provider, result>>
  /\ UNCHANGED <<inputs, cached, known, gpuState, kills>>

-----------------------------------------------------------------------------
ExitStatus(outcomes) ==
  IF "fatal" \in outcomes THEN "2"
  ELSE IF "failed" \in outcomes THEN "1" ELSE "0"

Totals(p) ==
  /\ pc[p] = "next" /\ File(p) > Len(files)
  /\ totals' = [totals EXCEPT ![p] = TRUE]
  /\ status' = [status EXCEPT ![p] = ExitStatus({events[p][i] : i \in DOMAIN files})]
  /\ Goto(p, "unload")
  /\ UNCHANGED <<inputs, cached, known, gpuState, provider, events, kills>>

\* A slip that the checks notice: the lock is declared after the model, and
\* released before the model is freed.
GuardFirst(p) ==
  holder' = Unlocked(p) /\ UNCHANGED device

\* The members of the scorer are destroyed in the reverse of their order.
ModelFirst(p) ==
  device' = device \ {p} /\ UNCHANGED holder

Unload(p) ==
  /\ pc[p] = "unload"
  /\ ModelFirst(p)
  /\ Goto(p, "release")
  /\ UNCHANGED <<inputs, cached, known, provider, events, result, kills>>

Release(p) ==
  /\ pc[p] = "release"
  /\ holder' = Unlocked(p) /\ device' = device \ {p}
  /\ Goto(p, "done")
  /\ UNCHANGED <<inputs, cached, known, provider, events, result, kills>>

\* The system takes back the lock and the memory of a process that is killed.
Kill(p) ==
  /\ pc[p] \notin {"idle", "done"}
  /\ kills < MaxKills
  /\ kills' = kills + 1
  /\ status' = [status EXCEPT ![p] = "killed"]
  /\ holder' = Unlocked(p) /\ device' = device \ {p}
  /\ Goto(p, "done")
  /\ UNCHANGED <<inputs, cached, known, provider, events, totals>>

Step(p) ==
  \/ Unscored(p) \/ ReadRecords(p)
  \/ CreateBackendRuntime(p) \/ TryLock(p) \/ WaitForLock(p)
  \/ Load(p) \/ Score(p) \/ Totals(p) \/ Unload(p) \/ Release(p)

Fault(p) ==
  \/ DiscoverFails(p) \/ OpenScorerSessionFails(p)
  \/ CreateBackendRuntimeFails(p) \/ LockFails(p) \/ LoadFails(p)
  \/ ScoreFails(p) \/ Kill(p)

Start(p) == Preflight(p) \/ OpenScorerSession(p)

RunAnalyze == \E p \in Procs : Start(p) \/ Step(p) \/ Fault(p)

\* A process that runs goes on, without any failure to help it; flock gives a
\* lock that is free to the one that waits for it.
FairSpec ==
  Init /\ [][RunAnalyze]_analyzerVars
       /\ \A p \in Procs : WF_analyzerVars(Step(p))

-----------------------------------------------------------------------------
Compatible(kind, outcome) ==
  CASE kind = "text"  -> outcome \in {"scored", "hit", "failed", "fatal"}
    [] kind = "blank" -> outcome = "blank"
    [] OTHER          -> outcome = "failed"

(***************************************************************************)
(* A run that writes totals has told each file's outcome once, in order,   *)
(* and exits with the status the outcomes call for; one that does not      *)
(* write them exits with 2 or was killed.  A scorer that cannot be created *)
(* costs no file that needs none: what has no code or was cached before    *)
(* the run is analyzed all the same, and nothing is scored after it        *)
(* (cli/main.cc:1013-1210, analyze.cc:217-306).                            *)
(***************************************************************************)
RunReported ==
  \A p \in Procs :
    /\ \A i \in DOMAIN events[p] :
         /\ Compatible(files[i], events[p][i])
         /\ files[i] = "text" /\ caching[p] /\ <<backend[p], i>> \in known[p] =>
              events[p][i] = "hit"
         /\ events[p][i] = "fatal" =>
              \A j \in DOMAIN events[p] : events[p][j] # "scored"
    /\ pc[p] = "done" /\ status[p] # "killed" =>
         IF totals[p]
           THEN LET outcomes == {events[p][i] : i \in DOMAIN events[p]}
                IN  /\ Len(events[p]) = Len(files)
                    /\ status[p] = "2" <=> "fatal" \in outcomes
                    /\ status[p] = "0" <=> outcomes \subseteq {"scored", "hit", "blank"}
           ELSE status[p] = "2"

\* At most one process has a model on the GPU, and it has the inference lock;
\* a process that has neither failed nor ended keeps nobody out
\* (inference_guard.cc:36, score_cmd.cc:1650-1653).
OneOnDevice ==
  /\ \A p \in device : holder = p
  /\ holder # Nobody => provider[holder] # "broken" /\ pc[holder] # "done"

\* What must not last: every run that has begun ends, whichever of its steps
\* fail and whoever is killed, so that nobody waits for the lock for ever
\* (inference_guard.cc:49-65).
Waiting == \E p \in Procs : pc[p] \notin {"idle", "done"}
=============================================================================
