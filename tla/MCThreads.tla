------------------------------ MODULE MCThreads ------------------------------
(***************************************************************************)
(* The four groups of threads inside one process, which share nothing but  *)
(* the way they are built: a mutex or an atomic counter, a flag to stop,   *)
(* a join at the end; and the processes that share a GPU.  A behaviour     *)
(* belongs to one of them.                                                 *)
(***************************************************************************)
EXTENDS BoundedMap, FiniteSets

CONSTANTS Helpers, Scorer, MaxRows, MaxBatches, Input, Output, Room, Interval,
          MaxTime, Total, Procs, Nobody, MaxFiles, MaxKills

\* The thread that scores is not one of the finitely many helpers.
ASSUME PoolAssumption == IsFiniteSet(Helpers) /\ Scorer \notin Helpers
\* Time is counted from the start of the thread that writes heartbeats.
ASSUME ReporterAssumption == Interval \in Nat
\* Nobody stands for a lock or a GPU that no process has.
ASSUME RunsAssumption == Nobody \notin Procs

VARIABLES created, spans, asked, unsound, scores, generation, workersPending,
          nextRow, workerError, stopping, at, row, observed, returned

Pool == INSTANCE HostReduction

VARIABLES stdin, stdout, stderr, status, holders, written, unfed, child, wants,
          orphan, caller, writer, reader, result

Process == INSTANCE Subprocess

VARIABLES now, phase, unit, completed, total, paused, rendered, heart, wakes,
          leaving, session, active

Reporter == INSTANCE Progress WITH stopping <- leaving

VARIABLES files, backend, caching, cached, known, holder, device, place,
          provider, events, totals, exit, kills

Runs == INSTANCE Analyzer WITH pc <- place, status <- exit

VARIABLE group

poolVars == <<created, spans, asked, unsound, scores, generation,
              workersPending, nextRow, workerError, stopping, at, row, observed,
              returned>>
processVars == <<stdin, stdout, stderr, status, holders, written, unfed, child,
                 wants, orphan, caller, writer, reader, result>>
reporterVars == <<now, phase, unit, completed, total, paused, rendered, heart,
                  wakes, leaving, session, active>>
runsVars == <<files, backend, caching, cached, known, holder, device, place,
              provider, events, totals, exit, kills>>
all == <<vars, poolVars, processVars, reporterVars, runsVars, group>>

NoRuns ==
  /\ files = 0 /\ backend = 0 /\ caching = 0 /\ cached = 0 /\ known = 0
  /\ holder = 0 /\ device = 0 /\ place = 0 /\ provider = 0 /\ events = 0
  /\ totals = 0 /\ exit = 0 /\ kills = 0

MCInit ==
  /\ Init /\ Pool!Init /\ Process!Init /\ Reporter!Init
  /\ \/ group \in {"map", "pool", "process", "reporter"} /\ NoRuns
     \/ group = "runs" /\ Runs!Init

Map(action) == group = "map" /\ action
               /\ UNCHANGED <<poolVars, processVars, reporterVars, runsVars, group>>
Reduce(action) == group = "pool" /\ action
                  /\ UNCHANGED <<vars, processVars, reporterVars, runsVars, group>>
Run(action) == group = "process" /\ action
               /\ UNCHANGED <<vars, poolVars, reporterVars, runsVars, group>>
Beat(action) == group = "reporter" /\ action
                /\ UNCHANGED <<vars, poolVars, processVars, runsVars, group>>
Analyze(action) == group = "runs" /\ action
                   /\ UNCHANGED <<vars, poolVars, processVars, reporterVars, group>>

MCNext ==
  \/ Map(Next) \/ Reduce(Pool!Next) \/ Run(Process!Next) \/ Beat(Reporter!Next)
  \/ Analyze(Runs!RunAnalyze)

\* The fairness of the five modules.
MCSpec ==
  /\ MCInit /\ [][MCNext]_all
  /\ WF_all(Map(Join)) /\ \A t \in Threads : WF_all(Map(Step(t)))
  /\ WF_all(Reduce(Pool!Busy))
  /\ \A h \in Helpers : WF_all(Reduce(Pool!WorkerLoop(h)))
  /\ WF_all(Run(Process!Parent)) /\ WF_all(Run(Process!Writer))
  /\ WF_all(Run(Process!Reader)) /\ WF_all(Run(Process!Starts))
  /\ WF_all(Run(Process!Works)) /\ SF_all(Run(Process!DecidesToLeave))
  /\ WF_all(Run(Process!OrphanEnds))
  /\ WF_all(Beat(Reporter!Heart)) /\ WF_all(Beat(Reporter!Leaves))
  /\ \A p \in Procs : WF_all(Analyze(Runs!Step(p)))

-----------------------------------------------------------------------------
\* score_cmd.cc, HostReductionPool: see HostReduction.
RowsScored == Pool!RowsScored

\* subprocess.cc, RunProcess: see Subprocess.
OutputWhole == Process!OutputWhole

\* progress.cc, ProgressReporter: see Progress.
HeartbeatRegular == Reporter!HeartbeatRegular

\* cli/main.cc, analyze.cc, score_cmd.cc, inference_guard.cc: see Analyzer.
RunsRight == group = "runs" => Runs!RunReported /\ Runs!OneOnDevice

Waits ==
  \/ group = "map" /\ Waiting
  \/ group = "pool" /\ Pool!Waiting
  \/ group = "process" /\ Process!Waiting
  \/ group = "reporter" /\ Reporter!Waiting
  \/ group = "runs" /\ Runs!Waiting

\* Nobody waits for ever: BoundedMap, Reduce and the pool's destructor,
\* RunProcess and the reporter's destructor all return or throw, whichever of
\* their threads is slow, fails or has fallen asleep, and so does a run of the
\* analysis that waits for the GPU (inference_guard.cc:49).
CallsEnd == Waits ~> ~Waits
=============================================================================
