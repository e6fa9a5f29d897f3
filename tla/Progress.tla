------------------------------- MODULE Progress -------------------------------
(***************************************************************************)
(* ProgressReporter and ConfirmDownload of src/src/progress.cc: a thread   *)
(* repeats the current phase when nothing was written for an interval,     *)
(* except while the user is asked a question.  Time is counted in ticks    *)
(* and does not pass a moment at which the thread wakes up.                *)
(***************************************************************************)
EXTENDS Naturals

CONSTANTS
  Interval,  \* ticks between two heartbeats
  MaxTime,   \* bound: ticks
  Total      \* bound: what a counter counts up to

VARIABLES
  now,
  phase,      \* there is a phase to report
  unit,       \* it has a counter
  completed, total,
  paused,
  rendered,   \* when the last line was written
  heart,      \* the thread: "evaluates", "waits" or "exited"
  wakes,      \* when its wait times out
  stopping,
  session,    \* the owner: "runs", "prompts", "joins" or "gone"
  active      \* since when there has been something to report, outside of a
              \* prompt (not kept by the code)

counter == <<unit, completed, total>>
owner == <<session, active>>
vars == <<now, phase, counter, paused, rendered, heart, wakes, stopping, owner>>

Init ==
  /\ now = 0 /\ rendered = 0 /\ active = 0
  /\ phase = FALSE /\ unit = FALSE /\ completed = 0 /\ total = 0
  /\ paused = FALSE /\ stopping = FALSE
  /\ heart = "evaluates" /\ wakes = 0
  /\ session = "runs"

Due == now - rendered >= Interval
Visible == ~paused /\ phase

-----------------------------------------------------------------------------
\* The thread, which holds the mutex from one wait to the next.

IntervalDelay(last) == Interval
\* What is left of the interval, if there is something to report.
Delay(last) == IF Visible THEN Interval - (now - last) ELSE Interval

Beat ==
  /\ heart = "evaluates"
  /\ IF stopping
       THEN heart' = "exited" /\ UNCHANGED <<rendered, wakes>>
       ELSE /\ heart' = "waits"
            /\ rendered' = IF Visible /\ Due THEN now ELSE rendered
            /\ wakes' = now + Delay(rendered')
  /\ UNCHANGED <<now, phase, counter, paused, stopping, owner>>

\* The wait ends early only for a notification of the destructor.
WaitEnds ==
  /\ heart = "waits"
  /\ now = wakes \/ (stopping /\ session = "joins")
  /\ heart' = "evaluates"
  /\ UNCHANGED <<now, phase, counter, paused, rendered, wakes, stopping, owner>>

Tick ==
  /\ now < MaxTime
  /\ heart = "exited" \/ (heart = "waits" /\ now < wakes)
  /\ now' = now + 1
  /\ UNCHANGED <<phase, counter, paused, rendered, heart, wakes, stopping, owner>>

-----------------------------------------------------------------------------
\* The owner's calls.

Activate == active' = IF phase THEN active ELSE now

\* Phase, StartFile, FinishFile and FailFile.
Phase ==
  /\ session = "runs"
  /\ phase' = TRUE
  /\ unit' = FALSE /\ completed' = 0 /\ total' = 0
  /\ rendered' = IF paused THEN rendered ELSE now
  /\ Activate
  /\ UNCHANGED <<now, paused, heart, wakes, stopping, session>>

\* Counter: a line for the first count, for a total that becomes known, for
\* the end, and when one is due.
Counter(c, t) ==
  /\ session = "runs"
  /\ unit' = TRUE /\ completed' = c /\ total' = t
  /\ rendered' =
       IF ~paused /\ \/ ~unit
                     \/ total = 0 /\ t # 0
                     \/ t # 0 /\ c = t /\ (c # completed \/ t # total)
                     \/ Due
         THEN now ELSE rendered
  /\ UNCHANGED <<now, phase, paused, heart, wakes, stopping, owner>>

\* ConfirmDownload: the session is silent until the user has answered or the
\* question has failed.
Ask ==
  /\ session = "runs"
  /\ session' = "prompts"
  /\ paused' = TRUE
  /\ UNCHANGED <<now, phase, counter, rendered, heart, wakes, stopping, active>>

\* A slip that the checks notice: the exception leaves the session silent.
Silent == UNCHANGED paused
Resume == paused' = FALSE

Accepted ==
  /\ session = "prompts"
  /\ session' = "runs"
  /\ paused' = FALSE
  /\ active' = now
  /\ UNCHANGED <<now, phase, counter, rendered, heart, wakes, stopping>>

Declined ==
  /\ session = "prompts"
  /\ session' = "runs"
  /\ Resume
  /\ active' = now
  /\ UNCHANGED <<now, phase, counter, rendered, heart, wakes, stopping>>

\* The destructor: it announces the end, then notifies and joins the thread.
Stop ==
  /\ session = "runs"
  /\ session' = "notifies"
  /\ stopping' = TRUE
  /\ UNCHANGED <<now, phase, counter, paused, rendered, heart, wakes, active>>

Notify ==
  /\ session = "notifies"
  /\ session' = "joins"
  /\ UNCHANGED <<now, phase, counter, paused, rendered, heart, wakes, stopping,
                 active>>

Joined ==
  /\ session = "joins" /\ heart = "exited"
  /\ session' = "gone"
  /\ UNCHANGED <<now, phase, counter, paused, rendered, heart, wakes, stopping,
                 active>>

Heart == Beat \/ WaitEnds
Leaves == Notify \/ Joined

Next ==
  \/ Heart \/ Tick
  \/ Phase \/ (\E c, t \in 0..Total : Counter(c, t))
  \/ Ask \/ Accepted \/ Declined
  \/ Stop \/ Leaves

Spec == Init /\ [][Next]_vars
Fairness == WF_vars(Heart) /\ WF_vars(Leaves)

-----------------------------------------------------------------------------
(***************************************************************************)
(* While there is something to report and no question is open, no more     *)
(* than an interval passes without a line, however updates and questions   *)
(* fall between the heartbeats (progress.cc:170: "updates between ticks    *)
(* cannot stretch a heartbeat"); and nothing is written into a question.   *)
(***************************************************************************)
HeartbeatRegular ==
  /\ paused <=> session = "prompts"
  /\ phase /\ session = "runs" =>
       now - rendered <= Interval \/ now - active <= Interval

\* What must not last: the destructor returns, whenever the thread has fallen asleep.
Waiting == stopping /\ session # "gone"
=============================================================================
