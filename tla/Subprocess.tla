------------------------------ MODULE Subprocess ------------------------------
(***************************************************************************)
(* RunProcess of src/src/subprocess.cc: a child with three channels of     *)
(* limited room.  The parent waits until the child runs its program, then  *)
(* a thread feeds the child's input, another one drains its errors and the *)
(* caller drains its output and reaps it.  The program reads and writes in *)
(* whatever order it likes, may end before it has read its input, and may  *)
(* leave a process behind that keeps its output open for a while.          *)
(***************************************************************************)
EXTENDS Naturals, Sequences

CONSTANTS
  Input,     \* bound: pieces of standard input to feed
  Output,    \* bound: pieces the program writes to each of its outputs
  Room       \* pieces a channel holds

VARIABLES
  stdin, stdout, stderr, status,  \* what the channels hold
  holders,  \* channel -> who has its writing end: the parent, the child, and
            \* the process the child leaves behind
  written,  \* what was ever written to each output
  unfed,    \* pieces of standard input still to be written
  child,    \* the child: where it is
  wants,    \* what the program does next, once it can
  orphan,   \* the process it may leave behind
  caller, writer, reader,  \* the threads of the parent: where they are
  result    \* what the parent has collected

channels == <<stdin, stdout, stderr, status>>
childVars == <<written, child, wants, orphan>>
parentVars == <<unfed, caller, writer, reader, result>>
vars == <<channels, holders, childVars, parentVars>>

Outputs == {"stdout", "stderr"}

Init ==
  /\ stdin = <<>> /\ stdout = <<>> /\ stderr = <<>> /\ status = <<>>
  /\ holders = [c \in Outputs \cup {"stdin", "status"} |-> {}]
  /\ written = [c \in Outputs |-> <<>>]
  /\ unfed = Input
  /\ child = "none" /\ wants = "none" /\ orphan = "none"
  /\ caller = "start" /\ writer = "none" /\ reader = "none"
  /\ result = [stdout |-> <<>>, stderr |-> <<>>, exit |-> "none"]

Opened(c, who) == holders' = [holders EXCEPT ![c] = who]
Closed(who) == holders' = [c \in DOMAIN holders |-> holders[c] \ who]

-----------------------------------------------------------------------------
\* The parent up to the program's start.

\* Without data the child's input is /dev/null, which nobody writes to.
Fork ==
  /\ caller = "start"
  /\ caller' = "status"
  /\ child' = "setup"
  /\ \E feeders \in {{}, {"parent"}} :
       holders' = [c \in DOMAIN holders |->
                     IF c = "stdin" THEN feeders ELSE {"child"}]
  /\ UNCHANGED <<channels, written, wants, orphan, unfed, writer, reader,
                 result>>

\* RunChild: the program runs, which closes the status channel, or one of the
\* calls before it fails and its error goes there.
Exec ==
  /\ child = "setup"
  /\ child' = "runs"
  /\ Opened("status", {})
  /\ UNCHANGED <<channels, written, wants, orphan, parentVars>>

ExecFails ==
  /\ child = "setup"
  /\ child' = "exited"
  /\ status' = <<"errno">>
  /\ Closed({"child"})
  /\ UNCHANGED <<stdin, stdout, stderr, written, wants, orphan, parentVars>>

StatusClosed == caller = "status" /\ holders["status"] = {}

StartFails ==
  /\ StatusClosed /\ status # <<>>
  /\ caller' = "threw"
  /\ Closed({"parent"})
  /\ UNCHANGED <<channels, childVars, unfed, writer, reader, result>>

StartThreads ==
  /\ writer' = IF holders["stdin"] = {} THEN "none" ELSE "feeds"
  /\ reader' = "reads"
  /\ caller' = "reads"

Started ==
  /\ StatusClosed /\ status = <<>>
  /\ StartThreads
  /\ UNCHANGED <<channels, holders, childVars, unfed, result>>

-----------------------------------------------------------------------------
\* The program decides what to do next, then waits until it can.

Decide ==
  /\ child = "runs" /\ wants = "none"
  /\ wants' \in {"read", "leave"} \cup
                {c \in Outputs : Len(written[c]) < Output}
  /\ UNCHANGED <<channels, holders, written, child, orphan, parentVars>>

Read ==
  /\ child = "runs" /\ wants = "read"
  /\ \/ stdin # <<>> /\ stdin' = Tail(stdin)
     \/ stdin = <<>> /\ holders["stdin"] = {} /\ UNCHANGED stdin
  /\ wants' = "none"
  /\ UNCHANGED <<stdout, stderr, status, holders, written, child, orphan,
                 parentVars>>

Piece(c) == Len(written[c]) + 1
Grow(c) == written' = [written EXCEPT ![c] = Append(@, Piece(c))]
Put(c) == \/ c = "stdout" /\ Len(stdout) < Room
             /\ stdout' = Append(stdout, Piece(c)) /\ UNCHANGED stderr
          \/ c = "stderr" /\ Len(stderr) < Room
             /\ stderr' = Append(stderr, Piece(c)) /\ UNCHANGED stdout

Write ==
  /\ child = "runs" /\ wants \in Outputs
  /\ Put(wants) /\ Grow(wants)
  /\ wants' = "none"
  /\ UNCHANGED <<stdin, status, holders, child, orphan, parentVars>>

\* The end of the program, after which nobody reads its input; its outputs
\* stay open while another process has them.
Leave ==
  /\ child = "runs" /\ wants = "leave"
  /\ child' \in {"exited", "killed"}
  /\ wants' = "none"
  /\ \/ orphan' = "runs" /\ holders' = [c \in DOMAIN holders |->
                              IF "child" \in holders[c] THEN {"orphan"}
                              ELSE holders[c]]
     \/ UNCHANGED orphan /\ Closed({"child"})
  /\ UNCHANGED <<channels, written, parentVars>>

OrphanWrites ==
  /\ orphan = "runs"
  /\ \E c \in Outputs : Len(written[c]) < Output /\ Put(c) /\ Grow(c)
  /\ UNCHANGED <<stdin, status, holders, child, wants, orphan, parentVars>>

OrphanEnds ==
  /\ orphan = "runs"
  /\ orphan' = "gone"
  /\ Closed({"orphan"})
  /\ UNCHANGED <<channels, written, child, wants, parentVars>>

-----------------------------------------------------------------------------
\* The three threads of the parent.

InputHeld == child = "runs" \/ orphan = "runs"

\* WriteAll: once nobody has the other end, send fails, which ends the feeding.
Feed ==
  /\ writer = "feeds" /\ unfed > 0 /\ InputHeld
  /\ Len(stdin) < Room
  /\ stdin' = Append(stdin, "piece")
  /\ unfed' = unfed - 1
  /\ UNCHANGED <<stdout, stderr, status, holders, childVars, caller, writer,
                 reader, result>>

Fed ==
  /\ writer = "feeds"
  /\ unfed = 0 \/ ~InputHeld
  /\ writer' = "done"
  /\ Opened("stdin", {})
  /\ UNCHANGED <<channels, childVars, unfed, caller, reader, result>>

ReadOutput ==
  /\ caller = "reads" /\ stdout # <<>>
  /\ stdout' = <<>>
  /\ result' = [result EXCEPT !.stdout = @ \o stdout]
  /\ UNCHANGED <<stdin, stderr, status, holders, childVars, unfed, caller,
                 writer, reader>>

OutputEnds ==
  /\ caller = "reads" /\ stdout = <<>> /\ holders["stdout"] = {}
  /\ caller' = "join"
  /\ UNCHANGED <<channels, holders, childVars, unfed, writer, reader, result>>

\* A slip that the checks notice: the errors are drained after the output.
ErrorsAfterOutput == reader = "reads" /\ caller # "reads"
ReaderRuns == reader = "reads"

ReadErrors ==
  /\ ReaderRuns /\ stderr # <<>>
  /\ stderr' = <<>>
  /\ result' = [result EXCEPT !.stderr = @ \o stderr]
  /\ UNCHANGED <<stdin, stdout, status, holders, childVars, unfed, caller,
                 writer, reader>>

ErrorsEnd ==
  /\ reader = "reads" /\ stderr = <<>> /\ holders["stderr"] = {}
  /\ reader' = "done"
  /\ UNCHANGED <<channels, holders, childVars, unfed, caller, writer, result>>

\* A slip that the checks notice: the errors are not waited for.
WriterJoined == writer # "feeds"
ThreadsJoined == writer # "feeds" /\ reader = "done"

\* Both threads are joined, then the child is reaped.
Return ==
  /\ caller = "join" /\ ThreadsJoined
  /\ child \in {"exited", "killed"}
  /\ caller' = "returned"
  /\ result' = [result EXCEPT !.exit = child]
  /\ UNCHANGED <<channels, holders, childVars, unfed, writer, reader>>

Parent ==
  \/ StartFails \/ Started
  \/ ReadOutput \/ OutputEnds \/ Return
Writer == Feed \/ Fed
Reader == ReadErrors \/ ErrorsEnd

Starts == Exec \/ ExecFails
Works == Decide \/ Read \/ Write \/ Leave
DecidesToLeave == Decide /\ wants' = "leave"

Next == \/ Fork \/ Starts \/ Works \/ OrphanWrites \/ OrphanEnds
        \/ Parent \/ Writer \/ Reader

Spec == Init /\ [][Next]_vars

\* All threads run, and so does the program while it can; what it leaves
\* behind ends some day.
Fairness ==
  /\ WF_vars(Parent) /\ WF_vars(Writer) /\ WF_vars(Reader)
  /\ WF_vars(Starts) /\ WF_vars(Works) /\ SF_vars(DecidesToLeave)
  /\ WF_vars(OrphanEnds)

-----------------------------------------------------------------------------
(***************************************************************************)
(* A call that returns has everything that anybody wrote to the two        *)
(* outputs, in order, and the end of the child itself; one that throws has *)
(* started no thread (subprocess.cc:431-471).                              *)
(***************************************************************************)
OutputWhole ==
  /\ caller = "returned" =>
       /\ result.stdout = written["stdout"] /\ result.stderr = written["stderr"]
       /\ result.exit = child
  /\ caller = "threw" => writer = "none" /\ reader = "none"

\* What must not last: each call ends, in whatever order the program fills and empties its
\* channels, provided that it wants to end at some time (subprocess.cc:444).
Waiting == caller \notin {"start", "returned", "threw"}
=============================================================================
