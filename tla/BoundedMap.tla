----------------------------- MODULE BoundedMap -----------------------------
(***************************************************************************)
(* BoundedMap of src/src/compare/parallel.h: a pool of threads applies a   *)
(* function to every index below Count.  The threads share one counter,    *)
(* one flag and, for the exception to rethrow, one mutex; each fills the   *)
(* slots of the indices it took, and the caller collects them after it has *)
(* joined all threads.                                                     *)
(***************************************************************************)
EXTENDS Integers

CONSTANTS
  Count,        \* indices 0..Count-1
  Concurrency,  \* threads the caller allows
  None          \* "no failure" and "nobody holds the mutex"

ASSUME CountAssumption == Count \in Nat
\* A concurrency of 0 is refused.
ASSUME ConcurrencyAssumption == Concurrency \in Nat \ {0}
ASSUME NoneAssumption == None \notin Nat

VARIABLES
  next,     \* the next index to take
  failed,   \* the flag that stops the workers
  failure,  \* the index whose exception is kept, or None
  mutex,    \* failure_mutex
  slots,    \* index -> whether its result is there
  pc,       \* where each thread is
  index,    \* the index each thread took last
  outcome   \* how the call ended

vars == <<next, failed, failure, mutex, slots, pc, index, outcome>>

Indices == 0..(Count - 1)

\* min(concurrency, count), and the calling thread itself when that is 0 or 1.
PoolSize ==
  LET threads == IF Concurrency <= Count THEN Concurrency ELSE Count
  IN  IF threads <= 1 THEN 1 ELSE threads

Threads == 0..(PoolSize - 1)

GoTo(t, point) == pc' = [pc EXCEPT ![t] = point]

-----------------------------------------------------------------------------
\* while (!failed.load())
Check(t) ==
  /\ pc[t] = "check"
  /\ GoTo(t, IF failed THEN "done" ELSE "take")
  /\ UNCHANGED <<next, failed, failure, mutex, slots, index, outcome>>

\* next.fetch_add(1), and the return of a thread that finds nothing left.
LastSkipped(i) == i + 1 >= Count
Exhausted(i) == i >= Count

FetchAdd(i) == i + 1

Take(t) ==
  /\ pc[t] = "take"
  /\ index' = [index EXCEPT ![t] = next]
  /\ next' = FetchAdd(next)
  /\ GoTo(t, IF Exhausted(next) THEN "done" ELSE "run")
  /\ UNCHANGED <<failed, failure, mutex, slots, outcome>>

\* The function returns, and its result goes into the index's slot.
Fill(t) ==
  /\ pc[t] = "run"
  /\ slots' = [slots EXCEPT ![index[t]] = TRUE]
  /\ GoTo(t, "check")
  /\ UNCHANGED <<next, failed, failure, mutex, index, outcome>>

\* The function throws.
Throw(t) ==
  /\ pc[t] = "run"
  /\ GoTo(t, "catch")
  /\ UNCHANGED <<next, failed, failure, mutex, slots, index, outcome>>

\* Under the mutex, only the first exception is kept.
Record(t) ==
  /\ pc[t] = "catch" /\ mutex = None
  /\ mutex' = t
  /\ failure' = IF failure = None THEN index[t] ELSE failure
  /\ GoTo(t, "stop")
  /\ UNCHANGED <<next, failed, slots, index, outcome>>

\* The flag is set before the mutex is released.
MutexKept == UNCHANGED mutex
Unlock == mutex' = None

Stop(t) ==
  /\ pc[t] = "stop"
  /\ failed' = TRUE
  /\ Unlock
  /\ GoTo(t, "done")
  /\ UNCHANGED <<next, failure, slots, index, outcome>>

\* The caller has joined every thread: it rethrows or returns the slots.
Join ==
  /\ outcome = "running"
  /\ \A t \in Threads : pc[t] = "done"
  /\ outcome' = IF failure # None THEN "thrown" ELSE "returned"
  /\ UNCHANGED <<next, failed, failure, mutex, slots, pc, index>>

Step(t) == Check(t) \/ Take(t) \/ Fill(t) \/ Throw(t) \/ Record(t) \/ Stop(t)

Init ==
  /\ next = 0
  /\ failed = FALSE
  /\ failure = None
  /\ mutex = None
  /\ slots = [i \in Indices |-> FALSE]
  /\ pc = [t \in Threads |-> "check"]
  /\ index = [t \in Threads |-> 0]
  /\ outcome = "running"

Next == Join \/ \E t \in Threads : Step(t)

Spec == Init /\ [][Next]_vars

\* Threads are scheduled, and the function returns or throws in the end.
FairSpec == Spec /\ WF_vars(Join) /\ \A t \in Threads : WF_vars(Step(t))

-----------------------------------------------------------------------------
\* Types; each thread runs past the end of the counter at most once.
TypeOK ==
  /\ next \in 0..(Count + PoolSize)
  /\ failed \in BOOLEAN
  /\ failure \in Indices \cup {None}
  /\ mutex \in Threads \cup {None}
  /\ slots \in [Indices -> BOOLEAN]
  /\ pc \in [Threads -> {"check", "take", "run", "catch", "stop", "done"}]
  /\ index \in [Threads -> 0..(Count + PoolSize)]
  /\ outcome \in {"running", "thrown", "returned"}

\* A running thread has an empty slot of its own, inside the array: the slots
\* need no lock.
SlotsOwned ==
  \A t \in Threads : pc[t] = "run" =>
    /\ index[t] \in Indices
    /\ ~slots[index[t]]
    /\ \A other \in Threads \ {t} : pc[other] = "run" => index[other] # index[t]

\* "Without a failure every index ran, so every slot is filled", although the
\* workers also leave their loop when they see the flag.
EverySlotFilled == outcome = "returned" => \A i \in Indices : slots[i]

\* What must not last: the call ends, whichever threads fail.
Waiting == outcome = "running"
=============================================================================
