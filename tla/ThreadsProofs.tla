---------------------------- MODULE ThreadsProofs ----------------------------
(***************************************************************************)
(* Theorems about the threads of a process and about the processes that    *)
(* share a GPU, for any number of them, of indices, rows, batches, pieces  *)
(* of output, ticks, files and killed processes.                           *)
(***************************************************************************)
EXTENDS MCThreads, FiniteSetTheorems, SequenceTheorems, TLAPS

-----------------------------------------------------------------------------
(* BoundedMap.                                                             *)

Finished == {t \in Threads : pc[t] = "done"}

\* The counter passes the end once for each thread that has finished.
CounterInv == next \in Nat /\ next <= Count + Cardinality(Finished)

Types ==
  /\ failed \in BOOLEAN
  /\ failure \in Indices \cup {None}
  /\ mutex \in Threads \cup {None}
  /\ slots \in [Indices -> BOOLEAN]
  /\ pc \in [Threads -> {"check", "take", "run", "catch", "stop", "done"}]
  /\ index \in [Threads -> Nat]
  /\ \A t \in Threads : index[t] <= next
  /\ outcome \in {"running", "thrown", "returned"}

Running == {"run", "catch"}

\* What a thread that holds an index, or has stopped, knows.
ThreadInv(t) ==
  /\ pc[t] \in Running => index[t] \in Indices /\ index[t] < next
                          /\ ~slots[index[t]]
  /\ pc[t] = "stop" => mutex = t /\ failure # None
  /\ pc[t] = "done" => next >= Count \/ failure # None

Apart ==
  \A t, u \in Threads :
    pc[t] \in Running /\ pc[u] \in Running /\ t # u => index[t] # index[u]

\* An index once taken is filled, being worked on, or lost to a failure.
TakenInv ==
  /\ \A i \in Indices : i < next =>
       slots[i] \/ failure # None \/ \E t \in Threads : pc[t] \in Running /\ index[t] = i
  /\ \A i \in Indices : slots[i] => i < next
  /\ failed => failure # None

JoinInv ==
  /\ outcome # "running" => \A t \in Threads : pc[t] = "done"
  /\ outcome = "returned" => failure = None

IInv == /\ CounterInv /\ Types /\ Apart /\ TakenInv /\ JoinInv
        /\ \A t \in Threads : ThreadInv(t)

-----------------------------------------------------------------------------
LEMMA PoolFacts ==
  /\ PoolSize \in Nat \ {0}
  /\ Threads \subseteq Nat /\ 0 \in Threads
  /\ None \notin Threads /\ None \notin Indices
  /\ IsFiniteSet(Threads) /\ Cardinality(Threads) = PoolSize
<1>1. PoolSize \in Nat \ {0}
  BY CountAssumption, ConcurrencyAssumption DEF PoolSize
<1>2. IsFiniteSet(Threads) /\ Cardinality(Threads) = PoolSize
  BY <1>1, FS_Interval DEF Threads
<1> QED
  BY <1>1, <1>2, NoneAssumption, CountAssumption DEF Threads, Indices

\* Finished threads are counted one by one.
LEMMA FinishedFacts ==
  /\ IsFiniteSet(Finished) /\ Cardinality(Finished) \in Nat
  /\ Cardinality(Finished) <= PoolSize
BY PoolFacts, FS_Subset, FS_CardinalityType DEF Finished

LEMMA FinishedGrows ==
  ASSUME Types, NEW t \in Threads, pc[t] # "done", NEW point,
         pc' = [pc EXCEPT ![t] = point]
  PROVE  /\ point = "done" => Cardinality(Finished') = Cardinality(Finished) + 1
         /\ point # "done" => Finished' = Finished
<1>1. CASE point = "done"
  <2>1. Finished' = Finished \cup {t} /\ t \notin Finished
    BY <1>1 DEF Finished, Types
  <2> QED
    BY <1>1, <2>1, FinishedFacts, FS_AddElement
<1>2. CASE point # "done"
  BY <1>2 DEF Finished, Types
<1> QED
  BY <1>1, <1>2

\* The counter only passes the end when the thread that took it finishes.
LEMMA CounterKept ==
  ASSUME Types, CounterInv, NEW t \in Threads, pc[t] # "done",
         pc' = [pc EXCEPT ![t] = pc'[t]], next' \in {next, next + 1},
         next' = next \/ next < Count \/ pc'[t] = "done"
  PROVE  CounterInv'
<1> DEFINE count == Cardinality(Finished)
<1>1. count \in Nat /\ next \in Nat /\ next <= Count + count
  BY FinishedFacts DEF CounterInv
<1>2. CASE pc'[t] = "done"
  <2>1. Cardinality(Finished') = count + 1
    BY <1>2, FinishedGrows
  <2> QED
    BY <1>1, <2>1, CountAssumption DEF CounterInv
<1>3. CASE pc'[t] # "done"
  <2>1. Cardinality(Finished') = count
    BY <1>3, FinishedGrows
  <2> QED
    BY <1>1, <1>3, <2>1, CountAssumption DEF CounterInv
<1> QED
  BY <1>2, <1>3

-----------------------------------------------------------------------------
(* Each action preserves the invariant.                                    *)

LEMMA CheckStep ==
  ASSUME IInv, NEW t \in Threads, Check(t)
  PROVE  IInv'
<1> USE DEF IInv
<1>1. pc[t] = "check" /\ pc' = [pc EXCEPT ![t] = IF failed THEN "done" ELSE "take"]
      /\ UNCHANGED <<next, failed, failure, mutex, slots, index, outcome>>
  BY DEF Check, GoTo
<1>2. CounterInv'
  <2>1. /\ pc[t] # "done" /\ pc' = [pc EXCEPT ![t] = pc'[t]]
        /\ next' \in {next, next + 1}
        /\ next' = next \/ next < Count \/ pc'[t] = "done"
    BY <1>1 DEF Types
  <2> QED
    BY <2>1, CounterKept
<1>3. Types' /\ Apart' /\ TakenInv' /\ JoinInv'
  BY <1>1 DEF Types, Apart, TakenInv, JoinInv, Running
<1>4. ASSUME NEW u \in Threads PROVE ThreadInv(u)'
  BY <1>1 DEF ThreadInv, Types, TakenInv, Running
<1> QED
  BY <1>2, <1>3, <1>4

LEMMA TakeStep ==
  ASSUME IInv, NEW t \in Threads, Take(t)
  PROVE  IInv'
<1> USE DEF IInv
<1>1. /\ pc[t] = "take" /\ next' = next + 1 /\ index' = [index EXCEPT ![t] = next]
      /\ pc' = [pc EXCEPT ![t] = IF next >= Count THEN "done" ELSE "run"]
      /\ UNCHANGED <<failed, failure, mutex, slots, outcome>>
  BY DEF Take, GoTo, Exhausted, FetchAdd
<1>2. CounterInv'
  <2>1. /\ pc[t] # "done" /\ pc' = [pc EXCEPT ![t] = pc'[t]]
        /\ next' \in {next, next + 1}
        /\ next' = next \/ next < Count \/ pc'[t] = "done"
    BY <1>1, CountAssumption DEF Types, CounterInv
  <2> QED
    BY <2>1, CounterKept
<1>3. Types'
  BY <1>1 DEF Types, CounterInv
<1>4. Apart'
  BY <1>1 DEF Apart, Types, ThreadInv, Running, CounterInv
<1>5. TakenInv'
  BY <1>1, CountAssumption DEF TakenInv, Types, Running, CounterInv, Indices
<1>6. JoinInv'
  BY <1>1 DEF JoinInv, Types
<1>7. ASSUME NEW u \in Threads PROVE ThreadInv(u)'
  BY <1>1, CountAssumption
  DEF ThreadInv, Types, TakenInv, Running, CounterInv, Indices
<1> QED
  BY <1>2, <1>3, <1>4, <1>5, <1>6, <1>7

LEMMA FillStep ==
  ASSUME IInv, NEW t \in Threads, Fill(t)
  PROVE  IInv'
<1> USE DEF IInv
<1>1. /\ pc[t] = "run" /\ slots' = [slots EXCEPT ![index[t]] = TRUE]
      /\ pc' = [pc EXCEPT ![t] = "check"]
      /\ UNCHANGED <<next, failed, failure, mutex, index, outcome>>
  BY DEF Fill, GoTo
<1>2. CounterInv'
  <2>1. /\ pc[t] # "done" /\ pc' = [pc EXCEPT ![t] = pc'[t]]
        /\ next' \in {next, next + 1}
        /\ next' = next \/ next < Count \/ pc'[t] = "done"
    BY <1>1 DEF Types
  <2> QED
    BY <2>1, CounterKept
<1>3. Types' /\ Apart' /\ JoinInv'
  BY <1>1 DEF Types, Apart, JoinInv, Running
<1>4. TakenInv'
  BY <1>1 DEF TakenInv, Types, Running, ThreadInv
<1>5. ASSUME NEW u \in Threads PROVE ThreadInv(u)'
  BY <1>1 DEF ThreadInv, Types, Apart, Running
<1> QED
  BY <1>2, <1>3, <1>4, <1>5

LEMMA ThrowStep ==
  ASSUME IInv, NEW t \in Threads, Throw(t)
  PROVE  IInv'
<1> USE DEF IInv
<1>1. /\ pc[t] = "run" /\ pc' = [pc EXCEPT ![t] = "catch"]
      /\ UNCHANGED <<next, failed, failure, mutex, slots, index, outcome>>
  BY DEF Throw, GoTo
<1>2. CounterInv'
  <2>1. /\ pc[t] # "done" /\ pc' = [pc EXCEPT ![t] = pc'[t]]
        /\ next' \in {next, next + 1}
        /\ next' = next \/ next < Count \/ pc'[t] = "done"
    BY <1>1 DEF Types
  <2> QED
    BY <2>1, CounterKept
<1>3. Types' /\ Apart' /\ TakenInv' /\ JoinInv'
  BY <1>1 DEF Types, Apart, TakenInv, JoinInv, Running
<1>4. ASSUME NEW u \in Threads PROVE ThreadInv(u)'
  BY <1>1 DEF ThreadInv, Types, Running
<1> QED
  BY <1>2, <1>3, <1>4

LEMMA RecordStep ==
  ASSUME IInv, NEW t \in Threads, Record(t)
  PROVE  IInv'
<1> USE DEF IInv
<1>1. /\ pc[t] = "catch" /\ mutex = None /\ mutex' = t
      /\ failure' = IF failure = None THEN index[t] ELSE failure
      /\ pc' = [pc EXCEPT ![t] = "stop"]
      /\ UNCHANGED <<next, failed, slots, index, outcome>>
  BY DEF Record, GoTo
<1>2. failure' \in Indices /\ failure' # None
  BY <1>1, PoolFacts DEF Types, ThreadInv, Running
<1>3. CounterInv'
  <2>1. /\ pc[t] # "done" /\ pc' = [pc EXCEPT ![t] = pc'[t]]
        /\ next' \in {next, next + 1}
        /\ next' = next \/ next < Count \/ pc'[t] = "done"
    BY <1>1 DEF Types
  <2> QED
    BY <2>1, CounterKept
<1>4. Types' /\ Apart' /\ TakenInv' /\ JoinInv'
  BY <1>1, <1>2 DEF Types, Apart, TakenInv, JoinInv, Running
<1>5. ASSUME NEW u \in Threads PROVE ThreadInv(u)'
  BY <1>1, <1>2, PoolFacts DEF ThreadInv, Types, Running
<1> QED
  BY <1>3, <1>4, <1>5

LEMMA StopStep ==
  ASSUME IInv, NEW t \in Threads, Stop(t)
  PROVE  IInv'
<1> USE DEF IInv
<1>1. /\ pc[t] = "stop" /\ failed' = TRUE /\ mutex' = None
      /\ pc' = [pc EXCEPT ![t] = "done"]
      /\ UNCHANGED <<next, failure, slots, index, outcome>>
  BY DEF Stop, GoTo, Unlock
<1>2. failure # None
  BY <1>1 DEF ThreadInv
<1>3. CounterInv'
  <2>1. /\ pc[t] # "done" /\ pc' = [pc EXCEPT ![t] = pc'[t]]
        /\ next' \in {next, next + 1}
        /\ next' = next \/ next < Count \/ pc'[t] = "done"
    BY <1>1 DEF Types
  <2> QED
    BY <2>1, CounterKept
<1>4. Types' /\ Apart' /\ TakenInv' /\ JoinInv'
  BY <1>1, <1>2 DEF Types, Apart, TakenInv, JoinInv, Running
<1>5. ASSUME NEW u \in Threads PROVE ThreadInv(u)'
  BY <1>1, <1>2 DEF ThreadInv, Types, Running
<1> QED
  BY <1>3, <1>4, <1>5

LEMMA JoinStep ==
  ASSUME IInv, Join
  PROVE  IInv'
<1>1. CounterInv' /\ Types' /\ Apart' /\ TakenInv' /\ JoinInv'
  BY DEF IInv, Join, CounterInv, Finished, Types, Apart, TakenInv, JoinInv
<1>2. ASSUME NEW t \in Threads PROVE ThreadInv(t)'
  BY DEF IInv, Join, ThreadInv
<1> QED
  BY <1>1, <1>2 DEF IInv

-----------------------------------------------------------------------------
(* The theorems.                                                           *)

\* The inductive invariant holds in every behaviour of the pool.
THEOREM Invariance == Spec => []IInv
<1>1. Init => IInv
  <2> SUFFICES ASSUME Init PROVE IInv
    OBVIOUS
  <2>1. CounterInv
    BY FinishedFacts, CountAssumption DEF Init, CounterInv
  <2>2. Types /\ Apart /\ JoinInv
    <3>1. slots \in [Indices -> BOOLEAN] /\ failed \in BOOLEAN
      BY Zenon DEF Init
    <3>2. index \in [Threads -> Nat] /\ \A t \in Threads : index[t] <= next
      BY DEF Init
    <3>3. Types
      BY <3>1, <3>2 DEF Init, Types
    <3> QED
      BY <3>3 DEF Init, Apart, JoinInv, Running
  <2>3. TakenInv
    BY CountAssumption DEF Init, TakenInv, Indices
  <2>4. ASSUME NEW t \in Threads PROVE ThreadInv(t)
    BY DEF Init, ThreadInv, Running
  <2> QED
    BY <2>1, <2>2, <2>3, <2>4 DEF IInv
<1>2. IInv /\ [Next]_vars => IInv'
  <2> SUFFICES ASSUME IInv, [Next]_vars PROVE IInv'
    OBVIOUS
  <2>1. CASE Join
    BY <2>1, JoinStep
  <2>2. ASSUME NEW t \in Threads, Step(t) PROVE IInv'
    BY <2>2, CheckStep, TakeStep, FillStep, ThrowStep, RecordStep, StopStep
    DEF Step
  <2>3. CASE UNCHANGED vars
    BY <2>3
    DEF vars, IInv, CounterInv, Finished, Types, Apart, TakenInv, JoinInv,
       ThreadInv
  <2> QED
    BY <2>1, <2>2, <2>3 DEF Next
<1> QED
  BY <1>1, <1>2, PTL DEF Spec

\* Type correctness: the counter passes the end once per thread at most.
THEOREM TypeCorrect == Spec => []TypeOK
<1>1. IInv => TypeOK
  <2> SUFFICES ASSUME IInv PROVE TypeOK
    OBVIOUS
  <2>1. next \in 0..(Count + PoolSize)
    BY FinishedFacts, PoolFacts, CountAssumption DEF IInv, CounterInv
  <2>2. \A t \in Threads : index[t] \in 0..(Count + PoolSize)
    BY <2>1, PoolFacts, CountAssumption DEF IInv, Types
  <2> QED
    BY <2>1, <2>2 DEF IInv, Types, TypeOK
<1> QED
  BY <1>1, Invariance, PTL

\* No two threads ever work on one slot, and each stays inside the array.
THEOREM SlotsOwnedAlways == Spec => []SlotsOwned
<1>1. IInv => SlotsOwned
  BY DEF IInv, ThreadInv, Apart, Running, SlotsOwned
<1> QED
  BY <1>1, Invariance, PTL

\* A call that returns has a result for every index.
THEOREM NothingMissing == Spec => []EverySlotFilled
<1>1. IInv => EverySlotFilled
  <2> SUFFICES ASSUME IInv, outcome = "returned", NEW i \in Indices
               PROVE  slots[i]
    BY DEF EverySlotFilled
  <2>1. failure = None /\ \A t \in Threads : pc[t] = "done"
    BY DEF IInv, JoinInv
  <2>2. next >= Count
    BY <2>1, PoolFacts DEF IInv, ThreadInv
  <2>3. i < next
    BY <2>2, CountAssumption DEF IInv, CounterInv, Indices
  <2> QED
    BY <2>1, <2>3 DEF IInv, TakenInv, Running
<1> QED
  BY <1>1, Invariance, PTL

-----------------------------------------------------------------------------
(* HostReduction.                                                          *)

HelperPlaces == {"none", "look", "asleep", "take", "row", "score", "finish", "exited"}
ScorerPlaces == {"create", "idle", "notify", "take", "row", "score", "await", "asleep",
                 "look", "stop", "notifyStop", "join", "gone"}

PoolTypes ==
  /\ created \in SUBSET Helpers
  /\ spans \in Nat /\ asked \in Nat
  /\ unsound \in SUBSET Pool!Rows /\ scores \in SUBSET Pool!Rows
  /\ generation \in Nat /\ workersPending \in Nat /\ nextRow \in Nat
  /\ workerError \in BOOLEAN /\ stopping \in BOOLEAN
  /\ at \in [Pool!Threads -> HelperPlaces \cup ScorerPlaces]
  /\ at[Scorer] \in ScorerPlaces
  /\ \A h \in Helpers : at[h] \in HelperPlaces
  /\ row \in [Pool!Threads -> Nat]
  /\ observed \in [Helpers -> Nat]
  /\ returned \in {"none", "normally", "threw"}

\* The scorer is in Reduce.
InCall ==
  at[Scorer] \in {"notify", "take", "row", "score", "await", "asleep", "look"}

Working(h) == at[h] \in {"take", "row", "score", "finish"}

\* The helpers that have not finished the present batch, if they have begun.
Owes == {h \in created : observed[h] # generation \/ Working(h)}

\* workersPending counts them, and outside of a call there are none.
PendingInv ==
  /\ \A h \in Helpers : /\ h \in created <=> at[h] # "none"
                        /\ observed[h] <= generation
                        /\ Working(h) => observed[h] = generation
  /\ workersPending = Cardinality(Owes)
  /\ ~InCall => workersPending = 0
  /\ at[Scorer] \in {"create", "stop"} => generation = 0 /\ returned = "none"

Holds(t) == at[t] \in {"row", "score"}

\* A row that was taken is held by one thread, was scored, or threw.
RowsInv ==
  /\ InCall => spans = asked
  /\ workerError => unsound # {}
  /\ \A t \in Pool!Threads : Holds(t) => row[t] < nextRow /\ row[t] \notin scores
  /\ \A t, u \in Pool!Threads : Holds(t) /\ Holds(u) /\ t # u => row[t] # row[u]
  /\ \A t \in Pool!Threads : at[t] = "score" => row[t] < asked
  /\ \A r \in scores : r < nextRow
  /\ InCall => \A r \in Pool!Rows : r < nextRow =>
       r \in scores \/ workerError \/ \E t \in Pool!Threads : Holds(t) /\ row[t] = r
  /\ at[Scorer] \in {"await", "asleep", "look"} => workerError \/ nextRow >= asked
  /\ at[Scorer] = "idle" /\ returned = "normally" => scores = Pool!Rows
  /\ at[Scorer] = "idle" /\ returned = "threw" => unsound # {}

PoolInv == PoolTypes /\ PendingInv /\ RowsInv

-----------------------------------------------------------------------------
\* Each module has a Cardinality of its own.
LEMMA SameCardinality == \A S : Pool!Cardinality(S) = Cardinality(S)
BY DEF Pool!Cardinality, Cardinality

LEMMA OwesFacts ==
  ASSUME PoolInv
  PROVE  /\ IsFiniteSet(created) /\ IsFiniteSet(Owes)
         /\ workersPending = 0 => Owes = {}
         /\ \A h \in Helpers : Working(h) => h \in Owes /\ InCall
<1>1. IsFiniteSet(created) /\ IsFiniteSet(Owes)
  BY FS_Subset, PoolAssumption DEF PoolInv, PoolTypes, Owes
<1>2. workersPending = 0 => Owes = {}
  BY <1>1, FS_EmptySet DEF PoolInv, PendingInv
<1>3. ASSUME NEW h \in Helpers, Working(h) PROVE h \in Owes /\ InCall
  <2>1. h \in created
    BY <1>3 DEF PoolInv, PendingInv, Working
  <2> QED BY <1>2, <1>3, <2>1 DEF PoolInv, PendingInv, Owes
<1> QED BY <1>1, <1>2, <1>3

\* Steps that do not touch the rows of the batch.
LEMMA RowsFrame ==
  ASSUME PoolInv, UNCHANGED <<Pool!batch, nextRow, workerError, row>>,
         \A t \in Pool!Threads : at'[t] \in {"row", "score", "take"} \/ Holds(t) => at'[t] = at[t],
         InCall' => InCall,
         at'[Scorer] \in {"await", "asleep", "look"} => at[Scorer] \in {"await", "asleep", "look"},
         at'[Scorer] = "idle" => at[Scorer] = "idle" /\ returned' = returned
  PROVE  RowsInv'
BY DEF PoolInv, RowsInv, Holds, Pool!batch, Pool!Rows

-----------------------------------------------------------------------------
LEMMA PoolInit ==
  ASSUME Pool!Init
  PROVE  PoolInv
<1>1. PoolTypes
  BY PoolAssumption DEF Pool!Init, PoolTypes, Pool!Threads, Pool!Rows, HelperPlaces, ScorerPlaces
<1>2. Owes = {}
  BY DEF Pool!Init, Owes
<1>3. PendingInv
  BY <1>2, FS_EmptySet, PoolAssumption DEF Pool!Init, PendingInv, Working, Pool!Threads, InCall
<1>4. RowsInv
  BY PoolAssumption DEF Pool!Init, RowsInv, Holds, InCall, Pool!Rows, Pool!Threads
<1> QED BY <1>1, <1>3, <1>4 DEF PoolInv

LEMMA CreateInv ==
  ASSUME PoolInv, NEW h \in Helpers, Pool!Create(h)
  PROVE  PoolInv'
<1> USE PoolAssumption DEF PoolInv, Pool!Create
<1>1. PoolTypes'
  BY DEF PoolTypes, Pool!Threads, Pool!Rows, HelperPlaces, Pool!batch
<1>2. Owes' = Owes
  BY DEF Owes, PoolTypes, PendingInv, Working, Pool!Threads
<1>3. PendingInv'
  BY <1>2 DEF PoolTypes, PendingInv, InCall, Working, Pool!Threads, HelperPlaces
<1>4. RowsInv'
  BY RowsFrame DEF PoolTypes, PendingInv, Pool!Threads, Holds, InCall
<1> QED BY <1>1, <1>3, <1>4

\* The scorer goes from one there to another and changes nothing else.
LEMMA ScorerMoves ==
  ASSUME PoolInv, NEW there \in ScorerPlaces, at' = [at EXCEPT ![Scorer] = there],
         UNCHANGED <<created, Pool!batch, generation, workersPending, nextRow, workerError,
                     row, observed, returned>>,
         stopping' \in BOOLEAN,
         InCall' <=> InCall, there \in {"create", "stop"} => generation = 0 /\ returned = "none"
  PROVE  PoolTypes' /\ PendingInv'
<1>1. PoolTypes'
  BY PoolAssumption DEF PoolInv, PoolTypes, Pool!Threads, Pool!Rows, Pool!batch
<1>2. Owes' = Owes
  BY PoolAssumption DEF PoolInv, Owes, PoolTypes, Working, Pool!Threads
<1>3. PendingInv'
  BY <1>2, PoolAssumption DEF PoolInv, PoolTypes, PendingInv, Working, Pool!Threads
<1> QED BY <1>1, <1>3

LEMMA ConstructedInv ==
  ASSUME PoolInv, Pool!Constructed \/ Pool!ConstructorThrows
  PROVE  PoolInv'
<1>1. PICK there \in {"idle", "stop"} :
        /\ at[Scorer] = "create" /\ at' = [at EXCEPT ![Scorer] = there]
        /\ UNCHANGED <<created, Pool!batch, generation, workersPending, nextRow, workerError,
                       stopping, row, observed, returned>>
  BY DEF Pool!Constructed, Pool!ConstructorThrows, Pool!Move
<1>2. generation = 0 /\ returned = "none" /\ stopping' \in BOOLEAN
  BY <1>1 DEF PoolInv, PendingInv, PoolTypes
<1>3. PoolTypes' /\ PendingInv'
  BY <1>1, <1>2, ScorerMoves DEF PoolInv, PoolTypes, ScorerPlaces, Pool!Threads, InCall
<1>4. RowsInv'
  BY <1>1, <1>2 DEF PoolInv, PoolTypes, RowsInv, Pool!Threads, InCall, Holds, Pool!Rows, Pool!batch
<1> QED BY <1>3, <1>4 DEF PoolInv

LEMMA SubmitInv ==
  ASSUME PoolInv, Pool!Submit
  PROVE  PoolInv'
<1>1. /\ at[Scorer] = "idle" /\ at' = [at EXCEPT ![Scorer] = "notify"]
      /\ spans' \in Nat /\ asked' = spans' /\ unsound' \in SUBSET (0..(asked' - 1))
      /\ scores' = {} /\ workerError' = FALSE /\ nextRow' = 0
      /\ workersPending' = Cardinality(created) /\ generation' = generation + 1
      /\ UNCHANGED <<created, stopping, row, observed, returned>>
  BY SameCardinality DEF Pool!Submit, Pool!Move
<1> USE PoolAssumption DEF PoolInv
<1>2. \A h \in Helpers : ~Working(h)
  BY <1>1, OwesFacts DEF InCall
<1>3. Cardinality(created) \in Nat
  BY OwesFacts, FS_CardinalityType
<1>9. /\ at'[Scorer] = "notify" /\ \A h \in Helpers : at'[h] = at[h]
      /\ at' \in [Pool!Threads -> HelperPlaces \cup ScorerPlaces]
  BY <1>1 DEF PoolTypes, Pool!Threads, ScorerPlaces
<1>10. Pool!Rows' = 0..(asked' - 1)
  BY DEF Pool!Rows
<1>4. PoolTypes'
  <2>1. /\ created' \in SUBSET Helpers /\ spans' \in Nat /\ asked' \in Nat
        /\ unsound' \in SUBSET Pool!Rows' /\ scores' \in SUBSET Pool!Rows'
    BY <1>1, <1>10 DEF PoolTypes
  <2>2. /\ generation' \in Nat /\ workersPending' \in Nat /\ nextRow' \in Nat
        /\ stopping' \in BOOLEAN
    BY <1>1, <1>3 DEF PoolTypes
  <2>5. workerError' \in BOOLEAN
    BY <1>1, Zenon
  <2>3. /\ row' \in [Pool!Threads -> Nat] /\ observed' \in [Helpers -> Nat]
        /\ returned' \in {"none", "normally", "threw"}
    BY <1>1 DEF PoolTypes
  <2>4. at'[Scorer] \in ScorerPlaces /\ \A h \in Helpers : at'[h] \in HelperPlaces
    BY <1>9 DEF PoolTypes, ScorerPlaces
  <2> QED BY <2>1, <2>2, <2>3, <2>4, <2>5, <1>9, Zenon DEF PoolTypes, Pool!Threads
<1>5. Owes' = created
  BY <1>1 DEF Owes, PoolTypes, PendingInv
<1>6. \A t \in Pool!Threads : ~Holds(t)'
  BY <1>1, <1>2 DEF Holds, Working, Pool!Threads, PoolTypes
<1>7. PendingInv'
  BY <1>1, <1>2, <1>5 DEF PendingInv, PoolTypes, Working, InCall, Pool!Threads
<1>8. \A t \in Pool!Threads : at'[t] # "score"
  BY <1>6 DEF Holds
<1>11. RowsInv'
  <2>1. \A r \in Pool!Rows' : ~(r < nextRow')
    BY <1>1, <1>10
  <2>2. (InCall => spans = asked)' /\ (workerError => unsound # {})'
    BY <1>1
  <2> QED BY <1>1, <1>6, <1>8, <1>9, <2>1, <2>2 DEF RowsInv
<1> QED BY <1>4, <1>7, <1>11

LEMMA TasksReadyInv ==
  ASSUME PoolInv, Pool!TasksReady
  PROVE  PoolInv'
<1> USE PoolAssumption DEF PoolInv
<1>1. /\ at[Scorer] \in {"notify", "notifyStop"}
      /\ at'[Scorer] = IF at[Scorer] = "notify" THEN "take" ELSE "join"
      /\ at' \in [Pool!Threads -> HelperPlaces \cup ScorerPlaces]
      /\ \A h \in Helpers : at'[h] = IF at[h] = "asleep" THEN "look" ELSE at[h]
      /\ UNCHANGED <<created, Pool!batch, generation, workersPending, nextRow, workerError,
                     stopping, row, observed, returned>>
  BY DEF Pool!TasksReady, Pool!Wake, PoolTypes, Pool!Threads, HelperPlaces, ScorerPlaces
<1>2. PoolTypes'
  BY <1>1 DEF PoolTypes, Pool!Threads, Pool!Rows, HelperPlaces, ScorerPlaces, Pool!batch
<1>3. Owes' = Owes
  BY <1>1 DEF Owes, PoolTypes, Working
<1>4. PendingInv'
  BY <1>1, <1>3 DEF PendingInv, PoolTypes, Working, InCall
<1>5. \A t \in Pool!Threads : (Holds(t)' <=> Holds(t)) /\ (at'[t] = "score" <=> at[t] = "score")
  BY <1>1 DEF Holds, Pool!Threads
<1>6. RowsInv'
  BY <1>1, <1>5 DEF RowsInv, InCall, Pool!Rows, Pool!batch
<1> QED BY <1>2, <1>4, <1>6

LEMMA LookInv ==
  ASSUME PoolInv, NEW h \in Helpers, Pool!Look(h)
  PROVE  PoolInv'
<1> USE PoolAssumption DEF PoolInv
<1>1. PICK there \in {"exited", "take", "asleep"} :
        /\ at[h] = "look" /\ at' = [at EXCEPT ![h] = there]
        /\ IF there = "take"
           THEN /\ generation # observed[h]
                /\ observed' = [observed EXCEPT ![h] = generation]
           ELSE UNCHANGED observed
        /\ UNCHANGED <<created, Pool!batch, generation, workersPending, nextRow, workerError,
                       stopping, row, returned>>
  BY DEF Pool!Look, Pool!Move
<1>2. at'[Scorer] = at[Scorer] /\ at'[h] = there
      /\ \A g \in Helpers \ {h} : at'[g] = at[g]
  BY <1>1 DEF PoolTypes, Pool!Threads
<1>3. PoolTypes'
  BY <1>1, <1>2 DEF PoolTypes, Pool!Threads, Pool!Rows, HelperPlaces, Pool!batch
<1>4. Owes' = Owes
  BY <1>1, <1>2 DEF Owes, PoolTypes, PendingInv, Working
<1>5. PendingInv'
  BY <1>1, <1>2, <1>4 DEF PendingInv, PoolTypes, Working, InCall
<1>6. \A t \in Pool!Threads : (Holds(t)' <=> Holds(t)) /\ (at'[t] = "score" <=> at[t] = "score")
  BY <1>1, <1>2 DEF Holds, Pool!Threads
<1>7. RowsInv'
  BY <1>1, <1>2, <1>6 DEF RowsInv, InCall, Pool!Rows, Pool!batch
<1> QED BY <1>3, <1>5, <1>7

-----------------------------------------------------------------------------
\* A thread that deals out rows moves from one there of ReduceRows to another.
LEMMA ReduceMoves ==
  ASSUME PoolInv, NEW t \in Pool!Threads,
         NEW there \in {"take", "row", "score", "await", "finish"},
         at[t] \in {"take", "row", "score"}, at' = [at EXCEPT ![t] = there],
         there = "await" => t = Scorer, there = "finish" => t # Scorer,
         UNCHANGED <<created, generation, workersPending, observed, returned>>
  PROVE  /\ PendingInv'
         /\ at' \in [Pool!Threads -> HelperPlaces \cup ScorerPlaces]
         /\ at'[Scorer] \in ScorerPlaces
         /\ \A h \in Helpers : at'[h] \in HelperPlaces
         /\ InCall /\ InCall'
         /\ at'[t] = there /\ \A u \in Pool!Threads \ {t} : at'[u] = at[u]
         /\ at'[Scorer] # "idle"
<1> USE PoolAssumption DEF PoolInv
<1>1. at'[t] = there /\ \A u \in Pool!Threads \ {t} : at'[u] = at[u]
  BY DEF PoolTypes
<1>2. /\ at' \in [Pool!Threads -> HelperPlaces \cup ScorerPlaces]
      /\ at'[Scorer] \in ScorerPlaces
      /\ \A h \in Helpers : at'[h] \in HelperPlaces
  BY <1>1 DEF PoolTypes, HelperPlaces, ScorerPlaces, Pool!Threads
<1>3. InCall
  <2>1. CASE t = Scorer
    BY <2>1 DEF InCall
  <2>2. CASE t \in Helpers
    BY <2>2, OwesFacts DEF Working
  <2> QED BY <2>1, <2>2 DEF Pool!Threads
<1>4. InCall'
  BY <1>1, <1>3 DEF InCall, Pool!Threads
<1>5. Owes' = Owes
  BY <1>1 DEF Owes, PoolTypes, Working, Pool!Threads
<1>6. PendingInv'
  BY <1>1, <1>4, <1>5 DEF PendingInv, PoolTypes, Working, InCall, Pool!Threads
<1> QED BY <1>1, <1>2, <1>3, <1>4, <1>6 DEF InCall

LEMMA TakeInv ==
  ASSUME PoolInv, NEW t \in Pool!Threads, Pool!Take(t)
  PROVE  PoolInv'
<1> USE PoolAssumption DEF PoolInv
<1>1. /\ at[t] = "take" /\ at' = [at EXCEPT ![t] = "row"]
      /\ row' = [row EXCEPT ![t] = nextRow] /\ nextRow' = nextRow + 1
      /\ UNCHANGED <<created, spans, asked, unsound, scores, generation, workersPending,
                     workerError, stopping, observed, returned>>
  BY DEF Pool!Take, Pool!Move, Pool!batch
<1>2. /\ PendingInv' /\ at' \in [Pool!Threads -> HelperPlaces \cup ScorerPlaces]
      /\ at'[Scorer] \in ScorerPlaces /\ \A h \in Helpers : at'[h] \in HelperPlaces
      /\ InCall /\ InCall' /\ at'[t] = "row" /\ \A u \in Pool!Threads \ {t} : at'[u] = at[u]
      /\ at'[Scorer] # "idle"
  BY <1>1, ReduceMoves
<1>3. PoolTypes'
  BY <1>1, <1>2 DEF PoolTypes, Pool!Threads, Pool!Rows
<1>4. /\ row'[t] = nextRow /\ \A u \in Pool!Threads \ {t} : row'[u] = row[u]
  BY <1>1 DEF PoolTypes
<1>5. ~Holds(t) /\ Holds(t)' /\ \A u \in Pool!Threads \ {t} : Holds(u)' <=> Holds(u)
  BY <1>1, <1>2 DEF Holds
<1>6. RowsInv'
  <2>1. (InCall => spans = asked)' /\ (workerError => unsound # {})'
    BY <1>1, <1>2 DEF RowsInv
  <2>2. \A u \in Pool!Threads : Holds(u)' => row'[u] < nextRow' /\ row'[u] \notin scores'
    BY <1>1, <1>4, <1>5 DEF RowsInv, PoolTypes, Pool!Rows
  <2>3. \A u, v \in Pool!Threads : Holds(u)' /\ Holds(v)' /\ u # v => row'[u] # row'[v]
    BY <1>1, <1>4, <1>5 DEF RowsInv, PoolTypes
  <2>4. \A u \in Pool!Threads : at'[u] = "score" => row'[u] < asked'
    BY <1>1, <1>2, <1>4 DEF RowsInv
  <2>5. \A r \in scores' : r < nextRow'
    BY <1>1 DEF RowsInv, PoolTypes, Pool!Rows
  <2>6. ASSUME NEW r \in Pool!Rows', r < nextRow'
        PROVE  r \in scores' \/ workerError' \/ \E u \in Pool!Threads : Holds(u)' /\ row'[u] = r
    <3>1. r \in Pool!Rows /\ (r < nextRow \/ r = nextRow)
      BY <1>1, <2>6 DEF Pool!Rows, PoolTypes
    <3>2. CASE r = nextRow
      BY <3>2, <1>4, <1>5
    <3>3. CASE r < nextRow
      <4>1. r \in scores \/ workerError \/ \E u \in Pool!Threads : Holds(u) /\ row[u] = r
        BY <1>2, <3>1, <3>3 DEF RowsInv
      <4> QED BY <1>1, <1>4, <1>5, <4>1
    <3> QED BY <3>1, <3>2, <3>3
  <2>7. at'[Scorer] \in {"await", "asleep", "look"} => workerError' \/ nextRow' >= asked'
    BY <1>1, <1>2 DEF RowsInv, PoolTypes, Pool!Threads
  <2> QED BY <1>2, <2>1, <2>2, <2>3, <2>4, <2>5, <2>6, <2>7 DEF RowsInv
<1> QED BY <1>2, <1>3, <1>6

LEMMA RowInRangeInv ==
  ASSUME PoolInv, NEW t \in Pool!Threads, Pool!RowInRange(t)
  PROVE  PoolInv'
<1> USE PoolAssumption DEF PoolInv
<1>1. /\ at[t] = "row" /\ at' = [at EXCEPT ![t] = "score"] /\ row[t] < spans
      /\ UNCHANGED <<created, spans, asked, unsound, scores, generation, workersPending,
                     nextRow, workerError, stopping, row, observed, returned>>
  BY DEF Pool!RowInRange, Pool!Move, Pool!batch
<1>2. /\ PendingInv' /\ at' \in [Pool!Threads -> HelperPlaces \cup ScorerPlaces]
      /\ at'[Scorer] \in ScorerPlaces /\ \A h \in Helpers : at'[h] \in HelperPlaces
      /\ InCall /\ InCall' /\ at'[t] = "score" /\ \A u \in Pool!Threads \ {t} : at'[u] = at[u]
      /\ at'[Scorer] # "idle"
  BY <1>1, ReduceMoves
<1>3. PoolTypes'
  BY <1>1, <1>2 DEF PoolTypes, Pool!Threads, Pool!Rows
<1>4. \A u \in Pool!Threads : Holds(u)' <=> Holds(u)
  BY <1>1, <1>2 DEF Holds
<1>5. \A u \in Pool!Threads : at'[u] = "score" => row'[u] < asked'
  BY <1>1, <1>2 DEF RowsInv
<1>6. at'[Scorer] \in {"await", "asleep", "look"} => at[Scorer] \in {"await", "asleep", "look"}
  BY <1>2 DEF Pool!Threads
<1>7. RowsInv'
  BY <1>1, <1>2, <1>4, <1>5, <1>6 DEF RowsInv, Pool!Rows
<1> QED BY <1>2, <1>3, <1>7

LEMMA NoMoreRowsInv ==
  ASSUME PoolInv, NEW t \in Pool!Threads, Pool!NoMoreRows(t)
  PROVE  PoolInv'
<1> USE PoolAssumption DEF PoolInv
<1>1. /\ at[t] = "row" /\ row[t] >= spans
      /\ at' = [at EXCEPT ![t] = IF t = Scorer THEN "await" ELSE "finish"]
      /\ UNCHANGED <<created, spans, asked, unsound, scores, generation, workersPending,
                     nextRow, workerError, stopping, row, observed, returned>>
  BY DEF Pool!NoMoreRows, Pool!Move, Pool!batch
<1>0. PICK there \in {"take", "row", "score", "await", "finish"} :
        /\ there = (IF t = Scorer THEN "await" ELSE "finish")
        /\ at' = [at EXCEPT ![t] = there]
  BY <1>1
<1>2. /\ PendingInv' /\ at' \in [Pool!Threads -> HelperPlaces \cup ScorerPlaces]
      /\ at'[Scorer] \in ScorerPlaces /\ \A h \in Helpers : at'[h] \in HelperPlaces
      /\ InCall /\ InCall' /\ at'[t] = (IF t = Scorer THEN "await" ELSE "finish")
      /\ \A u \in Pool!Threads \ {t} : at'[u] = at[u]
      /\ at'[Scorer] # "idle"
  <2>1. at[t] \in {"take", "row", "score"}
    BY <1>1
  <2>2. (there = "await" => t = Scorer) /\ (there = "finish" => t # Scorer)
    BY <1>0
  <2>3. UNCHANGED <<created, generation, workersPending, observed, returned>>
    BY <1>1
  <2>4. /\ PendingInv' /\ at' \in [Pool!Threads -> HelperPlaces \cup ScorerPlaces]
        /\ at'[Scorer] \in ScorerPlaces /\ \A h \in Helpers : at'[h] \in HelperPlaces
        /\ InCall /\ InCall' /\ at'[t] = there
        /\ \A u \in Pool!Threads \ {t} : at'[u] = at[u]
        /\ at'[Scorer] # "idle"
    BY <1>0, <2>1, <2>2, <2>3, ReduceMoves
  <2> QED BY <1>0, <2>4
<1>3. PoolTypes'
  BY <1>1, <1>2 DEF PoolTypes, Pool!Threads, Pool!Rows
<1>4. ~Holds(t)' /\ Holds(t) /\ \A u \in Pool!Threads \ {t} : Holds(u)' <=> Holds(u)
  BY <1>1, <1>2 DEF Holds
<1>5. row[t] >= asked /\ asked <= nextRow
  BY <1>1, <1>2, <1>4 DEF RowsInv, PoolTypes
<1>6. RowsInv'
  <2>1. \A r \in Pool!Rows' : r < nextRow' =>
          r \in scores' \/ workerError' \/ \E u \in Pool!Threads : Holds(u)' /\ row'[u] = r
    <3>1. SUFFICES ASSUME NEW r \in Pool!Rows, r < nextRow
                   PROVE  r \in scores \/ workerError \/ \E u \in Pool!Threads : Holds(u)' /\ row[u] = r
      BY <1>1 DEF Pool!Rows
    <3>2. r \in scores \/ workerError \/ \E u \in Pool!Threads : Holds(u) /\ row[u] = r
      BY <1>2, <3>1 DEF RowsInv
    <3>3. row[t] # r
      BY <1>5 DEF Pool!Rows, PoolTypes
    <3> QED BY <3>2, <3>3, <1>4
  <2>2. \A u \in Pool!Threads : at'[u] = "score" => row'[u] < asked'
    BY <1>1, <1>2 DEF RowsInv
  <2>3. at'[Scorer] \in {"await", "asleep", "look"} => workerError' \/ nextRow' >= asked'
    BY <1>1, <1>2, <1>5 DEF RowsInv, PoolTypes, Pool!Threads
  <2>4. \A u \in Pool!Threads : Holds(u)' => Holds(u)
    BY <1>4
  <2> QED BY <1>1, <1>2, <2>1, <2>2, <2>3, <2>4 DEF RowsInv
<1> QED BY <1>2, <1>3, <1>6

LEMMA ScoreTokenInv ==
  ASSUME PoolInv, NEW t \in Pool!Threads, Pool!ScoreToken(t)
  PROVE  PoolInv'
<1> USE PoolAssumption DEF PoolInv
<1>1. /\ at[t] = "score" /\ at' = [at EXCEPT ![t] = "take"] /\ scores' = scores \cup {row[t]}
      /\ UNCHANGED <<created, spans, asked, unsound, generation, workersPending,
                     nextRow, workerError, stopping, row, observed, returned>>
  BY DEF Pool!ScoreToken, Pool!Move, Pool!batch
<1>2. /\ PendingInv' /\ at' \in [Pool!Threads -> HelperPlaces \cup ScorerPlaces]
      /\ at'[Scorer] \in ScorerPlaces /\ \A h \in Helpers : at'[h] \in HelperPlaces
      /\ InCall /\ InCall' /\ at'[t] = "take" /\ \A u \in Pool!Threads \ {t} : at'[u] = at[u]
      /\ at'[Scorer] # "idle"
  BY <1>1, ReduceMoves
<1>3. row[t] \in Pool!Rows /\ row[t] < nextRow
  BY <1>1 DEF RowsInv, PoolTypes, Pool!Rows, Holds
<1>4. PoolTypes'
  <2>1. scores' \in SUBSET Pool!Rows'
    BY <1>1, <1>3 DEF PoolTypes, Pool!Rows
  <2> QED BY <1>1, <1>2, <2>1 DEF PoolTypes, Pool!Threads, Pool!Rows
<1>5. Holds(t) /\ ~Holds(t)' /\ \A u \in Pool!Threads \ {t} : Holds(u)' <=> Holds(u)
  BY <1>1, <1>2 DEF Holds
<1>6. RowsInv'
  <2>1. \A u \in Pool!Threads : Holds(u)' => row'[u] < nextRow' /\ row'[u] \notin scores'
    BY <1>1, <1>5 DEF RowsInv
  <2>2. \A r \in scores' : r < nextRow'
    BY <1>1, <1>3 DEF RowsInv
  <2>3. \A r \in Pool!Rows' : r < nextRow' =>
          r \in scores' \/ workerError' \/ \E u \in Pool!Threads : Holds(u)' /\ row'[u] = r
    <3>1. SUFFICES ASSUME NEW r \in Pool!Rows, r < nextRow
                   PROVE  r \in scores' \/ workerError \/ \E u \in Pool!Threads : Holds(u)' /\ row[u] = r
      BY <1>1 DEF Pool!Rows
    <3>2. r \in scores \/ workerError \/ \E u \in Pool!Threads : Holds(u) /\ row[u] = r
      BY <1>2, <3>1 DEF RowsInv
    <3> QED BY <1>1, <1>5, <3>2
  <2>4. \A u \in Pool!Threads : at'[u] = "score" => row'[u] < asked'
    BY <1>1, <1>2 DEF RowsInv
  <2>5. at'[Scorer] \in {"await", "asleep", "look"} => workerError' \/ nextRow' >= asked'
    BY <1>1, <1>2 DEF RowsInv, Pool!Threads
  <2> QED BY <1>1, <1>2, <1>5, <2>1, <2>2, <2>3, <2>4, <2>5 DEF RowsInv
<1> QED BY <1>2, <1>4, <1>6

LEMMA ScoreTokenThrowsInv ==
  ASSUME PoolInv, NEW t \in Pool!Threads, Pool!ScoreTokenThrows(t)
  PROVE  PoolInv'
<1> USE PoolAssumption DEF PoolInv
<1>1. /\ at[t] = "score" /\ row[t] \in unsound /\ workerError' = TRUE
      /\ at' = [at EXCEPT ![t] = IF t = Scorer THEN "await" ELSE "finish"]
      /\ UNCHANGED <<created, spans, asked, unsound, scores, generation, workersPending,
                     nextRow, stopping, row, observed, returned>>
  BY DEF Pool!ScoreTokenThrows, Pool!Move, Pool!batch
<1>0. PICK there \in {"take", "row", "score", "await", "finish"} :
        /\ there = (IF t = Scorer THEN "await" ELSE "finish")
        /\ at' = [at EXCEPT ![t] = there]
  BY <1>1
<1>2. /\ PendingInv' /\ at' \in [Pool!Threads -> HelperPlaces \cup ScorerPlaces]
      /\ at'[Scorer] \in ScorerPlaces /\ \A h \in Helpers : at'[h] \in HelperPlaces
      /\ InCall /\ InCall' /\ at'[t] = (IF t = Scorer THEN "await" ELSE "finish")
      /\ \A u \in Pool!Threads \ {t} : at'[u] = at[u]
      /\ at'[Scorer] # "idle"
  <2>1. at[t] \in {"take", "row", "score"}
    BY <1>1
  <2>2. (there = "await" => t = Scorer) /\ (there = "finish" => t # Scorer)
    BY <1>0
  <2>3. UNCHANGED <<created, generation, workersPending, observed, returned>>
    BY <1>1
  <2>4. /\ PendingInv' /\ at' \in [Pool!Threads -> HelperPlaces \cup ScorerPlaces]
        /\ at'[Scorer] \in ScorerPlaces /\ \A h \in Helpers : at'[h] \in HelperPlaces
        /\ InCall /\ InCall' /\ at'[t] = there
        /\ \A u \in Pool!Threads \ {t} : at'[u] = at[u]
        /\ at'[Scorer] # "idle"
    BY <1>0, <2>1, <2>2, <2>3, ReduceMoves
  <2> QED BY <1>0, <2>4
<1>3. PoolTypes'
  <2>1. workerError' \in BOOLEAN
    BY <1>1, Zenon
  <2> QED BY <1>1, <1>2, <2>1 DEF PoolTypes, Pool!Threads, Pool!Rows
<1>4. \A u \in Pool!Threads : (Holds(u)' => Holds(u)) /\ (at'[u] = "score" => at[u] = "score")
  BY <1>1, <1>2 DEF Holds
<1>5. RowsInv'
  BY <1>1, <1>2, <1>4 DEF RowsInv
<1> QED BY <1>2, <1>3, <1>5

\* A helper that is done takes one from workersPending, and itself from those that owe.
LEMMA FinishInv ==
  ASSUME PoolInv, NEW h \in Helpers, Pool!Finish(h)
  PROVE  PoolInv'
<1> USE PoolAssumption DEF PoolInv
<1>1. /\ at[h] = "finish" /\ workersPending' = workersPending - 1
      /\ UNCHANGED <<created, spans, asked, unsound, scores, generation, nextRow,
                     workerError, stopping, row, observed, returned>>
  BY DEF Pool!Finish, Pool!batch
<1>2. /\ at' \in [Pool!Threads -> HelperPlaces \cup ScorerPlaces]
      /\ at'[h] = "look" /\ \A g \in Helpers \ {h} : at'[g] = at[g]
      /\ \/ at'[Scorer] = at[Scorer]
         \/ at[Scorer] = "asleep" /\ at'[Scorer] = "look"
  <2>1. PICK waiters \in {{}, {Scorer}} : at' = [Pool!Wake(waiters) EXCEPT ![h] = "look"]
    <3>1. CASE workersPending = 1
      BY <3>1 DEF Pool!Finish
    <3>2. CASE workersPending # 1
      <4>1. Pool!Wake({}) = at
        BY DEF Pool!Wake, PoolTypes
      <4> QED BY <3>2, <4>1 DEF Pool!Finish
    <3> QED BY <3>1, <3>2
  <2>3. Pool!Wake(waiters) \in [Pool!Threads -> HelperPlaces \cup ScorerPlaces]
    BY DEF Pool!Wake, PoolTypes, HelperPlaces
  <2>4. \A g \in Helpers : Pool!Wake(waiters)[g] = at[g]
    BY <2>1 DEF Pool!Wake, Pool!Threads
  <2>5. Pool!Wake(waiters)[Scorer] = IF waiters # {} /\ at[Scorer] = "asleep" THEN "look" ELSE at[Scorer]
    BY <2>1 DEF Pool!Wake, Pool!Threads
  <2>2. /\ Pool!Wake(waiters) \in [Pool!Threads -> HelperPlaces \cup ScorerPlaces]
        /\ \A g \in Helpers : Pool!Wake(waiters)[g] = at[g]
        /\ \/ Pool!Wake(waiters)[Scorer] = at[Scorer]
           \/ at[Scorer] = "asleep" /\ Pool!Wake(waiters)[Scorer] = "look"
    BY <2>3, <2>4, <2>5
  <2> QED BY <2>1, <2>2 DEF Pool!Threads, HelperPlaces
<1>3. h \in Owes /\ InCall /\ IsFiniteSet(Owes)
  BY <1>1, OwesFacts DEF Working
<1>4. Owes' = Owes \ {h}
  BY <1>1, <1>2, <1>3 DEF Owes, PoolTypes, PendingInv, Working
<1>5. workersPending' = Cardinality(Owes') /\ workersPending' \in Nat
  <2>1. Cardinality(Owes \ {h}) = Cardinality(Owes) - 1
    BY <1>3, FS_RemoveElement
  <2>2. IsFiniteSet(Owes \ {h})
    BY <1>3, FS_RemoveElement
  <2>3. Cardinality(Owes \ {h}) \in Nat
    BY <2>2, FS_CardinalityType
  <2> QED BY <1>1, <1>4, <2>1, <2>3 DEF PendingInv
<1>6. InCall'
  BY <1>2, <1>3 DEF InCall
<1>7. PoolTypes'
  BY <1>1, <1>2, <1>5 DEF PoolTypes, Pool!Threads, Pool!Rows, HelperPlaces, ScorerPlaces
<1>8. PendingInv'
  BY <1>1, <1>2, <1>5, <1>6 DEF PendingInv, PoolTypes, Working, InCall
<1>9. \A t \in Pool!Threads : (Holds(t)' <=> Holds(t)) /\ (at'[t] = "score" <=> at[t] = "score")
  BY <1>1, <1>2 DEF Holds, Pool!Threads
<1>10. RowsInv'
  BY <1>1, <1>2, <1>3, <1>6, <1>9 DEF RowsInv, InCall, Pool!Rows
<1> QED BY <1>7, <1>8, <1>10

LEMMA SleepInv ==
  ASSUME PoolInv, Pool!Sleep
  PROVE  PoolInv'
<1>1. /\ at[Scorer] \in {"await", "look"} /\ at' = [at EXCEPT ![Scorer] = "asleep"]
      /\ UNCHANGED <<created, Pool!batch, generation, workersPending, nextRow, workerError,
                     stopping, row, observed, returned>>
  BY DEF Pool!Sleep
<1>2. at'[Scorer] = "asleep" /\ \A t \in Pool!Threads \ {Scorer} : at'[t] = at[t]
  BY <1>1 DEF PoolInv, PoolTypes, Pool!Threads
<1>3. InCall /\ InCall'
  BY <1>1, <1>2 DEF InCall
<1>4. PoolTypes' /\ PendingInv'
  BY <1>1, <1>3, ScorerMoves DEF ScorerPlaces, PoolInv, PoolTypes
<1>5. RowsInv'
  BY <1>1, <1>2, <1>3, RowsFrame DEF Holds
<1> QED BY <1>4, <1>5 DEF PoolInv

\* All helpers have finished: no row is held any more.
LEMMA ReturnInv ==
  ASSUME PoolInv, Pool!Return
  PROVE  PoolInv'
<1> USE PoolAssumption DEF PoolInv
<1>1. /\ at[Scorer] \in {"await", "look"} /\ workersPending = 0
      /\ at' = [at EXCEPT ![Scorer] = "idle"] /\ spans' = 0
      /\ returned' = IF workerError THEN "threw" ELSE "normally"
      /\ UNCHANGED <<created, asked, unsound, scores, generation, workersPending,
                     nextRow, workerError, stopping, row, observed>>
  BY DEF Pool!Return, Pool!HelpersDone
<1>2. at'[Scorer] = "idle" /\ \A h \in Helpers : at'[h] = at[h]
  BY <1>1 DEF PoolTypes, Pool!Threads
<1>3. \A h \in Helpers : ~Working(h)
  BY <1>1, OwesFacts
<1>4. \A t \in Pool!Threads : ~Holds(t) /\ ~Holds(t)'
  BY <1>1, <1>2, <1>3 DEF Holds, Working, Pool!Threads
<1>5. PoolTypes'
  BY <1>1 DEF PoolTypes, Pool!Threads, Pool!Rows, ScorerPlaces
<1>6. Owes' = Owes
  BY <1>1, <1>2 DEF Owes, PoolTypes, Working
<1>7. PendingInv'
  BY <1>1, <1>2, <1>6 DEF PendingInv, PoolTypes, Working, InCall
<1>8. workerError \/ scores = Pool!Rows
  <2>1. SUFFICES ASSUME ~workerError, NEW r \in Pool!Rows PROVE r \in scores
    BY DEF PoolTypes
  <2>2. nextRow >= asked /\ InCall
    BY <1>1, <2>1 DEF RowsInv, InCall
  <2>3. r < nextRow
    BY <2>2 DEF Pool!Rows, PoolTypes
  <2> QED BY <1>4, <2>1, <2>2, <2>3 DEF RowsInv
<1>9. RowsInv'
  <2>1. ~InCall' /\ at'[Scorer] \notin {"await", "asleep", "look"}
    BY <1>2 DEF InCall
  <2>2. \A t \in Pool!Threads : at'[t] # "score"
    BY <1>4 DEF Holds
  <2>3. (returned' = "normally" => scores' = Pool!Rows') /\ (returned' = "threw" => unsound' # {})
    BY <1>1, <1>8 DEF RowsInv, Pool!Rows
  <2> QED BY <1>1, <1>4, <2>1, <2>2, <2>3 DEF RowsInv
<1> QED BY <1>5, <1>7, <1>9

LEMMA StopWorkersInv ==
  ASSUME PoolInv, Pool!StopWorkers \/ Pool!Joined
  PROVE  PoolInv'
<1>1. PICK there \in {"notifyStop", "gone"} :
        /\ at[Scorer] \in {"idle", "stop", "join"} /\ at' = [at EXCEPT ![Scorer] = there]
        /\ stopping' \in BOOLEAN
        /\ UNCHANGED <<created, Pool!batch, generation, workersPending, nextRow, workerError,
                       row, observed, returned>>
  <2>1. CASE Pool!StopWorkers
    <3>1. stopping' \in BOOLEAN
      BY <2>1, Zenon DEF Pool!StopWorkers
    <3> QED BY <2>1, <3>1 DEF Pool!StopWorkers
  <2>2. CASE Pool!Joined
    BY <2>2 DEF Pool!Joined, Pool!Move, PoolInv, PoolTypes
  <2> QED BY <2>1, <2>2
<1>2. at'[Scorer] = there /\ \A t \in Pool!Threads \ {Scorer} : at'[t] = at[t]
  BY <1>1 DEF PoolInv, PoolTypes, Pool!Threads
<1>3. ~InCall /\ ~InCall'
  BY <1>1, <1>2 DEF InCall
<1>4. PoolTypes' /\ PendingInv'
  BY <1>1, <1>3, ScorerMoves DEF ScorerPlaces
<1>5. RowsInv'
  BY <1>1, <1>2, <1>3, RowsFrame DEF Holds
<1> QED BY <1>4, <1>5 DEF PoolInv

LEMMA PoolStep ==
  ASSUME PoolInv, [Pool!Next]_poolVars
  PROVE  PoolInv'
<1>1. ASSUME NEW t \in Pool!Threads, Pool!ReduceRows(t) PROVE PoolInv'
  BY <1>1, TakeInv, NoMoreRowsInv, RowInRangeInv, ScoreTokenInv, ScoreTokenThrowsInv
     DEF Pool!ReduceRows
<1>2. CASE Pool!Owner
  BY <1>1, <1>2, CreateInv, ConstructedInv, SubmitInv, TasksReadyInv, SleepInv, ReturnInv,
     StopWorkersInv DEF Pool!Owner, Pool!Threads
<1>3. ASSUME NEW h \in Helpers, Pool!WorkerLoop(h) PROVE PoolInv'
  BY <1>1, <1>3, LookInv, FinishInv DEF Pool!WorkerLoop, Pool!Threads
<1>4. CASE UNCHANGED poolVars
  <2>1. Owes' = Owes
    BY <1>4 DEF Owes, Working, poolVars
  <2> QED BY <1>4, <2>1 DEF PoolInv, PoolTypes, PendingInv, RowsInv, Holds, InCall, Pool!Rows,
             Working, poolVars, Pool!batch
<1> QED BY <1>2, <1>3, <1>4 DEF Pool!Next

-----------------------------------------------------------------------------
\* Whatever the number of helpers, of rows and of batches, workersPending
\* counts the helpers that have yet to finish the batch, and a row that was
\* dealt out is held by one thread, has its score, or threw
\* (score_cmd.cc:947-1035).
LEMMA PoolInvariance == MCSpec => []PoolInv
<1>1. MCInit => PoolInv
  BY PoolInit DEF MCInit
<1>2. MCNext \/ UNCHANGED all => [Pool!Next]_poolVars
  BY DEF MCNext, Map, Run, Reduce, Beat, Analyze, poolVars, all
<1>3. PoolInv /\ [MCNext]_all => PoolInv'
  BY <1>2, PoolStep
<1> QED BY <1>1, <1>3, PTL DEF MCSpec

\* No row is scored twice at a time, before the batch is announced or after
\* Reduce has returned, and Reduce returns normally only with all scores and
\* throws only for a row that threw (score_cmd.cc:947-976, 1018-1035).
THEOREM RowsAlwaysScored == MCSpec => []RowsScored
<1>1. PoolInv => RowsScored
  <2> SUFFICES ASSUME PoolInv PROVE RowsScored
    OBVIOUS
  <2>1. ASSUME NEW t \in Pool!Threads, at[t] = "score"
        PROVE  /\ row[t] \in Pool!Rows \ scores
               /\ InCall
               /\ \A u \in Pool!Threads \ {t} : at[u] = "score" => row[u] # row[t]
    <3>1. InCall
      BY <2>1, OwesFacts DEF InCall, Working, Pool!Threads
    <3> QED BY <2>1, <3>1 DEF PoolInv, PoolTypes, RowsInv, Holds, Pool!Rows
  <2> QED BY <2>1 DEF RowsScored, Pool!RowsScored, PoolInv, RowsInv, InCall
<1> QED BY <1>1, PoolInvariance, PTL

-----------------------------------------------------------------------------
(* Subprocess.                                                             *)

Channels == Process!Outputs \cup {"stdin", "status"}

ProcessTypes ==
  /\ stdout \in Seq(Nat) /\ stderr \in Seq(Nat)
  /\ holders \in [Channels -> SUBSET {"parent", "child", "orphan"}]
  /\ written \in [Process!Outputs -> Seq(Nat)]
  /\ result \in [stdout : Seq(Nat), stderr : Seq(Nat), exit : {"none", "exited", "killed"}]
  /\ child \in {"none", "setup", "runs", "exited", "killed"}
  /\ wants \in {"none", "read", "leave"} \cup Process!Outputs
  /\ caller \in {"start", "status", "threw", "reads", "join", "returned"}

\* What was written is what was collected and what is still on its way.
Carried ==
  /\ written["stdout"] = result.stdout \o stdout
  /\ written["stderr"] = result.stderr \o stderr

\* Who can still write has both outputs open.
Held ==
  \A c \in Process!Outputs :
    /\ child \in {"setup", "runs"} => "child" \in holders[c]
    /\ orphan = "runs" => "orphan" \in holders[c]

Drained ==
  /\ caller \in {"join", "returned"} => stdout = <<>> /\ holders["stdout"] = {}
  /\ reader = "done" => stderr = <<>> /\ holders["stderr"] = {}

Called ==
  /\ caller = "start" => child = "none" /\ orphan = "none"
  /\ caller \in {"start", "status", "threw"} => writer = "none" /\ reader = "none"
  /\ caller = "returned" =>
       reader = "done" /\ child = result.exit /\ child \in {"exited", "killed"}

ProcessInv == ProcessTypes /\ Carried /\ Held /\ Drained /\ Called

\* A piece goes to the end of a channel and of what was written.
LEMMA AppendCarried ==
  ASSUME NEW s \in Seq(Nat), NEW t \in Seq(Nat), NEW x \in Nat
  PROVE  Append(s \o t, x) = s \o Append(t, x) /\ Append(t, x) \in Seq(Nat)
<1>1. /\ Append(s \o t, x) = (s \o t) \o <<x>> /\ Append(t, x) = t \o <<x>>
      /\ s \o t \in Seq(Nat) /\ <<x>> \in Seq(Nat)
  BY AppendIsConcat, ConcatProperties
<1>2. (s \o t) \o <<x>> = s \o (t \o <<x>>)
  BY <1>1, ConcatAssociative
<1> QED BY <1>1, <1>2, AppendProperties

LEMMA PutCarried ==
  ASSUME ProcessTypes, Carried, NEW c \in Process!Outputs, Process!Put(c), Process!Grow(c),
         UNCHANGED result
  PROVE  /\ Carried'
         /\ stdout' \in Seq(Nat) /\ stderr' \in Seq(Nat)
         /\ written' \in [Process!Outputs -> Seq(Nat)]
<1> DEFINE x == Len(written[c]) + 1
<1>1. x \in Nat
  BY LenProperties DEF ProcessTypes
<1>2. Append(written[c], x) \in Seq(Nat) /\ written' = [written EXCEPT ![c] = Append(written[c], x)]
  BY <1>1, AppendProperties DEF ProcessTypes, Process!Grow, Process!Piece
<1>3. /\ result.stdout \in Seq(Nat) /\ result.stderr \in Seq(Nat)
      /\ stdout \in Seq(Nat) /\ stderr \in Seq(Nat)
  BY DEF ProcessTypes
<1>4. CASE c = "stdout"
  <2>1. stdout' = Append(stdout, x) /\ stderr' = stderr
    BY <1>4 DEF Process!Put, Process!Piece
  <2>2. written'["stdout"] = Append(written["stdout"], x) /\ written'["stderr"] = written["stderr"]
    BY <1>2, <1>4 DEF ProcessTypes, Process!Outputs
  <2> HIDE DEF x
  <2>3. Append(result.stdout \o stdout, x) = result.stdout \o Append(stdout, x)
        /\ Append(stdout, x) \in Seq(Nat)
    BY <1>1, <1>3, AppendCarried
  <2> QED BY <1>2, <2>1, <2>2, <2>3 DEF Carried, ProcessTypes
<1>5. CASE c = "stderr"
  <2>1. stderr' = Append(stderr, x) /\ stdout' = stdout
    BY <1>5 DEF Process!Put, Process!Piece
  <2>2. written'["stderr"] = Append(written["stderr"], x) /\ written'["stdout"] = written["stdout"]
    BY <1>2, <1>5 DEF ProcessTypes, Process!Outputs
  <2> HIDE DEF x
  <2>3. Append(result.stderr \o stderr, x) = result.stderr \o Append(stderr, x)
        /\ Append(stderr, x) \in Seq(Nat)
    BY <1>1, <1>3, AppendCarried
  <2> QED BY <1>2, <2>1, <2>2, <2>3 DEF Carried, ProcessTypes
<1> QED BY <1>4, <1>5 DEF Process!Outputs

\* A write by somebody who has both outputs open, when nobody has drained them.
LEMMA PutInv ==
  ASSUME ProcessInv, NEW c \in Process!Outputs, Process!Put(c), Process!Grow(c),
         UNCHANGED <<holders, child, orphan, result, caller, writer, reader>>,
         wants' \in {"none", wants}, child = "runs" \/ orphan = "runs"
  PROVE  ProcessInv'
<1>1. caller \notin {"join", "returned"} /\ reader # "done"
  BY DEF ProcessInv, Held, Drained, Process!Outputs
<1>2. ProcessTypes' /\ Carried'
  BY PutCarried DEF ProcessInv, ProcessTypes
<1> QED BY <1>1, <1>2 DEF ProcessInv, Held, Drained, Called

\* Nobody opens an output again, and who keeps a channel keeps it.
LEMMA HoldersInv ==
  ASSUME ProcessInv, NEW who \in SUBSET {"parent", "child", "orphan"}, Process!Closed(who),
         "child" \in who => child' \notin {"setup", "runs"},
         child' \in {"setup", "runs"} => child \in {"setup", "runs"},
         "orphan" \in who => orphan' # "runs", orphan' = "runs" => orphan = "runs"
  PROVE  /\ holders' \in [Channels -> SUBSET {"parent", "child", "orphan"}]
         /\ Held'
         /\ \A c \in Process!Outputs : holders[c] = {} => holders'[c] = {}
BY DEF ProcessInv, ProcessTypes, Held, Process!Closed, Process!Outputs, Channels

LEMMA ForkInv ==
  ASSUME ProcessInv, Process!Fork
  PROVE  ProcessInv'
<1>1. PICK feeders \in {{}, {"parent"}} :
        holders' = [c \in Channels |-> IF c = "stdin" THEN feeders ELSE {"child"}]
  BY DEF Process!Fork, ProcessInv, ProcessTypes
<1>2. holders' \in [Channels -> SUBSET {"parent", "child", "orphan"}]
  BY <1>1
<1>3. \A c \in Process!Outputs : holders'[c] = {"child"}
  BY <1>1 DEF Channels, Process!Outputs
<1>4. reader # "done" /\ orphan # "runs"
  BY DEF ProcessInv, Called, Process!Fork
<1>5. /\ caller = "start" /\ caller' = "status" /\ child' = "setup"
      /\ UNCHANGED <<stdout, stderr, written, wants, orphan, writer, reader, result>>
  BY DEF Process!Fork, Process!channels
<1>6. ProcessTypes' /\ Carried'
  BY <1>2, <1>5 DEF ProcessInv, ProcessTypes, Carried
<1>7. Held' /\ Drained' /\ Called'
  BY <1>3, <1>4, <1>5 DEF ProcessInv, Held, Drained, Called
<1> QED BY <1>6, <1>7 DEF ProcessInv

LEMMA StartsInv ==
  ASSUME ProcessInv, Process!Starts
  PROVE  ProcessInv'
<1>1. CASE Process!Exec
  <2>1. /\ holders' \in [Channels -> SUBSET {"parent", "child", "orphan"}]
        /\ \A c \in Process!Outputs : holders'[c] = holders[c]
    BY <1>1 DEF Process!Exec, Process!Opened, ProcessInv, ProcessTypes, Channels, Process!Outputs
  <2> QED BY <1>1, <2>1 DEF ProcessInv, ProcessTypes, Carried, Held, Drained, Called,
             Process!Exec, Process!channels, Process!parentVars, Process!Outputs
<1>2. CASE Process!ExecFails
  <2>1. /\ holders' \in [Channels -> SUBSET {"parent", "child", "orphan"}] /\ Held'
        /\ \A c \in Process!Outputs : holders[c] = {} => holders'[c] = {}
    BY <1>2, HoldersInv DEF Process!ExecFails
  <2> QED BY <1>2, <2>1 DEF ProcessInv, ProcessTypes, Carried, Drained, Called,
             Process!ExecFails, Process!parentVars, Process!Outputs
<1> QED BY <1>1, <1>2 DEF Process!Starts

LEMMA WorksInv ==
  ASSUME ProcessInv, Process!Works
  PROVE  ProcessInv'
<1>1. CASE Process!Decide \/ Process!Read
  BY <1>1 DEF ProcessInv, ProcessTypes, Carried, Held, Drained, Called, Process!Decide,
     Process!Read, Process!channels, Process!parentVars
<1>2. CASE Process!Write
  BY <1>2, PutInv DEF Process!Write, Process!parentVars
<1>3. CASE Process!Leave
  <2>1. /\ holders' \in [Channels -> SUBSET {"parent", "child", "orphan"}] /\ Held'
        /\ \A c \in Process!Outputs : holders[c] = {} => holders'[c] = {}
    <3>1. CASE Process!Closed({"child"}) /\ UNCHANGED orphan
      BY <1>3, <3>1, HoldersInv DEF Process!Leave
    <3>2. CASE /\ orphan' = "runs"
               /\ holders' = [c \in DOMAIN holders |->
                                IF "child" \in holders[c] THEN {"orphan"} ELSE holders[c]]
      BY <1>3, <3>2
         DEF Process!Leave, ProcessInv, ProcessTypes, Held, Channels, Process!Outputs
    <3> QED BY <1>3, <3>1, <3>2 DEF Process!Leave
  <2>2. child' \in {"exited", "killed"} /\ caller # "returned"
    BY <1>3 DEF Process!Leave, ProcessInv, Called
  <2>3. caller # "start"
    BY <1>3 DEF Process!Leave, ProcessInv, Called
  <2> QED BY <1>3, <2>1, <2>2, <2>3 DEF ProcessInv, ProcessTypes, Carried, Drained, Called,
             Process!Leave, Process!channels, Process!parentVars, Process!Outputs
<1> QED BY <1>1, <1>2, <1>3 DEF Process!Works

LEMMA OrphanInv ==
  ASSUME ProcessInv, Process!OrphanWrites \/ Process!OrphanEnds
  PROVE  ProcessInv'
<1>1. CASE Process!OrphanWrites
  <2>1. PICK c \in Process!Outputs : Process!Put(c) /\ Process!Grow(c)
    BY <1>1 DEF Process!OrphanWrites
  <2> QED BY <1>1, <2>1, PutInv DEF Process!OrphanWrites, Process!parentVars
<1>2. CASE Process!OrphanEnds
  <2>1. /\ holders' \in [Channels -> SUBSET {"parent", "child", "orphan"}] /\ Held'
        /\ \A c \in Process!Outputs : holders[c] = {} => holders'[c] = {}
    BY <1>2, HoldersInv DEF Process!OrphanEnds
  <2>2. caller # "start"
    BY <1>2 DEF Process!OrphanEnds, ProcessInv, Called
  <2> QED BY <1>2, <2>1, <2>2 DEF ProcessInv, ProcessTypes, Carried, Drained, Called,
             Process!OrphanEnds, Process!channels, Process!parentVars, Process!Outputs
<1> QED BY <1>1, <1>2

\* What is read is taken from the channel.
LEMMA ReadsInv ==
  ASSUME ProcessInv, Process!ReadOutput \/ Process!ReadErrors
  PROVE  ProcessInv'
<1>1. /\ result.stdout \in Seq(Nat) /\ result.stderr \in Seq(Nat) /\ <<>> \in Seq(Nat)
      /\ result.stdout \o stdout \in Seq(Nat) /\ result.stderr \o stderr \in Seq(Nat)
  BY ConcatProperties DEF ProcessInv, ProcessTypes
<1>2. /\ (result.stdout \o stdout) \o <<>> = result.stdout \o stdout
      /\ (result.stderr \o stderr) \o <<>> = result.stderr \o stderr
  BY <1>1, ConcatEmptySeq
<1>3. CASE Process!ReadOutput
  <2>1. /\ stdout' = <<>> /\ result' = [result EXCEPT !.stdout = result.stdout \o stdout]
        /\ caller = "reads"
        /\ UNCHANGED <<stderr, holders, written, child, wants, orphan, caller, writer, reader>>
    BY <1>3 DEF Process!ReadOutput, Process!childVars
  <2>2. /\ result' \in [stdout : Seq(Nat), stderr : Seq(Nat), exit : {"none", "exited", "killed"}]
        /\ result'.stdout = result.stdout \o stdout /\ result'.stderr = result.stderr
    BY <1>1, <2>1 DEF ProcessInv, ProcessTypes
  <2> QED BY <1>1, <1>2, <2>1, <2>2 DEF ProcessInv, ProcessTypes, Carried, Held, Drained, Called
<1>4. CASE Process!ReadErrors
  <2>1. /\ stderr' = <<>> /\ result' = [result EXCEPT !.stderr = result.stderr \o stderr]
        /\ reader = "reads"
        /\ UNCHANGED <<stdout, holders, written, child, wants, orphan, caller, writer, reader>>
    BY <1>4 DEF Process!ReadErrors, Process!ReaderRuns, Process!childVars
  <2>2. /\ result' \in [stdout : Seq(Nat), stderr : Seq(Nat), exit : {"none", "exited", "killed"}]
        /\ result'.stderr = result.stderr \o stderr /\ result'.stdout = result.stdout
        /\ result'.exit = result.exit
    BY <1>1, <2>1 DEF ProcessInv, ProcessTypes
  <2> QED BY <1>1, <1>2, <2>1, <2>2 DEF ProcessInv, ProcessTypes, Carried, Held, Drained, Called
<1> QED BY <1>3, <1>4

LEMMA ParentInv ==
  ASSUME ProcessInv, Process!Parent \/ Process!Writer \/ Process!Reader
  PROVE  ProcessInv'
<1> USE DEF Process!channels, Process!childVars
<1>1. CASE Process!StartFails
  <2>1. /\ holders' \in [Channels -> SUBSET {"parent", "child", "orphan"}] /\ Held'
        /\ \A c \in Process!Outputs : holders[c] = {} => holders'[c] = {}
    BY <1>1, HoldersInv DEF Process!StartFails
  <2> QED BY <1>1, <2>1 DEF ProcessInv, ProcessTypes, Carried, Drained, Called,
             Process!StartFails, Process!StatusClosed, Process!Outputs
<1>2. CASE Process!Started
  BY <1>2 DEF ProcessInv, ProcessTypes, Carried, Held, Drained, Called, Process!Started,
     Process!StartThreads, Process!StatusClosed
<1>3. CASE Process!OutputEnds \/ Process!ErrorsEnd
  BY <1>3 DEF ProcessInv, ProcessTypes, Carried, Held, Drained, Called, Process!OutputEnds,
     Process!ErrorsEnd
<1>4. CASE Process!Return
  <2>1. /\ result' \in [stdout : Seq(Nat), stderr : Seq(Nat), exit : {"none", "exited", "killed"}]
        /\ result'.stdout = result.stdout /\ result'.stderr = result.stderr
        /\ result'.exit = child
    BY <1>4 DEF Process!Return, ProcessInv, ProcessTypes
  <2> QED BY <1>4, <2>1 DEF ProcessInv, ProcessTypes, Carried, Held, Drained, Called,
             Process!Return, Process!ThreadsJoined
<1>5. CASE Process!Feed
  BY <1>5 DEF ProcessInv, ProcessTypes, Carried, Held, Drained, Called, Process!Feed
<1>6. CASE Process!Fed
  <2>1. /\ holders' \in [Channels -> SUBSET {"parent", "child", "orphan"}]
        /\ \A c \in Process!Outputs : holders'[c] = holders[c]
    BY <1>6 DEF Process!Fed, Process!Opened, ProcessInv, ProcessTypes, Channels, Process!Outputs
  <2> QED BY <1>6, <2>1 DEF ProcessInv, ProcessTypes, Carried, Held, Drained, Called,
             Process!Fed, Process!Outputs
<1> QED BY <1>1, <1>2, <1>3, <1>4, <1>5, <1>6, ReadsInv
     DEF Process!Parent, Process!Writer, Process!Reader

\* Whatever is written is collected or on its way, and nobody can write to an
\* output that its reader has seen closed (subprocess.cc:431-471).
LEMMA ProcessInvariance == MCSpec => []ProcessInv
<1>1. MCInit => ProcessInv
  <2> SUFFICES ASSUME Process!Init PROVE ProcessInv
    BY DEF MCInit
  <2>1. <<>> \in Seq(Nat) /\ <<>> \o <<>> = <<>>
    BY ConcatEmptySeq
  <2> QED BY <2>1 DEF Process!Init, ProcessInv, ProcessTypes, Channels, Carried, Held, Drained,
             Called, Process!Outputs
<1>2. MCNext \/ UNCHANGED all => Process!Next \/ UNCHANGED processVars
  BY DEF MCNext, Map, Run, Reduce, Beat, Analyze, all
<1>3. ProcessInv /\ UNCHANGED processVars => ProcessInv'
  BY DEF processVars, ProcessInv, ProcessTypes, Carried, Held, Drained, Called
<1>4. ProcessInv /\ [MCNext]_all => ProcessInv'
  BY <1>2, <1>3, ForkInv, StartsInv, WorksInv, OrphanInv, ParentInv DEF Process!Next
<1> QED BY <1>1, <1>4, PTL DEF MCSpec

\* A call that returns has everything that anybody wrote to the two outputs, in
\* order, and the end of the child itself; one that throws has started no
\* thread (subprocess.cc:431-471).
THEOREM NothingLost == MCSpec => []OutputWhole
<1>1. ProcessInv => OutputWhole
  <2> SUFFICES ASSUME ProcessInv PROVE OutputWhole
    OBVIOUS
  <2>1. ASSUME caller = "returned"
        PROVE  result.stdout = written["stdout"] /\ result.stderr = written["stderr"]
    <3>1. result.stdout \in Seq(Nat) /\ result.stderr \in Seq(Nat)
      BY DEF ProcessInv, ProcessTypes
    <3>2. result.stdout \o <<>> = result.stdout /\ result.stderr \o <<>> = result.stderr
      BY <3>1, ConcatEmptySeq
    <3> QED BY <2>1, <3>2 DEF ProcessInv, Carried, Drained, Called
  <2> QED BY <2>1 DEF ProcessInv, Called, OutputWhole, Process!OutputWhole
<1> QED BY <1>1, ProcessInvariance, PTL

-----------------------------------------------------------------------------
(* Reporter.                                                               *)

ReporterTypes ==
  /\ now \in Nat /\ rendered \in Nat /\ active \in Nat /\ wakes \in Nat
  /\ phase \in BOOLEAN /\ paused \in BOOLEAN /\ leaving \in BOOLEAN
  /\ heart \in {"evaluates", "waits", "exited"}
  /\ session \in {"runs", "prompts", "notifies", "joins", "gone"}
  /\ rendered <= now /\ active <= now

SessionInv ==
  /\ paused <=> session = "prompts"
  /\ leaving <=> session \in {"notifies", "joins", "gone"}
  /\ heart = "exited" => leaving

\* The thread wakes up in time for the next line.
WakesInTime ==
  /\ heart = "waits" =>
       /\ now <= wakes /\ wakes <= now + Interval
       /\ Reporter!Visible =>
            wakes <= rendered + Interval \/ wakes <= active + Interval
  /\ heart = "evaluates" /\ ~leaving /\ Reporter!Visible =>
       now <= rendered + Interval \/ now <= active + Interval

ReporterInv == ReporterTypes /\ SessionInv /\ WakesInTime

\* What is due an interval after one moment is due an interval after a later one.
LEMMA Later ==
  ASSUME NEW a \in Nat, NEW b \in Nat, NEW w \in Nat, a <= b, w <= a + Interval
  PROVE  w <= b + Interval
BY ReporterAssumption

LEMMA HeartInv ==
  ASSUME ReporterInv, Reporter!Heart
  PROVE  ReporterInv'
<1> USE ReporterAssumption DEF ReporterInv
<1>1. CASE Reporter!WaitEnds
  <2>1. UNCHANGED <<now, phase, paused, rendered, wakes, leaving, session, active>>
        /\ heart = "waits" /\ heart' = "evaluates" /\ (now = wakes \/ leaving)
    BY <1>1 DEF Reporter!WaitEnds, Reporter!owner
  <2> QED BY <2>1 DEF ReporterTypes, SessionInv, WakesInTime, Reporter!Visible
<1>2. CASE Reporter!Beat /\ leaving
  <2>1. UNCHANGED <<now, phase, paused, rendered, wakes, leaving, session, active>>
        /\ heart' = "exited"
    BY <1>2 DEF Reporter!Beat, Reporter!owner
  <2> QED BY <1>2, <2>1 DEF ReporterTypes, SessionInv, WakesInTime
<1>3. CASE Reporter!Beat /\ ~leaving
  <2>1. /\ heart' = "waits" /\ rendered' \in {rendered, now}
        /\ wakes' = now + Reporter!Delay(rendered')
        /\ UNCHANGED <<now, phase, paused, leaving, session, active>>
    BY <1>3 DEF Reporter!Beat, Reporter!owner
  <2>2. CASE Reporter!Visible
    <3>1. rendered' = IF now - rendered >= Interval THEN now ELSE rendered
      BY <1>3, <2>2 DEF Reporter!Beat, Reporter!Due
    <3>2. wakes' = now + (Interval - (now - rendered'))
      BY <2>1, <2>2 DEF Reporter!Delay
    <3>3. /\ rendered' \in Nat /\ rendered' <= now /\ wakes' \in Nat
          /\ wakes' = rendered' + Interval /\ now <= wakes'
      BY <3>1, <3>2 DEF ReporterTypes
    <3>4. ReporterTypes'
      BY <2>1, <3>3 DEF ReporterTypes
    <3>5. SessionInv'
      BY <2>1 DEF SessionInv
    <3>6. wakes' <= now + Interval /\ wakes' <= rendered' + Interval
      <4>1. now \in Nat
        BY DEF ReporterTypes
      <4> HIDE DEF ReporterInv
      <4>2. \A w \in Nat, a \in Nat : w = a + Interval => w <= a + Interval
        BY ReporterAssumption
      <4>3. wakes' <= rendered' + Interval
        BY <3>3, <4>2
      <4> QED BY <3>3, <4>1, <4>3, Later
    <3>7. WakesInTime'
      BY <2>1, <3>3, <3>6 DEF WakesInTime
    <3> QED BY <3>4, <3>5, <3>7
  <2>3. CASE ~Reporter!Visible
    <3>1. wakes' = now + Interval /\ ~Reporter!Visible'
      BY <2>1, <2>3 DEF Reporter!Delay, Reporter!Visible
    <3> QED BY <2>1, <3>1 DEF ReporterTypes, SessionInv, WakesInTime
  <2> QED BY <2>2, <2>3
<1> QED BY <1>1, <1>2, <1>3 DEF Reporter!Heart

\* A line is only written later than the one before.
LEMMA RenderedInv ==
  ASSUME ReporterInv, rendered' \in {rendered, now},
         UNCHANGED <<now, phase, paused, heart, wakes, leaving, session, active>>
  PROVE  ReporterInv'
<1>1. ReporterTypes' /\ rendered <= rendered'
  BY DEF ReporterInv, ReporterTypes
<1>2. SessionInv'
  BY DEF ReporterInv, SessionInv
<1>3. /\ wakes <= rendered + Interval => wakes <= rendered' + Interval
      /\ now <= rendered + Interval => now <= rendered' + Interval
  <2>1. rendered \in Nat /\ rendered' \in Nat /\ wakes \in Nat /\ now \in Nat
    BY <1>1 DEF ReporterInv, ReporterTypes
  <2> QED BY <1>1, <2>1, Later
<1>4. WakesInTime'
  BY <1>3 DEF ReporterInv, WakesInTime, Reporter!Visible
<1> QED BY <1>1, <1>2, <1>4 DEF ReporterInv

LEMMA OwnerInv ==
  ASSUME ReporterInv,
         \/ Reporter!Tick \/ Reporter!Phase \/ Reporter!Ask \/ Reporter!Accepted
         \/ Reporter!Declined \/ Reporter!Stop \/ Reporter!Leaves
         \/ \E c, t \in 0..Total : Reporter!Counter(c, t)
  PROVE  ReporterInv'
<1> USE ReporterAssumption DEF ReporterInv, Reporter!owner
<1>1. CASE Reporter!Tick
  <2>1. /\ now' = now + 1 /\ (heart = "exited" \/ (heart = "waits" /\ now < wakes))
        /\ UNCHANGED <<phase, paused, rendered, heart, wakes, leaving, session, active>>
    BY <1>1 DEF Reporter!Tick
  <2> QED BY <2>1 DEF ReporterTypes, SessionInv, WakesInTime, Reporter!Visible
<1>2. CASE Reporter!Phase
  <2>1. /\ phase' = TRUE /\ rendered' \in {rendered, now}
        /\ active' = IF phase THEN active ELSE now
        /\ UNCHANGED <<now, paused, heart, wakes, leaving, session>>
    BY <1>2 DEF Reporter!Phase, Reporter!Activate
  <2>2. phase' \in BOOLEAN
    BY <2>1, Zenon
  <2>3. ReporterTypes' /\ rendered <= rendered' /\ active <= active'
    BY <2>1, <2>2 DEF ReporterTypes
  <2>4. SessionInv'
    BY <2>1 DEF SessionInv
  <2>5. /\ wakes <= rendered + Interval => wakes <= rendered' + Interval
        /\ now <= rendered + Interval => now <= rendered' + Interval
    <3>1. rendered \in Nat /\ rendered' \in Nat /\ wakes \in Nat /\ now \in Nat
      BY <2>3 DEF ReporterTypes
    <3> QED BY <2>3, <3>1, Later
  <2>6. ASSUME phase PROVE WakesInTime'
    BY <2>1, <2>5, <2>6 DEF WakesInTime, Reporter!Visible
  <2>7. ASSUME ~phase PROVE WakesInTime'
    <3>1. active' = now /\ now <= now + Interval
      BY <2>1, <2>7 DEF ReporterTypes
    <3> QED BY <2>1, <3>1 DEF WakesInTime, Reporter!Visible
  <2>8. WakesInTime'
    BY <2>6, <2>7
  <2> QED BY <2>3, <2>4, <2>8
<1>3. CASE Reporter!Ask
  <2>1. /\ session = "runs" /\ session' = "prompts" /\ paused' = TRUE
        /\ UNCHANGED <<now, phase, rendered, heart, wakes, leaving, active>>
    BY <1>3 DEF Reporter!Ask
  <2>2. paused' \in BOOLEAN
    BY <2>1, Zenon
  <2> QED BY <2>1, <2>2 DEF ReporterTypes, SessionInv, WakesInTime, Reporter!Visible
<1>4. CASE Reporter!Accepted \/ Reporter!Declined
  <2>1. /\ session = "prompts" /\ session' = "runs" /\ paused' = FALSE /\ active' = now
        /\ UNCHANGED <<now, phase, rendered, heart, wakes, leaving>>
    BY <1>4 DEF Reporter!Accepted, Reporter!Declined, Reporter!Resume
  <2>2. paused' \in BOOLEAN
    BY <2>1, Zenon
  <2> QED BY <2>1, <2>2 DEF ReporterTypes, SessionInv, WakesInTime, Reporter!Visible
<1>5. CASE Reporter!Stop
  <2>1. /\ session = "runs" /\ session' = "notifies" /\ leaving' = TRUE
        /\ UNCHANGED <<now, phase, paused, rendered, heart, wakes, active>>
    BY <1>5 DEF Reporter!Stop
  <2>2. leaving' \in BOOLEAN
    BY <2>1, Zenon
  <2> QED BY <2>1, <2>2 DEF ReporterTypes, SessionInv, WakesInTime, Reporter!Visible
<1>6. CASE Reporter!Leaves
  BY <1>6 DEF ReporterTypes, SessionInv, WakesInTime, Reporter!Visible, Reporter!Leaves,
     Reporter!Notify, Reporter!Joined
<1>7. ASSUME NEW c \in 0..Total, NEW t \in 0..Total, Reporter!Counter(c, t)
      PROVE  ReporterInv'
  BY <1>7, RenderedInv DEF Reporter!Counter
<1> QED BY <1>1, <1>2, <1>3, <1>4, <1>5, <1>6, <1>7

\* While there is something to report, the thread wakes up no later than an
\* interval after the last line, or after there was something to report again
\* (progress.cc:160-185).
LEMMA ReporterInvariance == MCSpec => []ReporterInv
<1>1. MCInit => ReporterInv
  <2> SUFFICES ASSUME Reporter!Init PROVE ReporterInv
    BY DEF MCInit
  <2>1. phase \in BOOLEAN /\ paused \in BOOLEAN /\ leaving \in BOOLEAN
    BY Zenon DEF Reporter!Init
  <2> QED BY <2>1, ReporterAssumption
       DEF Reporter!Init, ReporterInv, ReporterTypes, SessionInv, WakesInTime
<1>2. MCNext \/ UNCHANGED all => Reporter!Next \/ UNCHANGED reporterVars
  BY DEF MCNext, Map, Run, Reduce, Beat, Analyze, all
<1>3. ReporterInv /\ UNCHANGED reporterVars => ReporterInv'
  BY DEF reporterVars, ReporterInv, ReporterTypes, SessionInv, WakesInTime, Reporter!Visible
<1>4. ReporterInv /\ [MCNext]_all => ReporterInv'
  BY <1>2, <1>3, HeartInv, OwnerInv DEF Reporter!Next
<1> QED BY <1>1, <1>4, PTL DEF MCSpec

\* No more than an interval passes without a line, however updates and
\* questions fall between the heartbeats, for any interval; and nothing is
\* written into a question (progress.cc:160-185, 231).
THEOREM HeartbeatsRegular == MCSpec => []HeartbeatRegular
<1>1. ReporterInv => HeartbeatRegular
  BY ReporterAssumption DEF ReporterInv, ReporterTypes, SessionInv, WakesInTime,
     HeartbeatRegular, Reporter!HeartbeatRegular, Reporter!Visible
<1> QED BY <1>1, ReporterInvariance, PTL

-----------------------------------------------------------------------------
(* Runs.                                                                   *)

Scoring == {"create", "lock", "wait", "load", "score"}
Leaving == {"unload", "release", "done"}

RunTypes ==
  /\ files \in Seq(Runs!Kinds)
  /\ backend \in [Procs -> {"cpu", "gpu"}] /\ caching \in [Procs -> BOOLEAN]
  /\ known \in [Procs -> SUBSET cached]
  /\ holder \in Procs \cup {Nobody} /\ device \in SUBSET Procs
  /\ place \in [Procs -> {"idle", "next"} \cup Scoring \cup Leaving]
  /\ provider \in [Procs -> {"none", "broken", "loaded"}]
  /\ events \in [Procs -> Seq(Runs!Outcomes)]
  /\ totals \in [Procs -> BOOLEAN]
  /\ exit \in [Procs -> {"none", "0", "1", "2", "killed"}]

\* What was told about the files so far.
Told(p) ==
  /\ place[p] = "idle" => events[p] = <<>>
  /\ Len(events[p]) <= Len(files)
  /\ \A i \in 1..Len(events[p]) :
       /\ Runs!Compatible(files[i], events[p][i])
       /\ files[i] = "text" /\ caching[p] /\ <<backend[p], i>> \in known[p] =>
            events[p][i] = "hit"
       /\ events[p][i] = "fatal" => provider[p] = "broken"
       /\ events[p][i] = "scored" => provider[p] = "loaded"

\* A file that is being scored is not in the cache that the run began with.
Missed(p) ==
  place[p] \in Scoring =>
    /\ Runs!File(p) <= Len(files) /\ files[Runs!File(p)] = "text"
    /\ ~(caching[p] /\ Runs!Entry(p) \in known[p])
    /\ provider[p] = IF place[p] = "score" THEN "loaded" ELSE "none"
    /\ place[p] \in {"lock", "wait"} => backend[p] = "gpu"
    /\ place[p] = "load" /\ backend[p] = "gpu" => holder = p

Concluded(p) ==
  IF totals[p]
    THEN /\ Len(events[p]) = Len(files)
         /\ exit[p] = "2" <=> \E i \in 1..Len(files) : events[p][i] = "fatal"
         /\ exit[p] = "0" <=>
              \A i \in 1..Len(files) : events[p][i] \in {"scored", "hit", "blank"}
    ELSE exit[p] = "2"

Ended(p) ==
  /\ place[p] \notin Leaving => ~totals[p]
  /\ place[p] \in Leaving /\ exit[p] # "killed" => Concluded(p)

\* Who has the lock is loading its model, or has it.
Locks(p) ==
  /\ holder = p => \/ place[p] = "load"
                   \/ provider[p] = "loaded"
                      /\ place[p] \in {"next", "score", "unload", "release"}
  /\ p \in device => holder = p /\ provider[p] = "loaded"

RunInv == RunTypes /\ \A p \in Procs : Told(p) /\ Missed(p) /\ Ended(p) /\ Locks(p)

RunsInv == group = "runs" => RunInv

\* A step of one process: nothing of the others changes, and their hold on the
\* device stays.
Alone(p) ==
  /\ UNCHANGED <<files, backend, caching>>
  /\ place' = [place EXCEPT ![p] = place'[p]]
  /\ provider' = [provider EXCEPT ![p] = provider'[p]]
  /\ events' = [events EXCEPT ![p] = events'[p]]
  /\ totals' = [totals EXCEPT ![p] = totals'[p]]
  /\ exit' = [exit EXCEPT ![p] = exit'[p]]
  /\ known' = [known EXCEPT ![p] = known'[p]]
  /\ cached \subseteq cached' /\ known'[p] \in SUBSET cached'
  /\ holder' = holder \/ (holder \in {Nobody, p} /\ holder' \in {Nobody, p})
  /\ device' \in {device, device \cup {p}, device \ {p}}
  /\ place'[p] \in {"idle", "next"} \cup Scoring \cup Leaving
  /\ provider'[p] \in {"none", "broken", "loaded"}
  /\ events'[p] \in Seq(Runs!Outcomes)
  /\ totals'[p] \in BOOLEAN
  /\ exit'[p] \in {"none", "0", "1", "2", "killed"}

LEMMA AloneInv ==
  ASSUME RunInv, NEW p \in Procs, Alone(p), Told(p)', Missed(p)', Ended(p)', Locks(p)'
  PROVE  RunInv'
<1>1. RunTypes'
  <2>1. place' \in [Procs -> {"idle", "next"} \cup Scoring \cup Leaving]
        /\ provider' \in [Procs -> {"none", "broken", "loaded"}]
    BY DEF RunInv, RunTypes, Alone
  <2>2. events' \in [Procs -> Seq(Runs!Outcomes)]
    BY DEF RunInv, RunTypes, Alone
  <2>3. totals' \in [Procs -> BOOLEAN]
    BY DEF RunInv, RunTypes, Alone
  <2>4. exit' \in [Procs -> {"none", "0", "1", "2", "killed"}]
    BY DEF RunInv, RunTypes, Alone
  <2>5. known' \in [Procs -> SUBSET cached']
    BY DEF RunInv, RunTypes, Alone
  <2>6. /\ UNCHANGED <<files, backend, caching>>
        /\ holder' \in Procs \cup {Nobody} /\ device' \in SUBSET Procs
    BY DEF RunInv, RunTypes, Alone
  <2> QED BY <2>1, <2>2, <2>3, <2>4, <2>5, <2>6 DEF RunInv, RunTypes
<1>2. ASSUME NEW q \in Procs, q # p PROVE Told(q)' /\ Missed(q)' /\ Ended(q)' /\ Locks(q)'
  <2>1. /\ place'[q] = place[q] /\ provider'[q] = provider[q] /\ events'[q] = events[q]
        /\ totals'[q] = totals[q] /\ exit'[q] = exit[q] /\ known'[q] = known[q]
        /\ UNCHANGED <<files, backend, caching>>
    BY <1>2 DEF RunInv, RunTypes, Alone
  <2>2. (holder' = q <=> holder = q) /\ (q \in device' <=> q \in device)
    BY <1>2, RunsAssumption DEF Alone
  <2>3. Told(q)'
    BY <2>1 DEF RunInv, Told
  <2>4. Missed(q)'
    BY <2>1, <2>2 DEF RunInv, Missed, Runs!File, Runs!Entry
  <2>5. Ended(q)'
    BY <2>1 DEF RunInv, Ended, Concluded
  <2>6. Locks(q)'
    BY <2>1, <2>2 DEF RunInv, Locks
  <2> QED BY <2>3, <2>4, <2>5, <2>6
<1> QED BY <1>1, <1>2 DEF RunInv

\* The outcome of the next file.
LEMMA EndsTold ==
  ASSUME RunInv, NEW p \in Procs, NEW how \in Runs!Outcomes, Runs!Ends(p, how),
         UNCHANGED <<files, backend, caching, known>>,
         Runs!File(p) <= Len(files), Runs!Compatible(files[Runs!File(p)], how),
         files[Runs!File(p)] = "text" /\ caching[p] /\ Runs!Entry(p) \in known[p] =>
           how = "hit",
         provider'[p] = provider[p] \/ provider[p] = "none",
         how = "fatal" => provider'[p] = "broken",
         how = "scored" => provider'[p] = "loaded"
  PROVE  Told(p)' /\ events'[p] \in Seq(Runs!Outcomes)
<1> DEFINE before == events[p]
           after == Append(before, how)
<1>1. before \in Seq(Runs!Outcomes) /\ Len(before) \in Nat /\ Told(p)
  BY LenProperties DEF RunInv, RunTypes
<1>2. events'[p] = after
  BY DEF RunInv, RunTypes, Runs!Ends
<1>3. /\ after \in Seq(Runs!Outcomes) /\ Len(after) = Len(before) + 1
      /\ \A i \in 1..Len(before) : after[i] = before[i]
      /\ after[Len(before) + 1] = how
  BY <1>1, AppendProperties
<1>4. Runs!File(p) = Len(before) + 1 /\ Runs!Entry(p) = <<backend[p], Len(before) + 1>>
  BY DEF Runs!File, Runs!Entry
<1>5. ASSUME NEW i \in 1..Len(after)
      PROVE  /\ Runs!Compatible(files[i], after[i])
             /\ files[i] = "text" /\ caching[p] /\ <<backend[p], i>> \in known[p] =>
                  after[i] = "hit"
             /\ after[i] = "fatal" => provider'[p] = "broken"
             /\ after[i] = "scored" => provider'[p] = "loaded"
  <2>1. CASE i \in 1..Len(before)
    BY <1>1, <1>3, <2>1 DEF Told
  <2>2. CASE i = Len(before) + 1
    BY <1>3, <1>4, <2>2
  <2> QED BY <1>1, <1>3, <2>1, <2>2
<1>6. place'[p] = "next"
  BY DEF RunInv, RunTypes, Runs!Ends, Runs!Goto
<1> HIDE DEF before, after
<1>7. Len(after) <= Len(files) /\ UNCHANGED <<files, backend, caching, known>>
  BY <1>3, <1>4
<1> QED BY <1>2, <1>3, <1>5, <1>6, <1>7 DEF Told

\* An exception leaves RunAnalyze.
LEMMA LeaveInv ==
  ASSUME RunInv, NEW p \in Procs, Runs!Leave(p), place[p] \notin Leaving,
         UNCHANGED <<files, backend, caching, cached, known, provider, events, device>>,
         \/ holder' = holder /\ (holder = p => place[p] = "score")
         \/ place[p] = "load" /\ holder' = Runs!Unlocked(p)
  PROVE  RunInv'
<1> USE DEF RunInv
<1>1. /\ place' = [place EXCEPT ![p] = "unload"] /\ exit' = [exit EXCEPT ![p] = "2"]
      /\ place'[p] = "unload" /\ exit'[p] = "2" /\ totals' = totals /\ ~totals[p]
  BY DEF Runs!Leave, Runs!Goto, RunTypes, Ended
<1>2. holder' = holder \/ (holder \in {Nobody, p} /\ holder' \in {Nobody, p})
  BY DEF Runs!Unlocked
<1>3. Alone(p)
  BY <1>1, <1>2 DEF Alone, RunTypes, Leaving
<1>4. Told(p)'
  BY <1>1 DEF Told
<1>5. Missed(p)' /\ Ended(p)'
  BY <1>1 DEF Missed, Ended, Concluded, Scoring
<1>6. Locks(p)'
  BY <1>1, RunsAssumption DEF Locks, Runs!Unlocked, Missed, Scoring
<1> QED BY <1>3, <1>4, <1>5, <1>6, AloneInv

LEMMA StartInv ==
  ASSUME RunInv, NEW p \in Procs,
         Runs!Start(p) \/ Runs!DiscoverFails(p) \/ Runs!OpenScorerSessionFails(p)
  PROVE  RunInv'
<1> USE DEF RunInv, Runs!inputs, Runs!gpuState, Runs!result
<1>1. place[p] = "idle" /\ holder # p /\ p \notin device
  BY DEF Runs!Start, Runs!DiscoverFails, Runs!OpenScorerSessionFails, Runs!Preflight,
     Runs!OpenScorerSession, Locks
<1>2. CASE Runs!DiscoverFails(p) \/ Runs!OpenScorerSessionFails(p)
  <2>1. /\ Runs!Leave(p) /\ place[p] \notin Leaving
        /\ UNCHANGED <<files, backend, caching, cached, known, provider, events, device>>
        /\ holder' = holder /\ (holder = p => place[p] = "score")
    BY <1>1, <1>2 DEF Runs!DiscoverFails, Runs!OpenScorerSessionFails, Leaving
  <2> QED BY <2>1, LeaveInv
<1>3. CASE Runs!OpenScorerSession(p)
  <2>1. /\ place' = [place EXCEPT ![p] = "next"] /\ known' = [known EXCEPT ![p] = cached]
        /\ UNCHANGED <<files, backend, caching, cached, holder, device, provider, events,
                       totals, exit>>
    BY <1>3 DEF Runs!OpenScorerSession, Runs!Goto
  <2>2. Alone(p)
    BY <1>1, <2>1 DEF Alone, RunTypes
  <2>3. Told(p)'
    BY <1>1, <2>1, LenProperties DEF Told, RunTypes
  <2>4. Missed(p)' /\ Ended(p)' /\ Locks(p)'
    BY <1>1, <2>1 DEF Missed, Ended, Locks, Scoring, Leaving, RunTypes
  <2> QED BY <2>2, <2>3, <2>4, AloneInv
<1>4. CASE Runs!Preflight(p)
  <2> DEFINE told == [i \in DOMAIN files |-> "failed"]
             code == IF files = <<>> THEN "0" ELSE "1"
  <2>1. /\ \A i \in DOMAIN files : files[i] = "oversize"
        /\ events' = [events EXCEPT ![p] = told] /\ totals' = [totals EXCEPT ![p] = TRUE]
        /\ exit' = [exit EXCEPT ![p] = code] /\ place' = [place EXCEPT ![p] = "unload"]
        /\ UNCHANGED <<files, backend, caching, cached, known, holder, device, provider>>
    BY <1>4 DEF Runs!Preflight, Runs!Refused, Runs!Goto
  <2>2. Len(files) \in Nat /\ DOMAIN files = 1..Len(files)
    BY LenProperties DEF RunTypes
  <2>3. told \in Seq(Runs!Outcomes) /\ Len(told) = Len(files)
        /\ \A i \in 1..Len(files) : told[i] = "failed"
    <3>1. told \in [1..Len(files) -> Runs!Outcomes]
      BY <2>2 DEF Runs!Outcomes
    <3> QED BY <2>2, <3>1, SeqDef, LenProperties
  <2>4. code \in {"0", "1"} /\ (code = "0" <=> Len(files) = 0)
    BY EmptySeq, LenProperties DEF RunTypes
  <2> HIDE DEF told, code
  <2>5. /\ place'[p] = "unload" /\ events'[p] = told /\ exit'[p] = code
        /\ totals'[p] = TRUE
    BY <2>1 DEF RunTypes
  <2>6. totals'[p] \in BOOLEAN
    BY <2>5, Zenon
  <2>7. Alone(p)
    BY <2>1, <2>3, <2>4, <2>5, <2>6 DEF Alone, RunTypes, Leaving
  <2>8. Told(p)'
    BY <2>1, <2>2, <2>3, <2>5 DEF Told, Runs!Compatible
  <2>9. Missed(p)' /\ Locks(p)'
    BY <1>1, <2>1, <2>5 DEF Missed, Locks, Scoring
  <2>10. Ended(p)'
    BY <2>1, <2>2, <2>3, <2>4, <2>5 DEF Ended, Concluded, Leaving
  <2> QED BY <2>7, <2>8, <2>9, <2>10, AloneInv
<1> QED BY <1>2, <1>3, <1>4 DEF Runs!Start

\* A file ends without a score.
LEMMA EndsInv ==
  ASSUME RunInv, NEW p \in Procs, NEW how \in Runs!Outcomes, Runs!Ends(p, how),
         UNCHANGED <<files, backend, caching, known, totals, exit, device>>,
         cached \subseteq cached', place[p] \in {"next"} \cup Scoring,
         Runs!File(p) <= Len(files), Runs!Compatible(files[Runs!File(p)], how),
         files[Runs!File(p)] = "text" /\ caching[p] /\ Runs!Entry(p) \in known[p] =>
           how = "hit",
         provider' = [provider EXCEPT ![p] = provider'[p]],
         \/ provider'[p] = provider[p] /\ holder' = holder
            /\ (holder = p => provider[p] = "loaded")
         \/ /\ provider[p] = "none" /\ provider'[p] = "broken"
            /\ holder' = Runs!Unlocked(p),
         how = "fatal" => provider'[p] = "broken",
         how = "scored" => provider'[p] = "loaded"
  PROVE  RunInv'
<1> USE DEF RunInv
<1>1. Told(p)' /\ events'[p] \in Seq(Runs!Outcomes)
  BY EndsTold
<1>2. place' = [place EXCEPT ![p] = "next"] /\ place'[p] = "next"
      /\ events' = [events EXCEPT ![p] = events'[p]]
  BY DEF Runs!Ends, Runs!Goto, RunTypes
<1>3. /\ holder' = holder \/ (holder \in {Nobody, p} /\ holder' \in {Nobody, p})
      /\ provider'[p] \in {"none", "broken", "loaded"}
  BY DEF Runs!Unlocked, RunTypes
<1>4. Alone(p)
  BY <1>1, <1>2, <1>3 DEF Alone, RunTypes
<1>5. Missed(p)' /\ Ended(p)'
  BY <1>2 DEF Missed, Ended, Scoring, Leaving
<1>6. Locks(p)'
  BY <1>2, RunsAssumption DEF Locks, Runs!Unlocked
<1> QED BY <1>1, <1>4, <1>5, <1>6, AloneInv

\* Nothing but the place, the lock and the provider changes.
LEMMA GoesInv ==
  ASSUME RunInv, NEW p \in Procs, NEW there \in {"next"} \cup Scoring, Runs!Goto(p, there),
         UNCHANGED <<files, backend, caching, cached, known, events, totals, exit>>,
         place[p] \in {"next"} \cup Scoring,
         provider' = [provider EXCEPT ![p] = provider'[p]],
         provider'[p] \in {provider[p], "loaded"},
         provider[p] \in {"none", provider'[p]},
         holder' = holder \/ (holder = Nobody /\ holder' = p),
         device' \in {device, device \cup {p}},
         Missed(p)', Locks(p)'
  PROVE  RunInv'
<1> USE DEF RunInv
<1>1. place' = [place EXCEPT ![p] = there] /\ place'[p] = there
  BY DEF Runs!Goto, RunTypes
<1>2. Alone(p)
  BY <1>1 DEF Alone, RunTypes
<1>3. Told(p)'
  BY <1>1, LenProperties DEF Told, Scoring
<1>4. Ended(p)'
  BY <1>1 DEF Ended, Scoring, Leaving
<1> QED BY <1>2, <1>3, <1>4, AloneInv

LEMMA UnscoredInv ==
  ASSUME RunInv, NEW p \in Procs, Runs!Unscored(p)
  PROVE  RunInv'
<1> DEFINE kind == files[Runs!File(p)]
           how == IF kind = "blank" THEN "blank" ELSE "failed"
<1>1. /\ place[p] = "next" /\ kind # "text" /\ Runs!Ends(p, how)
      /\ UNCHANGED <<files, backend, caching, cached, known, totals, exit, device, holder,
                     provider>>
  BY DEF Runs!Unscored, Runs!inputs, Runs!gpuState, Runs!result
<1>2. Runs!File(p) <= Len(files) /\ kind \in Runs!Kinds
  BY LenProperties, ElementOfSeq DEF Runs!Unscored, RunInv, RunTypes
<1>3. how \in Runs!Outcomes /\ Runs!Compatible(kind, how) /\ how \notin {"fatal", "scored"}
  BY <1>1, <1>2 DEF Runs!Outcomes, Runs!Compatible, Runs!Kinds
<1>4. provider' = [provider EXCEPT ![p] = provider'[p]] /\ provider'[p] = provider[p]
      /\ (holder = p => provider[p] = "loaded")
  BY <1>1 DEF RunInv, RunTypes, Locks
<1> HIDE DEF kind, how
<1> QED BY <1>1, <1>2, <1>3, <1>4, EndsInv DEF kind

LEMMA ReadRecordsInv ==
  ASSUME RunInv, NEW p \in Procs, Runs!ReadRecords(p)
  PROVE  RunInv'
<1>1. /\ place[p] = "next" /\ files[Runs!File(p)] = "text"
      /\ UNCHANGED <<files, backend, caching, cached, known, totals, exit, device, holder,
                     provider>>
  BY DEF Runs!ReadRecords, Runs!inputs, Runs!gpuState, Runs!result
<1>2. Runs!File(p) <= Len(files)
  BY LenProperties DEF Runs!ReadRecords, RunInv, RunTypes
<1>3. /\ provider' = [provider EXCEPT ![p] = provider'[p]] /\ provider'[p] = provider[p]
      /\ (holder = p => provider[p] = "loaded")
  BY <1>1 DEF RunInv, RunTypes, Locks
<1>4. ~Runs!Hit(p) => ~(caching[p] /\ Runs!Entry(p) \in known[p])
  BY DEF RunInv, RunTypes, Runs!Hit
<1>5. CASE Runs!Hit(p) /\ Runs!Ends(p, "hit")
  <2>1. "hit" \in Runs!Outcomes /\ Runs!Compatible("text", "hit")
    BY DEF Runs!Outcomes, Runs!Compatible
  <2> QED BY <1>1, <1>2, <1>3, <1>5, <2>1, EndsInv
<1>6. CASE ~Runs!Hit(p) /\ provider[p] = "broken" /\ Runs!Ends(p, "fatal")
  <2>1. "fatal" \in Runs!Outcomes /\ Runs!Compatible("text", "fatal")
    BY DEF Runs!Outcomes, Runs!Compatible
  <2> QED BY <1>1, <1>2, <1>3, <1>4, <1>6, <2>1, EndsInv
<1>7. ASSUME NEW there \in {"score", "create"}, Runs!Goto(p, there), UNCHANGED events,
             ~Runs!Hit(p), provider[p] = IF there = "score" THEN "loaded" ELSE "none"
      PROVE  RunInv'
  <2>1. place'[p] = there
    BY <1>7 DEF Runs!Goto, RunInv, RunTypes
  <2>2. Missed(p)'
    BY <1>1, <1>2, <1>4, <1>7, <2>1 DEF Missed, Runs!File, Runs!Entry
  <2>3. Locks(p)'
    BY <1>1, <1>7, <2>1 DEF RunInv, Locks
  <2> QED BY <1>1, <1>3, <1>7, <2>2, <2>3, GoesInv DEF Scoring
<1> QED BY <1>5, <1>6, <1>7 DEF Runs!ReadRecords

\* The scorer: a runtime, with a GPU its lock, the model.
LEMMA CreateRunInv ==
  ASSUME RunInv, NEW p \in Procs,
         \/ Runs!CreateBackendRuntime(p) \/ Runs!TryLock(p) \/ Runs!WaitForLock(p)
         \/ Runs!Load(p)
  PROVE  RunInv'
<1>1. /\ UNCHANGED <<files, backend, caching, cached, known, events, totals, exit>>
      /\ place[p] \in Scoring /\ place[p] # "score"
  BY DEF Runs!CreateBackendRuntime, Runs!TryLock, Runs!WaitForLock, Runs!Load, Runs!inputs,
     Runs!result, Scoring
<1>2. /\ Missed(p) /\ Locks(p) /\ provider[p] = "none" /\ p \notin device
      /\ backend[p] \in {"cpu", "gpu"} /\ provider \in [Procs -> {"none", "broken", "loaded"}]
  BY <1>1 DEF RunInv, RunTypes, Missed, Locks
<1>3. ASSUME NEW there \in Scoring, Runs!Goto(p, there)
      PROVE  place'[p] = there /\ Runs!File(p)' = Runs!File(p) /\ Runs!Entry(p)' = Runs!Entry(p)
  BY <1>1, <1>3 DEF Runs!Goto, RunInv, RunTypes, Runs!File, Runs!Entry
<1>4. CASE Runs!CreateBackendRuntime(p)
  <2> DEFINE there == IF backend[p] = "cpu" THEN "load" ELSE "lock"
  <2>1. Runs!Goto(p, there) /\ there \in Scoring /\ place[p] = "create"
        /\ UNCHANGED <<holder, device, provider>>
    BY <1>4 DEF Runs!CreateBackendRuntime, Runs!gpuState, Scoring
  <2>2. there \in {"load", "lock"} /\ (there = "lock" => backend[p] = "gpu")
        /\ (there = "load" => backend[p] = "cpu")
    BY <1>2
  <2> HIDE DEF there
  <2>3. Missed(p)'
    BY <1>1, <1>2, <1>3, <2>1, <2>2 DEF Missed
  <2>4. Locks(p)'
    BY <1>2, <1>3, <2>1 DEF Locks
  <2> QED BY <1>1, <1>2, <2>1, <2>3, <2>4, GoesInv
<1>5. CASE Runs!TryLock(p) /\ holder # Nobody
  <2>1. Runs!Goto(p, "wait") /\ "wait" \in Scoring /\ place[p] = "lock"
        /\ UNCHANGED <<holder, device, provider>>
    BY <1>5 DEF Runs!TryLock, Scoring
  <2>2. Missed(p)' /\ Locks(p)'
    BY <1>1, <1>2, <1>3, <2>1 DEF Missed, Locks
  <2> QED BY <1>1, <1>2, <2>1, <2>2, GoesInv
<1>6. CASE (Runs!TryLock(p) /\ holder = Nobody) \/ Runs!WaitForLock(p)
  <2>1. Runs!Goto(p, "load") /\ "load" \in Scoring /\ place[p] \in {"lock", "wait"}
        /\ holder = Nobody /\ holder' = p /\ UNCHANGED <<device, provider>>
    BY <1>6 DEF Runs!TryLock, Runs!WaitForLock, Scoring
  <2>2. Missed(p)' /\ Locks(p)'
    BY <1>1, <1>2, <1>3, <2>1 DEF Missed, Locks
  <2> QED BY <1>1, <1>2, <2>1, <2>2, GoesInv
<1>7. CASE Runs!Load(p)
  <2>1. /\ Runs!Goto(p, "score") /\ "score" \in Scoring /\ place[p] = "load"
        /\ provider' = [provider EXCEPT ![p] = "loaded"] /\ UNCHANGED holder
        /\ device' = IF backend[p] = "gpu" THEN device \cup {p} ELSE device
    BY <1>7 DEF Runs!Load, Scoring
  <2>2. provider'[p] = "loaded"
    BY <1>2, <2>1
  <2>3. Missed(p)'
    BY <1>1, <1>2, <1>3, <2>1, <2>2 DEF Missed
  <2>4. Locks(p)'
    BY <1>1, <1>2, <1>3, <2>1, <2>2 DEF Missed, Locks
  <2>5. device' \in {device, device \cup {p}}
    BY <2>1
  <2> QED BY <1>1, <1>2, <2>1, <2>2, <2>3, <2>4, <2>5, GoesInv
<1> QED BY <1>4, <1>5, <1>6, <1>7

\* The scorer cannot be created, or fails, or has scored the file.
LEMMA ScorerInv ==
  ASSUME RunInv, NEW p \in Procs,
         \/ Runs!CreateBackendRuntimeFails(p) \/ Runs!LockFails(p) \/ Runs!LoadFails(p)
         \/ Runs!Score(p) \/ Runs!ScoreFails(p)
  PROVE  RunInv'
<1>1. /\ UNCHANGED <<files, backend, caching, known, device>> /\ cached \subseteq cached'
      /\ place[p] \in Scoring
  BY DEF Runs!CreateBackendRuntimeFails, Runs!LockFails, Runs!LoadFails, Runs!Score,
     Runs!ScoreFails, Runs!inputs, Runs!gpuState, Scoring
<1>2. /\ Missed(p) /\ Locks(p) /\ provider \in [Procs -> {"none", "broken", "loaded"}]
      /\ Runs!File(p) <= Len(files) /\ files[Runs!File(p)] = "text"
      /\ ~(caching[p] /\ Runs!Entry(p) \in known[p])
      /\ provider[p] = IF place[p] = "score" THEN "loaded" ELSE "none"
      /\ holder = p => place[p] \in {"load", "score"}
  BY <1>1 DEF RunInv, RunTypes, Missed, Locks, Scoring
<1>3. \A how \in {"fatal", "scored", "failed"} :
        how \in Runs!Outcomes /\ Runs!Compatible("text", how)
  BY DEF Runs!Outcomes, Runs!Compatible
<1>4. ASSUME Runs!Recoverable(p), UNCHANGED cached,
             \/ holder' = holder /\ place[p] # "load"
             \/ place[p] = "load" /\ holder' = Runs!Unlocked(p)
      PROVE  RunInv'
  <2>1. /\ Runs!Leave(p) /\ place[p] \notin Leaving
        /\ UNCHANGED <<files, backend, caching, cached, known, provider, events, device>>
        /\ \/ holder' = holder /\ (holder = p => place[p] = "score")
           \/ place[p] = "load" /\ holder' = Runs!Unlocked(p)
    BY <1>1, <1>2, <1>4 DEF Runs!Recoverable, Leaving, Scoring
  <2> QED BY <2>1, LeaveInv
<1>5. ASSUME Runs!Remembered(p), place[p] # "score", holder' = Runs!Unlocked(p)
      PROVE  RunInv'
  <2>1. /\ provider' = [provider EXCEPT ![p] = "broken"] /\ Runs!Ends(p, "fatal")
        /\ UNCHANGED <<totals, exit>> /\ provider[p] = "none"
    BY <1>2, <1>5 DEF Runs!Remembered, Runs!result
  <2>2. provider'[p] = "broken"
    BY <1>2, <2>1
  <2> QED BY <1>1, <1>2, <1>3, <1>5, <2>1, <2>2, EndsInv
<1>6. place[p] \notin {"load", "score"} /\ holder' = holder => holder' = Runs!Unlocked(p)
  BY <1>2, RunsAssumption DEF Runs!Unlocked
<1>7. CASE Runs!CreateBackendRuntimeFails(p) \/ Runs!LockFails(p) \/ Runs!LoadFails(p)
  BY <1>4, <1>5, <1>6, <1>7 DEF Runs!CreateBackendRuntimeFails, Runs!LockFails, Runs!LoadFails,
     Runs!gpuState
<1>8. ASSUME NEW how \in {"scored", "failed"}, Runs!Ends(p, how), place[p] = "score",
             UNCHANGED <<provider, totals, exit, holder>>
      PROVE  RunInv'
  <2>1. provider' = [provider EXCEPT ![p] = provider'[p]] /\ provider'[p] = "loaded"
        /\ provider[p] = "loaded"
    BY <1>2, <1>8
  <2> QED BY <1>1, <1>2, <1>3, <1>8, <2>1, EndsInv
<1>9. CASE Runs!Score(p)
  BY <1>8, <1>9 DEF Runs!Score, Runs!gpuState, Runs!result
<1>10. CASE Runs!ScoreFails(p)
  BY <1>4, <1>8, <1>10 DEF Runs!ScoreFails, Runs!gpuState, Runs!result
<1> QED BY <1>7, <1>9, <1>10

LEMMA TotalsInv ==
  ASSUME RunInv, NEW p \in Procs, Runs!Totals(p)
  PROVE  RunInv'
<1> DEFINE outcomes == {events[p][i] : i \in DOMAIN files}
           code == Runs!ExitStatus(outcomes)
<1>1. /\ place[p] = "next" /\ Runs!File(p) > Len(files)
      /\ totals' = [totals EXCEPT ![p] = TRUE] /\ exit' = [exit EXCEPT ![p] = code]
      /\ place' = [place EXCEPT ![p] = "unload"]
      /\ UNCHANGED <<files, backend, caching, cached, known, holder, device, provider, events>>
  BY DEF Runs!Totals, Runs!Goto, Runs!inputs, Runs!gpuState
<1>2. /\ Len(files) \in Nat /\ DOMAIN files = 1..Len(files)
      /\ Len(events[p]) \in Nat /\ Told(p) /\ Locks(p)
  BY LenProperties DEF RunInv, RunTypes
<1>3. Len(events[p]) = Len(files)
  BY <1>1, <1>2 DEF Told, Runs!File
<1>4. \A i \in 1..Len(files) : events[p][i] \in Runs!Outcomes
  BY <1>2, <1>3, ElementOfSeq DEF RunInv, RunTypes
<1>5. /\ code \in {"0", "1", "2"}
      /\ code = "2" <=> "fatal" \in outcomes
      /\ code = "0" <=> "fatal" \notin outcomes /\ "failed" \notin outcomes
  BY DEF Runs!ExitStatus
<1>6. /\ "fatal" \in outcomes <=> \E i \in 1..Len(files) : events[p][i] = "fatal"
      /\ "fatal" \notin outcomes /\ "failed" \notin outcomes
           <=> \A i \in 1..Len(files) : events[p][i] \in {"scored", "hit", "blank"}
  BY <1>2, <1>4 DEF Runs!Outcomes
<1> HIDE DEF outcomes, code
<1>7. /\ place'[p] = "unload" /\ events'[p] = events[p] /\ exit'[p] = code
      /\ totals'[p] = TRUE
  BY <1>1 DEF RunInv, RunTypes
<1>8. totals'[p] \in BOOLEAN
  BY <1>7, Zenon
<1>9. Alone(p)
  BY <1>1, <1>5, <1>7, <1>8 DEF Alone, RunInv, RunTypes, Leaving
<1>10. Told(p)' /\ Missed(p)'
  BY <1>1, <1>2, <1>7 DEF Told, Missed, Scoring
<1>11. Locks(p)'
  BY <1>1, <1>2, <1>7 DEF Locks
<1>12. Ended(p)'
  BY <1>1, <1>3, <1>5, <1>6, <1>7 DEF Ended, Concluded, Leaving
<1> QED BY <1>9, <1>10, <1>11, <1>12, AloneInv

\* The end of a process, of its own accord or not.
LEMMA EndInv ==
  ASSUME RunInv, NEW p \in Procs, Runs!Unload(p) \/ Runs!Release(p) \/ Runs!Kill(p)
  PROVE  RunInv'
<1> USE DEF Runs!Goto, Runs!inputs, Runs!result
<1>1. /\ UNCHANGED <<files, backend, caching, cached, known, provider, events, totals>>
      /\ device' = device \ {p} /\ place[p] # "idle" /\ Told(p) /\ Ended(p) /\ Locks(p)
  BY DEF Runs!Unload, Runs!Release, Runs!Kill, Runs!ModelFirst, RunInv
<1>2. p \notin device' /\ Told(p)'
  BY <1>1 DEF Told, Runs!Unload, Runs!Release, Runs!Kill, RunInv, RunTypes
<1>3. CASE Runs!Unload(p)
  <2>1. /\ place[p] = "unload" /\ place' = [place EXCEPT ![p] = "release"]
        /\ place'[p] = "release" /\ UNCHANGED <<holder, exit>>
    BY <1>3 DEF Runs!Unload, Runs!ModelFirst, RunInv, RunTypes
  <2>2. Alone(p)
    BY <1>1, <2>1 DEF Alone, RunInv, RunTypes, Leaving
  <2>3. Missed(p)' /\ Ended(p)' /\ Locks(p)'
    BY <1>1, <1>2, <2>1 DEF Missed, Ended, Concluded, Locks, Scoring, Leaving
  <2> QED BY <1>2, <2>2, <2>3, AloneInv
<1>4. ASSUME holder' = Runs!Unlocked(p)
      PROVE  holder' = holder \/ (holder = p /\ holder' = Nobody)
  BY <1>4 DEF Runs!Unlocked
<1>5. CASE Runs!Release(p) \/ Runs!Kill(p)
  <2>1. /\ place' = [place EXCEPT ![p] = "done"] /\ place'[p] = "done"
        /\ holder' = Runs!Unlocked(p)
        /\ \/ UNCHANGED exit /\ place[p] = "release"
           \/ exit' = [exit EXCEPT ![p] = "killed"] /\ exit'[p] = "killed"
    BY <1>5 DEF Runs!Release, Runs!Kill, RunInv, RunTypes
  <2>2. Alone(p)
    BY <1>1, <1>4, <2>1 DEF Alone, RunInv, RunTypes, Leaving
  <2>3. Missed(p)' /\ Ended(p)'
    BY <1>1, <2>1 DEF Missed, Ended, Concluded, Scoring, Leaving
  <2>4. Locks(p)'
    BY <1>2, <2>1, RunsAssumption DEF Locks, Runs!Unlocked
  <2> QED BY <1>2, <2>2, <2>3, <2>4, AloneInv
<1> QED BY <1>3, <1>5

\* Outcomes are told in order, no entry of the cache that the run began with is
\* scored again, and who has a model on the GPU has the lock (cli/main.cc:1013,
\* analyze.cc:217, inference_guard.cc:36).
LEMMA RunsInvariance == MCSpec => []RunsInv
<1>1. MCInit => RunsInv
  <2> SUFFICES ASSUME Runs!Init PROVE RunInv
    BY DEF MCInit, RunsInv
  <2>1. PICK n \in 0..MaxFiles : files \in [1..n -> Runs!Kinds]
    BY DEF Runs!Init
  <2>2. files \in Seq(Runs!Kinds) /\ Len(files) \in Nat
    BY <2>1, SeqDef, LenProperties
  <2>3. <<>> \in Seq(Runs!Outcomes) /\ Len(<<>>) = 0
    OBVIOUS
  <2>4. totals \in [Procs -> BOOLEAN] /\ \A p \in Procs : ~totals[p]
    BY DEF Runs!Init
  <2>5. RunTypes
    BY <2>2, <2>3, <2>4 DEF Runs!Init, RunTypes
  <2>6. ASSUME NEW p \in Procs PROVE Told(p) /\ Missed(p) /\ Ended(p) /\ Locks(p)
    BY <2>2, <2>3, <2>4, <2>6, RunsAssumption
       DEF Runs!Init, Told, Missed, Ended, Locks, Scoring, Leaving
  <2> QED BY <2>5, <2>6 DEF RunInv
<1>2. MCNext \/ UNCHANGED all =>
        group' = group /\ (group = "runs" => Runs!RunAnalyze \/ UNCHANGED runsVars)
  BY DEF MCNext, Map, Run, Reduce, Beat, Analyze, all
<1>3. RunInv /\ UNCHANGED runsVars => RunInv'
  <2> SUFFICES ASSUME RunInv, UNCHANGED runsVars PROVE RunInv'
    OBVIOUS
  <2>1. RunTypes'
    BY DEF runsVars, RunInv, RunTypes
  <2>2. ASSUME NEW p \in Procs PROVE Told(p)' /\ Missed(p)' /\ Ended(p)' /\ Locks(p)'
    <3>1. Told(p)' /\ Locks(p)'
      BY DEF runsVars, RunInv, Told, Locks
    <3>2. Missed(p)'
      BY DEF runsVars, RunInv, Missed, Runs!File, Runs!Entry
    <3>3. Ended(p)'
      BY DEF runsVars, RunInv, Ended, Concluded
    <3> QED BY <3>1, <3>2, <3>3
  <2> QED BY <2>1, <2>2 DEF RunInv
<1>4. ASSUME RunInv, NEW p \in Procs, Runs!Start(p) \/ Runs!Step(p) \/ Runs!Fault(p)
      PROVE  RunInv'
  BY <1>4, StartInv, UnscoredInv, ReadRecordsInv, CreateRunInv, ScorerInv, TotalsInv, EndInv
     DEF Runs!Step, Runs!Fault
<1>5. RunsInv /\ [MCNext]_all => RunsInv'
  BY <1>2, <1>3, <1>4 DEF RunsInv, Runs!RunAnalyze
<1> QED BY <1>1, <1>5, PTL DEF MCSpec

\* For any processes, files and killed processes: a run that writes totals has
\* told each file's outcome once, in order, and exits with the status they call
\* for, and at most one process has a model on the GPU, with the lock
\* (cli/main.cc:1013-1210, analyze.cc:217-306, inference_guard.cc:36).
THEOREM RunsAlwaysRight == MCSpec => []RunsRight
<1>1. RunsInv => RunsRight
  <2> SUFFICES ASSUME RunInv PROVE Runs!RunReported /\ Runs!OneOnDevice
    BY DEF RunsInv, RunsRight
  <2>1. ASSUME NEW p \in Procs
        PROVE  /\ Len(events[p]) \in Nat /\ DOMAIN events[p] = 1..Len(events[p])
               /\ Told(p) /\ Ended(p) /\ Locks(p)
    BY LenProperties DEF RunInv, RunTypes
  <2>2. ASSUME NEW p \in Procs, NEW i \in DOMAIN events[p]
        PROVE  /\ Runs!Compatible(files[i], events[p][i])
               /\ files[i] = "text" /\ caching[p] /\ <<backend[p], i>> \in known[p] =>
                    events[p][i] = "hit"
               /\ events[p][i] = "fatal" =>
                    \A j \in DOMAIN events[p] : events[p][j] # "scored"
    <3>1. i \in 1..Len(events[p]) /\ Told(p)
      BY <2>1
    <3>2. ASSUME events[p][i] = "fatal", NEW j \in DOMAIN events[p]
          PROVE  events[p][j] # "scored"
      <4>1. j \in 1..Len(events[p]) /\ provider[p] = "broken"
        BY <2>1, <3>1, <3>2 DEF Told
      <4> QED BY <3>1, <4>1 DEF Told
    <3> QED BY <3>1, <3>2 DEF Told
  <2>3. ASSUME NEW p \in Procs, place[p] = "done", exit[p] # "killed"
        PROVE  IF totals[p]
                 THEN LET outcomes == {events[p][i] : i \in DOMAIN events[p]}
                      IN  /\ Len(events[p]) = Len(files)
                          /\ exit[p] = "2" <=> "fatal" \in outcomes
                          /\ exit[p] = "0" <=> outcomes \subseteq {"scored", "hit", "blank"}
                 ELSE exit[p] = "2"
    BY <2>1, <2>3 DEF Ended, Concluded, Leaving
  <2>4. Runs!RunReported
    BY <2>2, <2>3 DEF Runs!RunReported
  <2>5. Runs!OneOnDevice
    <3>1. \A p \in Procs : p \in device => holder = p
      BY <2>1 DEF Locks
    <3>2. ASSUME NEW p \in Procs, holder = p
          PROVE  provider[p] # "broken" /\ place[p] # "done"
      BY <2>1, <3>2 DEF RunInv, Locks, Missed, Scoring
    <3> QED BY <3>1, <3>2 DEF Runs!OneOnDevice, RunInv, RunTypes
  <2> QED BY <2>4, <2>5
<1> QED BY <1>1, RunsInvariance, PTL
=============================================================================
