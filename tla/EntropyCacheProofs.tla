-------------------------- MODULE EntropyCacheProofs --------------------------
(***************************************************************************)
(* Theorems about EntropyCache, for any set of processes and keys, any     *)
(* budget and any bound on the clock.                                      *)
(***************************************************************************)
EXTENDS EntropyCache, FiniteSetTheorems, WellFoundedInduction, TLAPS

-----------------------------------------------------------------------------
(* Lemmas about the bytes and entries of a directory.                      *)

\* A directory has finitely many byte positions and entries.
LEMMA CountsAreNat ==
  ASSUME NEW d \in Directories
  PROVE  /\ IsFiniteSet(Blocks(d)) /\ Bytes(d) \in Nat
         /\ IsFiniteSet(Present(d)) /\ Count(d) \in Nat
<1>1. IsFiniteSet(1..MaxSize)
  BY FS_Interval, MaxSizeAssumption
<1>2. IsFiniteSet(Keys \X (1..MaxSize))
  BY <1>1, FS_Product, KeysAssumption
<1>3. IsFiniteSet(Blocks(d)) /\ IsFiniteSet(Present(d))
  BY <1>2, FS_Subset, KeysAssumption DEF Blocks, Present
<1> QED
  BY <1>3, FS_CardinalityType DEF Bytes, Count

\* Removing entries gives a directory, and replacing one does.
LEMMA DirectoryClosed ==
  ASSUME NEW d \in Directories
  PROVE  /\ \A S : Removed(d, S) \in Directories
         /\ \A k \in Keys, s \in 0..MaxSize : Replaced(d, k, s) \in Directories
BY MaxSizeAssumption DEF Directories, Removed, Replaced

\* An entry accounts for its own length and for one entry.
LEMMA EntryShare ==
  ASSUME NEW d \in Directories, NEW k \in Keys
  PROVE  /\ Bytes(d) = Bytes(Removed(d, {k})) + d[k]
         /\ d[k] > 0 => Count(d) = Count(Removed(d, {k})) + 1
         /\ d[k] = 0 => Removed(d, {k}) = d
<1> DEFINE rest == Removed(d, {k})
           own == {k} \X (1..d[k])
<1>1. rest \in Directories /\ d[k] \in 0..MaxSize /\ d[k] \in Nat
  BY DirectoryClosed, MaxSizeAssumption DEF Directories
<1>2. Blocks(d) = Blocks(rest) \cup own
  BY <1>1, MaxSizeAssumption DEF Blocks, Removed, Directories
<1>3. Blocks(rest) \cap own = {}
  BY <1>1, MaxSizeAssumption DEF Blocks, Removed, Directories
<1>4. IsFiniteSet(own) /\ Cardinality(own) = d[k]
  <2>1. IsFiniteSet(1..d[k]) /\ Cardinality(1..d[k]) = d[k]
    BY <1>1, FS_Interval
  <2>2. IsFiniteSet({k}) /\ Cardinality({k}) = 1
    BY FS_Singleton
  <2>3. IsFiniteSet(own) /\ Cardinality(own) = Cardinality({k}) * Cardinality(1..d[k])
    BY <2>1, <2>2, FS_Product, Zenon
  <2> QED
    BY <1>1, <2>1, <2>2, <2>3
<1>5. Bytes(d) = Bytes(rest) + d[k]
  <2>1. IsFiniteSet(Blocks(rest)) /\ Cardinality(Blocks(rest)) \in Nat
    BY <1>1, CountsAreNat DEF Bytes
  <2>2. Cardinality(Blocks(rest) \cup own)
          = Cardinality(Blocks(rest)) + Cardinality(own) - Cardinality({})
    <3>1. Cardinality(Blocks(rest) \cup own) = Cardinality(Blocks(rest))
             + Cardinality(own) - Cardinality(Blocks(rest) \cap own)
      BY <1>4, <2>1, FS_Union, Zenon
    <3> QED
      BY <1>3, <3>1, Zenon
  <2>3. Cardinality({}) = 0
    BY FS_EmptySet
  <2> QED
    BY <1>1, <1>2, <1>4, <2>1, <2>2, <2>3 DEF Bytes
<1>6. ASSUME d[k] > 0 PROVE Count(d) = Count(rest) + 1
  <2>1. Present(d) = Present(rest) \cup {k} /\ k \notin Present(rest)
    BY <1>1, <1>6 DEF Present, Removed
  <2>2. IsFiniteSet(Present(rest))
    BY <1>1, CountsAreNat
  <2> QED
    BY <2>1, <2>2, FS_AddElement DEF Count
<1>7. ASSUME d[k] = 0 PROVE rest = d
  BY <1>7 DEF Removed, Directories
<1> QED
  BY <1>5, <1>6, <1>7

\* Replacing an entry only changes its own share.
LEMMA ReplacedShare ==
  ASSUME NEW d \in Directories, NEW k \in Keys, NEW s \in 1..MaxSize
  PROVE  /\ Bytes(Replaced(d, k, s)) = Bytes(Removed(d, {k})) + s
         /\ Count(Replaced(d, k, s)) = Count(Removed(d, {k})) + 1
<1> DEFINE e == Replaced(d, k, s)
<1>1. e \in Directories /\ e[k] = s /\ s > 0
  BY DirectoryClosed, MaxSizeAssumption DEF Replaced, Directories
<1>2. Removed(e, {k}) = Removed(d, {k})
  BY DEF Removed, Replaced, Directories
<1> QED
  BY <1>1, <1>2, EntryShare

\* Reclaiming never adds bytes.
LEMMA RemovedShrinks ==
  ASSUME NEW d \in Directories, NEW S
  PROVE  Bytes(Removed(d, S)) <= Bytes(d)
<1>1. Blocks(Removed(d, S)) \subseteq Blocks(d)
  BY MaxSizeAssumption DEF Blocks, Removed, Directories
<1> QED
  BY <1>1, CountsAreNat, FS_Subset DEF Bytes

\* The earliest expiry exists and bounds every entry's.
LEMMA MinExpiryBound ==
  ASSUME NEW d \in Directories, NEW u \in [Keys -> Nat]
  PROVE  /\ MinExpiry(d, u) \in Nat
         /\ \A k \in Present(d) : MinExpiry(d, u) <= u[k] + MaxAge
         /\ MinExpiry(d, u) = 0 => Present(d) = {}
<1> DEFINE expiries == {u[k] + MaxAge : k \in Present(d)}
<1>1. expiries \subseteq Nat \ {0}
  BY TimesAssumption DEF Present
<1>2. ASSUME Present(d) # {}
      PROVE  \E t \in expiries : \A x \in expiries : t <= x
  <2>1. expiries # {}
    BY <1>2
  <2>2. \E t \in expiries : \A x \in expiries : ~(<<x, t>> \in OpToRel(<, Nat))
    BY <1>1, <2>1, WFMin, NatLessThanWellFounded
  <2>3. PICK t \in expiries : \A x \in expiries : ~(<<x, t>> \in OpToRel(<, Nat))
    BY <2>2
  <2>4. \A x \in expiries : ~(x < t)
    BY <1>1, <2>3 DEF OpToRel
  <2>5. t \in Nat /\ \A x \in expiries : x \in Nat
    BY <1>1, <2>3
  <2>6. \A x \in expiries : t <= x
    BY <2>4, <2>5
  <2> QED
    BY <2>6
<1>3. CASE Present(d) = {}
  BY <1>3 DEF MinExpiry
<1>4. CASE Present(d) # {}
  <2> DEFINE m == CHOOSE t \in expiries : \A x \in expiries : t <= x
  <2>1. m \in expiries /\ \A x \in expiries : m <= x
    BY <1>2, <1>4
  <2>2. MinExpiry(d, u) = m
    BY <1>4 DEF MinExpiry
  <2> QED
    BY <1>1, <2>1, <2>2
<1> QED
  BY <1>3, <1>4

-----------------------------------------------------------------------------
(* The inductive invariant.                                                *)

Conservative(next, d, u) ==
  /\ \A k \in Present(d) : next <= u[k] + MaxAge
  /\ next = 0 => Present(d) = {}

Describes(a, d, u) ==
  /\ a.bytes = Bytes(d)
  /\ a.entries = Count(d)
  /\ Conservative(a.next, d, u)

\* What the program points say of the operation under way.
LocalInv(p) ==
  /\ pc[p] \in {"check", "toTouch", "touch"} => key[p] \in Keys
  /\ pc[p] \in {"check", "due", "toTouch", "touch", "toMaintain", "maintain"}
       => op[p] = "read"
  /\ pc[p] \in {"toWrite", "subtract", "commit"} => op[p] = "write"
  /\ pc[p] \in {"toPrune", "prune"} => op[p] \in {"prune", "pruneIfDue"}
  /\ pc[p] \in {"toClear", "clear", "delete"} => op[p] = "clear"
  /\ pc[p] = "mark" => op[p] \in {"read", "write"}
  /\ pc[p] \in {"sweep", "record"}
       => op[p] \in {"read", "write", "prune", "pruneIfDue"}
  /\ pc[p] = "evict" => op[p] \in {"write", "prune", "pruneIfDue"}
  /\ op[p] = "write"
       => key[p] \in Keys /\ need[p] \in 1..MaxSize /\ need[p] <= Limit
  /\ op[p] \in {"prune", "pruneIfDue"} => key[p] = NoKey /\ need[p] = 0
  /\ pc[p] = "idle" \/ op[p] = "clear" => mem[p] = ZeroAccount

\* Whoever is past FileLock holds the lock.
LockInv(p) == pc[p] \in Critical => lock = p

StagingInv(p) == p \in staged => pc[p] \in AtomicPoints /\ p \in temps

\* While files change, no record on disk can be believed.
PendingInv(p) ==
  pc[p] \in {"sweep", "record", "subtract", "evict", "commit", "save",
             "delete"} => acct.dirty

\* The account in memory describes the directory; from Subtract to Commit,
\* the directory without the entry to be replaced.
MemInv(p) ==
  /\ \/ pc[p] \in {"record", "subtract", "save"}
     \/ pc[p] = "sweep" /\ op[p] \in {"read", "write"}
     => Describes(mem[p], size, used)
  /\ pc[p] \in {"evict", "commit"} => Describes(mem[p], Others(p), used)
  /\ pc[p] = "commit" => mem[p].bytes + need[p] <= Limit

ProcInv(p) == LocalInv(p) /\ LockInv(p) /\ StagingInv(p) /\ PendingInv(p)
              /\ MemInv(p)

AcctInv == ~acct.dirty => Describes(acct, size, used)

ClockInv == \A k \in Keys : used[k] <= now

IInv == TypeOK /\ AcctInv /\ ClockInv /\ \A p \in Procs : ProcInv(p)

-----------------------------------------------------------------------------
(* Lemmas about the account.                                               *)

\* A directory without entries has no bytes.
LEMMA EmptyDirectory ==
  ASSUME NEW d \in Directories, Present(d) = {}
  PROVE  Bytes(d) = 0 /\ Count(d) = 0
<1>1. Blocks(d) = {}
  BY MaxSizeAssumption DEF Present, Blocks, Directories
<1> QED
  BY <1>1, FS_EmptySet DEF Bytes, Count

\* A scan of the directory describes it.
LEMMA RebuiltDescribes ==
  ASSUME NEW d \in Directories, NEW u \in [Keys -> Nat]
  PROVE  /\ RebuildAccounting(d, u) \in Accounts
         /\ Describes(RebuildAccounting(d, u), d, u)
BY CountsAreNat, MinExpiryBound
DEF RebuildAccounting, Accounts, Describes, Conservative

\* What LoadAccounting returns describes the directory.
LEMMA LoadedDescribes ==
  ASSUME TypeOK, AcctInv
  PROVE  /\ LoadAccounting(acct, size, used) \in Accounts
         /\ Describes(LoadAccounting(acct, size, used), size, used)
<1>1. CASE acct.dirty \/ Inconsistent(acct)
  BY <1>1, RebuiltDescribes DEF TypeOK, LoadAccounting
<1>2. CASE ~(acct.dirty \/ Inconsistent(acct))
  BY <1>2 DEF TypeOK, AcctInv, LoadAccounting, Describes, Accounts
<1> QED
  BY <1>1, <1>2

\* An account stays conservative when entries go or become younger.
LEMMA ConservativeKept ==
  ASSUME NEW d \in Directories, NEW u \in [Keys -> Nat],
         NEW e \in Directories, NEW v \in [Keys -> Nat], NEW next \in Nat,
         Conservative(next, d, u),
         \A k \in Present(e) : k \in Present(d) /\ u[k] <= v[k]
  PROVE  Conservative(next, e, v)
BY TimesAssumption DEF Conservative, Present

-----------------------------------------------------------------------------
(* The processes that do not take the step.                                *)

SameLocals(q) ==
  /\ pc'[q] = pc[q] /\ op'[q] = op[q] /\ key'[q] = key[q]
  /\ need'[q] = need[q] /\ mem'[q] = mem[q]

\* A process outside the lock is not disturbed by whatever the others do.
LEMMA FrameOutside ==
  ASSUME NEW q \in Procs, ProcInv(q), SameLocals(q), pc[q] \notin Critical,
         q \in staged' => q \in staged
  PROVE  ProcInv(q)'
<1>1. LocalInv(q)'
  BY DEF ProcInv, SameLocals, LocalInv
<1>2. LockInv(q)' /\ PendingInv(q)' /\ MemInv(q)'
  BY DEF SameLocals, LockInv, PendingInv, MemInv, Critical
<1>3. StagingInv(q)'
  BY DEF ProcInv, SameLocals, StagingInv, AtomicPoints, Critical
<1> QED
  BY <1>1, <1>2, <1>3 DEF ProcInv

\* The lock holder is not disturbed by steps that leave the files, the lock
\* and its temporary alone.
LEMMA FrameUnchanged ==
  ASSUME NEW q \in Procs, ProcInv(q), SameLocals(q),
         UNCHANGED <<size, used, acct, lock>>,
         q \in staged' => q \in staged,
         q \in temps => q \in temps'
  PROVE  ProcInv(q)'
<1>1. LocalInv(q)'
  BY DEF ProcInv, SameLocals, LocalInv
<1>2. LockInv(q)' /\ PendingInv(q)' /\ StagingInv(q)'
  BY DEF ProcInv, SameLocals, LockInv, PendingInv, StagingInv
<1>3. MemInv(q)'
  BY DEF ProcInv, SameLocals, MemInv, Others
<1> QED
  BY <1>1, <1>2, <1>3 DEF ProcInv

\* Two processes are never both past FileLock.
LEMMA OneHolder ==
  ASSUME IInv, NEW p \in Procs, NEW q \in Procs, q # p, pc[p] \in Critical
  PROVE  pc[q] \notin Critical /\ lock = p
BY DEF IInv, ProcInv, LockInv

\* The step of a lock holder disturbs nobody else.
LEMMA HolderFrame ==
  ASSUME IInv, NEW p \in Procs, pc[p] \in Critical,
         NEW q \in Procs, q # p, SameLocals(q), q \in staged' => q \in staged
  PROVE  ProcInv(q)'
BY OneHolder, FrameOutside DEF IInv

-----------------------------------------------------------------------------
(* Every action preserves the invariant.                                   *)

\* Ending an operation from anywhere: Finish, Throw and Crash.
LEMMA LeavePreserves ==
  ASSUME IInv, NEW p \in Procs, Leave(p), UNCHANGED <<disk, now>>,
         lock' = lock \/ (lock = p /\ lock' = NoProc),
         staged' = staged \ {p}, temps' \in {temps, temps \ {p}}
  PROVE  IInv'
<1> USE DEF IInv
<1>1. TypeOK'
  <2>1. /\ pc' \in [Procs -> Points]
        /\ op' \in [Procs -> {"none", "read", "write", "prune", "pruneIfDue",
                               "clear", "status"}]
        /\ key' \in [Procs -> Keys \cup {NoKey}]
        /\ need' \in [Procs -> 0..MaxSize]
        /\ tried' \in [Procs -> SUBSET Keys]
    BY MaxSizeAssumption DEF TypeOK, Leave, Points
  <2>2. mem' \in [Procs -> Accounts]
    BY DEF TypeOK, Leave, Accounts, ZeroAccount
  <2> QED
    BY <2>1, <2>2 DEF TypeOK, disk
<1>2. AcctInv' /\ ClockInv'
  BY DEF AcctInv, ClockInv, disk
<1>3. ProcInv(p)'
  BY DEF TypeOK, Leave, ProcInv, LocalInv, LockInv, StagingInv, PendingInv,
         MemInv, Critical
<1>4. ASSUME NEW q \in Procs, q # p PROVE ProcInv(q)'
  <2>1. SameLocals(q)
    BY <1>4 DEF TypeOK, Leave, SameLocals
  <2>2. CASE pc[q] \notin Critical
    BY <2>1, <2>2, FrameOutside
  <2>3. CASE pc[q] \in Critical
    <3>1. lock = q /\ lock' = lock
      BY <1>4, <2>3 DEF ProcInv, LockInv
    <3> QED
      BY <1>4, <2>1, <3>1, FrameUnchanged DEF disk
  <2> QED
    BY <2>2, <2>3
<1> QED
  BY <1>1, <1>2, <1>3, <1>4

LEMMA StartPreserves ==
  ASSUME IInv, NEW p \in Procs, Start(p)
  PROVE  IInv'
<1> USE DEF IInv
<1>1. PICK o \in {"read", "write", "prune", "pruneIfDue", "clear", "status"},
           k \in Keys \cup {NoKey}, s \in 0..MaxSize,
           point \in {"check", "due", "toWrite", "toPrune", "toClear", "toStatus"} :
        /\ Begin(p, o, k, s, point)
        /\ o = "read" => k \in Keys /\ point \in {"check", "due"}
        /\ o = "write" => /\ k \in Keys /\ s \in 1..MaxSize /\ s <= Limit
                          /\ point = "toWrite"
        /\ o \in {"prune", "pruneIfDue"} => k = NoKey /\ s = 0 /\ point = "toPrune"
        /\ o = "clear" => point = "toClear"
        /\ o = "status" => point = "toStatus"
  BY MaxSizeAssumption
  DEF Start, StartRead, StartWrite, StartPrune, StartClear, StartStatus
<1>2. TypeOK'
  BY <1>1 DEF TypeOK, Begin, GoTo, disk, Points, Waiting
<1>3. AcctInv' /\ ClockInv'
  BY <1>1 DEF Begin, AcctInv, ClockInv, disk
<1>4. ProcInv(p)'
  <2>1. pc[p] = "idle" /\ pc'[p] = point /\ op'[p] = o /\ key'[p] = k
        /\ need'[p] = s /\ mem'[p] = mem[p] /\ staged' = staged
    BY <1>1 DEF TypeOK, Begin, GoTo
  <2>2. p \notin staged
    BY <2>1 DEF ProcInv, StagingInv, AtomicPoints
  <2> QED
    BY <1>1, <2>1, <2>2 DEF ProcInv, LocalInv, LockInv,
       StagingInv, PendingInv, MemInv, Critical
<1>5. ASSUME NEW q \in Procs, q # p PROVE ProcInv(q)'
  BY <1>1, <1>5, FrameUnchanged DEF TypeOK, Begin, GoTo, SameLocals, disk
<1> QED
  BY <1>2, <1>3, <1>4, <1>5

\* Steps before the lock: they only move the process along.
LEMMA UnlockedPreserves ==
  ASSUME IInv, NEW p \in Procs,
         CheckExpiry(p) \/ (CheckDue(p) /\ pc'[p] = "toMaintain")
  PROVE  IInv'
<1> USE DEF IInv
<1>1. TypeOK'
  BY
  DEF TypeOK, CheckExpiry, CheckDue, Leave, GoTo, disk, local, Points, Waiting
<1>2. AcctInv' /\ ClockInv'
  BY DEF CheckExpiry, CheckDue, AcctInv, ClockInv, disk
<1>3. ProcInv(p)'
  <2>1. p \notin staged
    BY DEF ProcInv, StagingInv, CheckExpiry, CheckDue, AtomicPoints
  <2> QED
    BY <2>1
    DEF TypeOK, CheckExpiry, CheckDue, Leave, GoTo, disk, local, ProcInv,
        LocalInv,
       LockInv, StagingInv, PendingInv, MemInv, Critical
<1>4. ASSUME NEW q \in Procs, q # p PROVE ProcInv(q)'
  BY <1>4, FrameUnchanged
  DEF TypeOK, CheckExpiry, CheckDue, Leave, GoTo, SameLocals, disk, local
<1> QED
  BY <1>1, <1>2, <1>3, <1>4

LEMMA AcquirePreserves ==
  ASSUME IInv, NEW p \in Procs, Acquire(p)
  PROVE  IInv'
<1> USE DEF IInv
<1>1. /\ pc[p] \in Waiting /\ lock = NoProc /\ lock' = p
      /\ pc' = [pc EXCEPT ![p] = pc'[p]]
      /\ pc[p] = "toTouch" => pc'[p] = "touch"
      /\ pc[p] = "toMaintain" => pc'[p] = "maintain"
      /\ pc[p] = "toWrite" => pc'[p] = "mark"
      /\ pc[p] = "toPrune" => pc'[p] = "prune"
      /\ pc[p] = "toClear" => pc'[p] = "clear"
      /\ pc[p] = "toStatus" => pc'[p] = "status"
      /\ UNCHANGED <<size, used, acct, lastSweep, now, temps, staged, op, key,
                     need, mem, tried>>
  BY DEF TypeOK, Acquire, GoTo, LockFree, disk, local, Waiting
<1>2. TypeOK'
  BY <1>1 DEF TypeOK, Waiting, Points, Critical
<1>3. AcctInv' /\ ClockInv'
  BY <1>1 DEF AcctInv, ClockInv
<1>4. ProcInv(p)'
  BY <1>1 DEF ProcInv, LocalInv, LockInv, StagingInv, PendingInv, MemInv,
     Waiting, AtomicPoints
<1>5. ASSUME NEW q \in Procs, q # p PROVE ProcInv(q)'
  <2>1. pc[q] \notin Critical
    BY <1>1, NamesAssumption DEF ProcInv, LockInv
  <2> QED
    BY <1>1, <1>5, <2>1, FrameOutside DEF TypeOK, SameLocals
<1> QED
  BY <1>2, <1>3, <1>4, <1>5

LEMMA StagePreserves ==
  ASSUME IInv, NEW p \in Procs, Stage(p)
  PROVE  IInv'
<1> USE DEF IInv
<1>1. TypeOK'
  BY DEF TypeOK, Stage, disk, local
<1>2. AcctInv' /\ ClockInv'
  BY DEF AcctInv, ClockInv, Stage, disk
<1>3. ProcInv(p)'
  BY DEF Stage, disk, local, ProcInv, LocalInv, LockInv, StagingInv,
         PendingInv, MemInv, Others
<1>4. ASSUME NEW q \in Procs, q # p PROVE ProcInv(q)'
  BY <1>4, FrameUnchanged DEF Stage, SameLocals, disk, local
<1> QED
  BY <1>1, <1>2, <1>3, <1>4

\* A refresh makes an entry younger and gives the lock back.
LEMMA TouchPreserves ==
  ASSUME IInv, NEW p \in Procs, Touch(p)
  PROVE  IInv'
<1> USE DEF IInv
<1>1. /\ pc[p] = "touch" /\ key[p] \in Keys
      /\ size' = size /\ acct' = acct
      /\ pc' = [pc EXCEPT ![p] = "due"] /\ lock' = NoProc
      /\ UNCHANGED <<lastSweep, now, temps, staged, op, key, need, mem, tried>>
  BY DEF Touch, GoTo, Unlock, local, ProcInv, LocalInv
<1>2. used' \in [Keys -> Nat] /\ \A k \in Keys : used[k] <= used'[k] /\ used'[k] <= now
  BY <1>1 DEF Touch, TypeOK, ClockInv
<1>3. TypeOK'
  BY <1>1, <1>2 DEF TypeOK, Points
<1>4. AcctInv' /\ ClockInv'
  <2>1. ASSUME ~acct.dirty PROVE Conservative(acct.next, size, used')
    <3>1. \A k \in Present(size) : k \in Present(size) /\ used[k] <= used'[k]
      BY <1>2 DEF Present
    <3>2. Conservative(acct.next, size, used) /\ acct.next \in Nat
      BY <2>1 DEF AcctInv, Describes, TypeOK
    <3>3. size \in Directories /\ used \in [Keys -> Nat]
      BY DEF TypeOK
    <3> QED
      BY <1>2, <3>1, <3>2, <3>3, ConservativeKept
  <2> QED
    BY <1>1, <1>2, <2>1 DEF AcctInv, Describes, ClockInv
<1>5. ProcInv(p)'
  BY <1>1
  DEF TypeOK, ProcInv, LocalInv, LockInv, StagingInv, PendingInv, MemInv,
     Critical, AtomicPoints
<1>6. ASSUME NEW q \in Procs, q # p PROVE ProcInv(q)'
  BY <1>1, <1>6, HolderFrame DEF TypeOK, SameLocals, Critical
<1> QED
  BY <1>3, <1>4, <1>5, <1>6

\* The lock holder moves on without touching the disk or its account:
\* Recheck, SkipSweep.
LEMMA MovePreserves ==
  ASSUME IInv, NEW p \in Procs,
         (Recheck(p) /\ pc'[p] = "mark") \/ SkipSweep(p)
  PROVE  IInv'
<1> USE DEF IInv
<1>1. TypeOK'
  BY DEF TypeOK, Recheck, SkipSweep, Finish, Leave, Unlock, GoTo, disk, local,
         Points, Critical
<1>2. AcctInv' /\ ClockInv'
  BY DEF Recheck, SkipSweep, AcctInv, ClockInv, disk
<1>3. ProcInv(p)'
  <2>1. p \notin staged
    BY DEF ProcInv, StagingInv, Recheck, SkipSweep, AtomicPoints
  <2> QED
    BY <2>1
    DEF TypeOK, Recheck, SkipSweep, SweepNeeded, Finish, Leave, Unlock, GoTo,
       disk, local, ProcInv, LocalInv, LockInv, StagingInv, PendingInv, MemInv,
       Critical
<1>4. ASSUME NEW q \in Procs, q # p PROVE ProcInv(q)'
  BY <1>4, HolderFrame
  DEF TypeOK, Recheck, SkipSweep, Finish, Leave, GoTo, SameLocals,
     disk, local, Critical
<1> QED
  BY <1>1, <1>2, <1>3, <1>4

LEMMA MarkPreserves ==
  ASSUME IInv, NEW p \in Procs, Mark(p)
  PROVE  IInv'
<1> USE DEF IInv
<1> DEFINE loaded == LoadAccounting(acct, size, used)
<1>1. /\ pc[p] = "mark" /\ pc' = [pc EXCEPT ![p] = "sweep"]
      /\ mem' = [mem EXCEPT ![p] = loaded] /\ acct' = DirtyRecord
      /\ staged' = staged \ {p} /\ temps' = temps \ {p}
      /\ UNCHANGED <<size, used, lastSweep, now, lock, op, key, need, tried>>
  BY DEF Mark, MarkDirty, Rename, GoTo, files, local
<1>2. loaded \in Accounts /\ Describes(loaded, size, used)
  BY LoadedDescribes
<1>3. TypeOK'
  BY <1>1, <1>2 DEF TypeOK, Points, Critical, DirtyRecord
<1>4. AcctInv' /\ ClockInv'
  BY <1>1 DEF AcctInv, ClockInv, DirtyRecord
<1>5. ProcInv(p)'
  <2>1. pc'[p] = "sweep" /\ mem'[p] = loaded /\ p \notin staged' /\ acct'.dirty
    BY <1>1 DEF TypeOK, DirtyRecord
  <2>2. LocalInv(p)' /\ LockInv(p)' /\ StagingInv(p)' /\ PendingInv(p)'
    BY <1>1, <2>1
    DEF ProcInv, LocalInv, LockInv, StagingInv, PendingInv, Critical
  <2>3. MemInv(p)'
    BY <1>1, <1>2, <2>1 DEF MemInv
  <2> QED
    BY <2>2, <2>3 DEF ProcInv
<1>6. ASSUME NEW q \in Procs, q # p PROVE ProcInv(q)'
  BY <1>1, <1>6, HolderFrame DEF TypeOK, SameLocals, Critical
<1> QED
  BY <1>3, <1>4, <1>5, <1>6

\* Removing files leaves a directory, whose entries are no younger.
LEMMA UnlinkedFiles ==
  ASSUME TypeOK, ClockInv, NEW S, Unlink(S), now' = now
  PROVE  /\ size' \in Directories /\ used' \in [Keys -> Nat]
         /\ ClockInv'
         /\ \A k \in Present(size') : k \in Present(size) /\ used'[k] = used[k]
<1>1. size' = Removed(size, S) /\ used' = Removed(used, S)
  BY DEF Unlink, SetFiles
<1>2. size' \in Directories
  BY <1>1, DirectoryClosed DEF TypeOK
<1> QED
  BY <1>1, <1>2 DEF TypeOK, Removed, Present, ClockInv

LEMMA SweepPreserves ==
  ASSUME IInv, NEW p \in Procs, Sweep(p)
  PROVE  IInv'
<1> USE DEF IInv
<1> DEFINE rebuilt == RebuildAccounting(size', used')
<1>1. PICK S : Unlink(S)
  BY DEF Sweep
<1>2. /\ pc[p] = "sweep" /\ mem' = [mem EXCEPT ![p] = rebuilt]
      /\ temps' = {}
      /\ pc' = [pc EXCEPT ![p] = IF op[p] \in {"read", "write"} THEN "record"
                                 ELSE "evict"]
      /\ UNCHANGED <<acct, lastSweep, now, lock, staged, op, key, need, tried>>
  BY DEF Sweep, CleanTemporaries, GoTo, local
<1>3. /\ size' \in Directories /\ used' \in [Keys -> Nat] /\ ClockInv'
  BY <1>1, <1>2, UnlinkedFiles
<1>4. rebuilt \in Accounts /\ Describes(rebuilt, size', used')
  BY <1>3, RebuiltDescribes
<1>5. TypeOK'
  BY <1>2, <1>3, <1>4 DEF TypeOK, Points, Critical
<1>6. acct.dirty /\ AcctInv'
  BY <1>2 DEF AcctInv, ProcInv, PendingInv
<1>7. ProcInv(p)'
  <2>1. mem'[p] = rebuilt /\ pc'[p] \in {"record", "evict"}
        /\ (pc'[p] = "record" <=> op[p] \in {"read", "write"})
    BY <1>2 DEF TypeOK
  <2>2. LocalInv(p)' /\ LockInv(p)' /\ PendingInv(p)'
    BY <1>2, <1>6, <2>1 DEF ProcInv, LocalInv, LockInv, PendingInv, Critical
  <2>3. StagingInv(p)'
    BY <1>2 DEF ProcInv, StagingInv, AtomicPoints
  <2>4. CASE pc'[p] = "record"
    BY <1>4, <2>1, <2>2, <2>3, <2>4 DEF ProcInv, MemInv
  <2>5. CASE pc'[p] = "evict"
    <3>1. key'[p] = NoKey
      BY <1>2, <2>1, <2>5 DEF ProcInv, LocalInv
    <3>2. Others(p)' = size'
      BY <1>3, <3>1, NamesAssumption DEF Others, Removed, Directories
    <3> QED
      BY <1>4, <2>1, <2>2, <2>3, <2>5, <3>2 DEF ProcInv, MemInv
  <2> QED
    BY <2>1, <2>4, <2>5
<1>8. ASSUME NEW q \in Procs, q # p PROVE ProcInv(q)'
  BY <1>2, <1>8, HolderFrame DEF TypeOK, SameLocals, Critical
<1> QED
  BY <1>3, <1>5, <1>6, <1>7, <1>8

LEMMA RecordSweepPreserves ==
  ASSUME IInv, NEW p \in Procs, RecordSweep(p)
  PROVE  IInv'
<1> USE DEF IInv
<1>1. /\ pc[p] = "record" /\ lastSweep' = now
      /\ pc' = [pc EXCEPT ![p] = IF op[p] = "write" THEN "subtract" ELSE "save"]
      /\ staged' = staged \ {p} /\ temps' = temps \ {p}
      /\ UNCHANGED <<size, used, acct, now, lock, op, key, need, mem, tried>>
  BY DEF RecordSweep, Rename, GoTo, files, local
<1>2. TypeOK'
  BY <1>1 DEF TypeOK, Points, Critical
<1>3. AcctInv' /\ ClockInv'
  BY <1>1 DEF AcctInv, ClockInv
<1>4. ProcInv(p)'
  BY <1>1
  DEF TypeOK, ProcInv, LocalInv, LockInv, StagingInv, PendingInv, MemInv,
      Critical
<1>5. ASSUME NEW q \in Procs, q # p PROVE ProcInv(q)'
  BY <1>1, <1>5, HolderFrame DEF TypeOK, SameLocals, Critical
<1> QED
  BY <1>2, <1>3, <1>4, <1>5

\* Subtracting the previous entry never underflows: a sound account holds it.
LEMMA SubtractPreserves ==
  ASSUME IInv, NEW p \in Procs, Subtract(p)
  PROVE  IInv'
<1> USE DEF IInv
<1> DEFINE k == key[p]
           left == WithoutPrevious(p, mem[p])
<1>1. /\ pc[p] = "subtract" /\ pc' = [pc EXCEPT ![p] = "evict"]
      /\ mem' = [mem EXCEPT ![p] = left]
      /\ UNCHANGED <<size, used, acct, lastSweep, now, lock, temps, staged, op,
                     key, need, tried>>
  BY DEF Subtract, GoTo, disk, local
<1>2. /\ k \in Keys /\ size \in Directories /\ size[k] \in Nat
      /\ mem[p] \in Accounts /\ Describes(mem[p], size, used)
  BY <1>1, MaxSizeAssumption DEF TypeOK, ProcInv, LocalInv, MemInv, Directories
<1>3. /\ Bytes(size) = Bytes(Others(p)) + size[k]
      /\ size[k] > 0 => Count(size) = Count(Others(p)) + 1
      /\ size[k] = 0 => Others(p) = size
  BY <1>2, EntryShare DEF Others
<1>4. Others(p) \in Directories /\ Bytes(Others(p)) \in Nat /\ Count(Others(p)) \in Nat
  BY <1>2, DirectoryClosed, CountsAreNat DEF Others
<1>5. /\ left \in Accounts /\ left.next = mem[p].next
      /\ left.bytes = Bytes(Others(p)) /\ left.entries = Count(Others(p))
  <2>1. /\ mem[p].bytes = Bytes(size) /\ mem[p].entries = Count(size)
        /\ mem[p].next \in Nat
    BY <1>2 DEF Describes, Accounts
  <2>2. CASE size[k] = 0
    BY <1>2, <1>3, <2>1, <2>2 DEF WithoutPrevious
  <2>3. CASE size[k] > 0
    <3>1. mem[p].entries # 0 /\ ~(size[k] > mem[p].bytes) /\ size[k] # 0
      BY <1>2, <1>3, <1>4, <2>1, <2>3
    <3>2. left = Less(mem[p], size[k])
      BY <3>1, Zenon DEF WithoutPrevious
    <3>3. /\ left.bytes = mem[p].bytes - size[k] /\ left.next = mem[p].next
          /\ left.entries = mem[p].entries - 1
          /\ left = [bytes |-> left.bytes, entries |-> left.entries, next |-> left.next]
      BY <1>2, <3>2 DEF Accounts, Less
    <3> QED
      BY <1>2, <1>3, <1>4, <2>1, <2>3, <3>3 DEF Accounts
  <2> QED
    BY <1>2, <2>2, <2>3
<1>6. Conservative(left.next, Others(p), used)
  <2>1. \A x \in Present(Others(p)) : x \in Present(size) /\ used[x] <= used[x]
    BY <1>2 DEF TypeOK, Present, Others, Removed, Directories
  <2> QED
    BY <1>2, <1>4, <1>5, <2>1, ConservativeKept DEF TypeOK, Describes, Accounts
<1>7. TypeOK'
  BY <1>1, <1>5 DEF TypeOK, Points, Critical
<1>8. AcctInv' /\ ClockInv'
  BY <1>1 DEF AcctInv, ClockInv
<1>9. ProcInv(p)'
  <2>1. mem'[p] = left /\ pc'[p] = "evict" /\ Others(p)' = Others(p)
    BY <1>1 DEF TypeOK, Others
  <2>2. LocalInv(p)' /\ LockInv(p)' /\ PendingInv(p)' /\ StagingInv(p)'
    BY <1>1, <2>1 DEF ProcInv, LocalInv, LockInv, PendingInv, StagingInv,
       Critical, AtomicPoints
  <2>3. MemInv(p)'
    BY <1>1, <1>5, <1>6, <2>1 DEF MemInv, Describes
  <2> QED
    BY <2>2, <2>3 DEF ProcInv
<1>10. ASSUME NEW q \in Procs, q # p PROVE ProcInv(q)'
  BY <1>1, <1>10, HolderFrame DEF TypeOK, SameLocals, Critical
<1> QED
  BY <1>7, <1>8, <1>9, <1>10

\* An eviction that succeeds takes exactly the entry's share off the account.
LEMMA EvictNextPreserves ==
  ASSUME IInv, NEW p \in Procs, EvictNext(p)
  PROVE  IInv'
<1> USE DEF IInv
<1>1. PICK k \in Candidates(p) :
        /\ tried' = [tried EXCEPT ![p] = @ \cup {k}]
        /\ \/ /\ Unlink({k})
              /\ mem' = [mem EXCEPT ![p] = Less(@, size[k])]
           \/ UNCHANGED <<files, mem>>
  BY DEF EvictNext
<1>2. /\ pc[p] = "evict" /\ acct.dirty
      /\ UNCHANGED <<acct, lastSweep, now, lock, temps, staged, pc, op, key, need>>
  BY DEF EvictNext, local, ProcInv, PendingInv
<1>3. k \in Keys /\ k # key[p] /\ size[k] > 0 /\ size[k] \in Nat /\ size \in Directories
  BY <1>1, MaxSizeAssumption DEF Candidates, Present, TypeOK, Directories
<1>4. mem[p] \in Accounts /\ Describes(mem[p], Others(p), used)
  BY <1>2 DEF TypeOK, ProcInv, MemInv
<1>5. tried' \in [Procs -> SUBSET Keys]
  BY <1>1, <1>3 DEF TypeOK
<1>6. AcctInv'
  BY <1>2 DEF AcctInv
<1>7. ASSUME NEW q \in Procs, q # p PROVE ProcInv(q)'
  BY <1>1, <1>2, <1>7, HolderFrame DEF TypeOK, SameLocals, Critical
<1>8. CASE UNCHANGED <<files, mem>>
  <2>1. TypeOK' /\ ClockInv'
    BY <1>2, <1>5, <1>8 DEF TypeOK, ClockInv, files
  <2>2. ProcInv(p)'
    BY <1>2, <1>8 DEF files, ProcInv, LocalInv, LockInv, StagingInv, PendingInv,
       MemInv, Others
  <2> QED
    BY <1>6, <1>7, <2>1, <2>2
<1>9. CASE /\ Unlink({k})
           /\ mem' = [mem EXCEPT ![p] = Less(@, size[k])]
  <2> DEFINE others == Others(p)
             left == [bytes |-> mem[p].bytes - size[k],
                      entries |-> mem[p].entries - 1, next |-> mem[p].next]
  <2>1. /\ size' \in Directories /\ used' \in [Keys -> Nat] /\ ClockInv'
        /\ \A x \in Present(size') : x \in Present(size) /\ used'[x] = used[x]
    BY <1>2, <1>9, UnlinkedFiles
  <2>2. mem'[p] = left
    <3>1. mem'[p] = Less(mem[p], size[k])
      BY <1>9 DEF TypeOK
    <3> QED
      BY <1>4, <3>1 DEF Accounts, Less
  <2>3. others \in Directories /\ others[k] = size[k]
    BY <1>3, DirectoryClosed DEF Others, Removed
  <2>4. Others(p)' = Removed(others, {k}) /\ Others(p)' \in Directories
    <3>1. size' = Removed(size, {k}) /\ key'[p] = key[p]
      BY <1>2, <1>9 DEF Unlink, SetFiles
    <3>2. Others(p)' = Removed(others, {k})
      BY <1>3, <3>1 DEF Others, Removed
    <3> QED
      BY <2>3, <3>2, DirectoryClosed
  <2>5. /\ Bytes(others) = Bytes(Others(p)') + size[k]
        /\ Count(others) = Count(Others(p)') + 1
    BY <1>3, <2>3, <2>4, EntryShare
  <2>6. Bytes(Others(p)') \in Nat /\ Count(Others(p)') \in Nat
    BY <2>4, CountsAreNat
  <2>7. /\ left \in Accounts
        /\ left.bytes = Bytes(Others(p)') /\ left.entries = Count(Others(p)')
    BY <1>3, <1>4, <2>5, <2>6 DEF Accounts, Describes
  <2>8. Conservative(left.next, Others(p)', used')
    <3>1. \A x \in Present(Others(p)') : x \in Present(others) /\ used[x] <= used'[x]
      BY <2>1, <2>3, <2>4 DEF TypeOK, Present, Others, Removed, Directories
    <3>2. Conservative(mem[p].next, others, used) /\ left.next = mem[p].next
          /\ left.next \in Nat
      BY <1>4 DEF Describes, Accounts
    <3> QED
      BY <2>1, <2>3, <2>4, <3>1, <3>2, ConservativeKept DEF TypeOK
  <2>9. TypeOK'
    BY <1>2, <1>5, <1>9, <2>1, <2>2, <2>7 DEF TypeOK
  <2>10. ProcInv(p)'
    <3>1. LocalInv(p)' /\ LockInv(p)' /\ StagingInv(p)' /\ PendingInv(p)'
      BY <1>2 DEF ProcInv, LocalInv, LockInv, StagingInv, PendingInv
    <3>2. MemInv(p)'
      BY <1>2, <2>2, <2>7, <2>8 DEF MemInv, Describes
    <3> QED
      BY <3>1, <3>2 DEF ProcInv
  <2> QED
    BY <1>6, <1>7, <2>1, <2>9, <2>10
<1> QED
  BY <1>1, <1>8, <1>9

LEMMA EvictDonePreserves ==
  ASSUME IInv, NEW p \in Procs, EvictDone(p)
  PROVE  IInv'
<1> USE DEF IInv
<1> DEFINE rebuilt == RebuildAccounting(size, used)
<1>1. /\ pc[p] = "evict" /\ acct.dirty
      /\ UNCHANGED <<size, used, acct, lastSweep, now, lock, temps, staged, op,
                     key, need, tried>>
  BY DEF EvictDone, disk, local, ProcInv, PendingInv
<1>2. rebuilt \in Accounts /\ Describes(rebuilt, size, used)
  BY RebuiltDescribes DEF TypeOK
<1>3. \/ /\ op[p] = "write" /\ Fits(p)
         /\ pc' = [pc EXCEPT ![p] = "commit"] /\ mem' = mem
      \/ /\ pc' = [pc EXCEPT ![p] = IF op[p] = "write" THEN "save" ELSE "record"]
         /\ mem' = [mem EXCEPT ![p] = rebuilt]
  BY DEF EvictDone, GoTo, RebuildOnDisk
<1>4. TypeOK'
  BY <1>1, <1>2, <1>3 DEF TypeOK, Points, Critical
<1>5. AcctInv' /\ ClockInv'
  BY <1>1 DEF AcctInv, ClockInv
<1>6. ProcInv(p)'
  <2>1. LocalInv(p)'
    BY <1>1, <1>3 DEF TypeOK, ProcInv, LocalInv
  <2>2. LockInv(p)' /\ StagingInv(p)' /\ PendingInv(p)'
    BY <1>1, <1>3
    DEF TypeOK, ProcInv, LockInv, StagingInv, PendingInv, Critical,
       AtomicPoints
  <2>3. MemInv(p)'
    <3>1. CASE op[p] = "write" /\ Fits(p) /\ pc' = [pc EXCEPT ![p] = "commit"] /\ mem' = mem
      <4>1. pc'[p] = "commit" /\ Others(p)' = Others(p)
        BY <1>1, <3>1 DEF TypeOK, Others
      <4>2. mem[p].bytes + need[p] <= Limit
        BY <3>1, LimitAssumption, MaxSizeAssumption DEF TypeOK, Accounts, Fits
      <4> QED
        BY <1>1, <3>1, <4>1, <4>2 DEF ProcInv, MemInv
    <3>2. CASE /\ pc' = [pc EXCEPT ![p] = IF op[p] = "write" THEN "save" ELSE "record"]
               /\ mem' = [mem EXCEPT ![p] = rebuilt]
      <4>1. pc'[p] \in {"save", "record"} /\ mem'[p] = rebuilt
        BY <3>2 DEF TypeOK
      <4> QED
        BY <1>1, <1>2, <4>1 DEF MemInv
    <3> QED
      BY <1>3, <3>1, <3>2
  <2> QED
    BY <2>1, <2>2, <2>3 DEF ProcInv
<1>7. ASSUME NEW q \in Procs, q # p PROVE ProcInv(q)'
  BY <1>1, <1>3, <1>7, HolderFrame DEF TypeOK, SameLocals, Critical
<1> QED
  BY <1>4, <1>5, <1>6, <1>7

LEMMA EarliestBound ==
  ASSUME NEW next \in Nat, NEW expires \in Nat \ {0}
  PROVE  /\ EarliestExpiry(next, expires) \in Nat \ {0}
         /\ EarliestExpiry(next, expires) <= expires
         /\ next # 0 => EarliestExpiry(next, expires) <= next
BY DEF EarliestExpiry

\* The rename of the entry brings the directory up to the account's promise.
LEMMA CommitPreserves ==
  ASSUME IInv, NEW p \in Procs, Commit(p)
  PROVE  IInv'
<1> USE DEF IInv
<1> DEFINE k == key[p]
           s == need[p]
           earliest == EarliestExpiry(mem[p].next, now + MaxAge)
           account == [bytes |-> mem[p].bytes + s, entries |-> mem[p].entries + 1,
                       next |-> earliest]
<1>1. /\ pc[p] = "commit" /\ pc' = [pc EXCEPT ![p] = "save"]
      /\ size' = Replaced(size, k, s) /\ used' = [used EXCEPT ![k] = now]
      /\ mem' = [mem EXCEPT ![p] = account]
      /\ staged' = staged \ {p} /\ temps' = temps \ {p}
      /\ UNCHANGED <<acct, lastSweep, now, lock, op, key, need, tried>>
  BY DEF Commit, SetFiles, Rename, GoTo, local
<1>2. k \in Keys /\ s \in 1..MaxSize /\ acct.dirty
  BY <1>1 DEF ProcInv, LocalInv, PendingInv
<1>3. mem[p] \in Accounts /\ Describes(mem[p], Others(p), used)
  BY <1>1 DEF TypeOK, ProcInv, MemInv
<1>4. /\ size \in Directories /\ size' \in Directories /\ used' \in [Keys -> Nat]
      /\ Others(p) \in Directories
  BY <1>1, <1>2, DirectoryClosed, MaxSizeAssumption DEF TypeOK, Others
<1>5. /\ Bytes(size') = Bytes(Others(p)) + s
      /\ Count(size') = Count(Others(p)) + 1
  BY <1>1, <1>2, <1>4, ReplacedShare DEF Others
<1>6. /\ earliest \in Nat \ {0} /\ earliest <= now + MaxAge
      /\ mem[p].next # 0 => earliest <= mem[p].next
  <2>1. mem[p].next \in Nat
    BY <1>3 DEF Accounts
  <2>2. now + MaxAge \in Nat \ {0}
    BY TimesAssumption DEF TypeOK
  <2> QED
    BY <2>1, <2>2, EarliestBound
<1>7. Conservative(earliest, size', used')
  <2>1. ASSUME NEW x \in Present(size') PROVE earliest <= used'[x] + MaxAge
    <3>1. CASE x = k
      BY <1>1, <1>2, <1>6, <3>1 DEF TypeOK
    <3>2. CASE x # k
      <4>1. x \in Present(Others(p)) /\ used'[x] = used[x] /\ used[x] \in Nat
        BY <1>1, <1>2, <2>1, <3>2
        DEF TypeOK, Present, Others, Removed, Replaced, Directories
      <4>2. mem[p].next # 0 /\ mem[p].next <= used[x] + MaxAge /\ mem[p].next \in Nat
        BY <1>3, <4>1 DEF Describes, Conservative, Accounts
      <4> QED
        BY <1>6, <4>1, <4>2, TimesAssumption
    <3> QED
      BY <3>1, <3>2
  <2> QED
    BY <1>6, <2>1 DEF Conservative
<1>8. account \in Accounts /\ Describes(account, size', used')
  BY <1>2, <1>3, <1>5, <1>6, <1>7 DEF Accounts, Describes
<1>9. TypeOK'
  BY <1>1, <1>4, <1>8 DEF TypeOK, Points, Critical
<1>10. AcctInv' /\ ClockInv'
  <2>1. \A x \in Keys : used'[x] <= now
    BY <1>1, <1>2 DEF ClockInv, TypeOK
  <2> QED
    BY <1>1, <1>2, <2>1 DEF AcctInv, ClockInv
<1>11. ProcInv(p)'
  <2>1. mem'[p] = account /\ pc'[p] = "save"
    BY <1>1 DEF TypeOK
  <2>2. LocalInv(p)' /\ LockInv(p)' /\ StagingInv(p)' /\ PendingInv(p)'
    BY <1>1, <1>2, <2>1
    DEF ProcInv, LocalInv, LockInv, StagingInv, PendingInv, Critical
  <2>3. MemInv(p)'
    BY <1>8, <2>1 DEF MemInv
  <2> QED
    BY <2>2, <2>3 DEF ProcInv
<1>12. ASSUME NEW q \in Procs, q # p PROVE ProcInv(q)'
  BY <1>1, <1>12, HolderFrame DEF TypeOK, SameLocals, Critical
<1> QED
  BY <1>4, <1>9, <1>10, <1>11, <1>12

\* The saved record is believed again, and describes the directory.
LEMMA SavePreserves ==
  ASSUME IInv, NEW p \in Procs, Save(p)
  PROVE  IInv'
<1> USE DEF IInv
<1>1. /\ pc[p] = "save" /\ Leave(p) /\ lock' = NoProc
      /\ acct' = [bytes |-> mem[p].bytes, entries |-> mem[p].entries,
                  next |-> mem[p].next, dirty |-> FALSE]
      /\ staged' = staged \ {p} /\ temps' = temps \ {p}
      /\ UNCHANGED <<size, used, lastSweep, now>>
  BY DEF Save, Rename, Finish, Unlock, files
<1>2. mem[p] \in Accounts /\ Describes(mem[p], size, used)
  BY <1>1 DEF TypeOK, ProcInv, MemInv
<1>3. TypeOK'
  <2>1. acct' \in [bytes : Nat, entries : Nat, next : Nat, dirty : BOOLEAN]
    BY <1>1, <1>2 DEF Accounts
  <2>2. /\ pc' \in [Procs -> Points]
        /\ op' \in [Procs -> {"none", "read", "write", "prune", "pruneIfDue",
                               "clear", "status"}]
        /\ key' \in [Procs -> Keys \cup {NoKey}]
        /\ need' \in [Procs -> 0..MaxSize]
        /\ tried' \in [Procs -> SUBSET Keys]
    BY <1>1, MaxSizeAssumption DEF TypeOK, Leave, Points
  <2>3. mem' \in [Procs -> Accounts]
    BY <1>1 DEF TypeOK, Leave, Accounts, ZeroAccount
  <2> QED
    BY <1>1, <2>1, <2>2, <2>3 DEF TypeOK
<1>4. AcctInv' /\ ClockInv'
  BY <1>1, <1>2 DEF AcctInv, ClockInv, Describes
<1>5. ProcInv(p)'
  BY <1>1 DEF TypeOK, Leave, ProcInv, LocalInv, LockInv, StagingInv, PendingInv,
     MemInv, Critical
<1>6. ASSUME NEW q \in Procs, q # p PROVE ProcInv(q)'
  BY <1>1, <1>6, HolderFrame DEF TypeOK, Leave, SameLocals, Critical
<1> QED
  BY <1>3, <1>4, <1>5, <1>6

\* Pruning and clearing drop the record first.
LEMMA InvalidatePreserves ==
  ASSUME IInv, NEW p \in Procs,
         Invalidate(p) \/ (Prune(p) /\ pc'[p] = "sweep")
  PROVE  IInv'
<1> USE DEF IInv
<1>1. /\ pc[p] \in {"clear", "prune"} /\ acct' = DirtyRecord
      /\ pc' = [pc EXCEPT ![p] = IF pc[p] = "clear" THEN "delete" ELSE "sweep"]
      /\ UNCHANGED <<size, used, lastSweep, now, lock, temps, staged, op, key,
                     need, mem, tried>>
  BY
  DEF Invalidate, Prune, InvalidateAccounting, GoTo, Finish, Leave, files,
      local, TypeOK
<1>2. TypeOK'
  BY <1>1 DEF TypeOK, Points, Critical, DirtyRecord
<1>3. AcctInv' /\ ClockInv'
  BY <1>1 DEF AcctInv, ClockInv, DirtyRecord
<1>4. ProcInv(p)'
  BY <1>1
  DEF TypeOK, ProcInv, LocalInv, LockInv, StagingInv, PendingInv, MemInv,
     Critical, AtomicPoints, DirtyRecord
<1>5. ASSUME NEW q \in Procs, q # p PROVE ProcInv(q)'
  BY <1>1, <1>5, HolderFrame DEF TypeOK, SameLocals, Critical
<1> QED
  BY <1>2, <1>3, <1>4, <1>5

LEMMA DeletePreserves ==
  ASSUME IInv, NEW p \in Procs, Delete(p)
  PROVE  IInv'
<1> USE DEF IInv
<1>1. PICK k \in Present(size) : Unlink({k})
  BY DEF Delete
<1>2. /\ pc[p] = "delete"
      /\ UNCHANGED <<acct, lastSweep, now, lock, temps, staged, pc, op, key,
                     need, mem, tried>>
  BY DEF Delete, local
<1>3. size' \in Directories /\ used' \in [Keys -> Nat] /\ ClockInv'
  BY <1>1, <1>2, UnlinkedFiles
<1>4. TypeOK'
  BY <1>2, <1>3 DEF TypeOK
<1>5. acct.dirty /\ AcctInv'
  BY <1>2 DEF AcctInv, ProcInv, PendingInv
<1>6. ProcInv(p)'
  BY <1>2 DEF ProcInv, LocalInv, LockInv, StagingInv, PendingInv, MemInv
<1>7. ASSUME NEW q \in Procs, q # p PROVE ProcInv(q)'
  BY <1>2, <1>7, HolderFrame DEF SameLocals, Critical
<1> QED
  BY <1>3, <1>4, <1>5, <1>6, <1>7

LEMMA ClearedPreserves ==
  ASSUME IInv, NEW p \in Procs, Cleared(p)
  PROVE  IInv'
<1> USE DEF IInv
<1>1. /\ pc[p] = "delete" /\ Present(size) = {} /\ temps' = {}
      /\ pc' = [pc EXCEPT ![p] = "save"]
      /\ UNCHANGED <<size, used, acct, lastSweep, now, lock, staged, op, key,
                     need, mem, tried>>
  BY DEF Cleared, CleanTemporaries, GoTo, disk, local
<1>2. TypeOK'
  BY <1>1 DEF TypeOK, Points, Critical
<1>3. AcctInv' /\ ClockInv'
  BY <1>1 DEF AcctInv, ClockInv
<1>4. Describes(mem[p], size, used)
  <2>1. mem[p] = ZeroAccount
    BY <1>1 DEF ProcInv, LocalInv
  <2>2. Bytes(size) = 0 /\ Count(size) = 0
    BY <1>1, EmptyDirectory DEF TypeOK
  <2> QED
    BY <1>1, <2>1, <2>2 DEF Describes, Conservative, ZeroAccount
<1>5. ProcInv(p)'
  BY <1>1, <1>4
  DEF TypeOK, ProcInv, LocalInv, LockInv, StagingInv, PendingInv, MemInv,
     Critical, AtomicPoints
<1>6. ASSUME NEW q \in Procs, q # p PROVE ProcInv(q)'
  BY <1>1, <1>6, HolderFrame DEF TypeOK, SameLocals, Critical
<1> QED
  BY <1>2, <1>3, <1>5, <1>6

\* The steps that end an operation.
LEMMA EndPreserves ==
  ASSUME IInv, NEW p \in Procs,
         \/ CheckDue(p) /\ pc'[p] # "toMaintain"
         \/ Recheck(p) /\ pc'[p] # "mark"
         \/ Prune(p) /\ pc'[p] # "sweep"
         \/ Status(p)
         \/ Throw(p) /\ pc[p] \notin {"toTouch", "touch"}
         \/ Crash(p)
  PROVE  IInv'
<1> USE DEF IInv
<1>1. Leave(p) /\ UNCHANGED <<disk, now>>
  BY DEF CheckDue, Recheck, Prune, Status, Throw, Crash, Finish, GoTo, TypeOK,
     disk, files
<1>2. lock' = lock \/ (lock = p /\ lock' = NoProc)
  <2>1. pc[p] \in Critical => lock = p
    BY DEF ProcInv, LockInv
  <2> QED
    BY <2>1
    DEF CheckDue, Recheck, Prune, Status, Throw, Crash, Finish, Unlock,
        Critical, GoTo, TypeOK
<1>3. staged' = staged \ {p} /\ temps' \in {temps, temps \ {p}}
  <2>1. ASSUME pc[p] \in {"due", "maintain", "prune", "status"}
        PROVE  p \notin staged
    BY <2>1 DEF ProcInv, StagingInv, AtomicPoints
  <2> QED
    BY <2>1 DEF CheckDue, Recheck, Prune, Status, Throw, Crash
<1> QED
  BY <1>1, <1>2, <1>3, LeavePreserves

LEMMA ThrowPreserves ==
  ASSUME IInv, NEW p \in Procs, Throw(p), pc[p] \in {"toTouch", "touch"}
  PROVE  IInv'
<1> USE DEF IInv
<1>1. /\ pc' = [pc EXCEPT ![p] = "due"]
      /\ lock' = IF lock = p THEN NoProc ELSE lock
      /\ staged' = staged \ {p} /\ temps' = temps \ {p}
      /\ UNCHANGED <<size, used, acct, lastSweep, now, op, key, need, mem, tried>>
  BY DEF Throw, GoTo, disk, local
<1>2. TypeOK'
  BY <1>1 DEF TypeOK, Points
<1>3. AcctInv' /\ ClockInv'
  BY <1>1 DEF AcctInv, ClockInv
<1>4. ProcInv(p)'
  BY <1>1
  DEF TypeOK, ProcInv, LocalInv, LockInv, StagingInv, PendingInv, MemInv,
      Critical
<1>5. ASSUME NEW q \in Procs, q # p PROVE ProcInv(q)'
  <2>1. SameLocals(q)
    BY <1>1, <1>5 DEF TypeOK, SameLocals
  <2>2. CASE pc[q] \notin Critical
    BY <1>1, <2>1, <2>2, FrameOutside
  <2>3. CASE pc[q] \in Critical
    <3>1. lock = q /\ lock' = lock
      BY <1>1, <1>5, <2>3 DEF ProcInv, LockInv
    <3> QED
      BY <1>1, <1>5, <2>1, <3>1, FrameUnchanged
  <2> QED
    BY <2>2, <2>3
<1> QED
  BY <1>2, <1>3, <1>4, <1>5

LEMMA QuietPreserves ==
  ASSUME IInv, Tick \/ UNCHANGED vars
  PROVE  IInv'
<1> USE DEF IInv
<1>1. /\ now' \in Nat /\ now <= now'
      /\ UNCHANGED <<size, used, acct, lastSweep, lock, temps, staged, pc, op,
                     key, need, mem, tried>>
  BY DEF Tick, vars, disk, local, TypeOK
<1>2. TypeOK'
  BY <1>1 DEF TypeOK
<1>3. AcctInv' /\ ClockInv'
  <2>1. \A k \in Keys : used'[k] <= now'
    BY <1>1 DEF ClockInv, TypeOK
  <2> QED
    BY <1>1, <2>1 DEF AcctInv, ClockInv
<1>4. ASSUME NEW q \in Procs PROVE ProcInv(q)'
  BY <1>1, FrameUnchanged DEF SameLocals
<1> QED
  BY <1>2, <1>3, <1>4

LEMMA InitEstablishes == Init => IInv
<1> SUFFICES ASSUME Init PROVE IInv
  OBVIOUS
<1>1. TypeOK
  BY MaxSizeAssumption
  DEF Init, TypeOK, DirtyRecord, Points, Accounts, ZeroAccount
<1>2. AcctInv /\ ClockInv
  BY DEF Init, AcctInv, ClockInv, DirtyRecord
<1>3. ASSUME NEW p \in Procs PROVE ProcInv(p)
  BY
  DEF Init, ProcInv, LocalInv, LockInv, StagingInv, PendingInv, MemInv, Critical
<1> QED
  BY <1>1, <1>2, <1>3 DEF IInv

LEMMA StepPreserves ==
  ASSUME IInv, NEW p \in Procs, Step(p)
  PROVE  IInv'
<1>1. CASE CheckExpiry(p) \/ CheckDue(p)
  BY <1>1, UnlockedPreserves, EndPreserves
<1>2. CASE Acquire(p) \/ Stage(p) \/ Touch(p)
  BY <1>2, AcquirePreserves, StagePreserves, TouchPreserves
<1>3. CASE Recheck(p) \/ SkipSweep(p)
  BY <1>3, MovePreserves, EndPreserves
<1>4. CASE Mark(p) \/ Sweep(p) \/ RecordSweep(p)
  BY <1>4, MarkPreserves, SweepPreserves, RecordSweepPreserves
<1>5. CASE Subtract(p) \/ EvictNext(p) \/ EvictDone(p)
  BY <1>5, SubtractPreserves, EvictNextPreserves, EvictDonePreserves
<1>6. CASE Commit(p) \/ Save(p)
  BY <1>6, CommitPreserves, SavePreserves
<1>7. CASE Prune(p) \/ Invalidate(p)
  BY <1>7, InvalidatePreserves, EndPreserves
<1>8. CASE Delete(p) \/ Cleared(p)
  BY <1>8, DeletePreserves, ClearedPreserves
<1>9. CASE Status(p) \/ Throw(p)
  BY <1>9, EndPreserves, ThrowPreserves
<1> QED
  BY <1>1, <1>2, <1>3, <1>4, <1>5, <1>6, <1>7, <1>8, <1>9 DEF Step, Run

LEMMA NextPreserves ==
  ASSUME IInv, [Next]_vars
  PROVE  IInv'
<1>1. CASE Tick \/ UNCHANGED vars
  BY <1>1, QuietPreserves
<1>2. ASSUME NEW p \in Procs, Start(p) \/ Step(p) \/ Crash(p) PROVE IInv'
  BY <1>2, StartPreserves, StepPreserves, EndPreserves
<1> QED
  BY <1>1, <1>2 DEF Next

-----------------------------------------------------------------------------
(* The theorems.                                                           *)

\* The invariant the rest follows from.
THEOREM Invariance == Spec => []IInv
<1>1. Init => IInv
  BY InitEstablishes
<1>2. IInv /\ [Next]_vars => IInv'
  BY NextPreserves
<1> QED
  BY <1>1, <1>2, PTL DEF Spec

\* Types hold, and no account ever underflows (WriteEntropyCache subtracts
\* from unsigned integers).
THEOREM TypeCorrect == Spec => []TypeOK
<1>1. IInv => TypeOK
  BY DEF IInv
<1> QED
  BY <1>1, Invariance, PTL

\* CleanTemporaries never deletes a temporary that is about to be renamed.
THEOREM TemporariesSafe == Spec => []LiveTemporariesKept
<1>1. IInv => LiveTemporariesKept
  BY DEF IInv, TypeOK, ProcInv, StagingInv, LiveTemporariesKept
<1> QED
  BY <1>1, Invariance, PTL

\* A record that LoadAccounting believes is exact.
THEOREM AccountingCorrect == Spec => []AccountingExact
<1>1. IInv => AccountingExact
  BY DEF IInv, AcctInv, Describes, AccountingExact
<1> QED
  BY <1>1, Invariance, PTL

\* A believed record never hides an expired entry.
THEOREM ExpiryCorrect == Spec => []NextExpiryConservative
<1>1. IInv => NextExpiryConservative
  BY DEF IInv, AcctInv, Describes, Conservative, NextExpiryConservative
<1> QED
  BY <1>1, Invariance, PTL

-----------------------------------------------------------------------------
(* What a step does to the files, and the theorems about steps.            *)

\* Only these actions change an entry's length or time.
LEMMA FileSteps ==
  ASSUME [Next]_vars
  PROVE  \/ UNCHANGED files
         \/ \E p \in Procs : Touch(p) \/ Sweep(p) \/ EvictNext(p) \/ Delete(p)
                             \/ Commit(p)
<1>1. CASE Tick \/ UNCHANGED vars
  BY <1>1 DEF Tick, vars, disk, files
<1>2. ASSUME NEW p \in Procs, Start(p) PROVE UNCHANGED files
  BY <1>2 DEF Start, StartRead, StartWrite, StartPrune, StartClear, StartStatus,
     Begin, disk, files
<1>3. ASSUME NEW p \in Procs, Crash(p) PROVE UNCHANGED files
  BY <1>3 DEF Crash, disk, files
<1>4. ASSUME NEW p \in Procs, Step(p)
      PROVE  \/ UNCHANGED files
             \/ Touch(p) \/ Sweep(p) \/ EvictNext(p) \/ Delete(p) \/ Commit(p)
  BY <1>4 DEF Step, Run, CheckExpiry, CheckDue, Acquire, Stage, Recheck, Mark,
     SkipSweep, RecordSweep, Subtract, EvictDone, Save, Prune, Invalidate,
     Cleared, Status, Throw, disk, files
<1> QED
  BY <1>1, <1>2, <1>3, <1>4 DEF Next

\* The directory's steps, whatever the cache is doing.
LEMMA StepImplements ==
  ASSUME IInv, [Next]_vars
  PROVE  [Directory!Next]_size
<1> USE DEF IInv
<1>1. CASE UNCHANGED files
  BY <1>1 DEF files
<1>2. ASSUME NEW p \in Procs, Touch(p) PROVE UNCHANGED size
  BY <1>2 DEF Touch
<1>3. ASSUME NEW p \in Procs, Sweep(p) \/ EvictNext(p) \/ Delete(p)
      PROVE  [Directory!Next]_size
  <2>1. UNCHANGED files \/ \E S \in SUBSET Keys : size' = Removed(size, S)
    BY <1>3 DEF Sweep, EvictNext, Delete, Unlink, SetFiles, Candidates, Present
  <2> QED
    BY <2>1 DEF files, Directory!Next, Directory!Reclaim, Removed
<1>4. ASSUME NEW p \in Procs, Commit(p) PROVE Directory!Install
  <2>1. /\ key[p] \in Keys /\ need[p] \in 1..MaxSize /\ size \in Directories
        /\ size' = Replaced(size, key[p], need[p])
        /\ mem[p].bytes = Bytes(Others(p)) /\ mem[p].bytes + need[p] <= Limit
    BY <1>4 DEF TypeOK, Commit, SetFiles, ProcInv, LocalInv, MemInv, Describes
  <2>2. Bytes(size') <= Limit
    BY <2>1, ReplacedShare DEF Others
  <2> QED
    BY <2>1, <2>2 DEF Directory!Install, Replaced
<1> QED
  BY <1>1, <1>2, <1>3, <1>4, FileSteps DEF Directory!Next

\* The cache implements its directory: entries are installed whole and within
\* the budget, or removed, and never otherwise changed.
THEOREM Refinement == Spec => ImplementsDirectory
<1>1. Init => Directory!Init
  BY DEF Init, Directory!Init, Directories
<1>2. IInv /\ [Next]_vars => [Directory!Next]_size
  BY StepImplements
<1> QED
  BY <1>1, <1>2, Invariance, PTL DEF Spec, ImplementsDirectory, Directory!Spec

\* A lookup never makes an expired entry fresh.
THEOREM NoRevival == Spec => ExpiredNotRevived
<1>1. ASSUME IInv, [Next]_vars, NEW k \in Keys,
             size[k] > 0, Expired(used[k]), used'[k] > used[k]
      PROVE  \E p \in Procs : pc[p] = "commit" /\ key[p] = k
  <2> USE <1>1 DEF IInv
  <2>1. used \in [Keys -> Nat]
    BY DEF TypeOK
  <2>2. ~UNCHANGED files
    BY <2>1 DEF files
  <2>3. PICK p \in Procs :
          Touch(p) \/ Sweep(p) \/ EvictNext(p) \/ Delete(p) \/ Commit(p)
    BY <2>2, FileSteps
  <2>4. ASSUME NEW S, Unlink(S) PROVE FALSE
    BY <2>1, <2>4 DEF Unlink, SetFiles, Removed
  <2>5. ~(Sweep(p) \/ EvictNext(p) \/ Delete(p))
    BY <2>2, <2>4 DEF Sweep, EvictNext, Delete
  <2>6. ~Touch(p)
    BY <2>1 DEF Touch, Touchable
  <2>7. Commit(p) /\ k = key[p]
    BY <2>1, <2>3, <2>5, <2>6 DEF Commit, SetFiles
  <2> QED
    BY <2>7 DEF Commit
<1>2. IInv /\ [Next]_vars =>
        [\A k \in Keys :
           size[k] > 0 /\ Expired(used[k]) /\ used'[k] > used[k]
             => \E p \in Procs : pc[p] = "commit" /\ key[p] = k]_vars
  BY <1>1
<1> QED
  BY <1>2, Invariance, PTL DEF Spec, ExpiredNotRevived

\* A write evicts only while the files on disk really leave no room.
THEOREM EvictionJustified == Spec => EvictsOnlyOverBudget
<1>1. ASSUME IInv, [Next]_vars, NEW p \in Procs, pc[p] = "evict", size' # size
      PROVE  Bytes(Others(p)) + need[p] > Limit
  <2> USE <1>1 DEF IInv
  <2>1. PICK q \in Procs :
          Touch(q) \/ Sweep(q) \/ EvictNext(q) \/ Delete(q) \/ Commit(q)
    BY FileSteps DEF files
  <2>2. q = p
    <3>1. pc[q] \in Critical
      BY <2>1 DEF Touch, Sweep, EvictNext, Delete, Commit, Critical
    <3> QED
      BY <3>1, OneHolder DEF Critical
  <2>3. ~Fits(p)
    BY <2>1, <2>2 DEF Touch, Sweep, EvictNext, Delete, Commit
  <2>4. mem[p].bytes = Bytes(Others(p)) /\ mem[p].bytes \in Nat /\ need[p] \in Nat
    BY MaxSizeAssumption DEF TypeOK, ProcInv, MemInv, Describes, Accounts
  <2> QED
    BY <2>3, <2>4, LimitAssumption DEF Fits
<1>2. IInv /\ [Next]_vars =>
        [\A p \in Procs : pc[p] = "evict" /\ size' # size
           => Bytes(Others(p)) + need[p] > Limit]_vars
  BY <1>1
<1> QED
  BY <1>2, Invariance, PTL DEF Spec, EvictsOnlyOverBudget
=============================================================================
