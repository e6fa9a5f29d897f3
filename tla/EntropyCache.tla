---------------------------- MODULE EntropyCache ----------------------------
(***************************************************************************)
(* The shared on-disk entropy cache of src/src/entropy_cache.cc: several   *)
(* llm-cc processes look entries up, write, prune, clear and inspect one   *)
(* directory.  Every mutation holds the advisory lock file; lookups read   *)
(* without it.  A small accounting record (bytes, entries, next expiry)    *)
(* spares a write the scan of the directory; a "dirty" record, or none,    *)
(* makes the next user rebuild it by a scan.                               *)
(*                                                                         *)
(* A process is its pc plus the locals of the running operation.  Each     *)
(* action is the code between two points at which another process, a       *)
(* crash or a failing system call can come between.                        *)
(***************************************************************************)
EXTENDS EntryBytes

CONSTANTS
  Procs,          \* processes sharing the cache
  NoProc,         \* "nobody holds the lock"
  NoKey,          \* "no target entry"
  Limit,          \* Limit(), in the unit of MaxSize
  MaxAge,         \* kEntropyCacheMaxAgeSeconds
  SweepInterval,  \* the day between two sweeps
  MaxTime         \* bound on the clock

ASSUME NamesAssumption == NoProc \notin Procs /\ NoKey \notin Keys
ASSUME LimitAssumption == Limit \in Nat
ASSUME TimesAssumption ==
  /\ MaxAge \in Nat \ {0}
  /\ SweepInterval \in Nat \ {0}
  /\ MaxTime \in Nat

VARIABLES
  size,       \* key -> bytes of its file, 0 when absent
  used,       \* key -> modification time of its file, 0 when absent
  acct,       \* accounting.json
  lastSweep,  \* modification time of .last-sweep, or Never
  now,        \* the system clock
  lock,       \* holder of the .lock file
  temps,      \* running processes whose temporary file is on disk
  staged,     \* processes between WritePrivateFile and rename
  pc, op,     \* where each process is, in which operation
  key, need,  \* the entry being written or looked up, and its encoded length
  mem,        \* the Accounting local to the operation
  tried       \* entries the eviction loop has passed

disk == <<size, used, acct, lastSweep>>
files == <<size, used>>
local == <<op, key, need>>
vars == <<size, used, acct, lastSweep, now, lock, temps, staged,
          pc, op, key, need, mem, tried>>

Never == -1

Waiting == {"toTouch", "toMaintain", "toWrite", "toPrune", "toClear",
            "toStatus"}
Critical == {"touch", "maintain", "mark", "sweep", "record", "subtract",
             "evict", "commit", "save", "prune", "clear", "delete", "status"}
\* The program points at which AtomicWriteFile is called.
AtomicPoints == {"mark", "record", "commit", "save"}
Points == {"idle", "check", "due"} \cup Waiting \cup Critical

Account == [bytes : Int, entries : Int, next : Int]
ZeroAccount == [bytes |-> 0, entries |-> 0, next |-> 0]

\* A missing, malformed or dirty record: LoadAccounting treats them alike.
DirtyRecord == [bytes |-> 0, entries |-> 0, next |-> 0, dirty |-> TRUE]

-----------------------------------------------------------------------------
\* The least expiry time among the entries of d, 0 when there are none.
MinExpiry(d, u) ==
  IF Present(d) = {} THEN 0
  ELSE LET expiries == {u[k] + MaxAge : k \in Present(d)}
       IN  CHOOSE t \in expiries : \A x \in expiries : t <= x

RebuildAccounting(d, u) ==
  [bytes |-> Bytes(d), entries |-> Count(d), next |-> MinExpiry(d, u)]

Inconsistent(a) ==
  \/ a.entries = 0 /\ (a.bytes # 0 \/ a.next # 0)
  \/ a.entries # 0 /\ (a.bytes = 0 \/ a.next = 0)

LoadAccounting(a, d, u) ==
  IF a.dirty \/ Inconsistent(a)
  THEN RebuildAccounting(d, u)
  ELSE [bytes |-> a.bytes, entries |-> a.entries, next |-> a.next]

Expired(u) == now >= u /\ now - u >= MaxAge

SweepDue == \/ lastSweep = Never
            \/ now >= lastSweep /\ now - lastSweep >= SweepInterval

-----------------------------------------------------------------------------
\* The end of an operation: its locals go out of scope.
Leave(p) ==
  /\ pc' = [pc EXCEPT ![p] = "idle"]
  /\ op' = [op EXCEPT ![p] = "none"]
  /\ key' = [key EXCEPT ![p] = NoKey]
  /\ need' = [need EXCEPT ![p] = 0]
  /\ mem' = [mem EXCEPT ![p] = ZeroAccount]
  /\ tried' = [tried EXCEPT ![p] = {}]

GoTo(p, point) == pc' = [pc EXCEPT ![p] = point]

Begin(p, o, k, s, point) ==
  /\ pc[p] = "idle"
  /\ op' = [op EXCEPT ![p] = o]
  /\ key' = [key EXCEPT ![p] = k]
  /\ need' = [need EXCEPT ![p] = s]
  /\ GoTo(p, point)
  /\ UNCHANGED <<disk, now, lock, temps, staged, mem, tried>>

\* ReadEntropyCache: ReadEntry runs without the lock, and misses or decodes.
StartRead(p) ==
  \E k \in Keys : Begin(p, "read", k, 0,
                        IF size[k] > 0 THEN "check" ELSE "due")

\* WriteEntropyCache: an entry over the budget is not cached.
StartWrite(p) ==
  \E k \in Keys, s \in 1..MaxSize :
    s <= Limit /\ Begin(p, "write", k, s, "toWrite")

\* PruneEntropyCache(force) and ClearEntropyCache, the user's commands.
StartPrune(p) ==
  \E o \in {"prune", "pruneIfDue"} : Begin(p, o, NoKey, 0, "toPrune")
StartClear(p) == Begin(p, "clear", NoKey, 0, "toClear")
StartStatus(p) == Begin(p, "status", NoKey, 0, "toStatus")

\* Known expired entries are misses; LastUsed of a vanished file is unknown.
CheckExpiry(p) ==
  /\ pc[p] = "check"
  /\ GoTo(p, IF size[key[p]] > 0 /\ Expired(used[key[p]])
             THEN "due" ELSE "toTouch")
  /\ UNCHANGED <<disk, now, lock, temps, staged, local, mem, tried>>

\* MaybeMaintain looks at .last-sweep once before it takes the lock.
CheckDue(p) ==
  /\ pc[p] = "due"
  /\ IF SweepDue
     THEN GoTo(p, "toMaintain") /\ UNCHANGED <<local, mem, tried>>
     ELSE Leave(p)
  /\ UNCHANGED <<disk, now, lock, temps, staged>>

-----------------------------------------------------------------------------
\* FileLock: flock(LOCK_EX) on a descriptor of its own, so that a process
\* that already holds the lock waits for itself.
LockIgnored == TRUE
LockFree == lock = NoProc

\* ~FileLock, at the end of its scope.
UnlockForgotten == UNCHANGED lock
Unlock == lock' = NoProc

Acquire(p) ==
  /\ pc[p] \in Waiting
  /\ LockFree
  /\ lock' = p
  /\ GoTo(p, CASE pc[p] = "toTouch" -> "touch"
               [] pc[p] = "toMaintain" -> "maintain"
               [] pc[p] = "toWrite" -> "mark"
               [] pc[p] = "toPrune" -> "prune"
               [] pc[p] = "toClear" -> "clear"
               [] pc[p] = "toStatus" -> "status")
  /\ UNCHANGED <<disk, now, temps, staged, local, mem, tried>>

Finish(p) == Leave(p) /\ Unlock

\* AtomicWriteFile: write and sync a temporary, then rename it.
Stage(p) ==
  /\ pc[p] \in AtomicPoints /\ p \notin staged
  /\ staged' = staged \cup {p}
  /\ temps' = temps \cup {p}
  /\ UNCHANGED <<disk, now, lock, pc, local, mem, tried>>

Rename(p) ==
  /\ p \in staged \cap temps
  /\ staged' = staged \ {p}
  /\ temps' = temps \ {p}

\* CleanTemporaries unlinks every temporary it finds.
CleanTemporaries == temps' = {}

SetFiles(d, u) == size' = d /\ used' = u

\* RemoveEntry of every entry of S.
Unlink(S) == SetFiles(Removed(size, S), Removed(used, S))

-----------------------------------------------------------------------------
\* Known expired entries are never made fresh by a lookup; touching a file
\* that has gone fails, and the failure is ignored.
TouchableUnchecked(k) == size[k] > 0
Touchable(k) == size[k] > 0 /\ ~Expired(used[k])

\* ReadEntropyCache under the lock, which it releases before maintenance.
Touch(p) ==
  /\ pc[p] = "touch"
  /\ IF Touchable(key[p])
     THEN used' = [used EXCEPT ![key[p]] = now]
     ELSE UNCHANGED used
  /\ Unlock
  /\ GoTo(p, "due")
  /\ UNCHANGED <<size, acct, lastSweep, now, temps, staged, local, mem, tried>>

\* MaybeMaintain looks again: another process may have swept meanwhile.
Recheck(p) ==
  /\ pc[p] = "maintain"
  /\ IF SweepDue
     THEN GoTo(p, "mark") /\ UNCHANGED <<lock, local, mem, tried>>
     ELSE Finish(p)
  /\ UNCHANGED <<disk, now, temps, staged>>

\* MarkDirty keeps the loaded numbers in a record nobody will believe.
MarkForgotten == UNCHANGED acct
MarkDirty == acct' = DirtyRecord

\* InvalidateAccounting removes the record, which needs no space.
InvalidateAccounting == acct' = DirtyRecord

\* LoadAccounting, then MarkDirty before anything is changed.
Mark(p) ==
  /\ pc[p] = "mark" /\ Rename(p)
  /\ mem' = [mem EXCEPT ![p] = LoadAccounting(acct, size, used)]
  /\ MarkDirty
  /\ GoTo(p, "sweep")
  /\ UNCHANGED <<files, lastSweep, now, lock, local, tried>>

\* A write sweeps only when the daily sweep is due or an entry may have
\* expired; maintenance and pruning always sweep.
SweepNeeded(p) ==
  op[p] = "write" => \/ SweepDue
                     \/ mem[p].next # 0 /\ mem[p].next <= now

\* Sweep: each removal may fail; the account is rebuilt from what is left.
Sweep(p) ==
  /\ pc[p] = "sweep" /\ SweepNeeded(p)
  /\ \E S \in SUBSET {k \in Present(size) : Expired(used[k])} :
       /\ Unlink(S)
       /\ mem' = [mem EXCEPT ![p] = RebuildAccounting(size', used')]
  /\ CleanTemporaries
  /\ GoTo(p, IF op[p] \in {"read", "write"} THEN "record" ELSE "evict")
  /\ UNCHANGED <<acct, lastSweep, now, lock, staged, local, tried>>

SkipSweep(p) ==
  /\ pc[p] = "sweep" /\ ~SweepNeeded(p)
  /\ GoTo(p, "subtract")
  /\ UNCHANGED <<disk, now, lock, temps, staged, local, mem, tried>>

RecordSweep(p) ==
  /\ pc[p] = "record" /\ Rename(p)
  /\ lastSweep' = now
  /\ GoTo(p, IF op[p] = "write" THEN "subtract" ELSE "save")
  /\ UNCHANGED <<files, acct, now, lock, local, mem, tried>>

\* An account without one entry of the given length.
Less(account, bytes) == [account EXCEPT !.bytes = @ - bytes, !.entries = @ - 1]

\* The entry about to be replaced leaves the account, not the directory.  An
\* account that cannot hold it is rebuilt first.
WithoutPrevious(p, account) ==
  IF size[key[p]] = 0 THEN account
  ELSE LET sound == IF account.entries = 0 \/ size[key[p]] > account.bytes
                    THEN RebuildAccounting(size, used) ELSE account
       IN  Less(sound, size[key[p]])

Subtract(p) ==
  /\ pc[p] = "subtract"
  /\ mem' = [mem EXCEPT ![p] = WithoutPrevious(p, @)]
  /\ GoTo(p, "evict")
  /\ UNCHANGED <<disk, now, lock, temps, staged, local, tried>>

\* The eviction loop: entries by last use, each removal may fail.
FitsWithoutEntry(p) == mem[p].bytes <= Limit
Fits(p) == mem[p].bytes <= Limit - need[p]

Candidates(p) == Present(size) \ (tried[p] \cup {key[p]})

EvictNext(p) ==
  /\ pc[p] = "evict" /\ ~Fits(p)
  /\ \E k \in Candidates(p) :
       /\ \A other \in Candidates(p) : used[k] <= used[other]
       /\ tried' = [tried EXCEPT ![p] = @ \cup {k}]
       /\ \/ /\ Unlink({k})
             /\ mem' = [mem EXCEPT ![p] = Less(@, size[k])]
          \/ UNCHANGED <<files, mem>>
  /\ UNCHANGED <<acct, lastSweep, now, lock, temps, staged, pc, local>>

\* The end of the loop.  A write that still does not fit is given up, and its
\* account rebuilt: the entry it wanted to replace is still there.  Pruning
\* rebuilds in any case.
RebuildOnDisk(p) ==
  mem' = [mem EXCEPT ![p] = RebuildAccounting(size, used)]

EvictDone(p) ==
  /\ pc[p] = "evict" /\ (Fits(p) \/ Candidates(p) = {})
  /\ IF op[p] = "write" /\ Fits(p)
     THEN GoTo(p, "commit") /\ UNCHANGED mem
     ELSE /\ GoTo(p, IF op[p] = "write" THEN "save" ELSE "record")
          /\ RebuildOnDisk(p)
  /\ UNCHANGED <<disk, now, lock, temps, staged, local, tried>>

LatestExpiry(next, expires) == expires
EarliestExpiry(next, expires) ==
  IF next = 0 \/ expires < next THEN expires ELSE next

\* The entry's own rename, its timestamp, and the account that includes it.
Commit(p) ==
  /\ pc[p] = "commit" /\ Rename(p)
  /\ SetFiles(Replaced(size, key[p], need[p]),
              [used EXCEPT ![key[p]] = now])
  /\ mem' = [mem EXCEPT ![p] =
       [bytes |-> @.bytes + need[p], entries |-> @.entries + 1,
        next |-> EarliestExpiry(@.next, now + MaxAge)]]
  /\ GoTo(p, "save")
  /\ UNCHANGED <<acct, lastSweep, now, lock, local, tried>>

\* SaveAccounting with dirty = false ends a write, a maintenance sweep, a
\* prune and a clear.
Save(p) ==
  /\ pc[p] = "save" /\ Rename(p)
  /\ acct' = [bytes |-> mem[p].bytes, entries |-> mem[p].entries,
              next |-> mem[p].next, dirty |-> FALSE]
  /\ Finish(p)
  /\ UNCHANGED <<files, lastSweep, now>>

-----------------------------------------------------------------------------
\* PruneEntropyCache: without force only when a sweep is due.
Prune(p) ==
  /\ pc[p] = "prune"
  /\ IF op[p] = "prune" \/ SweepDue
     THEN /\ InvalidateAccounting
          /\ GoTo(p, "sweep")
          /\ UNCHANGED <<lock, local, mem, tried>>
     ELSE Finish(p) /\ UNCHANGED acct
  /\ UNCHANGED <<files, lastSweep, now, temps, staged>>

\* ClearEntropyCache removes the record before the entries.
Invalidate(p) ==
  /\ pc[p] = "clear"
  /\ InvalidateAccounting
  /\ GoTo(p, "delete")
  /\ UNCHANGED <<files, lastSweep, now, lock, temps, staged, local, mem, tried>>

\* It then deletes entry by entry; a failure ends it (see Throw).
Delete(p) ==
  /\ pc[p] = "delete"
  /\ \E k \in Present(size) : Unlink({k})
  /\ UNCHANGED <<acct, lastSweep, now, lock, temps, staged, pc, local, mem,
                 tried>>

Cleared(p) ==
  /\ pc[p] = "delete" /\ Present(size) = {}
  /\ CleanTemporaries
  /\ GoTo(p, "save")
  /\ UNCHANGED <<disk, now, lock, staged, local, mem, tried>>

\* GetEntropyCacheStatus reads under the lock and changes nothing.
Status(p) ==
  /\ pc[p] = "status"
  /\ Finish(p)
  /\ UNCHANGED <<disk, now, temps, staged>>

-----------------------------------------------------------------------------
\* A file system error, while waiting for the lock or holding it: the stack
\* unwinds to the end of the operation and a half-written temporary is
\* removed.  Only the refresh of a hit has a handler of its own.
Throw(p) ==
  /\ pc[p] \in Waiting \cup Critical
  /\ IF pc[p] \in {"toTouch", "touch"}
     THEN GoTo(p, "due") /\ UNCHANGED <<local, mem, tried>>
     ELSE Leave(p)
  /\ lock' = IF lock = p THEN NoProc ELSE lock
  /\ temps' = temps \ {p} /\ staged' = staged \ {p}
  /\ UNCHANGED <<disk, now>>

\* A killed process: the kernel drops its flock.  What it staged becomes an
\* abandoned temporary that only CleanTemporaries ever looks at.
Crash(p) ==
  /\ pc[p] # "idle"
  /\ Leave(p)
  /\ lock' = IF lock = p THEN NoProc ELSE lock
  /\ temps' = temps \ {p} /\ staged' = staged \ {p}
  /\ UNCHANGED <<disk, now>>

Tick ==
  /\ now < MaxTime
  /\ now' = now + 1
  /\ UNCHANGED <<disk, lock, temps, staged, pc, local, mem, tried>>

Start(p) == StartRead(p) \/ StartWrite(p) \/ StartPrune(p) \/ StartClear(p)
            \/ StartStatus(p)

Run(p) ==
  \/ CheckExpiry(p) \/ CheckDue(p) \/ Acquire(p) \/ Stage(p)
  \/ Touch(p) \/ Recheck(p) \/ Mark(p) \/ Sweep(p) \/ SkipSweep(p)
  \/ RecordSweep(p) \/ Subtract(p) \/ EvictNext(p) \/ EvictDone(p)
  \/ Commit(p) \/ Save(p) \/ Prune(p) \/ Invalidate(p) \/ Delete(p)
  \/ Cleared(p) \/ Status(p)

Step(p) == Run(p) \/ Throw(p)

\* The directory as earlier versions and runs may have left it.
Init ==
  /\ size \in Directories
  /\ used = [k \in Keys |-> 0]
  /\ acct = DirtyRecord
  /\ lastSweep = Never
  /\ now = 0
  /\ lock = NoProc
  /\ temps = {} /\ staged = {}
  /\ pc = [p \in Procs |-> "idle"]
  /\ op = [p \in Procs |-> "none"]
  /\ key = [p \in Procs |-> NoKey]
  /\ need = [p \in Procs |-> 0]
  /\ mem = [p \in Procs |-> ZeroAccount]
  /\ tried = [p \in Procs |-> {}]

Next == Tick \/ \E p \in Procs : Start(p) \/ Step(p) \/ Crash(p)

Spec == Init /\ [][Next]_vars

\* A process that is inside an operation keeps running; no file system error
\* is bound to come to its help.
FairSpec == Spec /\ \A p \in Procs : WF_vars(Run(p))

-----------------------------------------------------------------------------
\* The account a process keeps is never negative: the code's are uint64_t.
Accounts == [bytes : Nat, entries : Nat, next : Nat]

\* Types; the accounts in memory and on disk never underflow.
TypeOK ==
  /\ size \in Directories
  /\ used \in [Keys -> Nat]
  /\ acct \in [bytes : Nat, entries : Nat, next : Nat, dirty : BOOLEAN]
  /\ lastSweep \in Nat \cup {Never}
  /\ now \in Nat
  /\ lock \in Procs \cup {NoProc}
  /\ temps \subseteq Procs /\ staged \subseteq Procs
  /\ pc \in [Procs -> Points]
  /\ op \in [Procs -> {"none", "read", "write", "prune", "pruneIfDue",
                       "clear", "status"}]
  /\ key \in [Procs -> Keys \cup {NoKey}]
  /\ need \in [Procs -> 0..MaxSize]
  /\ mem \in [Procs -> Accounts]
  /\ tried \in [Procs -> SUBSET Keys]

\* CleanTemporaries only ever deletes abandoned temporaries: a temporary that
\* a running process is about to rename is still there, whoever swept.
LiveTemporariesKept == staged \subseteq temps

\* A record that LoadAccounting would believe describes the directory as it
\* is, whatever failed or crashed half way: bytes and entries are exact.
AccountingExact ==
  ~acct.dirty => /\ acct.bytes = Bytes(size)
                 /\ acct.entries = Count(size)

\* "next_expiry is conservative after touches: it can cause an early scan but
\* cannot hide an expired entry" (for a clock that does not step back).
NextExpiryConservative ==
  ~acct.dirty => \A k \in Present(size) : acct.next <= used[k] + MaxAge

\* A lookup never makes an expired entry fresh, although it waits for the
\* lock between looking at the entry's age and touching it: only a write that
\* installs the entry anew changes its time.
ExpiredNotRevived ==
  [][\A k \in Keys :
       size[k] > 0 /\ Expired(used[k]) /\ used'[k] > used[k]
         => \E p \in Procs : pc[p] = "commit" /\ key[p] = k]_vars

\* The directory but for the entry p is about to replace.
Others(p) == Removed(size, {key[p]})

\* The eviction loop removes a live entry only while the files really on disk
\* do not leave room, though it only looks at its account.
EvictsOnlyOverBudget ==
  [][\A p \in Procs : pc[p] = "evict" /\ size' # size
       => Bytes(Others(p)) + need[p] > Limit]_vars

\* The cache does what EntropyDirectory promises: entries are installed whole
\* and within the budget, or removed, and never otherwise changed.
Directory == INSTANCE EntropyDirectory
             WITH size <- size, Bytes <- Bytes
ImplementsDirectory == Directory!Spec

\* Whoever takes the lock gives it back: no operation waits for the lock
\* while it holds it (a refreshed hit goes on to maintenance).
LockReleased == \A p \in Procs : lock = p ~> lock # p
=============================================================================
