--------------------------- MODULE ModelIdentity ---------------------------
(***************************************************************************)
(* InspectModel of src/src/model_identity.cc: processes digest the shards  *)
(* of one model while something else, a download or a training run, keeps  *)
(* rewriting or replacing them.  A shard is hashed between two looks at    *)
(* its stat() signature; the digest goes into a memo that later calls      *)
(* trust while the signature is the same; when every shard has a digest    *)
(* all signatures are looked at once more.  There is no lock.              *)
(*                                                                         *)
(* The digest of a file is the sequence of its chunks: SHA-256 is taken to *)
(* be injective.  A chunk is the number of the change that wrote it.       *)
(***************************************************************************)
EXTENDS Integers, Sequences

CONSTANTS
  Procs,       \* processes inspecting the model
  Shards,      \* shards of the model
  Chunks,      \* chunks in which a shard is read
  Resolution,  \* consecutive changes of a file that can share a timestamp
  MaxChanges   \* bound on the changes

ASSUME ShardsAssumption == Shards \in Nat \ {0}
ASSUME ChunksAssumption == Chunks \in Nat \ {0}
ASSUME ResolutionAssumption == Resolution \in Nat \ {0}
ASSUME MaxChangesAssumption == MaxChanges \in Nat

VARIABLES
  changes,  \* changes made to the shards so far
  inode,    \* shard -> the inode its path leads to
  time,     \* shard -> the mtime and ctime of that inode
  blocks,   \* shard -> inode -> its chunks
  memo,     \* shard -> the set of its memo, empty without one
  pc,       \* where each process is
  shard,    \* the shard each process is at
  sig,      \* the signature each process compares with
  fd,       \* the inode each process opened to hash
  digest,   \* what it has hashed, or found in the memo
  attempt,  \* of InspectFile, at the current shard
  round,    \* of InspectModel, over all shards
  found,    \* the signatures and digests of the shards before the current one
  since,    \* auxiliary: the changes made when the inspection began
  seen      \* auxiliary: the model when the last shard had its digest

disk == <<changes, inode, time, blocks>>
local == <<shard, sig, fd, digest, attempt, round, found>>
aux == <<since, seen>>
vars == <<disk, memo, pc, local, aux>>

Numbers == 1..Shards
Changes == 0..MaxChanges
GoTo(p, point) == pc' = [pc EXCEPT ![p] = point]

\* The size is left out of a signature: every version of a model has the same.
Signature(s) == [inode |-> inode[s], time |-> time[s]]

SameFile(a, b) == a.inode = b.inode
Same(a, b) == a.inode = b.inode /\ a.time = b.time

Content(s) == blocks[s][inode[s]]

-----------------------------------------------------------------------------
\* The writer.  A change updates the timestamps, and the clock of the file
\* system may not have advanced since the last one.
Change(s) ==
  /\ changes < MaxChanges
  /\ changes' = changes + 1
  /\ time' = [time EXCEPT ![s] = (changes + 1) \div Resolution]
  /\ UNCHANGED <<memo, pc, local, aux>>

Rewrite(s, c) ==
  /\ Change(s)
  /\ blocks' = [blocks EXCEPT ![s][inode[s]][c] = changes + 1]
  /\ UNCHANGED inode

\* A rename over the path: who has opened the old inode goes on reading it.
Replace(s) ==
  /\ Change(s)
  /\ inode' = [inode EXCEPT ![s] = changes + 1]
  /\ blocks' = [blocks EXCEPT ![s][changes + 1] =
                   [c \in 1..Chunks |-> changes + 1]]

-----------------------------------------------------------------------------
NoSignature == [inode |-> 0, time |-> 0]

\* InspectFile is left: its variables are gone.
Leave(p) ==
  /\ sig' = [sig EXCEPT ![p] = NoSignature]
  /\ fd' = [fd EXCEPT ![p] = 0]
  /\ digest' = [digest EXCEPT ![p] = <<>>]
  /\ attempt' = [attempt EXCEPT ![p] = 0]

\* InspectModel is left without a result.
Abandon(p, point) ==
  /\ GoTo(p, point)
  /\ Leave(p)
  /\ shard' = [shard EXCEPT ![p] = 1]
  /\ round' = [round EXCEPT ![p] = 0]
  /\ found' = [found EXCEPT ![p] = <<>>]
  /\ seen' = [seen EXCEPT ![p] = <<>>]

\* The loop over the shards begins, in the first or the second round.
Restart(p, n) ==
  /\ GoTo(p, "stat")
  /\ shard' = [shard EXCEPT ![p] = 1]
  /\ round' = [round EXCEPT ![p] = n]
  /\ found' = [found EXCEPT ![p] = <<>>]

Start(p) ==
  /\ pc[p] \in {"idle", "done", "thrown"}
  /\ Restart(p, 0)
  /\ since' = [since EXCEPT ![p] = changes]
  /\ seen' = [seen EXCEPT ![p] = <<>>]
  /\ UNCHANGED <<disk, memo, sig, fd, digest, attempt>>

\* InspectFile begins.
TakeSignature(p) ==
  /\ pc[p] = "stat"
  /\ sig' = [sig EXCEPT ![p] = Signature(shard[p])]
  /\ GoTo(p, "memo")
  /\ UNCHANGED <<disk, memo, shard, fd, digest, attempt, round, found, aux>>

\* ReadMemo returns the digest of a memo with the signature.
MemoHit(p) ==
  /\ pc[p] = "memo"
  /\ \E m \in memo[shard[p]] :
       Same(m.sig, sig[p]) /\ digest' = [digest EXCEPT ![p] = m.digest]
  /\ GoTo(p, "confirm")
  /\ UNCHANGED <<disk, memo, shard, sig, fd, attempt, round, found, aux>>

\* There is none, it has another signature, or it cannot be read.
MemoMiss(p) ==
  /\ pc[p] = "memo"
  /\ GoTo(p, "open")
  /\ UNCHANGED <<disk, memo, local, aux>>

\* InspectFile returns; after the last shard the verification begins.
Found(p) ==
  /\ found' = [found EXCEPT
                 ![p] = Append(@, [sig |-> sig[p], digest |-> digest[p]])]
  /\ IF shard[p] < Shards
     THEN /\ GoTo(p, "stat")
          /\ shard' = [shard EXCEPT ![p] = @ + 1]
          /\ UNCHANGED seen
     ELSE /\ GoTo(p, "verify")
          /\ shard' = [shard EXCEPT ![p] = 1]
          /\ seen' = [seen EXCEPT ![p] = [s \in Numbers |-> Content(s)]]
  /\ Leave(p)
  /\ UNCHANGED <<disk, round, since>>

\* The memo counts if the file still has the signature.
Confirm(p) ==
  /\ pc[p] = "confirm"
  /\ IF Same(sig[p], Signature(shard[p]))
     THEN Found(p)
     ELSE GoTo(p, "open") /\ UNCHANGED <<disk, local, aux>>
  /\ UNCHANGED memo

\* HashFile opens the path and reads the inode behind it to its end.
Open(p) ==
  /\ pc[p] = "open"
  /\ fd' = [fd EXCEPT ![p] = inode[shard[p]]]
  /\ digest' = [digest EXCEPT ![p] = <<>>]
  /\ GoTo(p, "hash")
  /\ UNCHANGED <<disk, memo, shard, sig, attempt, round, found, aux>>

HashChunk(p) ==
  /\ pc[p] = "hash" /\ Len(digest[p]) < Chunks
  /\ digest' = [digest EXCEPT
                  ![p] = Append(@, blocks[shard[p]][fd[p]][Len(@) + 1])]
  /\ UNCHANGED <<disk, memo, pc, shard, sig, fd, attempt, round, found, aux>>

\* "retrying once if the file changes"
Never(n) == FALSE
RetryLeft(n) == n = 0

\* The signature after hashing is the one before, or the new one to compare
\* the second attempt with.
CheckSignature(p) ==
  /\ pc[p] = "hash" /\ Len(digest[p]) = Chunks
  /\ IF Same(sig[p], Signature(shard[p]))
     THEN GoTo(p, "record") /\ UNCHANGED <<local, seen>>
     ELSE IF RetryLeft(attempt[p])
     THEN /\ GoTo(p, "open")
          /\ sig' = [sig EXCEPT ![p] = Signature(shard[p])]
          /\ attempt' = [attempt EXCEPT ![p] = @ + 1]
          /\ UNCHANGED <<shard, fd, digest, round, found, seen>>
     ELSE Abandon(p, "thrown")
  /\ UNCHANGED <<disk, memo, since>>

\* WriteMemo, whose failure is ignored, of the signature around the hash.
SignatureNow(p) == Signature(shard[p])
Recorded(p) == sig[p]

Record(p) ==
  /\ pc[p] = "record"
  /\ \/ memo' = [memo EXCEPT
                   ![shard[p]] = {[sig |-> Recorded(p), digest |-> digest[p]]}]
     \/ UNCHANGED memo
  /\ Found(p)

\* InspectModel looks at every signature again, before a second round or the
\* end.
Unseen(p) == TRUE
Unchanged(p) == Same(found[p][shard[p]].sig, Signature(shard[p]))

Verify(p) ==
  /\ pc[p] = "verify"
  /\ IF Unchanged(p)
     THEN /\ IF shard[p] < Shards
             THEN shard' = [shard EXCEPT ![p] = @ + 1] /\ UNCHANGED pc
             ELSE GoTo(p, "done") /\ UNCHANGED shard
          /\ UNCHANGED <<sig, fd, digest, attempt, round, found, seen>>
     ELSE IF RetryLeft(round[p])
     THEN /\ Restart(p, round[p] + 1)
          /\ UNCHANGED <<sig, fd, digest, attempt, seen>>
     ELSE Abandon(p, "thrown")
  /\ UNCHANGED <<disk, memo, since>>

Step(p) ==
  \/ TakeSignature(p) \/ MemoHit(p) \/ MemoMiss(p) \/ Confirm(p) \/ Open(p)
  \/ HashChunk(p) \/ CheckSignature(p) \/ Record(p) \/ Verify(p)

\* The process dies, or a file cannot be read; a memo is written atomically.
Die(p) ==
  /\ pc[p] \notin {"idle", "done", "thrown"}
  /\ Abandon(p, "idle")
  /\ UNCHANGED <<disk, memo, since>>

Init ==
  /\ changes = 0
  /\ inode = [s \in Numbers |-> 0]
  /\ time = [s \in Numbers |-> 0]
  /\ blocks = [s \in Numbers |-> [i \in Changes |-> [c \in 1..Chunks |-> 0]]]
  /\ memo = [s \in Numbers |-> {}]
  /\ pc = [p \in Procs |-> "idle"]
  /\ shard = [p \in Procs |-> 1]
  /\ sig = [p \in Procs |-> NoSignature]
  /\ fd = [p \in Procs |-> 0]
  /\ digest = [p \in Procs |-> <<>>]
  /\ attempt = [p \in Procs |-> 0]
  /\ round = [p \in Procs |-> 0]
  /\ found = [p \in Procs |-> <<>>]
  /\ since = [p \in Procs |-> 0]
  /\ seen = [p \in Procs |-> <<>>]

Next ==
  \/ \E s \in Numbers : Replace(s) \/ \E c \in 1..Chunks : Rewrite(s, c)
  \/ \E p \in Procs : Start(p) \/ Step(p) \/ Die(p)

Spec == Init /\ [][Next]_vars

-----------------------------------------------------------------------------
Signatures == [inode : Changes, time : Changes]
Files == [1..Chunks -> Changes]
Looks == [sig : Signatures, digest : Files]

\* Types; no more than two attempts and two rounds.
TypeOK ==
  /\ changes \in Changes
  /\ inode \in [Numbers -> Changes]
  /\ time \in [Numbers -> Changes]
  /\ blocks \in [Numbers -> [Changes -> Files]]
  /\ memo \in [Numbers -> SUBSET Looks]
  /\ pc \in [Procs -> {"idle", "stat", "memo", "confirm", "open", "hash",
                       "record", "verify", "done", "thrown"}]
  /\ shard \in [Procs -> Numbers]
  /\ sig \in [Procs -> Signatures]
  /\ fd \in [Procs -> Changes]
  /\ digest \in [Procs -> Seq(Changes)]
  /\ \A p \in Procs : /\ Len(digest[p]) <= Chunks
                      /\ pc[p] \in {"confirm", "record"}
                           => digest[p] \in Files
  /\ attempt \in [Procs -> {0, 1}]
  /\ round \in [Procs -> {0, 1}]
  /\ found \in [Procs -> Seq(Looks)]
  /\ \A p \in Procs : Len(found[p]) <= Shards
  /\ since \in [Procs -> Changes]
  /\ seen \in [Procs -> {<<>>} \cup [Numbers -> Files]]

\* "a missing, unreadable or stale memo only costs a hash": a memo that would
\* be believed now holds the digest of the file as it is now.
MemoTrue ==
  \A s \in Numbers : \A m \in memo[s] :
    Same(m.sig, Signature(s)) => m.digest = Content(s)

\* The digest InspectModel returns is that of one model: at one moment of the
\* call all the shards had the content it was computed from.
OneModel ==
  \A p \in Procs : pc[p] = "done" =>
    \A s \in Numbers : found[p][s].digest = seen[p][s]

\* A single change never makes an inspection fail, wherever it falls.
OneChangeTolerated ==
  \A p \in Procs : pc[p] = "thrown" => changes - since[p] >= 2
=============================================================================
