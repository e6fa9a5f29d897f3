----------------------------- MODULE ModelCache -----------------------------
(***************************************************************************)
(* The model files of src/src/cache.cc and src/src/download.cc: several    *)
(* llm-cc processes resolve, download, use and remove the models of one    *)
(* cache directory.  A download appends to MODEL.partial, resumes from it  *)
(* with a byte range, and renames it to MODEL; a lock file per model       *)
(* serialises downloads and removals, another one updates of models.json.  *)
(*                                                                         *)
(* A file is the sequence of the chunks in it.  The server's file never    *)
(* changes (the URLs are pinned to a commit) and its length is stated.     *)
(***************************************************************************)
EXTENDS Integers, Sequences

CONSTANTS
  Procs,      \* processes sharing the cache directory
  Models,     \* models, one file each
  Nobody,     \* "the lock is free"
  NoModel,    \* "no model"
  Size,       \* chunks of a model on the server
  MaxFaults   \* bound on crashes and failed requests or calls

ASSUME NamesAssumption == Nobody \notin Procs /\ NoModel \notin Models
ASSUME SizeAssumption == Size \in Nat \ {0}
ASSUME FaultsAssumption == MaxFaults \in Nat

VARIABLES
  target,    \* model -> its installed file, or Absent
  partial,   \* model -> its .partial file, or Absent
  manifest,  \* models.json: the <<model, timestamp>> pairs it holds
  lock,      \* model -> holder of MODEL.lock
  mlock,     \* holder of .models.json.lock
  pc,        \* where each process is
  model,     \* the model each process works on
  at,        \* chunks of the server's file before the next one to arrive
  read,      \* the manifest as last read by each process
  task,      \* the manifest update a process is running
  faults     \* failures so far

files == <<target, partial>>
local == <<model, at, read, task>>
vars == <<target, partial, manifest, lock, mlock, pc, model, at, read, task,
          faults>>

Absent == <<-1>>
First(n) == [i \in 1..n |-> i]
Remote == First(Size)
Stamps == {"downloaded_at", "last_used_at"}

Waiting == {"toAcquire", "toRemove"}
Downloading == {"request", "transfer", "rename"}
Updating == {"toManifest", "readManifest", "writeManifest"}
Points == {"idle", "inspect", "recheck", "removeTarget", "removePartial"}
          \cup Waiting \cup Downloading \cup Updating

GoTo(p, point) == pc' = [pc EXCEPT ![p] = point]

Length(file) == IF file = Absent THEN 0 ELSE Len(file)

\* ~FileLock of MODEL.lock, if p holds it.
Release(p) == lock' = [m \in Models |-> IF lock[m] = p THEN Nobody ELSE lock[m]]

\* The end of an operation, regular or not.
End(p) ==
  /\ GoTo(p, "idle")
  /\ model' = [model EXCEPT ![p] = NoModel]
  /\ at' = [at EXCEPT ![p] = 0]
  /\ read' = [read EXCEPT ![p] = {}]
  /\ task' = [task EXCEPT ![p] = "none"]
  /\ Release(p)

\* Begin a manifest update: a timestamp, or the removal of the record.
Update(p, what) ==
  /\ GoTo(p, "toManifest")
  /\ task' = [task EXCEPT ![p] = what]

\* A failed call or a crash, of which there are at most MaxFaults.
Fault == faults < MaxFaults /\ faults' = faults + 1

-----------------------------------------------------------------------------
\* ResolveModel: a cached model is used without taking its lock.
Resolve(p, m) ==
  /\ pc[p] = "idle"
  /\ model' = [model EXCEPT ![p] = m]
  /\ IF target[m] # Absent
     THEN Update(p, "last_used_at")
     ELSE GoTo(p, "toAcquire") /\ UNCHANGED task
  /\ UNCHANGED <<files, manifest, lock, mlock, at, read, faults>>

Remove(p, m) ==
  /\ pc[p] = "idle"
  /\ model' = [model EXCEPT ![p] = m]
  /\ GoTo(p, "toRemove")
  /\ UNCHANGED <<files, manifest, lock, mlock, at, read, task, faults>>

LockIgnored(m) == TRUE
LockFree(m) == lock[m] = Nobody

\* FileLock on MODEL.lock, in AcquireModel and RemoveModel.
LockModel(p) ==
  /\ pc[p] \in Waiting
  /\ LockFree(model[p])
  /\ lock' = [lock EXCEPT ![model[p]] = p]
  /\ GoTo(p, IF pc[p] = "toAcquire" THEN "inspect" ELSE "removeTarget")
  /\ UNCHANGED <<files, manifest, mlock, local, faults>>

\* AcquireModel: another process may have installed the model meanwhile.
\* DownloadFile resumes whatever partial file there is.
Inspect(p) ==
  /\ pc[p] = "inspect"
  /\ IF target[model[p]] # Absent
     THEN Release(p) /\ Update(p, "last_used_at") /\ UNCHANGED at
     ELSE /\ GoTo(p, "request")
          /\ at' = [at EXCEPT ![p] = Length(partial[model[p]])]
          /\ UNCHANGED <<lock, task>>
  /\ UNCHANGED <<files, manifest, mlock, model, read, faults>>

-----------------------------------------------------------------------------
SetPartial(p, file) == partial' = [partial EXCEPT ![model[p]] = file]

\* Opening the output truncates unless the download resumes.
Opened(p) == IF at[p] > 0 THEN partial[model[p]] ELSE <<>>

\* The server sends the whole file, or with 206 the requested rest of it.
Accepted(p) ==
  /\ pc[p] = "request" /\ at[p] < Size
  /\ SetPartial(p, Opened(p))
  /\ GoTo(p, "transfer")
  /\ UNCHANGED <<target, manifest, lock, mlock, local, faults>>

\* A resumed request answered with 200: start over from nothing.
RangeIgnored(p) ==
  /\ pc[p] = "request" /\ at[p] > 0
  /\ SetPartial(p, <<>>)
  /\ at' = [at EXCEPT ![p] = 0]
  /\ UNCHANGED <<target, manifest, lock, mlock, pc, model, read, task, faults>>

\* All of the file is already there and its rest an unsatisfiable range.
\* libcurl lets a resumed request get 416; DownloadFile, which asked for 206,
\* cuts the partial file to where it began and throws.
RangeUnsatisfiable(p) ==
  /\ pc[p] = "request" /\ at[p] >= Size
  /\ SetPartial(p, SubSeq(partial[model[p]], 1, at[p]))
  /\ End(p)
  /\ UNCHANGED <<target, manifest, mlock, faults>>

\* WriteBytes appends what arrives.
Receive(p) ==
  /\ pc[p] = "transfer" /\ at[p] < Size
  /\ SetPartial(p, Append(partial[model[p]], at[p] + 1))
  /\ at' = [at EXCEPT ![p] = @ + 1]
  /\ UNCHANGED <<target, manifest, lock, mlock, pc, model, read, task, faults>>

\* The transfer ends at the stated length and the output is flushed.
Interrupted(p) == at[p] > 0
Complete(p) == at[p] = Size

FinishOutput(p) ==
  /\ pc[p] = "transfer" /\ Complete(p)
  /\ GoTo(p, "rename")
  /\ UNCHANGED <<files, manifest, lock, mlock, local, faults>>

\* rename, then MarkModelDownloaded, the model's lock still held.
Install(p) ==
  /\ pc[p] = "rename"
  /\ target' = [target EXCEPT ![model[p]] = partial[model[p]]]
  /\ SetPartial(p, Absent)
  /\ Update(p, "downloaded_at")
  /\ UNCHANGED <<manifest, lock, mlock, model, at, read, faults>>

\* AcquireModel looks for the file before it returns and unlocks.
Recheck(p) ==
  /\ pc[p] = "recheck"
  /\ IF target[model[p]] # Absent
     THEN Release(p) /\ Update(p, "last_used_at") /\ UNCHANGED <<model, at, read>>
     ELSE End(p)
  /\ UNCHANGED <<files, manifest, mlock, faults>>

\* RemoveModel, under the lock a download of the model would hold.
RemoveTarget(p) ==
  /\ pc[p] = "removeTarget"
  /\ target' = [target EXCEPT ![model[p]] = Absent]
  /\ GoTo(p, "removePartial")
  /\ UNCHANGED <<partial, manifest, lock, mlock, local, faults>>

RemovePartial(p) ==
  /\ pc[p] = "removePartial"
  /\ SetPartial(p, Absent)
  /\ Update(p, "erase")
  /\ UNCHANGED <<target, manifest, lock, mlock, model, at, read, faults>>

-----------------------------------------------------------------------------
\* MarkModelDownloaded, MarkCachedModelUsed and the end of RemoveModel: each
\* reads, changes and replaces models.json under its own lock.
ManifestLockIgnored == TRUE
ManifestLockFree == mlock = Nobody

LockManifest(p) ==
  /\ pc[p] = "toManifest"
  /\ ManifestLockFree
  /\ mlock' = p
  /\ GoTo(p, "readManifest")
  /\ UNCHANGED <<files, manifest, lock, local, faults>>

ManifestRead(p, contents) ==
  /\ pc[p] = "readManifest"
  /\ read' = [read EXCEPT ![p] = contents]
  /\ GoTo(p, "writeManifest")
  /\ UNCHANGED <<files, manifest, lock, mlock, model, at, task>>

ReadManifest(p) == ManifestRead(p, manifest) /\ UNCHANGED faults

\* A manifest that cannot be opened, read or parsed counts as empty.
ReadManifestFails(p) == ManifestRead(p, {}) /\ Fault

Changed(p) ==
  IF task[p] = "erase"
  THEN {r \in read[p] : r[1] # model[p]}
  ELSE read[p] \cup {<<model[p], task[p]>>}

\* ~FileLock of .models.json.lock.
ManifestLockKept(p) == UNCHANGED mlock
UnlockManifest(p) == mlock' = IF mlock = p THEN Nobody ELSE mlock

\* What follows the update: AcquireModel goes on, the others are done.
Updated(p) ==
  /\ UnlockManifest(p)
  /\ IF task[p] = "downloaded_at"
     THEN GoTo(p, "recheck") /\ UNCHANGED <<lock, model, at, read, task>>
     ELSE End(p)

WriteManifest(p) ==
  /\ pc[p] = "writeManifest"
  /\ manifest' = Changed(p)
  /\ Updated(p)
  /\ UNCHANGED <<files, faults>>

-----------------------------------------------------------------------------
\* An exception of the manifest update is swallowed, but for the lock itself
\* in RemoveModel, which ends there in any case.
UpdateFails(p) ==
  /\ pc[p] \in {"toManifest", "writeManifest"}
  /\ Updated(p)
  /\ Fault
  /\ UNCHANGED <<files, manifest>>

\* A failed request has already opened, and perhaps created, its output.
RequestFails(p) ==
  /\ pc[p] = "request"
  /\ SetPartial(p, Opened(p))
  /\ End(p)
  /\ Fault
  /\ UNCHANGED <<target, manifest, mlock>>

\* Any other failure, a transfer cut short, or the death of the process: what
\* has reached the partial file stays there, the kernel drops both locks.
Die(p) ==
  /\ pc[p] # "idle"
  /\ End(p)
  /\ mlock' = IF mlock = p THEN Nobody ELSE mlock
  /\ Fault
  /\ UNCHANGED <<files, manifest>>

Step(p) ==
  \/ LockModel(p) \/ Inspect(p) \/ Accepted(p) \/ RangeIgnored(p)
  \/ RangeUnsatisfiable(p) \/ Receive(p) \/ FinishOutput(p) \/ Install(p)
  \/ Recheck(p) \/ RemoveTarget(p) \/ RemovePartial(p) \/ LockManifest(p)
  \/ ReadManifest(p) \/ WriteManifest(p)

Fails(p) == ReadManifestFails(p) \/ UpdateFails(p) \/ RequestFails(p) \/ Die(p)

Init ==
  /\ target = [m \in Models |-> Absent]
  /\ partial = [m \in Models |-> Absent]
  /\ manifest = {}
  /\ lock = [m \in Models |-> Nobody]
  /\ mlock = Nobody
  /\ pc = [p \in Procs |-> "idle"]
  /\ model = [p \in Procs |-> NoModel]
  /\ at = [p \in Procs |-> 0]
  /\ read = [p \in Procs |-> {}]
  /\ task = [p \in Procs |-> "none"]
  /\ faults = 0

Asked(p) == \E m \in Models : Resolve(p, m)

Next ==
  \E p \in Procs : \/ Asked(p) \/ Step(p) \/ Fails(p)
                   \/ \E m \in Models : Remove(p, m)

Spec == Init /\ [][Next]_vars

\* A process inside an operation keeps running.
FairSpec == Spec /\ \A p \in Procs : WF_vars(Step(p))

\* And its user, or the agent driving it, asks again after a failure.
RetrySpec == FairSpec /\ \A p \in Procs : WF_vars(Asked(p))

-----------------------------------------------------------------------------
Files == {Absent} \cup UNION {[1..n -> 1..Size] : n \in 0..Size}

\* Types; no file ever outgrows the one on the server.
TypeOK ==
  /\ target \in [Models -> Files]
  /\ partial \in [Models -> Files]
  /\ manifest \subseteq Models \X Stamps
  /\ lock \in [Models -> Procs \cup {Nobody}]
  /\ mlock \in Procs \cup {Nobody}
  /\ pc \in [Procs -> Points]
  /\ model \in [Procs -> Models \cup {NoModel}]
  /\ at \in [Procs -> 0..Size]
  /\ read \in [Procs -> SUBSET (Models \X Stamps)]
  /\ task \in [Procs -> Stamps \cup {"none", "erase"}]
  /\ faults \in 0..MaxFaults

\* "rename only after a complete transfer": whatever was interrupted, resumed
\* or started over, and by whom, an installed model is the server's file and
\* a partial one a prefix of it, which the requested rest completes.
FilesIntact ==
  \A m \in Models :
    /\ target[m] \in {Absent, Remote}
    /\ partial[m] \in {Absent} \cup {First(n) : n \in 0..Size}

\* "Removal takes the same target lock and therefore cannot delete a file
\* while its downloader still owns the resumable partial": between its steps
\* nobody disturbs what a download or a removal has done so far.
Undisturbed ==
  \A p \in Procs : LET m == model[p] IN
    /\ pc[p] \in {"transfer", "rename"} => partial[m] = First(at[p])
    /\ pc[p] \in Updating \cup {"recheck"} /\ task[p] = "downloaded_at"
         => target[m] = Remote
    /\ pc[p] \in Updating /\ task[p] = "erase"
         => target[m] = Absent /\ partial[m] = Absent

\* "different targets can download concurrently without losing manifest
\* records": an update that could read the manifest leaves the records of
\* other models as they are.
Foreign(records, m) == {r \in records : r[1] # m}
NoRecordLost ==
  [][\A p \in Procs :
       pc[p] = "writeManifest" /\ pc'[p] # "writeManifest" /\ read[p] # {}
         => Foreign(manifest', model[p]) = Foreign(manifest, model[p])]_vars

\* An operation whose competitors are done ends, whatever locks those that
\* crashed had held and however the server answers its range requests.
EndsWhenAlone ==
  \A p \in Procs :
    <>[](\A q \in Procs \ {p} : pc[q] = "idle")
      => (pc[p] # "idle" ~> pc[p] = "idle")

\* An interrupted download is resumed: if nobody removes the model and its
\* user asks again after each of the finitely many failures, it is installed.
Resumable ==
  \A m \in Models :
    [](\A p \in Procs : pc[p] # "toRemove") => <>(target[m] = Remote)
=============================================================================
