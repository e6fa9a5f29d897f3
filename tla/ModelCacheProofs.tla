--------------------------- MODULE ModelCacheProofs ---------------------------
(***************************************************************************)
(* Theorems about ModelCache, for any set of processes and models, any     *)
(* length of the files and any number of failures.                         *)
(***************************************************************************)
EXTENDS ModelCache, TLAPS

-----------------------------------------------------------------------------
(* Files that are a prefix of the server's.                                *)

\* What opening, appending to and cutting back a prefix gives.
LEMMA PrefixFacts ==
  ASSUME NEW n \in Nat
  PROVE  /\ First(n) # Absent
         /\ Length(First(n)) = n
         /\ Append(First(n), n + 1) = First(n + 1)
         /\ SubSeq(First(n), 1, n) = First(n)
<1>1. First(n) \in Seq(Nat) /\ Len(First(n)) = n
  BY DEF First
<1>2. First(n) # Absent
  <2>1. CASE n = 0
    BY <2>1, <1>1 DEF Absent
  <2>2. CASE n > 0
    <3>1. First(n)[1] = 1 /\ Absent[1] = -1
      BY <2>2 DEF First, Absent
    <3> QED
      BY <3>1
  <2> QED
    BY <2>1, <2>2
<1>3. Append(First(n), n + 1) = First(n + 1)
  BY DEF First
<1>4. SubSeq(First(n), 1, n) = First(n)
  BY DEF First
<1> QED
  BY <1>1, <1>2, <1>3, <1>4 DEF Length

\* The empty file is the shortest prefix, and no file has no length.
LEMMA EmptyFacts == First(0) = <<>> /\ Length(Absent) = 0
BY DEF First, Length

Prefix(file) == \E n \in 0..Size : file = First(n)

\* An intact file is a file in the sense of the type invariant.
LEMMA PrefixIsFile ==
  ASSUME NEW file, Prefix(file) \/ file = Absent
  PROVE  file \in Files
<1>1. ASSUME NEW n \in 0..Size PROVE First(n) \in [1..n -> 1..Size]
  BY SizeAssumption DEF First
<1> QED
  BY <1>1, SizeAssumption DEF Files, Prefix

-----------------------------------------------------------------------------
(* The inductive invariant: the files are intact, and each process finds   *)
(* what it locked as it left it.                                           *)

FilesInv ==
  /\ target \in [Models -> {Absent, Remote}]
  /\ partial \in [Models -> {Absent} \cup {First(n) : n \in 0..Size}]

Types ==
  /\ manifest \subseteq Models \X Stamps
  /\ lock \in [Models -> Procs \cup {Nobody}]
  /\ mlock \in Procs \cup {Nobody}
  /\ pc \in [Procs -> Points]
  /\ model \in [Procs -> Models \cup {NoModel}]
  /\ at \in [Procs -> 0..Size]
  /\ read \in [Procs -> SUBSET (Models \X Stamps)]
  /\ task \in [Procs -> Stamps \cup {"none", "erase"}]
  /\ faults \in 0..MaxFaults

\* Where p holds the lock of its model.
Owns(p) ==
  \/ pc[p] \in {"inspect", "recheck", "removeTarget", "removePartial"}
  \/ pc[p] \in Downloading
  \/ pc[p] \in Updating /\ task[p] \in {"downloaded_at", "erase"}

\* What p knows of the files of its model.
FilesKnown(p) == LET m == model[p] IN
  /\ pc[p] = "request" => at[p] = Length(partial[m])
  /\ pc[p] \in {"transfer", "rename"} => partial[m] = First(at[p])
  /\ pc[p] = "rename" => at[p] = Size
  /\ pc[p] = "removePartial" => target[m] = Absent
  /\ pc[p] \in Updating \cup {"recheck"} /\ task[p] = "downloaded_at"
       => target[m] = Remote
  /\ pc[p] \in Updating /\ task[p] = "erase"
       => target[m] = Absent /\ partial[m] = Absent

ProcInv(p) ==
  /\ pc[p] # "idle" => model[p] \in Models
  /\ pc[p] = "recheck" => task[p] = "downloaded_at"
  /\ pc[p] \in Updating => task[p] # "none"
  /\ Owns(p) => lock[model[p]] = p
  /\ FilesKnown(p)
  /\ pc[p] \in {"readManifest", "writeManifest"} => mlock = p
  /\ pc[p] = "writeManifest" => read[p] \in {{}, manifest}

IInv == FilesInv /\ Types /\ \A p \in Procs : ProcInv(p)

\* What a step of p must leave alone for another process q.
Spared(q) ==
  /\ pc'[q] = pc[q] /\ model'[q] = model[q] /\ at'[q] = at[q]
  /\ read'[q] = read[q] /\ task'[q] = task[q]
  /\ \A m \in Models : lock[m] = q =>
       lock'[m] = q /\ target'[m] = target[m] /\ partial'[m] = partial[m]
  /\ mlock = q => mlock' = q /\ manifest' = manifest

LEMMA Frame ==
  ASSUME IInv, NEW q \in Procs, Spared(q)
  PROVE  ProcInv(q)'
<1>1. ProcInv(q)
  BY DEF IInv
<1>2. Owns(q)' = Owns(q)
  BY DEF Spared, Owns
<1>3. ASSUME Owns(q)
      PROVE  /\ lock'[model[q]] = q
             /\ target'[model[q]] = target[model[q]]
             /\ partial'[model[q]] = partial[model[q]]
  <2>1. pc[q] # "idle"
    BY <1>3 DEF Owns, Downloading, Updating
  <2> QED
    BY <1>1, <1>3, <2>1 DEF ProcInv, Spared
<1>4. FilesKnown(q)'
  <2>1. CASE Owns(q)
    BY <1>1, <1>3, <2>1 DEF FilesKnown, ProcInv, Spared
  <2>2. CASE ~Owns(q)
    BY <2>2 DEF FilesKnown, Spared, Owns, Downloading
  <2> QED
    BY <2>1, <2>2
<1> QED
  BY <1>1, <1>2, <1>3, <1>4 DEF ProcInv, Spared

\* A process that ends leaves nothing to prove about itself.
LEMMA Ended ==
  ASSUME IInv, NEW p \in Procs, End(p)
  PROVE  /\ ProcInv(p)'
         /\ lock' \in [Models -> Procs \cup {Nobody}]
         /\ pc' \in [Procs -> Points]
         /\ model' \in [Procs -> Models \cup {NoModel}]
         /\ at' \in [Procs -> 0..Size]
         /\ read' \in [Procs -> SUBSET (Models \X Stamps)]
         /\ task' \in [Procs -> Stamps \cup {"none", "erase"}]
<1>1. pc'[p] = "idle"
  BY DEF IInv, Types, End, GoTo
<1>2. ProcInv(p)'
  BY <1>1 DEF ProcInv, Owns, FilesKnown, Downloading, Updating
<1> QED
  BY <1>2, SizeAssumption
  DEF IInv, Types, End, GoTo, Release, Points

-----------------------------------------------------------------------------
(* Each action preserves the invariant: its own process's part by what it  *)
(* does, the others' because it only touches what it has locked.           *)

\* What the step of a process has to establish.
LEMMA Preserved ==
  ASSUME IInv, NEW p \in Procs, Types', FilesInv', ProcInv(p)',
         \A q \in Procs \ {p} : Spared(q)
  PROVE  IInv'
<1>1. \A q \in Procs \ {p} : ProcInv(q)'
  BY Frame
<1> QED
  BY <1>1 DEF IInv

\* A model found without the lock is only used.
LEMMA ResolveStep ==
  ASSUME IInv, NEW p \in Procs, NEW m \in Models, Resolve(p, m)
  PROVE  IInv'
<1> USE DEF IInv
<1>1. Types'
  BY DEF Types, GoTo, Update, Points, Waiting, Updating, Resolve, Stamps
<1>2. FilesInv'
  BY DEF FilesInv, Resolve, files
<1>3. ProcInv(p)'
  BY DEF ProcInv, Owns, FilesKnown, Downloading, Updating, GoTo, Update,
    Types, Resolve
<1>4. \A q \in Procs \ {p} : Spared(q)
  BY DEF Spared, Types, GoTo, Update, Resolve, files
<1> QED
  BY <1>1, <1>2, <1>3, <1>4, Preserved

\* A removal begins by waiting for the lock.
LEMMA RemoveStep ==
  ASSUME IInv, NEW p \in Procs, NEW m \in Models, Remove(p, m)
  PROVE  IInv'
<1> USE DEF IInv
<1>1. Types'
  BY DEF Types, GoTo, Points, Waiting, Remove
<1>2. FilesInv'
  BY DEF FilesInv, Remove, files
<1>3. ProcInv(p)'
  BY DEF ProcInv, Owns, FilesKnown, Downloading, Updating, GoTo, Types,
    Remove
<1>4. \A q \in Procs \ {p} : Spared(q)
  BY DEF Spared, GoTo, Remove, files
<1> QED
  BY <1>1, <1>2, <1>3, <1>4, Preserved

\* A lock is only taken from nobody.
LEMMA LockModelStep ==
  ASSUME IInv, NEW p \in Procs, LockModel(p)
  PROVE  IInv'
<1> USE DEF IInv
<1>1. Types'
  BY DEF Types, GoTo, Points, LockModel, local
<1>2. FilesInv'
  BY DEF FilesInv, LockModel, files
<1>3. ProcInv(p)'
  BY DEF ProcInv, FilesKnown, Waiting, Updating, GoTo, Types, LockModel,
    local
<1>4. \A q \in Procs \ {p} : Spared(q)
  BY NamesAssumption DEF Spared, GoTo, LockModel, LockFree, files, local
<1> QED
  BY <1>1, <1>2, <1>3, <1>4, Preserved

\* The download resumes at the length of the partial file.
LEMMA InspectStep ==
  ASSUME IInv, NEW p \in Procs, Inspect(p)
  PROVE  IInv'
<1> USE DEF IInv
<1>0. Length(partial[model[p]]) \in 0..Size
  <2>1. model[p] \in Models
    BY DEF ProcInv, Inspect
  <2>2. ASSUME NEW n \in 0..Size, partial[model[p]] = First(n)
        PROVE  Length(partial[model[p]]) \in 0..Size
    <3>1. n \in Nat
      BY SizeAssumption
    <3>2. Length(First(n)) = n
      BY <3>1, PrefixFacts
    <3> QED
      BY <2>2, <3>2
  <2>3. CASE partial[model[p]] = Absent
    BY <2>3, EmptyFacts, SizeAssumption
  <2> QED
    BY <2>1, <2>2, <2>3 DEF FilesInv
<1>1. Types'
  BY <1>0
  DEF Types, GoTo, Update, Points, Downloading, Updating, Inspect, Release,
      Stamps
<1>2. FilesInv'
  BY DEF FilesInv, Inspect, files
<1>3. ProcInv(p)'
  BY DEF ProcInv, Owns, FilesKnown, Downloading, Updating, GoTo, Update,
    Types, Inspect, files
<1>4. \A q \in Procs \ {p} : Spared(q)
  BY DEF Spared, Types, GoTo, Update, Release, Inspect, files
<1> QED
  BY <1>1, <1>2, <1>3, <1>4, Preserved

\* Opening truncates exactly when there is nothing to resume.
LEMMA AcceptedStep ==
  ASSUME IInv, NEW p \in Procs, Accepted(p)
  PROVE  IInv'
<1> USE DEF IInv
<1>0. Opened(p) = First(at[p]) /\ at[p] \in 0..Size
  <2>1. model[p] \in Models /\ at[p] = Length(partial[model[p]])
    BY DEF ProcInv, FilesKnown, Accepted
  <2>2. CASE partial[model[p]] = Absent
    BY <2>1, <2>2, EmptyFacts, SizeAssumption DEF Opened
  <2>3. ASSUME NEW n \in 0..Size, partial[model[p]] = First(n)
        PROVE  Opened(p) = First(at[p]) /\ at[p] \in 0..Size
    <3>1. at[p] = n /\ n \in Nat
      BY <2>1, <2>3, PrefixFacts, SizeAssumption
    <3> QED
      BY <2>3, <3>1, EmptyFacts DEF Opened
  <2> QED
    BY <2>1, <2>2, <2>3 DEF FilesInv
<1>1. Types'
  BY DEF Types, GoTo, Points, Downloading, Accepted, local
<1>2. FilesInv'
  BY <1>0 DEF FilesInv, Accepted, SetPartial
<1>3. ProcInv(p)'
  BY <1>0
  DEF ProcInv, Owns, FilesKnown, Downloading, Updating, GoTo, Types,
      FilesInv, Accepted, SetPartial, local
<1>4. \A q \in Procs \ {p} : Spared(q)
  BY DEF Spared, ProcInv, Owns, Downloading, GoTo, Accepted, SetPartial,
    local
<1> QED
  BY <1>1, <1>2, <1>3, <1>4, Preserved

\* Starting over empties the partial file.
LEMMA RangeIgnoredStep ==
  ASSUME IInv, NEW p \in Procs, RangeIgnored(p)
  PROVE  IInv'
<1> USE DEF IInv
<1>0. /\ <<>> = First(0) /\ Length(<<>>) = 0 /\ 0 \in 0..Size
      /\ <<>> \in {Absent} \cup {First(n) : n \in 0..Size}
  <2>1. 0 \in 0..Size /\ Length(First(0)) = 0 /\ <<>> = First(0)
    BY PrefixFacts, EmptyFacts, SizeAssumption
  <2> QED
    BY <2>1
<1>1. Types'
  BY SizeAssumption DEF Types, RangeIgnored
<1>2. FilesInv'
  BY <1>0 DEF FilesInv, RangeIgnored, SetPartial
<1>3. ProcInv(p)'
  BY <1>0
  DEF ProcInv, Owns, FilesKnown, Updating, Types, FilesInv, RangeIgnored,
      SetPartial
<1>4. \A q \in Procs \ {p} : Spared(q)
  BY DEF Spared, ProcInv, Owns, Downloading, RangeIgnored, SetPartial
<1> QED
  BY <1>1, <1>2, <1>3, <1>4, Preserved

\* Cutting to the length resumed from changes nothing.
LEMMA RangeUnsatisfiableStep ==
  ASSUME IInv, NEW p \in Procs, RangeUnsatisfiable(p)
  PROVE  IInv'
<1> USE DEF IInv
<1>a. UNCHANGED partial
  <2>1. model[p] \in Models /\ at[p] = Length(partial[model[p]]) /\ at[p] > 0
    BY SizeAssumption DEF ProcInv, FilesKnown, RangeUnsatisfiable, Types
  <2>2. PICK n \in 0..Size : partial[model[p]] = First(n)
    BY <2>1, EmptyFacts DEF FilesInv
  <2>3. n \in Nat /\ n = at[p]
    BY <2>1, <2>2, PrefixFacts, SizeAssumption
  <2>4. SubSeq(partial[model[p]], 1, at[p]) = partial[model[p]]
    BY <2>2, <2>3, PrefixFacts
  <2>5. partial' = [partial EXCEPT ![model[p]] = partial[model[p]]]
    BY <2>4 DEF RangeUnsatisfiable, SetPartial
  <2> QED
    BY <2>5 DEF FilesInv
<1>0. End(p)
  BY DEF RangeUnsatisfiable
<1>1. Types'
  BY Ended DEF Types, RangeUnsatisfiable
<1>2. FilesInv'
  BY <1>a DEF FilesInv, RangeUnsatisfiable
<1>3. ProcInv(p)'
  BY <1>0, Ended
<1>4. \A q \in Procs \ {p} : Spared(q)
  BY <1>a DEF Spared, GoTo, End, Release, RangeUnsatisfiable
<1> QED
  BY <1>1, <1>2, <1>3, <1>4, Preserved

\* The next chunk extends the prefix.
LEMMA ReceiveStep ==
  ASSUME IInv, NEW p \in Procs, Receive(p)
  PROVE  IInv'
<1> USE DEF IInv
<1>0. /\ Append(partial[model[p]], at[p] + 1) = First(at[p] + 1)
      /\ at[p] + 1 \in 0..Size
      /\ First(at[p] + 1) \in {Absent} \cup {First(n) : n \in 0..Size}
  <2>1. partial[model[p]] = First(at[p])
    BY DEF ProcInv, FilesKnown, Receive
  <2>2. at[p] \in Nat /\ at[p] + 1 \in 0..Size
    BY SizeAssumption DEF Receive, Types
  <2>3. Append(First(at[p]), at[p] + 1) = First(at[p] + 1)
    BY <2>2, PrefixFacts
  <2> QED
    BY <2>1, <2>2, <2>3
<1>1. Types'
  BY SizeAssumption DEF Types, Receive
<1>2. FilesInv'
  BY <1>0 DEF FilesInv, Receive, SetPartial
<1>3. ProcInv(p)'
  BY <1>0
  DEF ProcInv, Owns, FilesKnown, Updating, Types, FilesInv, Receive,
      SetPartial
<1>4. \A q \in Procs \ {p} : Spared(q)
  BY DEF Spared, ProcInv, Owns, Downloading, Receive, SetPartial
<1> QED
  BY <1>1, <1>2, <1>3, <1>4, Preserved

\* A transfer that ends has everything.
LEMMA FinishOutputStep ==
  ASSUME IInv, NEW p \in Procs, FinishOutput(p)
  PROVE  IInv'
<1> USE DEF IInv
<1>1. Types'
  BY DEF Types, GoTo, Points, Downloading, FinishOutput, local
<1>2. FilesInv'
  BY DEF FilesInv, FinishOutput, files
<1>3. ProcInv(p)'
  BY DEF ProcInv, Owns, FilesKnown, Downloading, Updating, GoTo,
    FinishOutput, Complete, files, local
<1>4. \A q \in Procs \ {p} : Spared(q)
  BY DEF Spared, GoTo, FinishOutput, files, local
<1> QED
  BY <1>1, <1>2, <1>3, <1>4, Preserved

\* What is renamed is the whole file.
LEMMA InstallStep ==
  ASSUME IInv, NEW p \in Procs, Install(p)
  PROVE  IInv'
<1> USE DEF IInv
<1>1. Types'
  BY DEF Types, GoTo, Update, Points, Updating, Install, Stamps
<1>2. FilesInv'
  BY DEF FilesInv, ProcInv, FilesKnown, Install, SetPartial, Remote
<1>3. ProcInv(p)'
  BY DEF ProcInv, Owns, FilesKnown, Downloading, GoTo, Update, Types,
    FilesInv, Install, Remote
<1>4. \A q \in Procs \ {p} : Spared(q)
  BY DEF Spared, ProcInv, Owns, Downloading, GoTo, Update, Install,
    SetPartial
<1> QED
  BY <1>1, <1>2, <1>3, <1>4, Preserved

\* The installed file is still there.
LEMMA RecheckStep ==
  ASSUME IInv, NEW p \in Procs, Recheck(p)
  PROVE  IInv'
<1> USE DEF IInv
<1>0. target[model[p]] # Absent
  BY PrefixFacts, SizeAssumption DEF Recheck, ProcInv, FilesKnown, Remote
<1>1. Types'
  BY <1>0 DEF Types, GoTo, Update, Points, Updating, Recheck, Release, Stamps
<1>2. FilesInv'
  BY DEF FilesInv, Recheck, files
<1>3. ProcInv(p)'
  BY <1>0
  DEF ProcInv, Owns, FilesKnown, Downloading, GoTo, Update, Types, Recheck
<1>4. \A q \in Procs \ {p} : Spared(q)
  BY <1>0 DEF Spared, Types, GoTo, Update, Release, Recheck, files
<1> QED
  BY <1>1, <1>2, <1>3, <1>4, Preserved

\* A removal owns what it deletes.
LEMMA RemoveTargetStep ==
  ASSUME IInv, NEW p \in Procs, RemoveTarget(p)
  PROVE  IInv'
<1> USE DEF IInv
<1>1. Types'
  BY DEF Types, GoTo, Points, RemoveTarget, local
<1>2. FilesInv'
  BY DEF FilesInv, RemoveTarget
<1>3. ProcInv(p)'
  BY DEF ProcInv, Owns, FilesKnown, Updating, GoTo, FilesInv, RemoveTarget,
    local
<1>4. \A q \in Procs \ {p} : Spared(q)
  BY DEF Spared, ProcInv, Owns, GoTo, RemoveTarget, local
<1> QED
  BY <1>1, <1>2, <1>3, <1>4, Preserved

\* A removal owns what it deletes.
LEMMA RemovePartialStep ==
  ASSUME IInv, NEW p \in Procs, RemovePartial(p)
  PROVE  IInv'
<1> USE DEF IInv
<1>1. Types'
  BY DEF Types, GoTo, Update, Points, Updating, RemovePartial
<1>2. FilesInv'
  BY DEF FilesInv, RemovePartial, SetPartial
<1>3. ProcInv(p)'
  BY DEF ProcInv, Owns, FilesKnown, GoTo, Update, Types, FilesInv,
    RemovePartial, SetPartial
<1>4. \A q \in Procs \ {p} : Spared(q)
  BY NamesAssumption
  DEF Spared, Types, FilesInv, ProcInv, Owns, Downloading, Updating,
      GoTo, Update, End, Release, RemovePartial, SetPartial, Stamps, files, local
<1> QED
  BY <1>1, <1>2, <1>3, <1>4, Preserved

\* The manifest's lock is only taken from nobody.
LEMMA LockManifestStep ==
  ASSUME IInv, NEW p \in Procs, LockManifest(p)
  PROVE  IInv'
<1> USE DEF IInv
<1>1. Types'
  BY SizeAssumption
  DEF Types, GoTo, Update, Points, Waiting, Downloading, Updating, LockManifest, ManifestLockFree, files, local
<1>2. FilesInv'
  BY SizeAssumption
  DEF FilesInv, ProcInv, FilesKnown, Types, LockManifest, ManifestLockFree, files, local
<1>3. ProcInv(p)'
  BY SizeAssumption
  DEF ProcInv, Owns, FilesKnown, Waiting, Downloading, Updating, GoTo, Update, Types, FilesInv, LockManifest, ManifestLockFree, files, local
<1>4. \A q \in Procs \ {p} : Spared(q)
  BY NamesAssumption
  DEF Spared, Types, FilesInv, ProcInv, Owns, Downloading, Updating,
      GoTo, Update, End, Release, LockManifest, ManifestLockFree, files, local
<1> QED
  BY <1>1, <1>2, <1>3, <1>4, Preserved

\* What is read is the manifest.
LEMMA ReadManifestStep ==
  ASSUME IInv, NEW p \in Procs, ReadManifest(p)
  PROVE  IInv'
<1> USE DEF IInv
<1>1. Types'
  BY SizeAssumption
  DEF Types, GoTo, Update, Points, Waiting, Downloading, Updating, ReadManifest, ManifestRead, files, local
<1>2. FilesInv'
  BY SizeAssumption
  DEF FilesInv, ProcInv, FilesKnown, Types, ReadManifest, ManifestRead, files, local
<1>3. ProcInv(p)'
  BY SizeAssumption
  DEF ProcInv, Owns, FilesKnown, Waiting, Downloading, Updating, GoTo, Update, Types, FilesInv, ReadManifest, ManifestRead, files, local
<1>4. \A q \in Procs \ {p} : Spared(q)
  BY NamesAssumption
  DEF Spared, Types, FilesInv, ProcInv, Owns, Downloading, Updating,
      GoTo, Update, End, Release, ReadManifest, ManifestRead, files, local
<1> QED
  BY <1>1, <1>2, <1>3, <1>4, Preserved

\* What could not be read counts as empty.
LEMMA ReadManifestFailsStep ==
  ASSUME IInv, NEW p \in Procs, ReadManifestFails(p)
  PROVE  IInv'
<1> USE DEF IInv
<1>1. Types'
  BY FaultsAssumption, SizeAssumption
  DEF Types, GoTo, Update, Points, Waiting, Downloading, Updating, ReadManifestFails, ManifestRead, Fault, files, local
<1>2. FilesInv'
  BY FaultsAssumption, SizeAssumption
  DEF FilesInv, ProcInv, FilesKnown, Types, ReadManifestFails, ManifestRead, Fault, files, local
<1>3. ProcInv(p)'
  BY FaultsAssumption, SizeAssumption
  DEF ProcInv, Owns, FilesKnown, Waiting, Downloading, Updating, GoTo, Update, Types, FilesInv, ReadManifestFails, ManifestRead, Fault, files, local
<1>4. \A q \in Procs \ {p} : Spared(q)
  BY FaultsAssumption, NamesAssumption
  DEF Spared, Types, FilesInv, ProcInv, Owns, Downloading, Updating,
      GoTo, Update, End, Release, ReadManifestFails, ManifestRead, Fault, files, local
<1> QED
  BY <1>1, <1>2, <1>3, <1>4, Preserved

\* A failed request leaves at most an empty output.
LEMMA RequestFailsStep ==
  ASSUME IInv, NEW p \in Procs, RequestFails(p)
  PROVE  IInv'
<1> USE DEF IInv
<1>a. Opened(p) \in {Absent} \cup {First(n) : n \in 0..Size}
  <2>1. <<>> = First(0) /\ 0 \in 0..Size
    BY EmptyFacts, SizeAssumption
  <2>2. <<>> \in {Absent} \cup {First(n) : n \in 0..Size}
    BY <2>1
  <2>3. partial[model[p]] \in {Absent} \cup {First(n) : n \in 0..Size}
    BY DEF FilesInv, ProcInv, RequestFails
  <2> QED
    BY <2>2, <2>3 DEF Opened
<1>0. End(p)
  BY DEF RequestFails
<1>1. Types'
  BY <1>0, Ended, <1>a, FaultsAssumption, SizeAssumption
  DEF Types, GoTo, Update, Points, Waiting, Downloading, Updating, RequestFails, SetPartial, Fault, files, local
<1>2. FilesInv'
  BY <1>a, FaultsAssumption, SizeAssumption
  DEF FilesInv, ProcInv, FilesKnown, Types, RequestFails, SetPartial, Fault, files, local
<1>3. ProcInv(p)'
  BY <1>0, Ended
<1>4. \A q \in Procs \ {p} : Spared(q)
  BY <1>a, FaultsAssumption, NamesAssumption
  DEF Spared, Types, FilesInv, ProcInv, Owns, Downloading, Updating,
      GoTo, Update, End, Release, RequestFails, SetPartial, Fault, files, local
<1> QED
  BY <1>1, <1>2, <1>3, <1>4, Preserved

\* A failure releases the locks and changes no file.
LEMMA DieStep ==
  ASSUME IInv, NEW p \in Procs, Die(p)
  PROVE  IInv'
<1> USE DEF IInv
<1>0. End(p)
  BY DEF Die
<1>1. Types'
  BY <1>0, Ended, FaultsAssumption, SizeAssumption
  DEF Types, GoTo, Update, Points, Waiting, Downloading, Updating, Die, Fault, files, local
<1>2. FilesInv'
  BY FaultsAssumption, SizeAssumption
  DEF FilesInv, ProcInv, FilesKnown, Types, Die, Fault, files, local
<1>3. ProcInv(p)'
  BY <1>0, Ended
<1>4. \A q \in Procs \ {p} : Spared(q)
  BY FaultsAssumption, NamesAssumption
  DEF Spared, Types, FilesInv, ProcInv, Owns, Downloading, Updating,
      GoTo, Update, End, Release, Die, Fault, files, local
<1> QED
  BY <1>1, <1>2, <1>3, <1>4, Preserved

\* The end of a manifest update, whether or not it could be written.
LEMMA UpdatedStep ==
  ASSUME IInv, NEW p \in Procs, Updated(p), pc[p] \in Updating,
         UNCHANGED files, manifest' \subseteq Models \X Stamps,
         \A q \in Procs \ {p} : mlock = q => manifest' = manifest,
         faults' \in 0..MaxFaults
  PROVE  IInv'
<1> USE DEF IInv
<1>1. FilesInv'
  BY DEF FilesInv, files
<1>2. mlock' \in Procs \cup {Nobody}
  BY DEF Updated, UnlockManifest, Types
<1>3. \A q \in Procs \ {p} : mlock = q => mlock' = q /\ manifest' = manifest
  BY DEF Updated, UnlockManifest
<1>4. CASE task[p] = "downloaded_at"
  <2>1. /\ pc' = [pc EXCEPT ![p] = "recheck"]
        /\ UNCHANGED <<lock, model, at, read, task>>
    BY <1>4 DEF Updated, GoTo
  <2>2. Types'
    BY <1>2, <2>1 DEF Types, Points
  <2>3. ProcInv(p)'
    BY <1>4, <2>1 DEF ProcInv, FilesKnown, Owns, Types, files, Updating, Downloading
  <2>4. \A q \in Procs \ {p} : Spared(q)
    BY <1>3, <2>1 DEF Spared, Types, files
  <2> QED
    BY <1>1, <2>2, <2>3, <2>4, Preserved
<1>5. CASE task[p] # "downloaded_at"
  <2>1. End(p)
    BY <1>5 DEF Updated
  <2>2. Types' /\ ProcInv(p)'
    BY <1>2, <2>1, Ended DEF Types
  <2>3. \A q \in Procs \ {p} : Spared(q)
    BY <1>3, <2>1, NamesAssumption DEF Spared, Types, files, End, GoTo, Release
  <2> QED
    BY <1>1, <2>2, <2>3, Preserved
<1> QED
  BY <1>4, <1>5

\* An update only adds or erases records of the process's own model.
LEMMA WriteManifestStep ==
  ASSUME IInv, NEW p \in Procs, WriteManifest(p)
  PROVE  IInv'
<1>1. mlock = p /\ model[p] \in Models /\ pc[p] \in Updating
  BY DEF IInv, ProcInv, WriteManifest, Updating
<1>2. task[p] # "erase" => task[p] \in Stamps
  BY DEF IInv, Types, ProcInv, WriteManifest, Updating
<1>3. manifest' \subseteq Models \X Stamps
  BY <1>1, <1>2 DEF IInv, Types, WriteManifest, Changed
<1> QED
  BY <1>1, <1>3, UpdatedStep DEF WriteManifest, IInv, Types

LEMMA UpdateFailsStep ==
  ASSUME IInv, NEW p \in Procs, UpdateFails(p)
  PROVE  IInv'
<1>1. manifest' \subseteq Models \X Stamps /\ pc[p] \in Updating
  BY DEF UpdateFails, IInv, Types, Updating
<1>2. faults' \in 0..MaxFaults
  BY FaultsAssumption DEF UpdateFails, Fault, IInv, Types
<1> QED
  BY <1>1, <1>2, UpdatedStep DEF UpdateFails

-----------------------------------------------------------------------------
(* The theorems.                                                           *)

LEMMA InitInv == Init => IInv
<1> SUFFICES ASSUME Init PROVE IInv
  OBVIOUS
<1>1. FilesInv
  BY DEF Init, FilesInv
<1>2. Types
  BY SizeAssumption, FaultsAssumption DEF Init, Types, Points
<1>3. ASSUME NEW p \in Procs PROVE ProcInv(p)
  BY DEF Init, ProcInv, Owns, FilesKnown, Downloading, Updating
<1> QED
  BY <1>1, <1>2, <1>3 DEF IInv

LEMMA StutterInv == IInv /\ UNCHANGED vars => IInv'
<1> SUFFICES ASSUME IInv, UNCHANGED vars PROVE IInv'
  OBVIOUS
<1>1. FilesInv' /\ Types'
  BY DEF IInv, FilesInv, Types, vars, files
<1>2. ASSUME NEW q \in Procs PROVE Spared(q)
  BY DEF Spared, vars, files
<1> QED
  BY <1>1, <1>2, Frame DEF IInv

LEMMA NextInv == IInv /\ Next => IInv'
<1> SUFFICES ASSUME IInv, NEW p \in Procs,
               \/ Asked(p) \/ Step(p) \/ Fails(p)
               \/ \E m \in Models : Remove(p, m)
             PROVE IInv'
  BY DEF Next
<1>1. CASE Asked(p) \/ \E m \in Models : Remove(p, m)
  BY <1>1, ResolveStep, RemoveStep DEF Asked
<1>2. CASE Step(p)
  BY <1>2, LockModelStep, InspectStep, AcceptedStep, RangeIgnoredStep,
     RangeUnsatisfiableStep, ReceiveStep, FinishOutputStep, InstallStep,
     RecheckStep, RemoveTargetStep, RemovePartialStep, LockManifestStep,
     ReadManifestStep, WriteManifestStep
  DEF Step
<1>3. CASE Fails(p)
  BY <1>3, ReadManifestFailsStep, UpdateFailsStep, RequestFailsStep, DieStep
  DEF Fails
<1> QED
  BY <1>1, <1>2, <1>3

\* The inductive invariant holds in every behaviour of the model cache.
THEOREM Invariance == Spec => []IInv
<1>1. Init => IInv
  BY InitInv
<1>2. IInv /\ [Next]_vars => IInv'
  BY NextInv, StutterInv
<1> QED
  BY <1>1, <1>2, PTL DEF Spec

\* Type correctness: no file ever outgrows the one on the server.
THEOREM TypeCorrect == Spec => []TypeOK
<1>1. IInv => TypeOK
  <2> SUFFICES ASSUME IInv PROVE TypeOK
    OBVIOUS
  <2>1. Remote \in Files /\ Absent \in Files
    BY PrefixIsFile, SizeAssumption DEF Remote, Prefix
  <2>2. {First(n) : n \in 0..Size} \subseteq Files
    BY PrefixIsFile DEF Prefix
  <2>3. target \in [Models -> Files] /\ partial \in [Models -> Files]
    BY <2>1, <2>2 DEF IInv, FilesInv
  <2> QED
    BY <2>3 DEF TypeOK, IInv, Types
<1> QED
  BY <1>1, Invariance, PTL

\* An installed model is the server's file and a partial one a prefix of it.
THEOREM FilesCorrect == Spec => []FilesIntact
<1>1. IInv => FilesIntact
  BY DEF IInv, FilesInv, FilesIntact
<1> QED
  BY <1>1, Invariance, PTL

\* Nobody disturbs what a running download or removal has done so far.
THEOREM DownloadsUndisturbed == Spec => []Undisturbed
<1>1. IInv => Undisturbed
  BY DEF IInv, ProcInv, FilesKnown, Undisturbed
<1> QED
  BY <1>1, Invariance, PTL

\* Only WriteManifest changes the manifest.
LEMMA ManifestWriter ==
  [Next]_vars => manifest' = manifest \/ \E p \in Procs : WriteManifest(p)
BY DEF Next, vars, Asked, Step, Fails, Resolve, Remove, LockModel, Inspect,
  Accepted, RangeIgnored, RangeUnsatisfiable, Receive, FinishOutput, Install,
  Recheck, RemoveTarget, RemovePartial, LockManifest, ReadManifest,
  ReadManifestFails, ManifestRead, UpdateFails, RequestFails, Die

\* A manifest update leaves the records of other models as they are, unless
\* the manifest could not be read.
THEOREM RecordsKept == Spec => NoRecordLost
<1> DEFINE Kept(p) ==
      pc[p] = "writeManifest" /\ pc'[p] # "writeManifest" /\ read[p] # {}
        => Foreign(manifest', model[p]) = Foreign(manifest, model[p])
<1>1. ASSUME IInv, [Next]_vars, NEW p \in Procs PROVE Kept(p)
  <2>1. CASE manifest' = manifest
    BY <2>1
  <2>2. ASSUME NEW q \in Procs, WriteManifest(q), pc[p] = "writeManifest",
               read[p] # {}
        PROVE  Foreign(manifest', model[p]) = Foreign(manifest, model[p])
    <3>1. mlock = p /\ mlock = q /\ read[p] = manifest
      BY <1>1, <2>2 DEF IInv, ProcInv, WriteManifest
    <3>2. manifest' = Changed(p) /\ read[p] = manifest
      BY <2>2, <3>1 DEF WriteManifest
    <3> QED
      BY <3>2 DEF Changed, Foreign
  <2> QED
    BY <1>1, <2>1, <2>2, ManifestWriter
<1>2. IInv /\ [Next]_vars => [\A p \in Procs : Kept(p)]_vars
  BY <1>1
<1>3. Spec => [][\A p \in Procs : Kept(p)]_vars
  BY <1>2, Invariance, PTL DEF Spec
<1> QED
  BY <1>3 DEF NoRecordLost

=============================================================================
