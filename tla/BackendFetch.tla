---------------------------- MODULE BackendFetch ----------------------------
(***************************************************************************)
(* A backend bundle in the per-user cache: processes of one build verify    *)
(* it without a lock, fetch it under a lock from whatever URL their user    *)
(* names, and unpack and load it.  A bundle is three parts in a row: the    *)
(* table of its files with their digests, the files, and a footer with a    *)
(* digest of what precedes it.  A URL is identified with what is published  *)
(* there: a bundle, its checksum and its manifest.  Digests are injective,  *)
(* so each is written as the publication it belongs to.                     *)
(***************************************************************************)
EXTENDS Naturals, Sequences

CONSTANTS Procs,         \* processes that share the runtime root
          Publications,  \* what the URLs that users may name have published
          Good,          \* those whose manifest names this build's commit
          Nobody,        \* no holder of a lock
          Absent,        \* no file
          MaxFaults      \* bound: failed requests, killed processes, removals

ASSUME PublicationAssumption == Good \subseteq Publications
ASSUME MarkerAssumption == Nobody \notin Procs /\ Absent \notin Publications
ASSUME BoundAssumption == MaxFaults \in Nat

VARIABLES
  kind,       \* the backend the bundle is for: "cuda" or "rocm"
  unlinked,   \* the partial file that is being written has lost its name
  bundle,     \* the parts in NAME.bundle, none when it is absent
  partial,    \* the parts in NAME.bundle.partial
  checksum,   \* NAME.bundle.sha256
  sumPartial, \* NAME.bundle.sha256.partial
  manifest,   \* NAME.manifest.json
  lock,       \* holder of .NAME.lock
  runtime,    \* the extraction cache: digest of a bundle -> its directory
  extracting, \* the extraction locks: digest of a bundle -> holder
  pc,         \* process -> where it is
  phase,      \* which of the three verifications it is in
  from,       \* the URL it would fetch from, once it has to
  footer,     \* the footer it has read
  hashed,     \* the parts it has hashed
  opened,     \* the parts of the file it has opened
  loaded,     \* <<table, files>> that it has loaded
  touched,    \* somebody was fetching while it verified (auxiliary)
  faults

setting == <<kind, unlinked>>
files == <<bundle, partial, checksum, sumPartial, manifest>>
locals == <<phase, from, footer, hashed, opened, loaded>>
vars == <<setting, files, lock, runtime, extracting, pc, locals, touched, faults>>

Parts == 3
Whole(x) == [i \in 1..Parts |-> x]
Resting == {"idle", "done"}
Fetching == {"request", "receive", "checksum", "install", "drop", "manifest"}

Reading == {"footer", "hash", "recorded", "build"}

\* Somebody other than p has removed the bundle and not yet verified its own.
OtherFetches(p) ==
  \E q \in Procs \ {p} :
    lock = q /\ (pc[q] \in Fetching \/ phase[q] = "fetched")

Init ==
  /\ kind \in {"cuda", "rocm"}
  /\ unlinked = FALSE
  /\ bundle = <<>> /\ partial = <<>>
  /\ checksum = Absent /\ sumPartial = Absent /\ manifest = Absent
  /\ lock = Nobody /\ extracting = [x \in Publications |-> Nobody]
  /\ runtime = [x \in Publications |-> Absent]
  /\ pc = [p \in Procs |-> "idle"]
  /\ phase = [p \in Procs |-> "cached"]
  /\ from = [p \in Procs |-> Absent]
  /\ footer = [p \in Procs |-> Absent]
  /\ hashed = [p \in Procs |-> <<>>]
  /\ opened = [p \in Procs |-> <<>>]
  /\ loaded = [p \in Procs |-> <<>>]
  /\ touched = [p \in Procs |-> FALSE]
  /\ faults = 0

-----------------------------------------------------------------------------
\* Verification, a read at a time: of the cached files without the lock,
\* of the same with the lock, and of those just fetched.

Verify(p, ph) ==
  /\ pc' = [pc EXCEPT ![p] = "footer"]
  /\ phase' = [phase EXCEPT ![p] = ph]
  /\ touched' = [touched EXCEPT ![p] = OtherFetches(p)]

Start(p) ==
  /\ pc[p] \in Resting
  /\ Verify(p, "cached")
  /\ loaded' = [loaded EXCEPT ![p] = <<>>]
  /\ UNCHANGED <<setting, files, lock, runtime, extracting, from, footer, hashed,
                 opened, faults>>

Unlocked(p) == lock' = IF lock = p THEN Nobody ELSE lock

\* The exception leaves the partial files for the next attempt.
GiveUp(p) ==
  /\ bundle' = <<>>
  /\ Unlocked(p)
  /\ pc' = [pc EXCEPT ![p] = "idle"]
  /\ from' = [from EXCEPT ![p] = Absent]

\* The verification throws: CacheIsValid turns that into an answer; after a
\* fetch the bundle is removed and the checksum and the manifest stay.
Reject(p) ==
  /\ footer' = [footer EXCEPT ![p] = Absent]
  /\ hashed' = [hashed EXCEPT ![p] = <<>>]
  /\ \/ /\ phase[p] = "cached"
        /\ pc' = [pc EXCEPT ![p] = "ask"]
        /\ UNCHANGED <<bundle, lock, from>>
     \/ /\ phase[p] = "locked"
        /\ pc' = [pc EXCEPT ![p] = "confirm"]
        /\ UNCHANGED <<bundle, lock, from>>
     \/ phase[p] = "fetched" /\ GiveUp(p)

Verifying == <<setting, partial, checksum, sumPartial, manifest, runtime,
               extracting, phase, opened, loaded, touched, faults>>

ReadBundleFooter(p) ==
  /\ pc[p] = "footer"
  /\ IF bundle # <<>> /\ checksum # Absent
       THEN /\ footer' = [footer EXCEPT ![p] = bundle[Parts]]
            /\ pc' = [pc EXCEPT ![p] = "hash"]
            /\ UNCHANGED <<bundle, lock, from, hashed>>
       ELSE Reject(p)
  /\ UNCHANGED Verifying

HashBundle(p) ==
  /\ pc[p] = "hash"
  /\ IF bundle # <<>>
       THEN /\ hashed' = [hashed EXCEPT ![p] = bundle]
            /\ pc' = [pc EXCEPT ![p] = "recorded"]
            /\ UNCHANGED <<bundle, lock, from, footer>>
       ELSE Reject(p)
  /\ UNCHANGED Verifying

AuthenticByFooter(p) == checksum # Absent /\ footer[p] = checksum

\* The whole file against the checksum, its body against the footer.
Authentic(p) == /\ checksum # Absent
                /\ hashed[p] = Whole(checksum)
                /\ footer[p] = checksum

ReadRecordedHash(p) ==
  /\ pc[p] = "recorded"
  /\ IF Authentic(p)
       THEN /\ footer' = [footer EXCEPT ![p] = Absent]
            /\ pc' = [pc EXCEPT ![p] = "build"]
            /\ UNCHANGED <<bundle, lock, from, hashed>>
       ELSE Reject(p)
  /\ UNCHANGED Verifying

VerifyManifest(p) ==
  /\ pc[p] = "build"
  /\ IF manifest \in Good
       THEN /\ pc' = [pc EXCEPT ![p] = "open"]
            /\ Unlocked(p)
            /\ UNCHANGED <<bundle, from, footer, hashed>>
       ELSE Reject(p)
  /\ UNCHANGED Verifying

-----------------------------------------------------------------------------
\* FetchBackendBundle after its first look at the cache.

\* Downloads are forbidden, there is no URL or no directory: or go on.
Ask(p) ==
  /\ pc[p] = "ask"
  /\ \/ pc' = [pc EXCEPT ![p] = "idle"] /\ UNCHANGED from
     \/ /\ pc' = [pc EXCEPT ![p] = "lock"]
        /\ \E x \in Publications : from' = [from EXCEPT ![p] = x]
  /\ UNCHANGED <<setting, files, lock, runtime, extracting, phase, footer, hashed,
                 opened, loaded, touched, faults>>

LockFree == lock = Nobody

CheckedOnce(p) ==
  /\ pc[p] = "lock"
  /\ LockFree
  /\ lock' = p
  /\ pc' = [pc EXCEPT ![p] = "confirm"]
  /\ phase' = [phase EXCEPT ![p] = "locked"]
  /\ UNCHANGED <<setting, files, runtime, extracting, from, footer, hashed, opened,
                 loaded, touched, faults>>

\* The cache is looked at again once the lock is held.
BackendCacheLock(p) ==
  /\ pc[p] = "lock"
  /\ LockFree
  /\ lock' = p
  /\ Verify(p, "locked")
  /\ UNCHANGED <<setting, files, runtime, extracting, from, footer, hashed, opened,
                 loaded, faults>>

\* The user agrees and the bundle goes, whoever has verified it.
ConfirmDownload(p) ==
  /\ pc[p] = "confirm"
  /\ bundle' = <<>>
  /\ pc' = [pc EXCEPT ![p] = "request"]
  /\ touched' = [q \in Procs |-> touched[q] \/ (q # p /\ pc[q] \in Reading)]
  /\ UNCHANGED <<setting, partial, checksum, sumPartial, manifest, lock, runtime,
                 extracting, locals, faults>>

Decline(p) ==
  /\ pc[p] = "confirm"
  /\ Unlocked(p)
  /\ pc' = [pc EXCEPT ![p] = "idle"]
  /\ from' = [from EXCEPT ![p] = Absent]
  /\ UNCHANGED <<setting, files, runtime, extracting, phase, footer, hashed, opened,
                 loaded, touched, faults>>

Step(p, here, there) ==
  /\ pc[p] = here
  /\ pc' = [pc EXCEPT ![p] = there]
  /\ UNCHANGED <<lock, from>>

Received == <<runtime, extracting, phase, footer, hashed, opened, loaded, touched>>
FetchFrame == <<setting, Received>>

\* A partial file is resumed from this URL, whichever it came from; the server
\* may ignore the range, and refuses one that starts at the end.
Request(p) ==
  /\ Step(p, "request", "receive")
  /\ \/ Len(partial) < Parts /\ UNCHANGED partial
     \/ partial' = <<>>
  /\ unlinked' = FALSE
  /\ UNCHANGED <<kind, Received, bundle, checksum, sumPartial, manifest, faults>>

BundleRangeRefused(p) ==
  /\ pc[p] = "request"
  /\ Len(partial) = Parts
  /\ GiveUp(p)
  /\ UNCHANGED <<FetchFrame, partial, checksum, sumPartial, manifest, faults>>

Receive(p) ==
  /\ Step(p, "receive", "receive")
  /\ Len(partial) < Parts /\ ~unlinked
  /\ partial' = Append(partial, from[p])
  /\ UNCHANGED <<FetchFrame, bundle, checksum, sumPartial, manifest, faults>>

InstallBundle(p) ==
  /\ Step(p, "receive", "checksum")
  /\ Len(partial) = Parts
  /\ bundle' = partial
  /\ partial' = <<>>
  /\ UNCHANGED <<FetchFrame, checksum, sumPartial, manifest, faults>>

\* What was removed in the meantime cannot be renamed.
InstallFails(p) ==
  /\ \/ pc[p] = "receive" /\ unlinked
     \/ pc[p] = "install" /\ sumPartial = Absent
  /\ GiveUp(p)
  /\ unlinked' = FALSE
  /\ UNCHANGED <<kind, Received, partial, checksum, sumPartial, manifest, faults>>

\* The checksum is a single part: a partial one is complete, so that only a
\* server that ignores the range sends it again.
FetchChecksum(p) ==
  /\ Step(p, "checksum", "install")
  /\ sumPartial' = from[p]
  /\ UNCHANGED <<FetchFrame, bundle, partial, checksum, manifest, faults>>

ChecksumRangeRefused(p) ==
  /\ pc[p] = "checksum"
  /\ sumPartial # Absent
  /\ GiveUp(p)
  /\ UNCHANGED <<FetchFrame, partial, checksum, sumPartial, manifest, faults>>

InstallChecksum(p) ==
  /\ Step(p, "install", "drop")
  /\ sumPartial # Absent
  /\ checksum' = sumPartial
  /\ sumPartial' = Absent
  /\ UNCHANGED <<FetchFrame, bundle, partial, manifest, faults>>

\* Both names a manifest may have are tried after this; trying the second one
\* removes nothing more.
DropManifest(p) ==
  /\ Step(p, "drop", "manifest")
  /\ manifest' = Absent
  /\ UNCHANGED <<FetchFrame, bundle, partial, checksum, sumPartial, faults>>

DownloadManifest(p) ==
  /\ pc[p] = "manifest"
  /\ manifest' = from[p]
  /\ Verify(p, "fetched")
  /\ UNCHANGED <<setting, bundle, partial, checksum, sumPartial, lock, runtime,
                 extracting, from, footer, hashed, opened, loaded, faults>>

RequestFails(p) ==
  /\ pc[p] \in {"request", "receive", "checksum", "manifest"}
  /\ faults < MaxFaults
  /\ faults' = faults + 1
  /\ GiveUp(p)
  /\ unlinked' = FALSE
  /\ UNCHANGED <<kind, Received, partial, checksum, sumPartial, manifest>>

-----------------------------------------------------------------------------
\* `backends remove` takes no lock.

Removals == <<"rm bundle", "rm partial", "rm checksum", "rm sumPartial", "rm manifest">>
After(here) == [i \in 1..4 |-> Removals[i + 1]][CHOOSE i \in 1..4 : Removals[i] = here]

StartRemoval(p) ==
  /\ pc[p] \in Resting
  /\ faults < MaxFaults
  /\ faults' = faults + 1
  /\ pc' = [pc EXCEPT ![p] = "rm bundle"]
  /\ loaded' = [loaded EXCEPT ![p] = <<>>]
  /\ UNCHANGED <<setting, files, lock, runtime, extracting, phase, from, footer,
                 hashed, opened, touched>>

\* RemoveBackendFile, a file at a time.
RemoveBackend(p) ==
  LET here == pc[p] IN
  /\ here \in {Removals[i] : i \in DOMAIN Removals}
  /\ bundle' = IF here = "rm bundle" THEN <<>> ELSE bundle
  /\ touched' = [q \in Procs |-> touched[q] \/ pc[q] \in Reading \cup {"open"}]
  /\ partial' = IF here = "rm partial" THEN <<>> ELSE partial
  /\ unlinked' = (unlinked \/ (here = "rm partial" /\ \E q \in Procs : pc[q] = "receive"))
  /\ checksum' = IF here = "rm checksum" THEN Absent ELSE checksum
  /\ sumPartial' = IF here = "rm sumPartial" THEN Absent ELSE sumPartial
  /\ manifest' = IF here = "rm manifest" THEN Absent ELSE manifest
  /\ pc' = [pc EXCEPT ![p] = IF here = "rm manifest" THEN "idle" ELSE After(here)]
  /\ UNCHANGED <<kind, lock, runtime, extracting, locals, faults>>

-----------------------------------------------------------------------------
\* PrepareEmbeddedPayloadFromFile with already_verified: the digest of the
\* body is not computed again, that of each file is.

Open(p) ==
  /\ pc[p] = "open"
  /\ IF bundle = <<>>
       THEN pc' = [pc EXCEPT ![p] = "idle"]
       ELSE pc' = [pc EXCEPT ![p] = IF kind = "cuda" THEN "seal" ELSE "extract"]
  /\ opened' = [opened EXCEPT ![p] = bundle]
  /\ hashed' = [hashed EXCEPT ![p] = <<>>]
  /\ from' = [from EXCEPT ![p] = Absent]
  /\ touched' = [touched EXCEPT ![p] = FALSE]
  /\ phase' = [phase EXCEPT ![p] = "cached"]
  /\ UNCHANGED <<setting, files, lock, runtime, extracting, footer, loaded, faults>>

CopiesUnchecked(parts) == TRUE

\* CopyEntry compares the bytes copied with the digest in the table.
Copies(parts) == parts[1] = parts[2]

LoadFrame == <<setting, files, lock, phase, from, footer, hashed, touched, faults>>

Finish(p, code) ==
  /\ loaded' = [loaded EXCEPT ![p] = code]
  /\ pc' = [pc EXCEPT ![p] = "done"]
  /\ opened' = [opened EXCEPT ![p] = <<>>]

LoadFails(p) ==
  /\ pc' = [pc EXCEPT ![p] = "idle"]
  /\ opened' = [opened EXCEPT ![p] = <<>>]
  /\ UNCHANGED loaded

\* A sealed file in memory, which no other process sees.
PrepareCuda(p) ==
  /\ pc[p] = "seal"
  /\ IF Copies(opened[p]) THEN Finish(p, SubSeq(opened[p], 1, 2)) ELSE LoadFails(p)
  /\ UNCHANGED <<LoadFrame, runtime, extracting>>

\* The directory, and the file that locks it, are named by the digest that the
\* footer records.
Name(p) == opened[p][Parts]
CacheIsValid(p) == runtime[Name(p)] = <<opened[p][1], opened[p][1]>>

HeldBy(q, p) == extracting' = [extracting EXCEPT ![Name(p)] = q]

ExtractionLock(p) ==
  /\ pc[p] = "extract"
  /\ extracting[Name(p)] = Nobody
  /\ HeldBy(p, p)
  /\ pc' = [pc EXCEPT ![p] = "reuse"]
  /\ UNCHANGED <<LoadFrame, runtime, opened, loaded>>

Reuse(p) ==
  /\ pc[p] = "reuse"
  /\ CacheIsValid(p)
  /\ HeldBy(Nobody, p)
  /\ pc' = [pc EXCEPT ![p] = "load"]
  /\ UNCHANGED <<LoadFrame, runtime, opened, loaded>>

\* A directory that does not match is moved away first.
RemoveCorrupt(p) ==
  /\ pc[p] = "reuse"
  /\ ~CacheIsValid(p)
  /\ runtime' = [runtime EXCEPT ![Name(p)] = Absent]
  /\ pc' = [pc EXCEPT ![p] = "stage"]
  /\ UNCHANGED <<LoadFrame, extracting, opened, loaded>>

\* A slip that the checks notice: a copy that fails its digest is left to whoever
\* comes next, with the lock still held.
PublishKeepsLock(p) ==
  /\ pc[p] = "stage"
  /\ IF Copies(opened[p])
       THEN /\ runtime' = [runtime EXCEPT ![Name(p)] = SubSeq(opened[p], 1, 2)]
            /\ HeldBy(Nobody, p)
            /\ pc' = [pc EXCEPT ![p] = "load"]
            /\ UNCHANGED <<opened, loaded>>
       ELSE LoadFails(p) /\ UNCHANGED <<runtime, extracting>>
  /\ UNCHANGED LoadFrame

\* The files go into a staging directory, which is published by a rename; a
\* copy that fails its digest ends the loading.  Either way the lock goes.
Publish(p) ==
  /\ pc[p] = "stage"
  /\ HeldBy(Nobody, p)
  /\ IF Copies(opened[p])
       THEN /\ runtime' = [runtime EXCEPT ![Name(p)] = SubSeq(opened[p], 1, 2)]
            /\ pc' = [pc EXCEPT ![p] = "load"]
            /\ UNCHANGED <<opened, loaded>>
       ELSE LoadFails(p) /\ UNCHANGED runtime
  /\ UNCHANGED LoadFrame

\* ggml_backend_load, after the extraction lock was let go.
Load(p) ==
  /\ pc[p] = "load"
  /\ IF runtime[Name(p)] # Absent THEN Finish(p, runtime[Name(p)]) ELSE LoadFails(p)
  /\ UNCHANGED <<LoadFrame, runtime, extracting>>

\* A killed process leaves its files; the kernel drops its locks.
Crash(p) ==
  /\ pc[p] \notin Resting
  /\ faults < MaxFaults
  /\ faults' = faults + 1
  /\ Unlocked(p)
  /\ extracting' = [x \in Publications |->
                     IF extracting[x] = p THEN Nobody ELSE extracting[x]]
  /\ pc' = [pc EXCEPT ![p] = "idle"]
  /\ phase' = [phase EXCEPT ![p] = "cached"]
  /\ from' = [from EXCEPT ![p] = Absent]
  /\ footer' = [footer EXCEPT ![p] = Absent]
  /\ hashed' = [hashed EXCEPT ![p] = <<>>]
  /\ opened' = [opened EXCEPT ![p] = <<>>]
  /\ touched' = [touched EXCEPT ![p] = FALSE]
  /\ unlinked' = (unlinked /\ pc[p] # "receive")
  /\ UNCHANGED <<kind, files, runtime, loaded>>

Proceed(p) ==
  \/ ReadBundleFooter(p) \/ HashBundle(p) \/ ReadRecordedHash(p)
  \/ VerifyManifest(p) \/ Ask(p) \/ BackendCacheLock(p)
  \/ ConfirmDownload(p) \/ Decline(p)
  \/ Request(p) \/ BundleRangeRefused(p) \/ Receive(p) \/ InstallBundle(p)
  \/ InstallFails(p) \/ RemoveBackend(p)
  \/ FetchChecksum(p) \/ ChecksumRangeRefused(p) \/ InstallChecksum(p)
  \/ DropManifest(p) \/ DownloadManifest(p)
  \/ Open(p) \/ PrepareCuda(p)
  \/ ExtractionLock(p) \/ Reuse(p) \/ RemoveCorrupt(p) \/ Publish(p) \/ Load(p)

Next == \E p \in Procs : Start(p) \/ StartRemoval(p) \/ Proceed(p) \/ RequestFails(p) \/ Crash(p)

Spec == Init /\ [][Next]_vars

\* A process inside an operation takes its next step when it can.
FairSpec == Spec /\ \A p \in Procs : WF_vars(Proceed(p))

-----------------------------------------------------------------------------

Pcs == Resting \cup Fetching \cup
       Reading \cup {"open", "ask", "lock", "confirm", "seal", "extract", "reuse", "stage",
                     "load"} \cup {Removals[i] : i \in DOMAIN Removals}
Prefixes == UNION {[1..n -> Publications] : n \in 0..Parts}
Pairs == [1..2 -> Publications]

\* Types; a bundle in place has all its parts, and exactly the processes
\* between taking a lock and giving it back hold it (backend_fetch.cc:621,
\* payload.cc:548).
TypeOK ==
  /\ kind \in {"cuda", "rocm"} /\ unlinked \in BOOLEAN
  /\ bundle \in Prefixes /\ partial \in Prefixes /\ Len(bundle) \in {0, Parts}
  /\ {checksum, sumPartial, manifest} \subseteq Publications \cup {Absent}
  /\ lock \in Procs \cup {Nobody} /\ extracting \in [Publications -> Procs \cup {Nobody}]
  /\ runtime \in [Publications -> Pairs \cup {Absent}]
  /\ pc \in [Procs -> Pcs]
  /\ phase \in [Procs -> {"cached", "locked", "fetched"}]
  /\ from \in [Procs -> Publications \cup {Absent}]
  /\ footer \in [Procs -> Publications \cup {Absent}]
  /\ hashed \in [Procs -> Prefixes] /\ opened \in [Procs -> Prefixes]
  /\ loaded \in [Procs -> Pairs \cup {<<>>}]
  /\ touched \in [Procs -> BOOLEAN]
  /\ faults \in 0..MaxFaults
  /\ \A p \in Procs :
       /\ lock = p <=> \/ pc[p] \in Fetching \cup {"confirm"}
                       \/ /\ pc[p] \in Reading
                          /\ phase[p] # "cached"
       /\ \A x \in Publications :
            extracting[x] = p <=> pc[p] \in {"reuse", "stage"} /\ Name(p) = x

\* Whatever partial files were mixed, and whatever was replaced between its
\* verification and its opening, the code that a process loads is one
\* publication's table with that publication's files (payload.cc:469).
LoadedWhole ==
  \A p \in Procs : pc[p] = "done" => loaded[p][1] = loaded[p][2]

\* Who has fetched and verified under the lock has the bundle it asked for,
\* of its own commit (backend_fetch.cc:655).
FetchedAsAsked ==
  \A p \in Procs :
    pc[p] = "open" /\ phase[p] = "fetched" =>
      hashed[p] = Whole(from[p]) /\ from[p] \in Good

\* A bundle that was verified while nobody else was fetching is still there,
\* the same, when it is opened, unless a user removed it: a fetch removes only
\* what it found invalid under the lock (backend_fetch.cc:623, 633).
VerifiedStays ==
  \A p \in Procs : pc[p] = "open" /\ ~touched[p] => bundle = hashed[p]

Holds(p) == lock = p \/ \E x \in Publications : extracting[x] = p

\* Whoever takes the lock of a bundle or of its extraction gives it back, also
\* when the user declines, a request fails, the files go meanwhile or a copy
\* fails its digest (backend_fetch.cc:373, payload.cc:548).
LocksReturned == \A p \in Procs : Holds(p) ~> ~Holds(p)

\* The same-commit contract: a bundle is used only if it was built from the
\* executable's own commit (DESIGN.md:159).
SameCommit ==
  \A p \in Procs : pc[p] = "done" => loaded[p][2] \in Good
=============================================================================
