----------------------------- MODULE ObjectStore -----------------------------
(***************************************************************************)
(* One entry of a store that several processes share, and what Get,        *)
(* GetAtMost and Put do to it: the files and descriptors of a directory    *)
(* (compare/store.cc, FilesystemStore) or the requests to a bucket         *)
(* (compare/s3.cc, S3Store).  CompareStore is what compare stages see of   *)
(* it.                                                                     *)
(***************************************************************************)
EXTENDS Naturals, Sequences

CONSTANTS
  Procs,         \* processes that use the store
  MaxPuts,       \* bound: values that are put
  Sizes,         \* bound: their sizes
  Limit,         \* the size that a reader accepts
  NameAttempts,  \* names tried for a temporary file
  Attempts,      \* requests of a call to S3
  MaxFaults      \* bound: what goes wrong

VARIABLES
  kind,     \* "directory" or "bucket"
  parent,   \* the directory of the entry: "missing", "new", or "lasting"
  values,   \* values put so far, with what is written of each
  shown,    \* what the entry has been, the last is what it is
  kept,     \* the oldest of these that a power loss may bring back
  named,    \* values with a temporary file
  late,     \* values that the server has been sent and may still take
  calls,    \* the call that each process is in, or its last one
  promised, \* the youngest value whose Put has returned for good
  survived, \* what the last power loss left, and what was promised then
  faults    \* what went wrong so far

storeVars == <<kind, parent, values, shown, kept, named, late, calls, promised,
               survived, faults>>

Missing == 0
\* Something planted by another user of the directory.
Symlink == MaxPuts + 1

Entry == shown[Len(shown)]
Show(value) == shown' = Append(shown, value)

Idle == [at |-> "ended", put |-> Missing, file |-> Missing, read |-> 0,
         since |-> 1, tries |-> 0, answer |-> "none"]

Init ==
  /\ kind \in {"directory", "bucket"}
  /\ parent = "missing" /\ values = <<>> /\ shown = <<Missing>> /\ kept = 1
  /\ named = {} /\ late = {} /\ calls = [p \in Procs |-> Idle]
  /\ promised = 1 /\ survived = <<1, 1>> /\ faults = 0

-----------------------------------------------------------------------------
At(p, place) == calls[p].at = place
Puts(p) == calls[p].put # Missing
Go(p, place) == calls' = [calls EXCEPT ![p].at = place]
Return(p, answer) ==
  calls' = [calls EXCEPT ![p] = [@ EXCEPT !.at = "ended", !.tries = 0, !.answer = answer]]
\* Nothing is said of a call that throws.
Throw(p) == calls' = [calls EXCEPT ![p] = Idle]

Fault == faults < MaxFaults /\ faults' = faults + 1

First == IF kind = "directory" THEN "parent" ELSE "send"

StartPut(p) ==
  /\ At(p, "ended") /\ Len(values) < MaxPuts
  /\ \E size \in Sizes :
       values' = Append(values, [size |-> size, bytes |-> 0, synced |-> FALSE,
                                 left |-> FALSE])
  /\ calls' = [calls EXCEPT ![p] = [Idle EXCEPT !.at = First, !.put = Len(values')]]
  /\ UNCHANGED <<kind, parent, shown, kept, named, late, promised, survived, faults>>

StartGet(p) ==
  /\ At(p, "ended")
  /\ calls' = [calls EXCEPT ![p] = [Idle EXCEPT !.at = First, !.since = Len(shown)]]
  /\ UNCHANGED <<kind, parent, values, shown, kept, named, late, promised,
                 survived, faults>>

-----------------------------------------------------------------------------
\* FilesystemStore

OpenParent(p) ==
  /\ At(p, "parent")
  /\ IF Puts(p)
     THEN /\ parent' = IF parent = "missing" THEN "new" ELSE parent
          /\ Go(p, "look")
     ELSE /\ IF parent = "missing" THEN Return(p, "missing") ELSE Go(p, "open")
          /\ UNCHANGED parent
  /\ UNCHANGED <<kind, values, shown, kept, named, late, promised, survived, faults>>

\* Put

Look(p) ==
  /\ At(p, "look")
  /\ IF Entry = Symlink THEN Throw(p) ELSE Go(p, "create")
  /\ UNCHANGED <<kind, parent, values, shown, kept, named, late, promised,
                 survived, faults>>

CreateTemporary(p) ==
  /\ At(p, "create")
  /\ named' = named \cup {calls[p].put}
  /\ Go(p, "write")
  /\ UNCHANGED <<kind, parent, values, shown, kept, late, promised, survived, faults>>

NameTaken(p) ==
  /\ At(p, "create") /\ Fault
  /\ IF calls[p].tries + 1 < NameAttempts
     THEN calls' = [calls EXCEPT ![p].tries = @ + 1]
     ELSE Throw(p)
  /\ UNCHANGED <<kind, parent, values, shown, kept, named, late, promised, survived>>

\* A slip that the checks notice: a short write counts as a whole one.
WriteOnce(p) ==
  LET put == calls[p].put IN
  /\ At(p, "write")
  /\ \E bytes \in 1..values[put].size :
       values' = [values EXCEPT ![put].bytes = bytes]
  /\ Go(p, "sync")
  /\ UNCHANGED <<kind, parent, shown, kept, named, late, promised, survived, faults>>

Write(p) ==
  LET put == calls[p].put IN
  /\ At(p, "write")
  /\ IF values[put].bytes < values[put].size
     THEN /\ \E bytes \in values[put].bytes + 1..values[put].size :
               values' = [values EXCEPT ![put].bytes = bytes]
          /\ UNCHANGED calls
     ELSE Go(p, "sync") /\ UNCHANGED values
  /\ UNCHANGED <<kind, parent, shown, kept, named, late, promised, survived, faults>>

Sync(p) ==
  /\ At(p, "sync")
  /\ values' = [values EXCEPT ![calls[p].put].synced = TRUE]
  /\ Go(p, "rename")
  /\ UNCHANGED <<kind, parent, shown, kept, named, late, promised, survived, faults>>

Rename(p) ==
  /\ At(p, "rename")
  /\ Show(calls[p].put)
  /\ named' = named \ {calls[p].put}
  /\ calls' = [calls EXCEPT ![p].at = "parent sync", ![p].since = Len(shown')]
  /\ UNCHANGED <<kind, parent, values, kept, late, promised, survived, faults>>

Abandon(p) ==
  /\ calls[p].at \in {"write", "sync", "rename"} /\ Fault
  /\ named' = named \ {calls[p].put}
  /\ Throw(p)
  /\ UNCHANGED <<kind, parent, values, shown, kept, late, promised, survived>>

\* The directories above are not synced, nor is a failure reported.
SyncParent(p) ==
  /\ At(p, "parent sync")
  /\ Return(p, "stored")
  /\ \/ /\ kept' = Len(shown)
        /\ promised' = IF parent = "lasting" /\ calls[p].since > promised
                       THEN calls[p].since ELSE promised
        /\ UNCHANGED faults
     \/ Fault /\ UNCHANGED <<kept, promised>>
  /\ UNCHANGED <<kind, parent, values, shown, named, late, survived>>

\* Read

Open(p) ==
  /\ At(p, "open")
  /\ CASE Entry = Missing -> Return(p, "missing")
       [] Entry = Symlink -> Throw(p)
       [] OTHER -> calls' = [calls EXCEPT ![p].at = "size", ![p].file = Entry]
  /\ UNCHANGED <<kind, parent, values, shown, kept, named, late, promised,
                 survived, faults>>

Size(p) ==
  /\ At(p, "size")
  /\ IF values[calls[p].file].bytes > Limit THEN Return(p, "large") ELSE Go(p, "read")
  /\ UNCHANGED <<kind, parent, values, shown, kept, named, late, promised,
                 survived, faults>>

Read(p) ==
  LET call == calls[p]
      bytes == values[call.file].bytes
  IN  /\ At(p, "read")
      /\ IF call.read = bytes THEN Return(p, "value")
         ELSE \E count \in 1..bytes - call.read :
                IF call.read + count > Limit THEN Return(p, "large")
                ELSE calls' = [calls EXCEPT ![p].read = @ + count]
      /\ UNCHANGED <<kind, parent, values, shown, kept, named, late, promised,
                     survived, faults>>

CallFails(p) ==
  /\ calls[p].at \in {"parent", "create", "open", "size", "read"}
  /\ Fault
  /\ Throw(p)
  /\ UNCHANGED <<kind, parent, values, shown, kept, named, late, promised, survived>>

-----------------------------------------------------------------------------
\* S3Store, Send

Whole(value) == values' = [values EXCEPT ![value].bytes = values[value].size]

Arrives(p) ==
  /\ At(p, "send") /\ Puts(p)
  /\ Show(calls[p].put) /\ Whole(calls[p].put)
  /\ Go(p, "answer")
  /\ kept' = Len(shown')
  /\ UNCHANGED <<kind, parent, named, late, promised, survived, faults>>

Acknowledged(p) ==
  /\ At(p, "answer")
  /\ Return(p, "stored")
  /\ UNCHANGED <<kind, parent, values, shown, kept, named, late, promised,
                 survived, faults>>

Retry(p) ==
  IF calls[p].tries + 1 < Attempts
  THEN calls' = [calls EXCEPT ![p].at = "send", ![p].tries = @ + 1]
  ELSE Throw(p)

\* A timeout, 429 or 5xx: an answer was lost, or the request, or neither yet.
NoAnswer(p) ==
  /\ calls[p].at \in {"send", "answer"} /\ Fault
  /\ Retry(p)
  /\ late' \in IF Puts(p) /\ At(p, "send") THEN {late, late \cup {calls[p].put}}
               ELSE {late}
  /\ UNCHANGED <<kind, parent, values, shown, kept, named, promised, survived>>

\* Another status, a missing bucket among them.
RefusedByServer(p) ==
  /\ At(p, "send") /\ Fault
  /\ Throw(p)
  /\ UNCHANGED <<kind, parent, values, shown, kept, named, late, promised, survived>>

LateArrival ==
  \E value \in late :
    /\ Show(value) /\ Whole(value)
    /\ late' = late \ {value}
    /\ kept' = Len(shown')
    /\ UNCHANGED <<kind, parent, named, calls, promised, survived, faults>>

Fetch(p) ==
  /\ At(p, "send") /\ ~Puts(p)
  /\ IF Entry = Missing THEN Return(p, "missing")
     ELSE IF values[Entry].bytes > Limit THEN Return(p, "large")
     ELSE calls' = [calls EXCEPT ![p] = [@ EXCEPT !.at = "ended", !.tries = 0,
                                         !.answer = "value", !.file = Entry, !.read = values[Entry].bytes]]
  /\ UNCHANGED <<kind, parent, values, shown, kept, named, late, promised,
                 survived, faults>>

-----------------------------------------------------------------------------
\* What happens to processes, disks and shared directories.

Left(puts) == [value \in DOMAIN values |->
                 [values[value] EXCEPT !.left = @ \/ value \in puts]]

Kill(p) ==
  /\ ~At(p, "ended") /\ Fault
  /\ Throw(p)
  /\ values' = Left({calls[p].put})
  /\ late' \in IF Puts(p) /\ At(p, "send") THEN {late, late \cup {calls[p].put}}
               ELSE {late}
  /\ UNCHANGED <<kind, parent, shown, kept, named, promised, survived>>

\* The system writes a new directory back some time.
WriteBack ==
  /\ parent = "new" /\ parent' = "lasting"
  /\ UNCHANGED <<kind, values, shown, kept, named, late, calls, promised,
                 survived, faults>>

\* What was not synced may be empty afterwards.
PowerLoss ==
  /\ kind = "directory" /\ Fault
  /\ \E i \in kept..Len(shown) :
       \/ /\ Show(shown[i])
          /\ parent' = IF parent = "new" THEN "lasting" ELSE parent
          /\ survived' = <<i, promised>>
       \/ /\ parent = "new"
          /\ Show(Missing)
          /\ parent' = "missing"
          /\ survived' = <<1, promised>>
  /\ kept' = Len(shown')
  /\ \E lost \in SUBSET {v \in DOMAIN values : ~values[v].synced} :
       values' = [v \in DOMAIN values |->
         [values[v] EXCEPT !.bytes = IF v \in lost THEN 0 ELSE @, !.left = TRUE]]
  /\ calls' = [p \in Procs |-> Idle]
  /\ UNCHANGED <<kind, named, late, promised>>

\* Another user of the directory appends to the file, or plants a link.
Meddle ==
  /\ kind = "directory" /\ Fault
  /\ \/ /\ Entry \in DOMAIN values
        /\ values' = [values EXCEPT ![Entry].bytes = @ + 1]
        /\ UNCHANGED <<shown>>
     \/ parent # "missing" /\ Show(Symlink) /\ UNCHANGED values
  /\ UNCHANGED <<kind, parent, kept, named, late, calls, promised, survived>>

Next ==
  \/ LateArrival \/ WriteBack \/ PowerLoss \/ Meddle
  \/ \E p \in Procs :
       \/ StartPut(p) \/ StartGet(p)
       \/ OpenParent(p) \/ Look(p) \/ CreateTemporary(p) \/ NameTaken(p)
       \/ Write(p) \/ Sync(p) \/ Rename(p) \/ Abandon(p) \/ SyncParent(p)
       \/ Open(p) \/ Size(p) \/ Read(p) \/ CallFails(p)
       \/ Arrives(p) \/ Acknowledged(p) \/ NoAnswer(p) \/ RefusedByServer(p)
       \/ Fetch(p) \/ Kill(p)

Spec == Init /\ [][Next]_storeVars

-----------------------------------------------------------------------------
\* Nobody ever sees a part of a value, power loss or not.
EntryWhole ==
  Entry \in DOMAIN values => values[Entry].bytes >= values[Entry].size

Seen(p) == {shown[i] : i \in calls[p].since..Len(shown)}

\* A reader gets, whole and within its limit, what the entry was at some time
\* since it began to read, and misses only what was missing or too large.
GetsTrue ==
  \A p \in Procs :
    LET call == calls[p] IN
    At(p, "ended") /\ ~Puts(p) =>
      /\ call.answer = "value" =>
           /\ call.file \in Seen(p)
           /\ call.read \in values[call.file].size..Limit
      /\ call.answer = "missing" => Missing \in Seen(p)
      /\ call.answer = "large" =>
           \E value \in Seen(p) \cap DOMAIN values : values[value].bytes > Limit

\* What was stored has been the entry; what was not leaves no file behind,
\* unless the writer was killed.
PutsTrue ==
  /\ \A p \in Procs :
       At(p, "ended") /\ calls[p].answer = "stored" =>
         \E i \in DOMAIN shown : shown[i] = calls[p].put
  /\ \A value \in named :
       \/ values[value].left
       \/ \E p \in Procs : ~At(p, "ended") /\ calls[p].put = value

\* A power loss does not bring back what was before a Put that has returned,
\* if the directory is older than that and the last call did not fail.
PutsLast == survived[1] >= survived[2]

(***************************************************************************)
(* The store behaves as CompareStore takes it to: whatever interleaves,    *)
(* fails or dies, an entry is absent or a whole value that somebody put,   *)
(* and what was put stays (compare/store.cc:374-447: staged, synced,       *)
(* renamed; 347-370: the limit while reading; compare/s3.cc:252-275).      *)
(***************************************************************************)
ObjectsWhole == EntryWhole /\ GetsTrue /\ PutsTrue /\ PutsLast
=============================================================================
