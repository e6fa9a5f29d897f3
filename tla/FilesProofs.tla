----------------------------- MODULE FilesProofs -----------------------------
(***************************************************************************)
(* Proofs about MCFiles.  The entry of the shared store: the invariant     *)
(* says of every value the entry has been that it is whole, and on a disk  *)
(* synced; of every call where it can be and what it has seen; and of the  *)
(* directory that, while it is missing, a power loss can bring nothing     *)
(* back.  The digests of models: for any number of processes, shards,      *)
(* chunks and changes, on a file system whose timestamps tell any two      *)
(* changes of a file apart (Resolution = 1).                               *)
(***************************************************************************)
EXTENDS MCFiles, SequenceTheorems, TLAPS

-----------------------------------------------------------------------------
(* The store that comparisons share.                                       *)

InDirectory == {"parent", "look", "create", "write", "sync", "rename", "parent sync",
                "open", "size", "read"}
InBucket == {"send", "answer"}
\* Where a Put has its temporary file, and where the directory is open.
Staging == {"write", "sync", "rename"}
Opened == {"look", "create", "write", "sync", "rename", "parent sync", "open", "size", "read"}

Values == [size : Sizes, bytes : Nat, synced : BOOLEAN, left : BOOLEAN]
Calls == [at : InDirectory \cup InBucket \cup {"ended"}, put : Nat, file : Nat, read : Nat,
          since : Nat, tries : Nat,
          answer : {"none", "stored", "missing", "large", "value"}]

StoreTypes ==
  /\ kind \in {"directory", "bucket"} /\ parent \in {"missing", "new", "lasting"}
  /\ values \in Seq(Values) /\ Len(values) <= MaxPuts
  /\ shown \in Seq(Nat) /\ Len(shown) >= 1
  /\ kept \in 1..Len(shown) /\ promised \in 1..kept
  /\ survived \in Nat \X Nat
  /\ named \subseteq DOMAIN values /\ late \subseteq DOMAIN values
  /\ calls \in [Users -> Calls]

\* What the entry has been is whole; on a disk it is synced, and a bucket has
\* no more than was put.
ShownInv ==
  /\ \A i \in DOMAIN shown :
       \/ shown[i] = Objects!Missing
       \/ shown[i] = Objects!Symlink /\ kind = "directory"
       \/ /\ shown[i] \in DOMAIN values
          /\ values[shown[i]].bytes >= values[shown[i]].size
          /\ kind = "directory" => values[shown[i]].synced
  /\ kind = "bucket" => \A v \in DOMAIN values : values[v].bytes <= values[v].size
  /\ kind = "bucket" => parent = "missing" /\ promised = 1

\* A directory that is missing shows nothing that a power loss can bring back.
ParentInv ==
  /\ kind = "directory" /\ parent = "missing" =>
       \A i \in kept..Len(shown) : shown[i] = Objects!Missing
  /\ parent # "lasting" => promised = 1
  /\ survived[1] >= survived[2]

\* Where a call can be, and what it is then about.
PlaceInv(p) ==
  LET call == calls[p] IN
  /\ call.put = Objects!Missing \/ call.put \in DOMAIN values
  /\ call.at \in InDirectory => kind = "directory"
  /\ call.at \in InBucket => kind = "bucket"
  /\ call.at \in Opened => parent # "missing"
  /\ call.at \in Staging \cup {"look", "create", "parent sync", "answer"} =>
       call.put # Objects!Missing
  /\ call.at \in {"open", "size", "read"} => call.put = Objects!Missing
  /\ call.since \in DOMAIN shown

\* A value is renamed when it is written and synced, and has been the entry
\* when its Put has returned.
PutInv(p) ==
  LET call == calls[p] IN
  /\ call.at = "sync" => values[call.put].bytes >= values[call.put].size
  /\ call.at = "rename" =>
       values[call.put].bytes >= values[call.put].size /\ values[call.put].synced
  /\ call.at = "parent sync" => shown[call.since] = call.put
  /\ call.at = "answer" => \E i \in DOMAIN shown : shown[i] = call.put
  /\ call.at = "ended" /\ call.answer = "stored" =>
       \E i \in DOMAIN shown : shown[i] = call.put

\* A reader's file, and its answer, have been the entry since it began.
GetInv(p) ==
  LET call == calls[p] IN
  /\ call.at \in {"size", "read"} =>
       call.file \in Objects!Seen(p) \cap DOMAIN values
  /\ call.at \in {"parent", "open", "size"} => call.read = 0
  /\ call.at = "read" => call.read <= Limit
  /\ call.at = "ended" /\ call.put = Objects!Missing =>
       /\ call.answer = "value" =>
            /\ call.file \in Objects!Seen(p) \cap DOMAIN values
            /\ call.read \in values[call.file].size..Limit
       /\ call.answer = "missing" => Objects!Missing \in Objects!Seen(p)
       /\ call.answer = "large" =>
            \E value \in Objects!Seen(p) \cap DOMAIN values : values[value].bytes > Limit

CallInv(p) == PlaceInv(p) /\ PutInv(p) /\ GetInv(p)

NamedInv ==
  \A value \in named :
    \/ values[value].left
    \/ \E p \in Users : calls[p].at \in Staging /\ calls[p].put = value

StoreInv ==
  /\ StoreTypes /\ ShownInv /\ ParentInv /\ NamedInv
  /\ \A p \in Users : CallInv(p)
\* What happens to the entry and the values while a call goes on.
Grows ==
  /\ kind' = kind
  /\ DOMAIN values \subseteq DOMAIN values'
  /\ \A v \in DOMAIN values :
       /\ values'[v].size = values[v].size /\ values'[v].bytes >= values[v].bytes
       /\ values[v].synced => values'[v].synced
       /\ values[v].left => values'[v].left
  /\ Len(shown) <= Len(shown')
  /\ \A i \in 1..Len(shown) : shown'[i] = shown[i]
  /\ parent # "missing" => parent' # "missing"

LEMMA SeenIs ==
  \A p, x : x \in Objects!Seen(p) <=> \E i \in calls[p].since..Len(shown) : shown[i] = x
BY DEF Objects!Seen

\* A process that does nothing keeps what it has seen.
LEMMA CallKept ==
  ASSUME StoreInv, StoreTypes', Grows, NEW p \in Users, calls'[p] = calls[p]
  PROVE  CallInv(p)'
<1>1. PICK c \in Calls : c = calls[p]
  <2>1. calls \in [Users -> Calls]
    BY Zenon DEF StoreInv, StoreTypes
  <2> QED
    BY <2>1
<1>2. CallInv(p)
  BY DEF StoreInv
<1>3. /\ values \in Seq(Values) /\ values' \in Seq(Values)
      /\ shown \in Seq(Nat) /\ shown' \in Seq(Nat)
      /\ DOMAIN shown = 1..Len(shown) /\ DOMAIN shown' = 1..Len(shown')
      /\ Len(shown) \in Nat /\ Len(shown') \in Nat
  <2>1. values \in Seq(Values) /\ shown \in Seq(Nat)
    BY Zenon DEF StoreInv, StoreTypes
  <2>2. values' \in Seq(Values) /\ shown' \in Seq(Nat)
    BY Zenon DEF StoreTypes
  <2> QED
    BY <2>1, <2>2
<1>4. \A v \in DOMAIN values : values[v] \in Values /\ v \in DOMAIN values' /\ values'[v] \in Values
  BY <1>3 DEF Grows
<1>5. /\ \A x : x \in Objects!Seen(p) => x \in Objects!Seen(p)'
      /\ \A i \in DOMAIN shown : i \in DOMAIN shown' /\ shown'[i] = shown[i]
  <2>1. \A i \in DOMAIN shown : i \in DOMAIN shown' /\ shown'[i] = shown[i]
    BY <1>3 DEF Grows
  <2>2. c.since \in Nat /\ c.since >= 1
    <3>1. c.since \in DOMAIN shown
      BY <1>1, <1>2 DEF CallInv, PlaceInv, PutInv, GetInv
    <3> QED
      BY <3>1, <1>3
  <2>3. \A i \in c.since..Len(shown) : i \in c.since..Len(shown') /\ shown'[i] = shown[i]
    BY <1>3, <2>2 DEF Grows
  <2>4. /\ \A x : x \in Objects!Seen(p) <=> \E i \in c.since..Len(shown) : shown[i] = x
        /\ \A x : x \in Objects!Seen(p)' <=> \E i \in c.since..Len(shown') : shown'[i] = x
    BY <1>1 DEF Objects!Seen
  <2> QED
    BY <2>1, <2>3, <2>4
<1>6. /\ c.put = Objects!Missing \/ c.put \in DOMAIN values
      /\ c.at \in InDirectory => kind = "directory"
      /\ c.at \in InBucket => kind = "bucket"
      /\ c.at \in Opened => parent # "missing"
      /\ c.at \in Staging \cup {"look", "create", "parent sync", "answer"} => c.put # Objects!Missing
      /\ c.at \in {"open", "size", "read"} => c.put = Objects!Missing
      /\ c.since \in DOMAIN shown
  BY <1>1, <1>2 DEF CallInv, PlaceInv, PutInv, GetInv
<1>7. /\ c.put = Objects!Missing \/ c.put \in DOMAIN values'
      /\ c.at \in InDirectory => kind' = "directory"
      /\ c.at \in InBucket => kind' = "bucket"
      /\ c.at \in Opened => parent' # "missing"
      /\ c.since \in DOMAIN shown'
  BY <1>4, <1>5, <1>6 DEF Grows
<1>8. /\ c.at = "sync" => values'[c.put].bytes >= values'[c.put].size
      /\ c.at = "rename" => values'[c.put].bytes >= values'[c.put].size /\ values'[c.put].synced
  <2>1. c.at \in {"sync", "rename"} => c.put \in DOMAIN values
    BY <1>6 DEF Staging
  <2>2. /\ c.at = "sync" => values[c.put].bytes >= values[c.put].size
        /\ c.at = "rename" => values[c.put].bytes >= values[c.put].size /\ values[c.put].synced
    BY <1>1, <1>2 DEF CallInv, PlaceInv, PutInv, GetInv
  <2>3. \A v \in DOMAIN values : /\ values[v].bytes \in Nat /\ values[v].size \in Nat
                                 /\ values'[v].bytes \in Nat /\ values'[v].size \in Nat
    BY <1>4, StoreAssumption DEF Values
  <2>4. \A v \in DOMAIN values : values[v].bytes >= values[v].size =>
                                   values'[v].bytes >= values'[v].size
    BY <2>3 DEF Grows
  <2> QED
    BY <2>1, <2>2, <2>4 DEF Grows
<1>9. /\ c.at = "parent sync" => shown'[c.since] = c.put
      /\ c.at = "answer" => \E i \in DOMAIN shown' : shown'[i] = c.put
      /\ c.at = "ended" /\ c.answer = "stored" => \E i \in DOMAIN shown' : shown'[i] = c.put
  BY <1>1, <1>2, <1>5 DEF CallInv, PlaceInv, PutInv, GetInv
<1>10. /\ c.at \in {"size", "read"} => c.file \in Objects!Seen(p)' \cap DOMAIN values'
       /\ c.at \in {"parent", "open", "size"} => c.read = 0
       /\ c.at = "read" => c.read <= Limit
  BY <1>1, <1>2, <1>4, <1>5 DEF CallInv, PlaceInv, PutInv, GetInv
<1>11. ASSUME c.at = "ended", c.put = Objects!Missing
       PROVE  /\ c.answer = "value" =>
                   /\ c.file \in Objects!Seen(p)' \cap DOMAIN values'
                   /\ c.read \in values'[c.file].size..Limit
              /\ c.answer = "missing" => Objects!Missing \in Objects!Seen(p)'
              /\ c.answer = "large" =>
                   \E value \in Objects!Seen(p)' \cap DOMAIN values' : values'[value].bytes > Limit
  <2>1. /\ c.answer = "value" =>
             /\ c.file \in Objects!Seen(p) \cap DOMAIN values
             /\ c.read \in values[c.file].size..Limit
        /\ c.answer = "missing" => Objects!Missing \in Objects!Seen(p)
        /\ c.answer = "large" =>
             \E value \in Objects!Seen(p) \cap DOMAIN values : values[value].bytes > Limit
    BY <1>1, <1>2, <1>11 DEF CallInv, PlaceInv, PutInv, GetInv
  <2>2. \A v \in DOMAIN values : values[v].bytes > Limit => values'[v].bytes > Limit
    <3>1. \A v \in DOMAIN values : values[v].bytes \in Nat /\ values'[v].bytes \in Nat
      BY <1>4 DEF Values
    <3> QED
      BY <3>1, StoreAssumption DEF Grows
  <2> QED
    BY <2>1, <2>2, <1>4, <1>5 DEF Grows
<1>12. calls'[p] = c
  BY <1>1
<1>13. PlaceInv(p)'
  BY <1>6, <1>7, <1>12 DEF PlaceInv, Objects!Missing
<1>14. PutInv(p)'
  BY <1>8, <1>9, <1>12 DEF PutInv
<1>15. GetInv(p)'
  BY <1>10, <1>11, <1>12 DEF GetInv, Objects!Missing
<1> QED
  BY <1>13, <1>14, <1>15 DEF CallInv

\* One call moves on.
LEMMA CallMoves ==
  ASSUME StoreInv, StoreTypes', Grows, NEW p \in Users, NEW c,
         calls' = [calls EXCEPT ![p] = c], CallInv(p)',
         \A v \in named' :
           \/ v \in named /\ ~(calls[p].at \in Staging /\ calls[p].put = v)
           \/ v \in DOMAIN values' /\ values'[v].left
           \/ c.at \in Staging /\ c.put = v
  PROVE  NamedInv' /\ (\A q \in Users : CallInv(q)')
<1>1. calls \in [Users -> Calls] /\ calls'[p] = c /\ named \subseteq DOMAIN values
  BY DEF StoreInv, StoreTypes
<1>2. ASSUME NEW q \in Users
      PROVE  CallInv(q)'
  <2>1. CASE q = p
    BY <2>1
  <2>2. CASE q # p
    <3>1. calls'[q] = calls[q]
      BY <2>2, <1>1
    <3> QED
      BY <3>1, CallKept
  <2> QED
    BY <2>1, <2>2
<1>3. ASSUME NEW v \in named'
      PROVE  \/ values'[v].left
             \/ \E q \in Users : calls'[q].at \in Staging /\ calls'[q].put = v
  <2>1. CASE v \in named /\ ~(calls[p].at \in Staging /\ calls[p].put = v)
    <3>1. values[v].left \/ \E q \in Users : calls[q].at \in Staging /\ calls[q].put = v
      BY <2>1 DEF StoreInv, NamedInv
    <3>2. ASSUME values[v].left
          PROVE  values'[v].left
      BY <1>1, <2>1, <3>2 DEF Grows
    <3>3. ASSUME NEW q \in Users, calls[q].at \in Staging, calls[q].put = v
          PROVE  calls'[q] = calls[q]
      BY <2>1, <3>3, <1>1
    <3> QED
      BY <3>1, <3>2, <3>3
  <2> QED
    BY <2>1, <1>1
<1> QED
  BY <1>2, <1>3 DEF NamedInv
\* A call that only goes on or ends, and perhaps makes the directory or leaves
\* a request behind.
LEMMA OnlyCalls ==
  ASSUME StoreInv, NEW p \in Users, NEW c \in Calls, calls' = [calls EXCEPT ![p] = c],
         UNCHANGED <<kind, values, shown, kept, named, promised, survived>>,
         late' \subseteq DOMAIN values,
         parent' = parent \/ (parent = "missing" /\ parent' = "new" /\ kind = "directory"),
         calls[p].at \in Staging => c.at \in Staging /\ c.put = calls[p].put,
         PlaceInv(p)', PutInv(p)', GetInv(p)'
  PROVE  StoreInv'
<1>1. StoreTypes'
  BY DEF StoreInv, StoreTypes
<1>2. Grows
  <2>1. values \in Seq(Values)
    BY DEF StoreInv, StoreTypes
  <2>2. \A v \in DOMAIN values : values[v].bytes \in Nat
    <3>1. \A v \in DOMAIN values : values[v] \in Values
      BY <2>1
    <3> QED
      BY <3>1 DEF Values
  <2>3. Len(shown) \in Nat
    BY DEF StoreInv, StoreTypes
  <2> QED
    BY <2>2, <2>3 DEF Grows
<1>3. ShownInv' /\ ParentInv'
  <2>1. ShownInv'
    BY DEF StoreInv, ShownInv, Objects!Missing, Objects!Symlink
  <2>2. ParentInv'
    BY DEF StoreInv, ParentInv, StoreTypes, Objects!Missing
  <2> QED
    BY <2>1, <2>2
<1>4. CallInv(p)'
  BY DEF CallInv
<1>5. \A v \in named' : \/ v \in named /\ ~(calls[p].at \in Staging /\ calls[p].put = v)
                        \/ v \in DOMAIN values' /\ values'[v].left
                        \/ c.at \in Staging /\ c.put = v
  OBVIOUS
<1>6. NamedInv' /\ \A q \in Users : CallInv(q)'
  BY <1>1, <1>2, <1>4, <1>5, CallMoves
<1> QED
  BY <1>1, <1>3, <1>6 DEF StoreInv

LEMMA Going ==
  ASSUME StoreTypes, NEW p \in Users,
         NEW place \in {"look", "create", "write", "sync", "rename", "open", "read", "answer"},
         Objects!Go(p, place)
  PROVE  \E c \in Calls :
           /\ calls' = [calls EXCEPT ![p] = c] /\ calls'[p] = c
           /\ c.at = place /\ c.put = calls[p].put /\ c.file = calls[p].file
           /\ c.read = calls[p].read /\ c.since = calls[p].since
           /\ c.answer = calls[p].answer
<1>1. calls \in [Users -> Calls]
  BY DEF StoreTypes
<1>2. PICK c : c = [calls[p] EXCEPT !.at = place]
  OBVIOUS
<1>3. calls[p] \in Calls
  BY <1>1
<1>4. c \in Calls /\ c.at = place /\ c.put = calls[p].put /\ c.file = calls[p].file
      /\ c.read = calls[p].read /\ c.since = calls[p].since /\ c.answer = calls[p].answer
  BY <1>2, <1>3 DEF Calls, InDirectory, InBucket
<1>5. calls' = [calls EXCEPT ![p] = c] /\ calls'[p] = c
  BY <1>1, <1>2 DEF Objects!Go
<1> QED
  BY <1>4, <1>5

LEMMA Returning ==
  ASSUME StoreTypes, NEW p \in Users,
         NEW said \in {"stored", "missing", "large", "value"}, Objects!Return(p, said)
  PROVE  \E c \in Calls :
           /\ calls' = [calls EXCEPT ![p] = c] /\ calls'[p] = c
           /\ c.at = "ended" /\ c.put = calls[p].put /\ c.file = calls[p].file
           /\ c.read = calls[p].read /\ c.since = calls[p].since
           /\ c.answer = said
<1>1. calls \in [Users -> Calls]
  BY DEF StoreTypes
<1>2. PICK c : c = [calls[p] EXCEPT !.at = "ended", !.tries = 0, !.answer = said]
  OBVIOUS
<1>3. calls[p] \in Calls
  BY <1>1
<1>4. c \in Calls /\ c.at = "ended" /\ c.put = calls[p].put /\ c.file = calls[p].file
      /\ c.read = calls[p].read /\ c.since = calls[p].since /\ c.answer = said
  BY <1>2, <1>3 DEF Calls
<1>5. calls' = [calls EXCEPT ![p] = c] /\ calls'[p] = c
  BY <1>1, <1>2 DEF Objects!Return
<1> QED
  BY <1>4, <1>5

LEMMA Throwing ==
  ASSUME StoreTypes, NEW p \in Users, Objects!Throw(p)
  PROVE  \E c \in Calls :
           /\ calls' = [calls EXCEPT ![p] = c] /\ calls'[p] = c
           /\ c.at = "ended" /\ c.put = Objects!Missing /\ c.since = 1 /\ c.answer = "none"
<1>1. calls \in [Users -> Calls]
  BY DEF StoreTypes
<1>2. PICK c : c = Objects!Idle
  OBVIOUS
<1>3. c \in Calls /\ c.at = "ended" /\ c.put = Objects!Missing /\ c.since = 1 /\ c.answer = "none"
  BY <1>2 DEF Objects!Idle, Objects!Missing, Calls
<1>4. calls' = [calls EXCEPT ![p] = c] /\ calls'[p] = c
  BY <1>1, <1>2 DEF Objects!Throw
<1> QED
  BY <1>3, <1>4

\* Nothing is said of a call that throws.
LEMMA ThrownIs ==
  ASSUME NEW p \in Users, NEW c \in Calls, calls'[p] = c, c.at = "ended",
         c.put = Objects!Missing, c.since = 1, c.answer = "none", 1 \in DOMAIN shown'
  PROVE  PlaceInv(p)' /\ PutInv(p)' /\ GetInv(p)'
<1>1. PlaceInv(p)'
  BY DEF PlaceInv, InDirectory, InBucket, Opened, Staging, Objects!Missing
<1>2. PutInv(p)'
  BY DEF PutInv
<1>3. GetInv(p)'
  BY DEF GetInv
<1> QED
  BY <1>1, <1>2, <1>3

LEMMA ThrowKeeps ==
  ASSUME StoreInv, NEW p \in Users, Objects!Throw(p), calls[p].at \notin Staging,
         UNCHANGED <<kind, parent, values, shown, kept, named, promised, survived>>,
         late' \subseteq DOMAIN values
  PROVE  StoreInv'
<1>1. PICK c \in Calls :
        /\ calls' = [calls EXCEPT ![p] = c] /\ calls'[p] = c
        /\ c.at = "ended" /\ c.put = Objects!Missing /\ c.since = 1 /\ c.answer = "none"
  BY Throwing DEF StoreInv
<1>2. 1 \in DOMAIN shown'
  BY DEF StoreInv, StoreTypes
<1>3. PlaceInv(p)' /\ PutInv(p)' /\ GetInv(p)'
  BY <1>1, <1>2, ThrownIs
<1> QED
  BY <1>1, <1>3, OnlyCalls

\* What the calls of a process are now.
LEMMA ProcessIs ==
  ASSUME StoreInv, NEW p \in Users
  PROVE  /\ PlaceInv(p) /\ PutInv(p) /\ GetInv(p) /\ calls[p] \in Calls
         /\ calls[p].since \in 1..Len(shown)
         /\ Len(shown) \in Nat /\ DOMAIN shown = 1..Len(shown)
         /\ Objects!Entry \in Objects!Seen(p)
<1>1. CallInv(p) /\ calls[p] \in Calls /\ shown \in Seq(Nat) /\ Len(shown) >= 1
  BY DEF StoreInv, StoreTypes
<1>2. calls[p].since \in 1..Len(shown) /\ Len(shown) \in Nat /\ DOMAIN shown = 1..Len(shown)
  <2>1. calls[p].since \in DOMAIN shown
    BY <1>1 DEF CallInv, PlaceInv
  <2> QED
    BY <1>1, <2>1
<1>3. Len(shown) \in calls[p].since..Len(shown)
  BY <1>2
<1>4. Objects!Entry \in Objects!Seen(p)
  BY <1>3 DEF Objects!Entry, Objects!Seen
<1> QED
  BY <1>1, <1>2, <1>4 DEF CallInv

\* What an entry is that is neither missing nor planted.
LEMMA EntryIs ==
  ASSUME StoreInv, Objects!Entry # Objects!Missing,
         kind = "bucket" \/ Objects!Entry # Objects!Symlink
  PROVE  /\ Objects!Entry \in DOMAIN values /\ Objects!Entry \in Nat
         /\ values[Objects!Entry].bytes >= values[Objects!Entry].size
         /\ values[Objects!Entry] \in Values
<1>1. Len(shown) \in DOMAIN shown /\ shown \in Seq(Nat) /\ values \in Seq(Values)
  BY DEF StoreInv, StoreTypes
<1>2. kind = "bucket" => kind # "directory"
  OBVIOUS
<1> QED
  BY <1>1, <1>2 DEF StoreInv, ShownInv, Objects!Entry
\* The steps that change nothing but their call.
LEMMA StartGetKeeps == ASSUME StoreInv, NEW p \in Users, Objects!StartGet(p) PROVE StoreInv'
<1>1. /\ StoreTypes /\ Len(shown) \in Nat /\ Len(shown) >= 1 /\ calls \in [Users -> Calls]
      /\ DOMAIN shown = 1..Len(shown)
      /\ kind \in {"directory", "bucket"}
  BY DEF StoreInv, StoreTypes
<1>2. PICK c : c = [Objects!Idle EXCEPT !.at = Objects!First, !.since = Len(shown)]
  OBVIOUS
<1>3. c \in Calls /\ c.at = Objects!First /\ c.put = Objects!Missing /\ c.since = Len(shown)
      /\ c.read = 0
  BY <1>1, <1>2 DEF Objects!Idle, Objects!First, Objects!Missing, Calls, InDirectory, InBucket
<1>4. c.at = IF kind = "directory" THEN "parent" ELSE "send"
  BY <1>3 DEF Objects!First
<1>5. calls' = [calls EXCEPT ![p] = c] /\ calls'[p] = c /\ calls[p].at = "ended"
      /\ UNCHANGED <<kind, parent, values, shown, kept, named, late, promised, survived>>
  BY <1>1, <1>2 DEF Objects!StartGet, Objects!At
<1>6. PlaceInv(p)'
  <2>1. c.since \in DOMAIN shown'
    BY <1>1, <1>3, <1>5
  <2>2. c.at \in {"parent", "send"} /\ (c.at = "parent" => kind' = "directory")
        /\ (c.at = "send" => kind' = "bucket")
    BY <1>1, <1>4, <1>5
  <2> QED
    BY <2>1, <2>2, <1>3, <1>5 DEF PlaceInv, InDirectory, InBucket, Opened, Staging, Objects!Missing
<1>7. PutInv(p)' /\ GetInv(p)'
  BY <1>3, <1>4, <1>5 DEF PutInv, GetInv
<1>8. calls[p].at \notin Staging /\ late' \subseteq DOMAIN values
  BY <1>1, <1>5 DEF Staging, StoreTypes
<1> QED
  BY <1>3, <1>5, <1>6, <1>7, <1>8, OnlyCalls

LEMMA OpenParentKeeps == ASSUME StoreInv, NEW p \in Users, Objects!OpenParent(p) PROVE StoreInv'
<1>1. /\ calls[p].at = "parent" /\ kind = "directory" /\ StoreTypes /\ late \subseteq DOMAIN values
      /\ UNCHANGED <<kind, values, shown, kept, named, late, promised, survived>>
      /\ parent \in {"missing", "new", "lasting"}
  BY ProcessIs DEF Objects!OpenParent, Objects!At, PlaceInv, InDirectory, StoreInv, StoreTypes
<1>2. /\ PlaceInv(p) /\ calls[p].since \in 1..Len(shown) /\ DOMAIN shown = 1..Len(shown)
      /\ Objects!Entry \in Objects!Seen(p)
  BY ProcessIs
<1>3. CASE Objects!Puts(p)
  <2>1. /\ parent' = (IF parent = "missing" THEN "new" ELSE parent)
        /\ Objects!Go(p, "look") /\ calls[p].put # Objects!Missing
    BY <1>3 DEF Objects!OpenParent, Objects!Puts
  <2>2. PICK c \in Calls :
          /\ calls' = [calls EXCEPT ![p] = c] /\ calls'[p] = c
          /\ c.at = "look" /\ c.put = calls[p].put /\ c.since = calls[p].since
    BY <1>1, <2>1, Going
  <2>3. PlaceInv(p)'
    BY <1>1, <1>2, <2>1, <2>2 DEF PlaceInv, InDirectory, InBucket, Opened, Staging, Objects!Missing
  <2>4. PutInv(p)' /\ GetInv(p)'
    BY <2>2 DEF PutInv, GetInv
  <2> QED
    BY <1>1, <2>1, <2>2, <2>3, <2>4, OnlyCalls DEF Staging
<1>4. CASE ~Objects!Puts(p) /\ parent = "missing"
  <2>1. parent' = parent /\ Objects!Return(p, "missing") /\ calls[p].put = Objects!Missing
    BY <1>4 DEF Objects!OpenParent, Objects!Puts
  <2>2. PICK c \in Calls :
          /\ calls' = [calls EXCEPT ![p] = c] /\ calls'[p] = c
          /\ c.at = "ended" /\ c.put = calls[p].put /\ c.since = calls[p].since
          /\ c.answer = "missing"
    BY <1>1, <2>1, Returning
  <2>3. PlaceInv(p)'
    BY <1>1, <1>2, <2>1, <2>2 DEF PlaceInv, InDirectory, InBucket, Opened, Staging, Objects!Missing
  <2>4. Objects!Entry = Objects!Missing
    <3>1. Len(shown) \in kept..Len(shown)
      BY DEF StoreInv, StoreTypes
    <3> QED
      BY <3>1, <1>1, <1>4 DEF StoreInv, ParentInv, Objects!Entry
  <2>5. Objects!Seen(p)' = Objects!Seen(p)
    BY <1>1, <2>2 DEF Objects!Seen
  <2>6. PutInv(p)' /\ GetInv(p)'
    <3>1. PutInv(p)'
      BY <2>2 DEF PutInv
    <3>2. Objects!Missing \in Objects!Seen(p)'
      BY <1>2, <2>4, <2>5
    <3>3. GetInv(p)'
      BY <2>2, <3>2 DEF GetInv, Objects!Missing
    <3> QED
      BY <3>1, <3>3
  <2> QED
    BY <1>1, <2>1, <2>2, <2>3, <2>6, OnlyCalls DEF Staging
<1>5. CASE ~Objects!Puts(p) /\ parent # "missing"
  <2>1. parent' = parent /\ Objects!Go(p, "open") /\ calls[p].put = Objects!Missing
    BY <1>5 DEF Objects!OpenParent, Objects!Puts
  <2>2. PICK c \in Calls :
          /\ calls' = [calls EXCEPT ![p] = c] /\ calls'[p] = c
          /\ c.at = "open" /\ c.put = calls[p].put /\ c.since = calls[p].since
          /\ c.read = calls[p].read
    BY <1>1, <2>1, Going
  <2>3. PlaceInv(p)'
    BY <1>1, <1>2, <1>5, <2>1, <2>2 DEF PlaceInv, InDirectory, InBucket, Opened, Staging, Objects!Missing
  <2>4. PutInv(p)' /\ GetInv(p)'
    <3>1. calls[p].read = 0
      BY <1>1, ProcessIs DEF GetInv
    <3> QED
      BY <2>2, <3>1 DEF PutInv, GetInv
  <2> QED
    BY <1>1, <2>1, <2>2, <2>3, <2>4, OnlyCalls DEF Staging
<1> QED
  BY <1>3, <1>4, <1>5
LEMMA LookKeeps == ASSUME StoreInv, NEW p \in Users, Objects!Look(p) PROVE StoreInv'
<1>1. /\ calls[p].at = "look" /\ StoreTypes /\ late \subseteq DOMAIN values
      /\ UNCHANGED <<kind, parent, values, shown, kept, named, late, promised, survived>>
  BY DEF Objects!Look, Objects!At, StoreInv, StoreTypes
<1>2. PlaceInv(p) /\ calls[p].since \in 1..Len(shown) /\ DOMAIN shown = 1..Len(shown)
  BY ProcessIs
<1>3. CASE Objects!Entry = Objects!Symlink
  BY <1>1, <1>3, ThrowKeeps DEF Objects!Look, Staging
<1>4. CASE Objects!Entry # Objects!Symlink
  <2>1. Objects!Go(p, "create")
    BY <1>4 DEF Objects!Look
  <2>2. PICK c \in Calls :
          /\ calls' = [calls EXCEPT ![p] = c] /\ calls'[p] = c
          /\ c.at = "create" /\ c.put = calls[p].put /\ c.since = calls[p].since
    BY <1>1, <2>1, Going
  <2>3. PlaceInv(p)'
    BY <1>1, <1>2, <2>2 DEF PlaceInv, InDirectory, InBucket, Opened, Staging, Objects!Missing
  <2>4. PutInv(p)' /\ GetInv(p)'
    BY <2>2 DEF PutInv, GetInv
  <2> QED
    BY <1>1, <2>2, <2>3, <2>4, OnlyCalls DEF Staging
<1> QED
  BY <1>3, <1>4

LEMMA NameTakenKeeps == ASSUME StoreInv, NEW p \in Users, Objects!NameTaken(p) PROVE StoreInv'
<1>1. /\ calls[p].at = "create" /\ StoreTypes /\ late \subseteq DOMAIN values
      /\ UNCHANGED <<kind, parent, values, shown, kept, named, late, promised, survived>>
  BY DEF Objects!NameTaken, Objects!At, StoreInv, StoreTypes
<1>2. /\ PlaceInv(p) /\ calls[p].since \in 1..Len(shown) /\ DOMAIN shown = 1..Len(shown)
      /\ calls[p] \in Calls /\ calls \in [Users -> Calls]
  BY ProcessIs, <1>1 DEF StoreTypes
<1>3. CASE calls[p].tries + 1 < NameAttempts
  <2>1. PICK c : c = [calls[p] EXCEPT !.tries = @ + 1]
    OBVIOUS
  <2>2. c \in Calls /\ c.at = "create" /\ c.put = calls[p].put /\ c.since = calls[p].since
    <3>1. calls[p].tries + 1 \in Nat
      BY <1>2 DEF Calls
    <3> QED
      BY <1>1, <1>2, <2>1, <3>1 DEF Calls
  <2>3. calls' = [calls EXCEPT ![p] = c] /\ calls'[p] = c
    BY <1>2, <1>3, <2>1 DEF Objects!NameTaken
  <2>4. PlaceInv(p)'
    BY <1>1, <1>2, <2>2, <2>3 DEF PlaceInv, InDirectory, InBucket, Opened, Staging, Objects!Missing
  <2>5. PutInv(p)' /\ GetInv(p)'
    BY <2>2, <2>3 DEF PutInv, GetInv
  <2> QED
    BY <1>1, <2>2, <2>3, <2>4, <2>5, OnlyCalls DEF Staging
<1>4. CASE ~(calls[p].tries + 1 < NameAttempts)
  BY <1>1, <1>4, ThrowKeeps DEF Objects!NameTaken, Staging
<1> QED
  BY <1>3, <1>4

LEMMA OpenKeeps == ASSUME StoreInv, NEW p \in Users, Objects!Open(p) PROVE StoreInv'
<1>1. /\ calls[p].at = "open" /\ StoreTypes /\ late \subseteq DOMAIN values
      /\ UNCHANGED <<kind, parent, values, shown, kept, named, late, promised, survived>>
  BY DEF Objects!Open, Objects!At, StoreInv, StoreTypes
<1>2. /\ PlaceInv(p) /\ calls[p].since \in 1..Len(shown) /\ DOMAIN shown = 1..Len(shown)
      /\ calls[p] \in Calls /\ calls \in [Users -> Calls] /\ Objects!Entry \in Objects!Seen(p)
  BY ProcessIs, <1>1 DEF StoreTypes
<1>3. kind = "directory" /\ calls[p].put = Objects!Missing
  BY <1>1, <1>2 DEF PlaceInv, InDirectory
<1>4. CASE Objects!Entry = Objects!Missing
  <2>0. Objects!Return(p, "missing")
    <3>1. Objects!Missing # Objects!Symlink
      BY StoreAssumption DEF Objects!Missing, Objects!Symlink
    <3> QED
      BY <1>4, <3>1 DEF Objects!Open
  <2>1. PICK c \in Calls :
          /\ calls' = [calls EXCEPT ![p] = c] /\ calls'[p] = c
          /\ c.at = "ended" /\ c.put = calls[p].put /\ c.since = calls[p].since
          /\ c.answer = "missing"
    BY <1>1, <2>0, Returning
  <2>2. Objects!Missing \in Objects!Seen(p)'
    BY <1>1, <1>2, <1>4, <2>1 DEF Objects!Seen
  <2>3. PlaceInv(p)'
    BY <1>1, <1>2, <2>1 DEF PlaceInv, InDirectory, InBucket, Opened, Staging, Objects!Missing
  <2>4. PutInv(p)'
    BY <2>1 DEF PutInv
  <2>5. GetInv(p)'
    BY <2>1, <2>2 DEF GetInv, Objects!Missing
  <2> QED
    BY <1>1, <2>1, <2>3, <2>4, <2>5, OnlyCalls DEF Staging
<1>5. CASE Objects!Entry # Objects!Missing /\ Objects!Entry = Objects!Symlink
  BY <1>1, <1>5, ThrowKeeps DEF Objects!Open, Staging
<1>6. CASE Objects!Entry # Objects!Missing /\ Objects!Entry # Objects!Symlink
  <2>1. Objects!Entry \in DOMAIN values /\ Objects!Entry \in Nat
    BY <1>6, EntryIs
  <2>2. PICK c : c = [calls[p] EXCEPT !.at = "size", !.file = Objects!Entry]
    OBVIOUS
  <2>3. c \in Calls /\ c.at = "size" /\ c.put = calls[p].put /\ c.since = calls[p].since
        /\ c.file = Objects!Entry /\ c.read = 0
    <3>1. calls[p].read = 0
      BY <1>1, ProcessIs DEF GetInv
    <3> QED
      BY <1>2, <2>1, <2>2, <3>1 DEF Calls, InDirectory
  <2>4. calls' = [calls EXCEPT ![p] = c] /\ calls'[p] = c
    BY <1>2, <1>6, <2>2 DEF Objects!Open
  <2>5. c.file \in Objects!Seen(p)' \cap DOMAIN values'
    BY <1>1, <1>2, <2>1, <2>3, <2>4 DEF Objects!Seen
  <2>6. PlaceInv(p)'
    BY <1>1, <1>2, <1>3, <2>3, <2>4 DEF PlaceInv, InDirectory, InBucket, Opened, Staging, Objects!Missing
  <2>7. PutInv(p)'
    BY <2>3, <2>4 DEF PutInv
  <2>8. GetInv(p)'
    BY <2>3, <2>4, <2>5 DEF GetInv
  <2> QED
    BY <1>1, <2>3, <2>4, <2>6, <2>7, <2>8, OnlyCalls DEF Staging
<1> QED
  BY <1>4, <1>5, <1>6

\* A reader at its file is told that it is too large.
LEMMA LargeKeeps ==
  ASSUME StoreInv, NEW p \in Users, Objects!Return(p, "large"), calls[p].put = Objects!Missing,
         UNCHANGED <<kind, parent, values, shown, kept, named, late, promised, survived>>,
         calls[p].at \notin Staging,
         NEW f \in Objects!Seen(p) \cap DOMAIN values, values[f].bytes > Limit
  PROVE  StoreInv'
<1>1. StoreTypes /\ late \subseteq DOMAIN values
  BY DEF StoreInv, StoreTypes
<1>2. PlaceInv(p) /\ calls[p].since \in 1..Len(shown) /\ DOMAIN shown = 1..Len(shown)
  BY ProcessIs
<1>3. PICK c \in Calls :
        /\ calls' = [calls EXCEPT ![p] = c] /\ calls'[p] = c
        /\ c.at = "ended" /\ c.put = calls[p].put /\ c.since = calls[p].since
        /\ c.answer = "large"
  BY <1>1, Returning
<1>4. f \in Objects!Seen(p)' \cap DOMAIN values' /\ values'[f].bytes > Limit
  BY <1>3 DEF Objects!Seen
<1>5. PlaceInv(p)'
  BY <1>2, <1>3 DEF PlaceInv, InDirectory, InBucket, Opened, Staging, Objects!Missing
<1>6. PutInv(p)'
  BY <1>3 DEF PutInv
<1>7. GetInv(p)'
  BY <1>3, <1>4 DEF GetInv
<1> QED
  BY <1>1, <1>3, <1>5, <1>6, <1>7, OnlyCalls

LEMMA SizeKeeps == ASSUME StoreInv, NEW p \in Users, Objects!Size(p) PROVE StoreInv'
<1>1. /\ calls[p].at = "size" /\ StoreTypes /\ late \subseteq DOMAIN values
      /\ UNCHANGED <<kind, parent, values, shown, kept, named, late, promised, survived>>
  BY DEF Objects!Size, Objects!At, StoreInv, StoreTypes
<1>2. /\ PlaceInv(p) /\ calls[p].since \in 1..Len(shown) /\ DOMAIN shown = 1..Len(shown)
      /\ GetInv(p)
  BY ProcessIs
<1>3. calls[p].put = Objects!Missing /\ calls[p].file \in Objects!Seen(p) \cap DOMAIN values
  BY <1>1, <1>2 DEF PlaceInv, GetInv
<1>4. CASE values[calls[p].file].bytes > Limit
  BY <1>1, <1>3, <1>4, LargeKeeps DEF Objects!Size, Staging
<1>5. CASE ~(values[calls[p].file].bytes > Limit)
  <2>1. Objects!Go(p, "read")
    BY <1>5 DEF Objects!Size
  <2>2. PICK c \in Calls :
          /\ calls' = [calls EXCEPT ![p] = c] /\ calls'[p] = c
          /\ c.at = "read" /\ c.put = calls[p].put /\ c.since = calls[p].since
          /\ c.file = calls[p].file /\ c.read = calls[p].read
    BY <1>1, <2>1, Going
  <2>0. c.read <= Limit
    BY <2>2, <1>1, <1>2, StoreAssumption DEF GetInv
  <2>3. c.file \in Objects!Seen(p)' \cap DOMAIN values'
    BY <1>1, <1>3, <2>2 DEF Objects!Seen
  <2>4. PlaceInv(p)'
    BY <1>1, <1>2, <1>3, <2>2 DEF PlaceInv, InDirectory, InBucket, Opened, Staging, Objects!Missing
  <2>5. PutInv(p)'
    BY <2>2 DEF PutInv
  <2>6. GetInv(p)'
    BY <2>0, <2>2, <2>3 DEF GetInv
  <2> QED
    BY <1>1, <2>2, <2>4, <2>5, <2>6, OnlyCalls DEF Staging
<1> QED
  BY <1>4, <1>5
LEMMA ReadKeeps == ASSUME StoreInv, NEW p \in Users, Objects!Read(p) PROVE StoreInv'
<1>1. /\ calls[p].at = "read" /\ StoreTypes /\ late \subseteq DOMAIN values
      /\ UNCHANGED <<kind, parent, values, shown, kept, named, late, promised, survived>>
  BY DEF Objects!Read, Objects!At, StoreInv, StoreTypes
<1>2. /\ PlaceInv(p) /\ calls[p].since \in 1..Len(shown) /\ DOMAIN shown = 1..Len(shown)
      /\ GetInv(p) /\ calls[p] \in Calls /\ calls \in [Users -> Calls]
  BY ProcessIs, <1>1 DEF StoreTypes
<1>3. PICK f : f = calls[p].file
  OBVIOUS
<1>4. /\ calls[p].put = Objects!Missing /\ f \in Objects!Seen(p) \cap DOMAIN values
      /\ calls[p].read <= Limit /\ calls[p].read \in Nat
  BY <1>1, <1>2, <1>3 DEF PlaceInv, GetInv, Calls
<1>5. values[f] \in Values /\ values[f].bytes \in Nat /\ values[f].size \in Nat
  <2>1. values \in Seq(Values)
    BY <1>1 DEF StoreTypes
  <2>2. values[f] \in Values
    BY <1>4, <2>1
  <2> QED
    BY <2>2, StoreAssumption DEF Values
<1>6. CASE calls[p].read = values[f].bytes
  <2>1. Objects!Return(p, "value")
    BY <1>3, <1>6 DEF Objects!Read
  <2>2. PICK c \in Calls :
          /\ calls' = [calls EXCEPT ![p] = c] /\ calls'[p] = c
          /\ c.at = "ended" /\ c.put = calls[p].put /\ c.since = calls[p].since
          /\ c.file = calls[p].file /\ c.read = calls[p].read /\ c.answer = "value"
    BY <1>1, <2>1, Returning
  <2>3. values[f].bytes >= values[f].size
    <3>1. PICK i \in calls[p].since..Len(shown) : shown[i] = f
      BY <1>4 DEF Objects!Seen
    <3>2. i \in DOMAIN shown
      BY <1>2, <3>1
    <3>3. f # Objects!Missing /\ f # Objects!Symlink
      <4>1. f \in 1..Len(values) /\ Len(values) <= MaxPuts /\ Len(values) \in Nat
        BY <1>1, <1>4 DEF StoreTypes
      <4> QED
        BY <4>1, StoreAssumption DEF Objects!Missing, Objects!Symlink
    <3> QED
      BY <3>1, <3>2, <3>3 DEF StoreInv, ShownInv
  <2>4. c.read \in values[c.file].size..Limit
    BY <1>3, <1>4, <1>5, <1>6, <2>2, <2>3, StoreAssumption
  <2>5. c.file \in Objects!Seen(p)' \cap DOMAIN values'
    BY <1>1, <1>3, <1>4, <2>2 DEF Objects!Seen
  <2>6. PlaceInv(p)'
    BY <1>1, <1>2, <1>4, <2>2 DEF PlaceInv, InDirectory, InBucket, Opened, Staging, Objects!Missing
  <2>7. PutInv(p)'
    BY <2>2 DEF PutInv
  <2>8. GetInv(p)'
    BY <1>1, <2>2, <2>4, <2>5 DEF GetInv
  <2> QED
    BY <1>1, <2>2, <2>6, <2>7, <2>8, OnlyCalls DEF Staging
<1>7. CASE calls[p].read # values[f].bytes
  <2>1. PICK n \in 1..(values[f].bytes - calls[p].read) :
          IF calls[p].read + n > Limit THEN Objects!Return(p, "large")
          ELSE calls' = [calls EXCEPT ![p].read = @ + n]
    BY <1>3, <1>7 DEF Objects!Read
  <2>2. n \in Nat /\ n <= values[f].bytes - calls[p].read /\ calls[p].read + n <= values[f].bytes
    BY <2>1, <1>4, <1>5
  <2>3. CASE calls[p].read + n > Limit
    <3>1. values[f].bytes > Limit
      BY <2>2, <2>3, <1>4, <1>5, StoreAssumption
    <3> QED
      BY <1>1, <1>4, <2>1, <2>3, <3>1, LargeKeeps DEF Staging
  <2>4. CASE ~(calls[p].read + n > Limit)
    <3>1. PICK c : c = [calls[p] EXCEPT !.read = @ + n]
      OBVIOUS
    <3>2. calls[p].read + n \in Nat /\ calls[p].read + n <= Limit
      BY <2>2, <2>4, <1>4, StoreAssumption
    <3>3. c \in Calls /\ c.at = "read" /\ c.put = calls[p].put /\ c.since = calls[p].since
          /\ c.file = f /\ c.read = calls[p].read + n
      BY <1>1, <1>2, <1>3, <3>1, <3>2 DEF Calls
    <3>4. calls' = [calls EXCEPT ![p] = c] /\ calls'[p] = c
      BY <1>2, <2>1, <2>4, <3>1
    <3>5. c.file \in Objects!Seen(p)' \cap DOMAIN values'
      BY <1>1, <1>4, <3>3, <3>4 DEF Objects!Seen
    <3>6. PlaceInv(p)'
      BY <1>1, <1>2, <1>4, <3>3, <3>4 DEF PlaceInv, InDirectory, InBucket, Opened, Staging, Objects!Missing
    <3>7. PutInv(p)'
      BY <3>3, <3>4 DEF PutInv
    <3>8. GetInv(p)'
      BY <3>2, <3>3, <3>4, <3>5 DEF GetInv
    <3> QED
      BY <1>1, <3>3, <3>4, <3>6, <3>7, <3>8, OnlyCalls DEF Staging
  <2> QED
    BY <2>3, <2>4
<1> QED
  BY <1>6, <1>7

LEMMA CallFailsKeeps == ASSUME StoreInv, NEW p \in Users, Objects!CallFails(p) PROVE StoreInv'
BY ThrowKeeps DEF Objects!CallFails, Staging, StoreInv, StoreTypes

LEMMA RefusedKeeps == ASSUME StoreInv, NEW p \in Users, Objects!RefusedByServer(p) PROVE StoreInv'
BY ThrowKeeps DEF Objects!RefusedByServer, Objects!At, Staging, StoreInv, StoreTypes

LEMMA AcknowledgedKeeps == ASSUME StoreInv, NEW p \in Users, Objects!Acknowledged(p) PROVE StoreInv'
<1>1. /\ calls[p].at = "answer" /\ StoreTypes /\ late \subseteq DOMAIN values
      /\ UNCHANGED <<kind, parent, values, shown, kept, named, late, promised, survived>>
  BY DEF Objects!Acknowledged, Objects!At, StoreInv, StoreTypes
<1>2. /\ PlaceInv(p) /\ calls[p].since \in 1..Len(shown) /\ DOMAIN shown = 1..Len(shown)
      /\ PutInv(p)
  BY ProcessIs
<1>3. PICK c \in Calls :
        /\ calls' = [calls EXCEPT ![p] = c] /\ calls'[p] = c
        /\ c.at = "ended" /\ c.put = calls[p].put /\ c.since = calls[p].since
        /\ c.answer = "stored"
  BY <1>1, Returning DEF Objects!Acknowledged
<1>4. PlaceInv(p)'
  BY <1>1, <1>2, <1>3 DEF PlaceInv, InDirectory, InBucket, Opened, Staging, Objects!Missing
<1>5. PutInv(p)'
  BY <1>1, <1>2, <1>3 DEF PutInv
<1>6. GetInv(p)'
  BY <1>1, <1>2, <1>3 DEF GetInv, PlaceInv, Objects!Missing
<1> QED
  BY <1>1, <1>3, <1>4, <1>5, <1>6, OnlyCalls DEF Staging

LEMMA NoAnswerKeeps == ASSUME StoreInv, NEW p \in Users, Objects!NoAnswer(p) PROVE StoreInv'
<1>1. /\ calls[p].at \in {"send", "answer"} /\ StoreTypes /\ late \subseteq DOMAIN values
      /\ UNCHANGED <<kind, parent, values, shown, kept, named, promised, survived>>
      /\ Objects!Retry(p)
      /\ late' \in IF Objects!Puts(p) /\ Objects!At(p, "send") THEN {late, late \cup {calls[p].put}}
                   ELSE {late}
  BY DEF Objects!NoAnswer, StoreInv, StoreTypes
<1>2. /\ PlaceInv(p) /\ calls[p].since \in 1..Len(shown) /\ DOMAIN shown = 1..Len(shown)
      /\ calls[p] \in Calls /\ calls \in [Users -> Calls]
  BY ProcessIs, <1>1 DEF StoreTypes
<1>3. late' \subseteq DOMAIN values
  BY <1>1, <1>2 DEF Objects!Puts, PlaceInv
<1>4. CASE calls[p].tries + 1 < Attempts
  <2>1. PICK c : c = [calls[p] EXCEPT !.at = "send", !.tries = @ + 1]
    OBVIOUS
  <2>2. c \in Calls /\ c.at = "send" /\ c.put = calls[p].put /\ c.since = calls[p].since
    <3>1. calls[p].tries + 1 \in Nat
      BY <1>2 DEF Calls
    <3> QED
      BY <1>2, <2>1, <3>1 DEF Calls, InBucket
  <2>3. calls' = [calls EXCEPT ![p] = c] /\ calls'[p] = c
    BY <1>1, <1>2, <1>4, <2>1 DEF Objects!Retry
  <2>4. PlaceInv(p)'
    BY <1>1, <1>2, <2>2, <2>3 DEF PlaceInv, InDirectory, InBucket, Opened, Staging, Objects!Missing
  <2>5. PutInv(p)' /\ GetInv(p)'
    BY <2>2, <2>3 DEF PutInv, GetInv
  <2> QED
    BY <1>1, <1>3, <2>2, <2>3, <2>4, <2>5, OnlyCalls DEF Staging
<1>5. CASE ~(calls[p].tries + 1 < Attempts)
  BY <1>1, <1>3, <1>5, ThrowKeeps DEF Objects!Retry, Staging
<1> QED
  BY <1>4, <1>5

LEMMA FetchKeeps == ASSUME StoreInv, NEW p \in Users, Objects!Fetch(p) PROVE StoreInv'
<1>1. /\ calls[p].at = "send" /\ StoreTypes /\ late \subseteq DOMAIN values
      /\ calls[p].put = Objects!Missing
      /\ UNCHANGED <<kind, parent, values, shown, kept, named, late, promised, survived>>
  BY DEF Objects!Fetch, Objects!At, Objects!Puts, StoreInv, StoreTypes
<1>2. /\ PlaceInv(p) /\ calls[p].since \in 1..Len(shown) /\ DOMAIN shown = 1..Len(shown)
      /\ calls[p] \in Calls /\ calls \in [Users -> Calls] /\ Objects!Entry \in Objects!Seen(p)
  BY ProcessIs, <1>1 DEF StoreTypes
<1>3. kind = "bucket"
  BY <1>1, <1>2 DEF PlaceInv, InBucket
<1>4. CASE Objects!Entry = Objects!Missing
  <2>0. Objects!Return(p, "missing")
    BY <1>4 DEF Objects!Fetch
  <2>1. PICK c \in Calls :
          /\ calls' = [calls EXCEPT ![p] = c] /\ calls'[p] = c
          /\ c.at = "ended" /\ c.put = calls[p].put /\ c.since = calls[p].since
          /\ c.answer = "missing"
    BY <1>1, <2>0, Returning
  <2>2. Objects!Missing \in Objects!Seen(p)'
    BY <1>1, <1>2, <1>4, <2>1 DEF Objects!Seen
  <2>3. PlaceInv(p)'
    BY <1>1, <1>2, <2>1 DEF PlaceInv, InDirectory, InBucket, Opened, Staging, Objects!Missing
  <2>4. PutInv(p)'
    BY <2>1 DEF PutInv
  <2>5. GetInv(p)'
    BY <2>1, <2>2 DEF GetInv, Objects!Missing
  <2> QED
    BY <1>1, <2>1, <2>3, <2>4, <2>5, OnlyCalls DEF Staging
<1>5. CASE Objects!Entry # Objects!Missing
  <2>1. PICK f : f = Objects!Entry
    OBVIOUS
  <2>2. f \in DOMAIN values /\ f \in Nat /\ values[f] \in Values /\ values[f].bytes >= values[f].size
    BY <1>3, <1>5, <2>1, EntryIs
  <2>3. CASE values[f].bytes > Limit
    <3>1. Objects!Return(p, "large")
      BY <1>5, <2>1, <2>3 DEF Objects!Fetch
    <3> QED
      BY <1>1, <1>2, <2>1, <2>2, <2>3, <3>1, LargeKeeps DEF Staging
  <2>4. CASE ~(values[f].bytes > Limit)
    <3>1. PICK c : c = [calls[p] EXCEPT !.at = "ended", !.tries = 0, !.answer = "value",
                                        !.file = f, !.read = values[f].bytes]
      OBVIOUS
    <3>2. values[f].bytes \in Nat /\ values[f].size \in Nat
      BY <2>2, StoreAssumption DEF Values
    <3>3. c \in Calls /\ c.at = "ended" /\ c.put = calls[p].put /\ c.since = calls[p].since
          /\ c.file = f /\ c.read = values[f].bytes /\ c.answer = "value"
      BY <1>2, <2>2, <3>1, <3>2 DEF Calls
    <3>4. calls' = [calls EXCEPT ![p] = c] /\ calls'[p] = c
      BY <1>2, <1>5, <2>1, <2>4, <3>1 DEF Objects!Fetch
    <3>5. f \in Objects!Seen(p)'
      BY <1>1, <1>2, <2>1, <3>3, <3>4 DEF Objects!Seen
    <3>6. c.read \in values[f].size..Limit
      BY <2>2, <2>4, <3>2, <3>3, StoreAssumption
    <3>7. PlaceInv(p)'
      BY <1>1, <1>2, <3>3, <3>4 DEF PlaceInv, InDirectory, InBucket, Opened, Staging, Objects!Missing
    <3>8. PutInv(p)'
      BY <3>3, <3>4 DEF PutInv
    <3>9. GetInv(p)'
      BY <1>1, <2>2, <3>3, <3>4, <3>5, <3>6 DEF GetInv
    <3> QED
      BY <1>1, <3>3, <3>4, <3>7, <3>8, <3>9, OnlyCalls DEF Staging
  <2> QED
    BY <2>3, <2>4
<1> QED
  BY <1>4, <1>5
\* The steps of a Put that change more than their call.

\* Values with what has been written of one of them, or another one.
LEMMA ValueIs ==
  ASSUME StoreInv, NEW v \in DOMAIN values
  PROVE  /\ values[v] \in Values /\ values[v].bytes \in Nat /\ values[v].size \in Nat
         /\ v \in Nat /\ v # Objects!Missing /\ v # Objects!Symlink /\ v \in 1..Len(values)
<1>1. values \in Seq(Values) /\ Len(values) <= MaxPuts /\ v \in 1..Len(values) /\ Len(values) \in Nat
  BY DEF StoreInv, StoreTypes
<1>2. values[v] \in Values
  BY <1>1
<1>3. v # Objects!Missing /\ v # Objects!Symlink
  BY <1>1, StoreAssumption DEF Objects!Missing, Objects!Symlink
<1>4. values[v].bytes \in Nat /\ values[v].size \in Nat
  BY <1>2, StoreAssumption DEF Values
<1> QED
  BY <1>1, <1>2, <1>3, <1>4

\* When a value changes, the rest of the state stays sound if no more is said
\* of it than is true.
LEMMA ValueChanges ==
  ASSUME StoreInv, NEW v \in DOMAIN values, NEW w \in Values,
         values' = [values EXCEPT ![v] = w],
         w.size = values[v].size, w.bytes >= values[v].bytes, w.left = values[v].left,
         values[v].synced => w.synced,
         kind = "bucket" => w.bytes <= w.size,
         UNCHANGED <<kind, parent, shown, kept, promised, survived>>
  PROVE  /\ Grows /\ ShownInv' /\ ParentInv' /\ values' \in Seq(Values)
         /\ DOMAIN values' = DOMAIN values /\ Len(values') = Len(values)
         /\ values'[v] = w
<1>1. /\ values \in Seq(Values) /\ shown \in Seq(Nat) /\ Len(shown) \in Nat
      /\ \A u \in DOMAIN values : values[u] \in Values /\ values[u].bytes \in Nat
                                  /\ values[u].size \in Nat
  BY ValueIs DEF StoreInv, StoreTypes
<1>2. /\ values' \in Seq(Values) /\ DOMAIN values' = DOMAIN values
      /\ Len(values') = Len(values) /\ values'[v] = w
      /\ \A u \in DOMAIN values : u # v => values'[u] = values[u]
  BY <1>1
<1>3. w.bytes \in Nat /\ w.size \in Nat
  BY StoreAssumption DEF Values
<1>4. \A u \in DOMAIN values :
        /\ values'[u].size = values[u].size /\ values'[u].bytes >= values[u].bytes
        /\ values[u].synced => values'[u].synced
        /\ values[u].left => values'[u].left
        /\ values[u].bytes >= values[u].size => values'[u].bytes >= values'[u].size
  <2>1. ASSUME NEW u \in DOMAIN values, u = v
        PROVE  /\ values'[u].size = values[u].size /\ values'[u].bytes >= values[u].bytes
               /\ values[u].synced => values'[u].synced
               /\ values[u].left => values'[u].left
               /\ values[u].bytes >= values[u].size => values'[u].bytes >= values'[u].size
    BY <2>1, <1>1, <1>2, <1>3
  <2>2. ASSUME NEW u \in DOMAIN values, u # v
        PROVE  /\ values'[u].size = values[u].size /\ values'[u].bytes >= values[u].bytes
               /\ values[u].synced => values'[u].synced
               /\ values[u].left => values'[u].left
               /\ values[u].bytes >= values[u].size => values'[u].bytes >= values'[u].size
    BY <2>2, <1>1, <1>2
  <2> QED
    BY <2>1, <2>2
<1>5. Grows
  BY <1>1, <1>2, <1>4 DEF Grows
<1>6. ShownInv'
  <2>1. ASSUME NEW i \in DOMAIN shown
        PROVE  \/ shown[i] = Objects!Missing
               \/ shown[i] = Objects!Symlink /\ kind = "directory"
               \/ /\ shown[i] \in DOMAIN values'
                  /\ values'[shown[i]].bytes >= values'[shown[i]].size
                  /\ kind = "directory" => values'[shown[i]].synced
    BY <1>2, <1>4 DEF StoreInv, ShownInv
  <2>2. ASSUME kind = "bucket"
        PROVE  /\ \A u \in DOMAIN values' : values'[u].bytes <= values'[u].size
               /\ parent = "missing" /\ promised = 1
    BY <2>2, <1>2 DEF StoreInv, ShownInv
  <2> QED
    BY <2>1, <2>2 DEF ShownInv, Objects!Missing, Objects!Symlink
<1>7. ParentInv'
  BY DEF StoreInv, ParentInv, Objects!Missing
<1> QED
  BY <1>2, <1>5, <1>6, <1>7
\* Where a Put is staged, it has a value.
LEMMA PutIs ==
  ASSUME StoreInv, NEW p \in Users,
         calls[p].at \in Staging \cup {"look", "create", "parent sync", "answer"}
                \/ (calls[p].at = "send" /\ Objects!Puts(p))
  PROVE  calls[p].put \in DOMAIN values
BY ProcessIs DEF PlaceInv, Objects!Puts

\* Nothing moves but the values, or names go.
LEMMA CallsStay ==
  ASSUME StoreInv, StoreTypes', Grows, ShownInv', ParentInv', calls' = calls,
         named' \subseteq named
  PROVE  StoreInv'
<1>1. \A q \in Users : CallInv(q)'
  BY CallKept
<1>2. NamedInv'
  BY DEF StoreInv, StoreTypes, NamedInv, Grows
<1> QED
  BY <1>1, <1>2 DEF StoreInv

LEMMA CreateTemporaryKeeps ==
  ASSUME StoreInv, NEW p \in Users, Objects!CreateTemporary(p) PROVE StoreInv'
<1>1. /\ calls[p].at = "create" /\ StoreTypes /\ named' = named \cup {calls[p].put}
      /\ Objects!Go(p, "write")
      /\ UNCHANGED <<kind, parent, values, shown, kept, late, promised, survived>>
  BY DEF Objects!CreateTemporary, Objects!At, StoreInv
<1>2. /\ PlaceInv(p) /\ calls[p].since \in 1..Len(shown) /\ DOMAIN shown = 1..Len(shown)
      /\ Len(shown) \in Nat /\ calls[p].put \in DOMAIN values
  BY <1>1, ProcessIs, PutIs
<1>3. PICK c \in Calls :
        /\ calls' = [calls EXCEPT ![p] = c] /\ calls'[p] = c
        /\ c.at = "write" /\ c.put = calls[p].put /\ c.since = calls[p].since
  BY <1>1, Going
<1>4. CallInv(p)'
  <2>1. PlaceInv(p)'
    BY <1>1, <1>2, <1>3 DEF PlaceInv, InDirectory, InBucket, Opened, Staging, Objects!Missing
  <2>2. PutInv(p)' /\ GetInv(p)'
    BY <1>3 DEF PutInv, GetInv
  <2> QED
    BY <2>1, <2>2 DEF CallInv
<1>5. StoreTypes'
  BY <1>1, <1>2, <1>3 DEF StoreTypes
<1>6. Grows
  <2>1. \A v \in DOMAIN values : values[v].bytes \in Nat
    BY ValueIs
  <2> QED
    BY <1>1, <1>2, <2>1 DEF Grows
<1>7. ShownInv' /\ ParentInv'
  <2>1. ShownInv'
    BY <1>1 DEF StoreInv, ShownInv, Objects!Missing, Objects!Symlink
  <2>2. ParentInv'
    BY <1>1 DEF StoreInv, ParentInv, Objects!Missing
  <2> QED
    BY <2>1, <2>2
<1>8. \A v \in named' : \/ v \in named /\ ~(calls[p].at \in Staging /\ calls[p].put = v)
                        \/ v \in DOMAIN values' /\ values'[v].left
                        \/ c.at \in Staging /\ c.put = v
  BY <1>1, <1>3 DEF Staging
<1>9. NamedInv' /\ \A q \in Users : CallInv(q)'
  BY <1>3, <1>4, <1>5, <1>6, <1>8, CallMoves
<1> QED
  BY <1>5, <1>7, <1>9 DEF StoreInv

LEMMA WriteKeeps == ASSUME StoreInv, NEW p \in Users, Objects!Write(p) PROVE StoreInv'
<1>1. /\ calls[p].at = "write" /\ StoreTypes /\ late \subseteq DOMAIN values
      /\ UNCHANGED <<kind, parent, shown, kept, named, late, promised, survived>>
  BY DEF Objects!Write, Objects!At, StoreInv, StoreTypes
<1>2. /\ PlaceInv(p) /\ calls[p].since \in 1..Len(shown) /\ DOMAIN shown = 1..Len(shown)
      /\ calls[p].put \in DOMAIN values /\ kind \in {"directory", "bucket"}
  BY <1>1, ProcessIs, PutIs DEF Staging, StoreTypes
<1>3. kind = "directory"
  BY <1>1, <1>2 DEF PlaceInv, InDirectory
<1>4. PICK v \in DOMAIN values : v = calls[p].put
  BY <1>2
<1>5. values[v] \in Values /\ values[v].bytes \in Nat /\ values[v].size \in Nat
  BY ValueIs
<1>6. CASE values[v].bytes < values[v].size
  <2>1. PICK n \in (values[v].bytes + 1)..values[v].size :
          values' = [values EXCEPT ![v].bytes = n] /\ calls' = calls
    BY <1>4, <1>6 DEF Objects!Write
  <2>2. n \in Nat /\ n >= values[v].bytes
    BY <2>1, <1>5
  <2>3. PICK w : w = [values[v] EXCEPT !.bytes = n]
    OBVIOUS
  <2>4. w \in Values /\ w.size = values[v].size /\ w.bytes = n /\ w.left = values[v].left
        /\ w.synced = values[v].synced
    BY <1>5, <2>2, <2>3 DEF Values
  <2>5. values' = [values EXCEPT ![v] = w]
    BY <2>1, <2>3
  <2>6. /\ Grows /\ ShownInv' /\ ParentInv' /\ values' \in Seq(Values)
        /\ DOMAIN values' = DOMAIN values /\ Len(values') = Len(values)
    BY <1>1, <1>3, <2>2, <2>4, <2>5, ValueChanges
  <2>7. StoreTypes'
    BY <1>1, <2>1, <2>6 DEF StoreTypes
  <2> QED
    BY <1>1, <2>1, <2>6, <2>7, CallsStay
<1>7. CASE ~(values[v].bytes < values[v].size)
  <2>1. Objects!Go(p, "sync") /\ values' = values
    BY <1>4, <1>7 DEF Objects!Write
  <2>2. PICK c \in Calls :
          /\ calls' = [calls EXCEPT ![p] = c] /\ calls'[p] = c
          /\ c.at = "sync" /\ c.put = calls[p].put /\ c.since = calls[p].since
    BY <1>1, <2>1, Going
  <2>3. PlaceInv(p)'
    BY <1>1, <1>2, <2>1, <2>2 DEF PlaceInv, InDirectory, InBucket, Opened, Staging, Objects!Missing
  <2>4. PutInv(p)'
    <3>1. values'[c.put].bytes >= values'[c.put].size
      BY <1>4, <1>5, <1>7, <2>1, <2>2
    <3> QED
      BY <2>2, <3>1 DEF PutInv
  <2>5. GetInv(p)'
    BY <2>2 DEF GetInv
  <2> QED
    BY <1>1, <2>1, <2>2, <2>3, <2>4, <2>5, OnlyCalls DEF Staging
<1> QED
  BY <1>6, <1>7

LEMMA SyncKeeps == ASSUME StoreInv, NEW p \in Users, Objects!Sync(p) PROVE StoreInv'
<1>1. /\ calls[p].at = "sync" /\ StoreTypes /\ late \subseteq DOMAIN values
      /\ UNCHANGED <<kind, parent, shown, kept, named, late, promised, survived>>
      /\ Objects!Go(p, "rename")
  BY DEF Objects!Sync, Objects!At, StoreInv, StoreTypes
<1>2. /\ PlaceInv(p) /\ PutInv(p) /\ calls[p].since \in 1..Len(shown) /\ DOMAIN shown = 1..Len(shown)
      /\ calls[p].put \in DOMAIN values /\ kind \in {"directory", "bucket"}
  BY <1>1, ProcessIs, PutIs DEF Staging, StoreTypes
<1>3. kind = "directory"
  BY <1>1, <1>2 DEF PlaceInv, InDirectory
<1>4. PICK v \in DOMAIN values : v = calls[p].put
  BY <1>2
<1>5. values[v] \in Values /\ values[v].bytes \in Nat /\ values[v].size \in Nat
      /\ values[v].bytes >= values[v].size
  BY <1>1, <1>2, <1>4, ValueIs DEF PutInv
<1>6. PICK w : w = [values[v] EXCEPT !.synced = TRUE]
  OBVIOUS
<1>7. w \in Values /\ w.size = values[v].size /\ w.bytes = values[v].bytes /\ w.left = values[v].left
      /\ w.synced = TRUE /\ w.bytes >= values[v].bytes
  <2>1. w \in Values
    BY <1>5, <1>6 DEF Values
  <2>2. w.size = values[v].size /\ w.bytes = values[v].bytes /\ w.left = values[v].left
        /\ w.synced = TRUE
    BY <1>5, <1>6 DEF Values
  <2> QED
    BY <2>1, <2>2, <1>5
<1>8. values' = [values EXCEPT ![v] = w]
  BY <1>4, <1>6 DEF Objects!Sync
<1>9. /\ Grows /\ ShownInv' /\ ParentInv' /\ values' \in Seq(Values)
      /\ DOMAIN values' = DOMAIN values /\ Len(values') = Len(values) /\ values'[v] = w
  BY <1>1, <1>3, <1>7, <1>8, ValueChanges
<1>10. PICK c \in Calls :
         /\ calls' = [calls EXCEPT ![p] = c] /\ calls'[p] = c
         /\ c.at = "rename" /\ c.put = calls[p].put /\ c.since = calls[p].since
  BY <1>1, Going
<1>11. StoreTypes'
  BY <1>1, <1>9, <1>10 DEF StoreTypes
<1>12. CallInv(p)'
  <2>1. PlaceInv(p)'
    BY <1>1, <1>2, <1>9, <1>10 DEF PlaceInv, InDirectory, InBucket, Opened, Staging, Objects!Missing
  <2>2. PutInv(p)'
    <3>1. values'[c.put].bytes >= values'[c.put].size /\ values'[c.put].synced
      BY <1>4, <1>5, <1>7, <1>9, <1>10
    <3> QED
      BY <1>10, <3>1 DEF PutInv
  <2>3. GetInv(p)'
    BY <1>10 DEF GetInv
  <2> QED
    BY <2>1, <2>2, <2>3 DEF CallInv
<1>13. \A u \in named' : \/ u \in named /\ ~(calls[p].at \in Staging /\ calls[p].put = u)
                         \/ u \in DOMAIN values' /\ values'[u].left
                         \/ c.at \in Staging /\ c.put = u
  BY <1>1, <1>10 DEF Staging
<1>14. NamedInv' /\ \A q \in Users : CallInv(q)'
  BY <1>9, <1>10, <1>11, <1>12, <1>13, CallMoves
<1> QED
  BY <1>9, <1>11, <1>14 DEF StoreInv
\* The entry becomes something else.
LEMMA Shows ==
  ASSUME StoreInv, NEW v \in Nat, Objects!Show(v)
  PROVE  /\ shown' \in Seq(Nat) /\ Len(shown') = Len(shown) + 1 /\ Len(shown) \in Nat
         /\ DOMAIN shown = 1..Len(shown) /\ DOMAIN shown' = 1..(Len(shown) + 1)
         /\ \A i \in 1..Len(shown) : shown'[i] = shown[i]
         /\ shown'[Len(shown) + 1] = v
         /\ Len(shown) >= 1 /\ kept \in 1..Len(shown) /\ promised \in 1..kept
<1>1. shown \in Seq(Nat) /\ Len(shown) >= 1 /\ kept \in 1..Len(shown) /\ promised \in 1..kept
  BY DEF StoreInv, StoreTypes
<1>2. shown' = Append(shown, v)
  BY DEF Objects!Show
<1> QED
  BY <1>1, <1>2

LEMMA RenameKeeps == ASSUME StoreInv, NEW p \in Users, Objects!Rename(p) PROVE StoreInv'
<1>1. /\ calls[p].at = "rename" /\ StoreTypes /\ late \subseteq DOMAIN values
      /\ UNCHANGED <<kind, parent, values, kept, late, promised, survived>>
      /\ Objects!Show(calls[p].put) /\ named' = named \ {calls[p].put}
      /\ calls' = [calls EXCEPT ![p].at = "parent sync", ![p].since = Len(shown')]
  BY DEF Objects!Rename, Objects!At, StoreInv, StoreTypes
<1>2. /\ PlaceInv(p) /\ PutInv(p) /\ calls[p] \in Calls /\ calls \in [Users -> Calls]
      /\ calls[p].put \in DOMAIN values
  BY <1>1, ProcessIs, PutIs DEF Staging, StoreTypes
<1>3. kind = "directory" /\ parent # "missing"
  BY <1>1, <1>2 DEF PlaceInv, InDirectory, Opened
<1>4. PICK v \in DOMAIN values : v = calls[p].put
  BY <1>2
<1>5. /\ values[v].bytes >= values[v].size /\ values[v].synced /\ v \in Nat /\ v # Objects!Missing
  BY <1>1, <1>2, <1>4, ValueIs DEF PutInv
<1>6. /\ shown' \in Seq(Nat) /\ Len(shown') = Len(shown) + 1 /\ Len(shown) \in Nat
      /\ DOMAIN shown = 1..Len(shown) /\ DOMAIN shown' = 1..(Len(shown) + 1)
      /\ \A i \in 1..Len(shown) : shown'[i] = shown[i]
      /\ shown'[Len(shown) + 1] = v
      /\ Len(shown) >= 1 /\ kept \in 1..Len(shown) /\ promised \in 1..kept
  BY <1>1, <1>4, <1>5, Shows
<1>7. PICK c : c = [calls[p] EXCEPT !.at = "parent sync", !.since = Len(shown')]
  OBVIOUS
<1>8. c \in Calls /\ c.at = "parent sync" /\ c.put = calls[p].put /\ c.since = Len(shown) + 1
  <2>1. Len(shown') \in Nat
    BY <1>6
  <2> QED
    BY <1>2, <1>6, <1>7, <2>1 DEF Calls, InDirectory
<1>9. calls' = [calls EXCEPT ![p] = c] /\ calls'[p] = c
  BY <1>1, <1>2, <1>7
<1>10. StoreTypes'
  <2>1. kept \in 1..Len(shown') /\ Len(shown') >= 1
    BY <1>6
  <2>2. kept' \in 1..Len(shown') /\ promised' \in 1..kept'
    BY <2>1, <1>1, <1>6
  <2>3. calls' \in [Users -> Calls]
    BY <1>2, <1>8, <1>9
  <2>4. named' \subseteq DOMAIN values' /\ late' \subseteq DOMAIN values'
    BY <1>1 DEF StoreTypes
  <2>5. /\ kind' \in {"directory", "bucket"} /\ parent' \in {"missing", "new", "lasting"}
        /\ values' \in Seq(Values) /\ Len(values') <= MaxPuts /\ survived' \in Nat \X Nat
    BY <1>1 DEF StoreTypes
  <2> QED
    BY <1>6, <2>1, <2>2, <2>3, <2>4, <2>5 DEF StoreTypes
<1>11. Grows
  <2>1. \A u \in DOMAIN values : values[u].bytes >= values[u].bytes
    BY ValueIs
  <2>2. Len(shown) <= Len(shown')
    BY <1>6
  <2>3. values' = values /\ kind' = kind /\ parent' = parent
    BY <1>1
  <2>4. \A i \in 1..Len(shown) : shown'[i] = shown[i]
    BY <1>6
  <2> QED
    BY <2>1, <2>2, <2>3, <2>4 DEF Grows
<1>12. ShownInv'
  <2>1. ASSUME NEW i \in DOMAIN shown'
        PROVE  \/ shown'[i] = Objects!Missing
               \/ shown'[i] = Objects!Symlink /\ kind = "directory"
               \/ /\ shown'[i] \in DOMAIN values
                  /\ values[shown'[i]].bytes >= values[shown'[i]].size
                  /\ kind = "directory" => values[shown'[i]].synced
    <3>1. i \in DOMAIN shown \/ i = Len(shown) + 1
      BY <1>6
    <3>2. CASE i \in DOMAIN shown
      BY <3>2, <1>6 DEF StoreInv, ShownInv
    <3>3. CASE i = Len(shown) + 1
      BY <3>3, <1>5, <1>6
    <3> QED
      BY <3>1, <3>2, <3>3
  <2> QED
    BY <2>1, <1>1, <1>3 DEF ShownInv, Objects!Missing, Objects!Symlink
<1>13. ParentInv'
  BY <1>1, <1>3 DEF StoreInv, ParentInv
<1>14. CallInv(p)'
  <2>1. PlaceInv(p)'
    <3>1. c.since \in DOMAIN shown'
      <4>1. Len(shown) + 1 \in 1..(Len(shown) + 1)
        BY <1>6
      <4>2. c.since = Len(shown) + 1 /\ DOMAIN shown' = 1..(Len(shown) + 1)
        BY <1>6, <1>8
      <4> QED
        BY <4>1, <4>2
    <3>2. c.put \in DOMAIN values' /\ c.put # Objects!Missing /\ c.at = "parent sync"
      BY <1>1, <1>4, <1>5, <1>8
    <3>3. kind' = "directory" /\ parent' # "missing"
      BY <1>1, <1>3
    <3> QED
      BY <1>9, <3>1, <3>2, <3>3
         DEF PlaceInv, InDirectory, InBucket, Opened, Staging, Objects!Missing
  <2>2. PutInv(p)'
    BY <1>4, <1>6, <1>8, <1>9 DEF PutInv
  <2>3. GetInv(p)'
    BY <1>8, <1>9 DEF GetInv
  <2> QED
    BY <2>1, <2>2, <2>3 DEF CallInv
<1>15. \A u \in named' : \/ u \in named /\ ~(calls[p].at \in Staging /\ calls[p].put = u)
                         \/ u \in DOMAIN values' /\ values'[u].left
                         \/ c.at \in Staging /\ c.put = u
  BY <1>1
<1>16. NamedInv' /\ \A q \in Users : CallInv(q)'
  BY <1>9, <1>10, <1>11, <1>14, <1>15, CallMoves
<1> QED
  BY <1>10, <1>12, <1>13, <1>16 DEF StoreInv

LEMMA AbandonKeeps == ASSUME StoreInv, NEW p \in Users, Objects!Abandon(p) PROVE StoreInv'
<1>1. /\ StoreTypes /\ late \subseteq DOMAIN values
      /\ UNCHANGED <<kind, parent, values, shown, kept, late, promised, survived>>
      /\ named' = named \ {calls[p].put} /\ Objects!Throw(p)
  BY DEF Objects!Abandon, StoreInv, StoreTypes
<1>2. PICK c \in Calls :
        /\ calls' = [calls EXCEPT ![p] = c] /\ calls'[p] = c
        /\ c.at = "ended" /\ c.put = Objects!Missing /\ c.since = 1 /\ c.answer = "none"
  BY <1>1, Throwing
<1>3. CallInv(p)'
  <2>1. 1 \in DOMAIN shown'
    BY <1>1 DEF StoreTypes
  <2> QED
    BY <1>2, <2>1, ThrownIs DEF CallInv
<1>4. StoreTypes'
  BY <1>1, <1>2 DEF StoreTypes
<1>5. Grows
  <2>1. \A u \in DOMAIN values : values[u].bytes \in Nat
    BY ValueIs
  <2>2. Len(shown) \in Nat
    BY <1>1 DEF StoreTypes
  <2> QED
    BY <1>1, <2>1, <2>2 DEF Grows
<1>6. ShownInv' /\ ParentInv'
  <2>1. ShownInv'
    BY <1>1 DEF StoreInv, ShownInv, Objects!Missing, Objects!Symlink
  <2>2. ParentInv'
    BY <1>1 DEF StoreInv, ParentInv, Objects!Missing
  <2> QED
    BY <2>1, <2>2
<1>7. \A u \in named' : \/ u \in named /\ ~(calls[p].at \in Staging /\ calls[p].put = u)
                        \/ u \in DOMAIN values' /\ values'[u].left
                        \/ c.at \in Staging /\ c.put = u
  BY <1>1
<1>8. NamedInv' /\ \A q \in Users : CallInv(q)'
  BY <1>2, <1>3, <1>4, <1>5, <1>7, CallMoves
<1> QED
  BY <1>4, <1>6, <1>8 DEF StoreInv

LEMMA SyncParentKeeps == ASSUME StoreInv, NEW p \in Users, Objects!SyncParent(p) PROVE StoreInv'
<1>1. /\ calls[p].at = "parent sync" /\ StoreTypes /\ late \subseteq DOMAIN values
      /\ UNCHANGED <<kind, parent, values, shown, named, late, survived>>
      /\ Objects!Return(p, "stored")
      /\ \/ /\ kept' = Len(shown)
            /\ promised' = IF parent = "lasting" /\ calls[p].since > promised
                           THEN calls[p].since ELSE promised
         \/ UNCHANGED <<kept, promised>>
  BY DEF Objects!SyncParent, Objects!At, StoreInv, StoreTypes
<1>2. /\ PlaceInv(p) /\ PutInv(p) /\ calls[p].since \in 1..Len(shown) /\ DOMAIN shown = 1..Len(shown)
      /\ Len(shown) \in Nat
  BY <1>1, ProcessIs
<1>3. kind = "directory" /\ parent # "missing"
      /\ kept \in 1..Len(shown) /\ promised \in 1..kept
  BY <1>1, <1>2 DEF PlaceInv, InDirectory, Opened, StoreTypes
<1>4. PICK c \in Calls :
        /\ calls' = [calls EXCEPT ![p] = c] /\ calls'[p] = c
        /\ c.at = "ended" /\ c.put = calls[p].put /\ c.since = calls[p].since
        /\ c.answer = "stored"
  BY <1>1, Returning
<1>5. kept' \in 1..Len(shown) /\ promised' \in 1..kept' /\ (parent # "lasting" => promised' = promised)
  <2>1. CASE UNCHANGED <<kept, promised>>
    BY <2>1, <1>3
  <2>2. CASE /\ kept' = Len(shown)
             /\ promised' = IF parent = "lasting" /\ calls[p].since > promised
                            THEN calls[p].since ELSE promised
    <3>1. promised \in 1..Len(shown) /\ Len(shown) \in 1..Len(shown)
      BY <1>2, <1>3
    <3>2. promised' = promised \/ (promised' = calls[p].since /\ parent = "lasting")
      BY <2>2
    <3> QED
      BY <2>2, <3>1, <3>2, <1>2
  <2> QED
    BY <1>1, <2>1, <2>2
<1>6. StoreTypes'
  BY <1>1, <1>4, <1>5 DEF StoreTypes
<1>7. Grows
  <2>1. \A u \in DOMAIN values : values[u].bytes >= values[u].bytes
    BY ValueIs
  <2>2. values' = values /\ kind' = kind /\ parent' = parent /\ shown' = shown
    BY <1>1
  <2>3. Len(shown) <= Len(shown)
    BY <1>2
  <2> QED
    BY <2>1, <2>2, <2>3 DEF Grows
<1>8. ShownInv' /\ ParentInv'
  <2>1. ShownInv'
    BY <1>1, <1>3 DEF StoreInv, ShownInv, Objects!Missing, Objects!Symlink
  <2>2. ParentInv'
    BY <1>1, <1>3, <1>5 DEF StoreInv, ParentInv, Objects!Missing
  <2> QED
    BY <2>1, <2>2
<1>9. CallInv(p)'
  <2>1. PlaceInv(p)'
    BY <1>1, <1>2, <1>4 DEF PlaceInv, InDirectory, InBucket, Opened, Staging, Objects!Missing
  <2>2. PutInv(p)'
    BY <1>1, <1>2, <1>4 DEF PutInv
  <2>3. GetInv(p)'
    BY <1>1, <1>2, <1>4 DEF GetInv, PlaceInv, Objects!Missing
  <2> QED
    BY <2>1, <2>2, <2>3 DEF CallInv
<1>10. \A u \in named' : \/ u \in named /\ ~(calls[p].at \in Staging /\ calls[p].put = u)
                         \/ u \in DOMAIN values' /\ values'[u].left
                         \/ c.at \in Staging /\ c.put = u
  BY <1>1 DEF Staging
<1>11. NamedInv' /\ \A q \in Users : CallInv(q)'
  BY <1>4, <1>6, <1>7, <1>9, <1>10, CallMoves
<1> QED
  BY <1>6, <1>8, <1>11 DEF StoreInv

\* The steps that put a new value, or show one.
LEMMA StartPutKeeps == ASSUME StoreInv, NEW p \in Users, Objects!StartPut(p) PROVE StoreInv'
<1>1. PICK size \in Sizes :
        values' = Append(values, [size |-> size, bytes |-> 0, synced |-> FALSE, left |-> FALSE])
  BY DEF Objects!StartPut
<1>2. PICK w : w = [size |-> size, bytes |-> 0, synced |-> FALSE, left |-> FALSE]
  OBVIOUS
<1>3. w \in Values /\ w.bytes = 0 /\ w.size = size /\ size \in Nat /\ w.bytes <= w.size
  <2>1. size \in Nat
    BY StoreAssumption
  <2> QED
    BY <1>2, <2>1 DEF Values
<1>4. /\ calls[p].at = "ended" /\ StoreTypes /\ Len(values) < MaxPuts
      /\ calls' = [calls EXCEPT ![p] = [Objects!Idle EXCEPT !.at = Objects!First, !.put = Len(values')]]
      /\ UNCHANGED <<kind, parent, shown, kept, named, late, promised, survived>>
      /\ calls \in [Users -> Calls] /\ kind \in {"directory", "bucket"}
      /\ values \in Seq(Values) /\ Len(values) \in Nat /\ DOMAIN values = 1..Len(values)
      /\ Len(shown) \in Nat /\ Len(shown) >= 1 /\ DOMAIN shown = 1..Len(shown)
  BY DEF Objects!StartPut, Objects!At, StoreInv, StoreTypes
<1>5. /\ values' \in Seq(Values) /\ Len(values') = Len(values) + 1
      /\ DOMAIN values' = 1..(Len(values) + 1) /\ values'[Len(values) + 1] = w
      /\ \A v \in DOMAIN values : v \in DOMAIN values' /\ values'[v] = values[v]
  BY <1>1, <1>2, <1>3, <1>4
<1>6. PICK c : c = [Objects!Idle EXCEPT !.at = Objects!First, !.put = Len(values')]
  OBVIOUS
<1>7. /\ c \in Calls /\ c.at = Objects!First /\ c.put = Len(values) + 1 /\ c.since = 1
      /\ c.read = 0
  <2>1. Len(values') \in Nat
    BY <1>4, <1>5
  <2> QED
    BY <1>4, <1>5, <1>6, <2>1
       DEF Objects!Idle, Objects!First, Objects!Missing, Calls, InDirectory, InBucket
<1>8. calls' = [calls EXCEPT ![p] = c] /\ calls'[p] = c
  BY <1>4, <1>6
<1>9. c.put \in DOMAIN values' /\ c.put # Objects!Missing
  BY <1>4, <1>5, <1>7 DEF Objects!Missing
<1>10. StoreTypes'
  <2>1. Len(values') <= MaxPuts
    BY <1>4, <1>5, StoreAssumption
  <2>2. named' \subseteq DOMAIN values' /\ late' \subseteq DOMAIN values'
    BY <1>4, <1>5 DEF StoreTypes
  <2>3. calls' \in [Users -> Calls]
    BY <1>4, <1>7, <1>8
  <2> QED
    BY <1>4, <1>5, <2>1, <2>2, <2>3 DEF StoreTypes
<1>11. Grows
  <2>1. \A v \in DOMAIN values : values[v].bytes >= values[v].bytes
    BY ValueIs
  <2>2. DOMAIN values \subseteq DOMAIN values'
    BY <1>5
  <2>3. Len(shown) <= Len(shown)
    BY <1>4
  <2> QED
    BY <1>4, <1>5, <2>1, <2>2, <2>3 DEF Grows
<1>12. ShownInv'
  <2>1. ASSUME NEW i \in DOMAIN shown
        PROVE  \/ shown[i] = Objects!Missing
               \/ shown[i] = Objects!Symlink /\ kind = "directory"
               \/ /\ shown[i] \in DOMAIN values'
                  /\ values'[shown[i]].bytes >= values'[shown[i]].size
                  /\ kind = "directory" => values'[shown[i]].synced
    BY <1>5 DEF StoreInv, ShownInv
  <2>2. ASSUME kind = "bucket"
        PROVE  /\ \A u \in DOMAIN values' : values'[u].bytes <= values'[u].size
               /\ parent = "missing" /\ promised = 1
    <3>1. \A u \in DOMAIN values' : u \in DOMAIN values \/ u = Len(values) + 1
      BY <1>4, <1>5
    <3> QED
      BY <2>2, <3>1, <1>3, <1>5 DEF StoreInv, ShownInv
  <2> QED
    BY <1>4, <2>1, <2>2 DEF ShownInv, Objects!Missing, Objects!Symlink
<1>13. ParentInv'
  BY <1>4 DEF StoreInv, ParentInv, Objects!Missing
<1>14. CallInv(p)'
  <2>1. c.at = IF kind = "directory" THEN "parent" ELSE "send"
    BY <1>7 DEF Objects!First
  <2>2. PlaceInv(p)'
    <3>1. c.at \in {"parent", "send"} /\ (c.at = "parent" => kind' = "directory")
          /\ (c.at = "send" => kind' = "bucket")
      BY <1>4, <2>1
    <3>2. c.since \in DOMAIN shown'
      BY <1>4, <1>7
    <3> QED
      BY <3>1, <3>2, <1>8, <1>9
         DEF PlaceInv, InDirectory, InBucket, Opened, Staging, Objects!Missing
  <2>3. PutInv(p)' /\ GetInv(p)'
    BY <2>1, <1>7, <1>8 DEF PutInv, GetInv
  <2> QED
    BY <2>2, <2>3 DEF CallInv
<1>15. \A u \in named' : \/ u \in named /\ ~(calls[p].at \in Staging /\ calls[p].put = u)
                         \/ u \in DOMAIN values' /\ values'[u].left
                         \/ c.at \in Staging /\ c.put = u
  BY <1>4 DEF Staging
<1>16. NamedInv' /\ \A q \in Users : CallInv(q)'
  BY <1>8, <1>10, <1>11, <1>14, <1>15, CallMoves
<1> QED
  BY <1>10, <1>12, <1>13, <1>16 DEF StoreInv

\* A value that a bucket takes is whole when it is shown.
LEMMA Arrival ==
  ASSUME StoreInv, kind = "bucket", NEW v \in DOMAIN values,
         Objects!Show(v), Objects!Whole(v), kept' = Len(shown'),
         UNCHANGED <<kind, parent, named, promised, survived>>,
         late' \subseteq DOMAIN values, calls' \in [Users -> Calls]
  PROVE  /\ StoreTypes' /\ Grows /\ ShownInv' /\ ParentInv'
         /\ Len(shown) + 1 \in DOMAIN shown' /\ shown'[Len(shown) + 1] = v
         /\ Len(shown) \in Nat /\ DOMAIN values' = DOMAIN values
<1>1. /\ StoreTypes /\ values \in Seq(Values) /\ Len(values) <= MaxPuts
      /\ named \subseteq DOMAIN values /\ v \in Nat /\ v # Objects!Missing
      /\ parent = "missing" /\ promised = 1
      /\ \A u \in DOMAIN values : values[u] \in Values /\ values[u].bytes \in Nat
                                  /\ values[u].size \in Nat /\ values[u].bytes <= values[u].size
  BY ValueIs DEF StoreInv, StoreTypes, ShownInv
<1>2. /\ shown' \in Seq(Nat) /\ Len(shown') = Len(shown) + 1 /\ Len(shown) \in Nat
      /\ DOMAIN shown = 1..Len(shown) /\ DOMAIN shown' = 1..(Len(shown) + 1)
      /\ \A i \in 1..Len(shown) : shown'[i] = shown[i]
      /\ shown'[Len(shown) + 1] = v
      /\ Len(shown) >= 1 /\ kept \in 1..Len(shown) /\ promised \in 1..kept
  BY <1>1, Shows
<1>3. PICK w : w = [values[v] EXCEPT !.bytes = values[v].size]
  OBVIOUS
<1>4. w \in Values /\ w.bytes = values[v].size /\ w.size = values[v].size
      /\ w.left = values[v].left /\ w.synced = values[v].synced
  BY <1>1, <1>3 DEF Values
<1>5. values' = [values EXCEPT ![v] = w]
  BY <1>3 DEF Objects!Whole
<1>6. /\ values' \in Seq(Values) /\ DOMAIN values' = DOMAIN values
      /\ Len(values') = Len(values) /\ values'[v] = w
      /\ \A u \in DOMAIN values : u # v => values'[u] = values[u]
  BY <1>1, <1>4, <1>5
<1>7. \A u \in DOMAIN values :
        /\ values'[u].size = values[u].size /\ values'[u].bytes >= values[u].bytes
        /\ values[u].synced => values'[u].synced
        /\ values[u].left => values'[u].left
        /\ values'[u].bytes <= values'[u].size
        /\ values[u].bytes >= values[u].size => values'[u].bytes >= values'[u].size
  <2>1. ASSUME NEW u \in DOMAIN values, u = v
        PROVE  /\ values'[u].size = values[u].size /\ values'[u].bytes >= values[u].bytes
               /\ values[u].synced => values'[u].synced
               /\ values[u].left => values'[u].left
               /\ values'[u].bytes <= values'[u].size
               /\ values[u].bytes >= values[u].size => values'[u].bytes >= values'[u].size
    BY <2>1, <1>1, <1>4, <1>6
  <2>2. ASSUME NEW u \in DOMAIN values, u # v
        PROVE  /\ values'[u].size = values[u].size /\ values'[u].bytes >= values[u].bytes
               /\ values[u].synced => values'[u].synced
               /\ values[u].left => values'[u].left
               /\ values'[u].bytes <= values'[u].size
               /\ values[u].bytes >= values[u].size => values'[u].bytes >= values'[u].size
    BY <2>2, <1>1, <1>6
  <2> QED
    BY <2>1, <2>2
<1>8. Len(shown) + 1 \in 1..(Len(shown) + 1) /\ Len(shown) <= Len(shown) + 1
  BY <1>2
<1>9. StoreTypes'
  <2>1. kept' \in 1..Len(shown') /\ promised' \in 1..kept' /\ Len(shown') >= 1
    <3>1. promised' = 1 /\ kept' = Len(shown) + 1 /\ Len(shown') = Len(shown) + 1
      BY <1>1, <1>2
    <3> QED
      BY <3>1, <1>2
  <2>2. named' \subseteq DOMAIN values' /\ late' \subseteq DOMAIN values'
    BY <1>1, <1>6
  <2> QED
    BY <1>1, <1>2, <1>6, <2>1, <2>2 DEF StoreTypes
<1>10. Grows
  <2>1. DOMAIN values \subseteq DOMAIN values' /\ kind' = kind /\ parent' = parent
    BY <1>6
  <2>2. Len(shown) <= Len(shown')
    BY <1>2, <1>8
  <2> QED
    BY <1>2, <1>7, <2>1, <2>2 DEF Grows
<1>11. ShownInv'
  <2>1. values'[v].bytes >= values'[v].size
    BY <1>1, <1>4, <1>6
  <2>2. ASSUME NEW i \in DOMAIN shown'
        PROVE  \/ shown'[i] = Objects!Missing
               \/ shown'[i] = Objects!Symlink /\ kind = "directory"
               \/ /\ shown'[i] \in DOMAIN values
                  /\ values'[shown'[i]].bytes >= values'[shown'[i]].size
                  /\ kind = "directory" => values'[shown'[i]].synced
    <3>1. i \in DOMAIN shown \/ i = Len(shown) + 1
      BY <1>2
    <3>2. CASE i \in DOMAIN shown
      BY <3>2, <1>2, <1>7 DEF StoreInv, ShownInv
    <3>3. CASE i = Len(shown) + 1
      BY <3>3, <2>1, <1>2
    <3> QED
      BY <3>1, <3>2, <3>3
  <2> QED
    BY <2>2, <1>1, <1>6, <1>7 DEF ShownInv, Objects!Missing, Objects!Symlink
<1>12. ParentInv'
  BY <1>1 DEF StoreInv, ParentInv
<1> QED
  BY <1>2, <1>6, <1>8, <1>9, <1>10, <1>11, <1>12

LEMMA ArrivesKeeps == ASSUME StoreInv, NEW p \in Users, Objects!Arrives(p) PROVE StoreInv'
<1>1. /\ calls[p].at = "send" /\ Objects!Puts(p) /\ StoreTypes /\ late \subseteq DOMAIN values
      /\ Objects!Show(calls[p].put) /\ Objects!Whole(calls[p].put) /\ Objects!Go(p, "answer")
      /\ kept' = Len(shown') /\ calls \in [Users -> Calls]
      /\ UNCHANGED <<kind, parent, named, late, promised, survived>>
  BY DEF Objects!Arrives, Objects!At, StoreInv, StoreTypes
<1>2. /\ PlaceInv(p) /\ calls[p].since \in 1..Len(shown) /\ DOMAIN shown = 1..Len(shown)
      /\ Len(shown) \in Nat /\ calls[p].put \in DOMAIN values
  BY <1>1, ProcessIs, PutIs
<1>3. kind = "bucket" /\ calls[p].put # Objects!Missing
  BY <1>1, <1>2 DEF PlaceInv, InBucket, Objects!Puts
<1>4. PICK c \in Calls :
        /\ calls' = [calls EXCEPT ![p] = c] /\ calls'[p] = c
        /\ c.at = "answer" /\ c.put = calls[p].put /\ c.since = calls[p].since
  BY <1>1, Going
<1>5. PICK v \in DOMAIN values : v = calls[p].put
  BY <1>2
<1>6. calls' \in [Users -> Calls]
  BY <1>1, <1>4
<1>7. /\ StoreTypes' /\ Grows /\ ShownInv' /\ ParentInv'
      /\ Len(shown) + 1 \in DOMAIN shown' /\ shown'[Len(shown) + 1] = v
      /\ DOMAIN values' = DOMAIN values
  BY <1>1, <1>3, <1>5, <1>6, Arrival
<1>8. CallInv(p)'
  <2>1. PlaceInv(p)'
    <3>1. c.since \in DOMAIN shown'
      <4>1. DOMAIN shown' = 1..Len(shown') /\ Len(shown') \in Nat
        BY <1>7 DEF StoreTypes
      <4>2. Len(shown) <= Len(shown')
        BY <1>7 DEF Grows
      <4> QED
        BY <1>2, <1>4, <4>1, <4>2
    <3>2. c.put \in DOMAIN values' /\ c.put # Objects!Missing /\ kind' = "bucket"
      BY <1>1, <1>2, <1>3, <1>4, <1>7
    <3> QED
      BY <1>4, <3>1, <3>2 DEF PlaceInv, InDirectory, InBucket, Opened, Staging, Objects!Missing
  <2>2. PutInv(p)'
    BY <1>4, <1>5, <1>7 DEF PutInv
  <2>3. GetInv(p)'
    BY <1>4 DEF GetInv
  <2> QED
    BY <2>1, <2>2, <2>3 DEF CallInv
<1>9. \A u \in named' : \/ u \in named /\ ~(calls[p].at \in Staging /\ calls[p].put = u)
                        \/ u \in DOMAIN values' /\ values'[u].left
                        \/ c.at \in Staging /\ c.put = u
  BY <1>1 DEF Staging
<1>10. NamedInv' /\ \A q \in Users : CallInv(q)'
  BY <1>4, <1>7, <1>8, <1>9, CallMoves
<1> QED
  BY <1>7, <1>10 DEF StoreInv

\* A bucket alone takes what was sent late.
SentInv == kind = "directory" => late = {}

LEMMA LateArrivalKeeps == ASSUME StoreInv, SentInv, Objects!LateArrival PROVE StoreInv'
<1>1. PICK v \in late :
        /\ Objects!Show(v) /\ Objects!Whole(v) /\ late' = late \ {v} /\ kept' = Len(shown')
        /\ UNCHANGED <<kind, parent, named, calls, promised, survived>>
  BY DEF Objects!LateArrival
<1>2. kind = "bucket" /\ v \in DOMAIN values /\ late' \subseteq DOMAIN values
      /\ calls' \in [Users -> Calls]
  BY <1>1 DEF SentInv, StoreInv, StoreTypes
<1>3. StoreTypes' /\ Grows /\ ShownInv' /\ ParentInv'
  BY <1>1, <1>2, Arrival
<1> QED
  BY <1>1, <1>3, CallsStay

\* What happens to processes, disks and shared directories.
LEMMA KillKeeps == ASSUME StoreInv, NEW p \in Users, Objects!Kill(p) PROVE StoreInv'
<1>1. /\ StoreTypes /\ late \subseteq DOMAIN values /\ calls \in [Users -> Calls]
      /\ UNCHANGED <<kind, parent, shown, kept, named, promised, survived>>
      /\ Objects!Throw(p) /\ values' = Objects!Left({calls[p].put})
      /\ late' \in IF Objects!Puts(p) /\ Objects!At(p, "send") THEN {late, late \cup {calls[p].put}}
                   ELSE {late}
      /\ values \in Seq(Values) /\ Len(values) <= MaxPuts /\ named \subseteq DOMAIN values
      /\ Len(shown) \in Nat /\ DOMAIN shown = 1..Len(shown) /\ Len(shown) >= 1
  BY DEF Objects!Kill, StoreInv, StoreTypes
<1>2. PICK c \in Calls :
        /\ calls' = [calls EXCEPT ![p] = c] /\ calls'[p] = c
        /\ c.at = "ended" /\ c.put = Objects!Missing /\ c.since = 1 /\ c.answer = "none"
  BY <1>1, Throwing
<1>3. \A u \in DOMAIN values :
        /\ values[u] \in Values /\ values'[u] \in Values
        /\ values'[u].size = values[u].size /\ values'[u].bytes = values[u].bytes
        /\ values'[u].synced = values[u].synced
        /\ values[u].left => values'[u].left
        /\ u = calls[p].put => values'[u].left
  <2> SUFFICES ASSUME NEW u \in DOMAIN values
               PROVE  /\ values[u] \in Values /\ values'[u] \in Values
                      /\ values'[u].size = values[u].size /\ values'[u].bytes = values[u].bytes
                      /\ values'[u].synced = values[u].synced
                      /\ values[u].left => values'[u].left
                      /\ u = calls[p].put => values'[u].left
    OBVIOUS
  <2>1. values[u] \in Values
    BY <1>1
  <2>2. values'[u] = [values[u] EXCEPT !.left = @ \/ u \in {calls[p].put}]
    BY <1>1 DEF Objects!Left
  <2>3. values[u].left \in BOOLEAN
    BY <2>1 DEF Values
  <2>4. PICK l \in BOOLEAN : l = (values[u].left \/ u \in {calls[p].put})
    BY ZenonT(10)
  <2>5. values'[u] = [values[u] EXCEPT !.left = l]
    BY <2>2, <2>4
  <2>6. /\ values'[u] \in Values /\ values'[u].size = values[u].size
        /\ values'[u].bytes = values[u].bytes /\ values'[u].synced = values[u].synced
        /\ values'[u].left = l
    BY <2>1, <2>5 DEF Values
  <2>7. (values[u].left => l) /\ (u = calls[p].put => l)
    BY <2>4, ZenonT(10)
  <2> QED
    BY <2>1, <2>6, <2>7
<1>4. values' \in Seq(Values) /\ DOMAIN values' = DOMAIN values /\ Len(values') = Len(values)
  <2>1. DOMAIN values' = DOMAIN values /\ DOMAIN values = 1..Len(values) /\ Len(values) \in Nat
    BY <1>1 DEF Objects!Left
  <2>2. values' = [u \in 1..Len(values) |-> values'[u]]
    BY <1>1, <2>1 DEF Objects!Left
  <2>3. values' \in [1..Len(values) -> Values]
    BY <1>3, <2>1, <2>2
  <2>4. values' \in Seq(Values)
    BY <2>1, <2>3
  <2> QED
    BY <2>1, <2>4
<1>5. late' \subseteq DOMAIN values'
  <2>1. Objects!Puts(p) /\ Objects!At(p, "send") => calls[p].put \in DOMAIN values
    BY PutIs DEF Objects!At
  <2> QED
    BY <1>1, <1>4, <2>1
<1>6. StoreTypes'
  BY <1>1, <1>2, <1>4, <1>5 DEF StoreTypes
<1>7. Grows
  <2>1. \A u \in DOMAIN values : values'[u].bytes >= values[u].bytes
    BY <1>3, ValueIs
  <2>2. Len(shown) <= Len(shown)
    BY <1>1
  <2> QED
    BY <1>1, <1>3, <1>4, <2>1, <2>2 DEF Grows
<1>8. ShownInv' /\ ParentInv'
  <2>1. ShownInv'
    BY <1>1, <1>3, <1>4 DEF StoreInv, ShownInv, Objects!Missing, Objects!Symlink
  <2>2. ParentInv'
    BY <1>1 DEF StoreInv, ParentInv, Objects!Missing
  <2> QED
    BY <2>1, <2>2
<1>9. CallInv(p)'
  <2>1. 1 \in DOMAIN shown'
    BY <1>1
  <2> QED
    BY <1>2, <2>1, ThrownIs DEF CallInv
<1>10. \A u \in named' : \/ u \in named /\ ~(calls[p].at \in Staging /\ calls[p].put = u)
                         \/ u \in DOMAIN values' /\ values'[u].left
                         \/ c.at \in Staging /\ c.put = u
  BY <1>1, <1>3, <1>4
<1>11. NamedInv' /\ \A q \in Users : CallInv(q)'
  BY <1>2, <1>6, <1>7, <1>9, <1>10, CallMoves
<1> QED
  BY <1>6, <1>8, <1>11 DEF StoreInv

LEMMA WriteBackKeeps == ASSUME StoreInv, Objects!WriteBack PROVE StoreInv'
<1>1. /\ parent = "new" /\ parent' = "lasting"
      /\ UNCHANGED <<kind, values, shown, kept, named, late, calls, promised, survived>>
      /\ Len(shown) \in Nat
  BY DEF Objects!WriteBack, StoreInv, StoreTypes
<1>2. StoreTypes'
  BY <1>1 DEF StoreInv, StoreTypes
<1>3. Grows
  <2>1. \A u \in DOMAIN values : values[u].bytes >= values[u].bytes
    BY ValueIs
  <2>2. Len(shown) <= Len(shown)
    BY <1>1
  <2> QED
    BY <1>1, <2>1, <2>2 DEF Grows
<1>4. ShownInv' /\ ParentInv'
  <2>1. ShownInv'
    BY <1>1 DEF StoreInv, ShownInv, Objects!Missing, Objects!Symlink
  <2>2. ParentInv'
    BY <1>1 DEF StoreInv, ParentInv, Objects!Missing
  <2> QED
    BY <2>1, <2>2
<1> QED
  BY <1>1, <1>2, <1>3, <1>4, CallsStay

LEMMA MeddleKeeps == ASSUME StoreInv, Objects!Meddle PROVE StoreInv'
<1>1. /\ kind = "directory" /\ StoreTypes
      /\ UNCHANGED <<kind, parent, kept, named, late, calls, promised, survived>>
  BY DEF Objects!Meddle, StoreInv
<1>2. CASE /\ Objects!Entry \in DOMAIN values
           /\ values' = [values EXCEPT ![Objects!Entry].bytes = @ + 1]
           /\ shown' = shown
  <2>1. PICK v \in DOMAIN values : v = Objects!Entry
    BY <1>2
  <2>2. PICK w : w = [values[v] EXCEPT !.bytes = @ + 1]
    OBVIOUS
  <2>3. values[v] \in Values /\ values[v].bytes \in Nat
    BY ValueIs
  <2>4. /\ w \in Values /\ w.size = values[v].size /\ w.bytes = values[v].bytes + 1
        /\ w.left = values[v].left /\ w.synced = values[v].synced
    BY <2>2, <2>3 DEF Values
  <2>5. w.bytes >= values[v].bytes
    BY <2>3, <2>4
  <2>6. values' = [values EXCEPT ![v] = w]
    BY <1>2, <2>1, <2>2
  <2>7. kind # "bucket"
    BY <1>1
  <2>8. /\ Grows /\ ShownInv' /\ ParentInv' /\ values' \in Seq(Values)
        /\ DOMAIN values' = DOMAIN values /\ Len(values') = Len(values)
    BY <1>1, <1>2, <2>4, <2>5, <2>6, <2>7, ValueChanges
  <2>9. StoreTypes'
    BY <1>1, <1>2, <2>8 DEF StoreTypes
  <2> QED
    BY <1>1, <2>8, <2>9, CallsStay
<1>3. CASE parent # "missing" /\ Objects!Show(Objects!Symlink) /\ values' = values
  <2>1. Objects!Symlink \in Nat
    BY StoreAssumption DEF Objects!Symlink
  <2>2. PICK v \in Nat : v = Objects!Symlink
    BY <2>1
  <2>3. /\ shown' \in Seq(Nat) /\ Len(shown') = Len(shown) + 1 /\ Len(shown) \in Nat
        /\ DOMAIN shown = 1..Len(shown) /\ DOMAIN shown' = 1..(Len(shown) + 1)
        /\ \A i \in 1..Len(shown) : shown'[i] = shown[i]
        /\ shown'[Len(shown) + 1] = v
        /\ Len(shown) >= 1 /\ kept \in 1..Len(shown) /\ promised \in 1..kept
    BY <1>3, <2>2, Shows
  <2>4. StoreTypes'
    <3>1. kept' \in 1..Len(shown') /\ Len(shown') >= 1 /\ promised' \in 1..kept'
      BY <1>1, <2>3
    <3> QED
      BY <1>1, <1>3, <2>3, <3>1 DEF StoreTypes
  <2>5. Grows
    <3>1. \A u \in DOMAIN values : values[u].bytes >= values[u].bytes
      BY ValueIs
    <3>2. Len(shown) <= Len(shown')
      BY <2>3
    <3> QED
      BY <1>1, <1>3, <2>3, <3>1, <3>2 DEF Grows
  <2>6. ShownInv'
    <3>1. ASSUME NEW i \in DOMAIN shown'
          PROVE  \/ shown'[i] = Objects!Missing
                 \/ shown'[i] = Objects!Symlink
                 \/ /\ shown'[i] \in DOMAIN values
                    /\ values[shown'[i]].bytes >= values[shown'[i]].size
                    /\ kind = "directory" => values[shown'[i]].synced
      <4>1. i \in DOMAIN shown \/ i = Len(shown) + 1
        BY <2>3
      <4>2. CASE i \in DOMAIN shown
        BY <4>2, <2>3 DEF StoreInv, ShownInv
      <4>3. CASE i = Len(shown) + 1
        BY <4>3, <2>2, <2>3
      <4> QED
        BY <4>1, <4>2, <4>3
    <3> QED
      BY <1>1, <1>3, <3>1 DEF ShownInv, Objects!Missing, Objects!Symlink
  <2>7. ParentInv'
    BY <1>1, <1>3 DEF StoreInv, ParentInv, Objects!Missing
  <2> QED
    BY <1>1, <2>4, <2>5, <2>6, <2>7, CallsStay
<1> QED
  BY <1>2, <1>3 DEF Objects!Meddle

LEMMA PowerLossKeeps == ASSUME StoreInv, Objects!PowerLoss PROVE StoreInv'
<1>1. /\ kind = "directory" /\ StoreTypes /\ kept' = Len(shown')
      /\ calls' = [p \in Users |-> Objects!Idle]
      /\ UNCHANGED <<kind, named, late, promised>>
      /\ values \in Seq(Values) /\ Len(values) <= MaxPuts
      /\ named \subseteq DOMAIN values /\ late \subseteq DOMAIN values
      /\ shown \in Seq(Nat) /\ parent \in {"missing", "new", "lasting"}
      /\ Len(shown) >= 1 /\ kept \in 1..Len(shown) /\ promised \in 1..kept
      /\ Len(shown) \in Nat /\ DOMAIN shown = 1..Len(shown)
  <2>1. /\ kind = "directory" /\ kept' = Len(shown')
        /\ calls' = [p \in Users |-> Objects!Idle]
        /\ UNCHANGED <<kind, named, late, promised>>
    BY DEF Objects!PowerLoss
  <2>2. StoreTypes
    BY DEF StoreInv
  <2> QED
    BY <2>1, <2>2 DEF StoreTypes
<1>2. PICK i \in kept..Len(shown) :
       \/ /\ Objects!Show(shown[i])
          /\ parent' = IF parent = "new" THEN "lasting" ELSE parent
          /\ survived' = <<i, promised>>
       \/ /\ parent = "new" /\ Objects!Show(Objects!Missing) /\ parent' = "missing"
          /\ survived' = <<1, promised>>
  BY DEF Objects!PowerLoss
<1>3. PICK lost \in SUBSET {v \in DOMAIN values : ~values[v].synced} :
       values' = [v \in DOMAIN values |->
         [values[v] EXCEPT !.bytes = IF v \in lost THEN 0 ELSE @, !.left = TRUE]]
  BY DEF Objects!PowerLoss
<1>4. i \in Nat /\ i >= kept /\ i \in 1..Len(shown) /\ shown[i] \in Nat
  BY <1>1
<1>5. PICK v \in Nat :
        /\ Objects!Show(v) /\ (v = shown[i] \/ v = Objects!Missing)
        /\ parent' = "missing" => v = Objects!Missing
  <2>1. parent = "missing" => shown[i] = Objects!Missing
    BY <1>1 DEF StoreInv, ParentInv
  <2>2. Objects!Missing \in Nat
    BY DEF Objects!Missing
  <2> QED
    BY <1>1, <1>2, <1>4, <2>1, <2>2
<1>6. /\ shown' \in Seq(Nat) /\ Len(shown') = Len(shown) + 1
      /\ DOMAIN shown' = 1..(Len(shown) + 1)
      /\ \A j \in 1..Len(shown) : shown'[j] = shown[j]
      /\ shown'[Len(shown) + 1] = v
  BY <1>5, Shows
<1>7. \A u \in DOMAIN values :
        /\ values'[u] \in Values /\ values'[u].left /\ values'[u].size = values[u].size
        /\ values'[u].synced = values[u].synced
        /\ values[u].synced => values'[u].bytes = values[u].bytes
  <2> SUFFICES ASSUME NEW u \in DOMAIN values
               PROVE  /\ values'[u] \in Values /\ values'[u].left
                      /\ values'[u].size = values[u].size
                      /\ values'[u].synced = values[u].synced
                      /\ values[u].synced => values'[u].bytes = values[u].bytes
    OBVIOUS
  <2>1. values[u] \in Values /\ values[u].bytes \in Nat
    BY ValueIs
  <2>2. PICK b \in Nat : b = (IF u \in lost THEN 0 ELSE values[u].bytes)
    BY <2>1
  <2>3. values'[u] = [values[u] EXCEPT !.bytes = b, !.left = TRUE]
    BY <1>3, <2>2
  <2>4. values[u].synced => b = values[u].bytes
    BY <2>2
  <2> QED
    BY <2>1, <2>3, <2>4 DEF Values
<1>8. values' \in Seq(Values) /\ DOMAIN values' = DOMAIN values /\ Len(values') = Len(values)
  <2>1. DOMAIN values' = DOMAIN values /\ DOMAIN values = 1..Len(values) /\ Len(values) \in Nat
    <3>1. DOMAIN values = 1..Len(values) /\ Len(values) \in Nat
      BY <1>1
    <3>2. DOMAIN values' = DOMAIN values
      BY <1>3, ZenonT(20)
    <3> QED
      BY <3>1, <3>2
  <2>2. values' = [u \in 1..Len(values) |-> values'[u]]
    BY <1>3, <2>1
  <2>3. values' \in [1..Len(values) -> Values]
    BY <1>7, <2>1, <2>2
  <2>4. values' \in Seq(Values)
    BY <2>1, <2>3
  <2> QED
    BY <2>1, <2>4
<1>9. Objects!Idle \in Calls
  BY DEF Objects!Idle, Objects!Missing, Calls
<1>10. parent' \in {"missing", "new", "lasting"} /\ survived' \in Nat \X Nat
       /\ survived'[1] >= survived'[2] /\ (parent' # "lasting" => promised = 1)
  <2>1. parent # "lasting" => promised = 1
    BY DEF StoreInv, ParentInv
  <2>2. promised \in Nat /\ i >= promised
    BY <1>1, <1>4
  <2>3. CASE parent' = (IF parent = "new" THEN "lasting" ELSE parent) /\ survived' = <<i, promised>>
    BY <2>1, <2>2, <2>3, <1>1, <1>4
  <2>4. CASE parent = "new" /\ parent' = "missing" /\ survived' = <<1, promised>>
    BY <2>1, <2>2, <2>4
  <2> QED
    BY <1>2, <2>3, <2>4
<1>11. StoreTypes'
  <2>1. kept' \in 1..Len(shown') /\ promised' \in 1..kept' /\ Len(shown') >= 1
    BY <1>1, <1>6
  <2>2. calls' \in [Users -> Calls]
    BY <1>1, <1>9
  <2>3. named' \subseteq DOMAIN values' /\ late' \subseteq DOMAIN values'
    BY <1>1, <1>8
  <2>4. kind' \in {"directory", "bucket"}
    BY <1>1
  <2> QED
    BY <1>1, <1>6, <1>8, <1>10, <2>1, <2>2, <2>3, <2>4 DEF StoreTypes
<1>12. ShownInv'
  <2>1. ASSUME NEW j \in DOMAIN shown
        PROVE  \/ shown[j] = Objects!Missing
               \/ shown[j] = Objects!Symlink
               \/ /\ shown[j] \in DOMAIN values'
                  /\ values'[shown[j]].bytes >= values'[shown[j]].size
                  /\ values'[shown[j]].synced
    BY <1>1, <1>7, <1>8 DEF StoreInv, ShownInv
  <2>2. ASSUME NEW j \in DOMAIN shown'
        PROVE  \/ shown'[j] = Objects!Missing
               \/ shown'[j] = Objects!Symlink
               \/ /\ shown'[j] \in DOMAIN values'
                  /\ values'[shown'[j]].bytes >= values'[shown'[j]].size
                  /\ values'[shown'[j]].synced
    <3>1. j \in DOMAIN shown \/ j = Len(shown) + 1
      BY <1>1, <1>6
    <3>2. CASE j \in DOMAIN shown
      BY <3>2, <2>1, <1>1, <1>6
    <3>3. CASE j = Len(shown) + 1
      BY <3>3, <2>1, <1>1, <1>4, <1>5, <1>6
    <3> QED
      BY <3>1, <3>2, <3>3
  <2> QED
    BY <1>1, <2>2 DEF ShownInv, Objects!Missing, Objects!Symlink
<1>13. ParentInv'
  <2>1. parent' = "missing" => \A j \in kept'..Len(shown') : shown'[j] = Objects!Missing
    <3>1. \A j \in kept'..Len(shown') : j = Len(shown) + 1
      BY <1>1, <1>6
    <3> QED
      BY <3>1, <1>5, <1>6
  <2> QED
    BY <1>1, <1>10, <2>1 DEF ParentInv, Objects!Missing
<1>14. NamedInv'
  BY <1>1, <1>7 DEF NamedInv
<1>15. ASSUME NEW p \in Users
       PROVE  CallInv(p)'
  <2>1. PICK c \in Calls : c = Objects!Idle
    BY <1>9
  <2>2. calls'[p] = c
    BY <1>1, <2>1
  <2>3. c.at = "ended" /\ c.put = Objects!Missing /\ c.since = 1 /\ c.answer = "none"
    BY <2>1 DEF Objects!Idle, Objects!Missing
  <2>4. 1 \in DOMAIN shown'
    BY <1>1, <1>6
  <2> QED
    BY <2>2, <2>3, <2>4, ThrownIs DEF CallInv
<1> QED
  BY <1>11, <1>12, <1>13, <1>14, <1>15 DEF StoreInv

LEMMA SentKeeps == ASSUME StoreInv, SentInv, Objects!Next PROVE SentInv'
<1>1. CASE Objects!LateArrival \/ Objects!WriteBack \/ Objects!PowerLoss \/ Objects!Meddle
  <2>1. kind' = kind /\ late' \subseteq late
    BY <1>1 DEF Objects!LateArrival, Objects!WriteBack, Objects!PowerLoss, Objects!Meddle
  <2> QED
    BY <2>1 DEF SentInv
<1>2. ASSUME NEW p \in Users, Objects!NoAnswer(p) \/ Objects!Kill(p)
      PROVE  SentInv'
  <2>1. /\ kind' = kind
        /\ late' \in IF Objects!Puts(p) /\ Objects!At(p, "send") THEN {late, late \cup {calls[p].put}}
                     ELSE {late}
    BY <1>2 DEF Objects!NoAnswer, Objects!Kill
  <2>2. CASE calls[p].at = "send"
    BY <2>1, <2>2, ProcessIs DEF PlaceInv, InBucket, SentInv
  <2>3. CASE calls[p].at # "send"
    BY <2>1, <2>3 DEF SentInv, Objects!At
  <2> QED
    BY <2>2, <2>3
<1>3. ASSUME NEW p \in Users,
             \/ Objects!StartPut(p) \/ Objects!StartGet(p) \/ Objects!OpenParent(p)
             \/ Objects!Look(p) \/ Objects!CreateTemporary(p) \/ Objects!NameTaken(p)
             \/ Objects!Write(p) \/ Objects!Sync(p) \/ Objects!Rename(p) \/ Objects!Abandon(p)
             \/ Objects!SyncParent(p) \/ Objects!Open(p) \/ Objects!Size(p) \/ Objects!Read(p)
             \/ Objects!CallFails(p) \/ Objects!Arrives(p) \/ Objects!Acknowledged(p)
             \/ Objects!RefusedByServer(p) \/ Objects!Fetch(p)
      PROVE  SentInv'
  <2>1. kind' = kind /\ late' = late
    BY <1>3 DEF Objects!StartPut, Objects!StartGet, Objects!OpenParent, Objects!Look,
       Objects!CreateTemporary, Objects!NameTaken, Objects!Write, Objects!Sync, Objects!Rename,
       Objects!Abandon, Objects!SyncParent, Objects!Open, Objects!Size, Objects!Read,
       Objects!CallFails, Objects!Arrives, Objects!Acknowledged, Objects!RefusedByServer,
       Objects!Fetch
  <2> QED
    BY <2>1 DEF SentInv
<1> QED
  BY <1>1, <1>2, <1>3 DEF Objects!Next

LEMMA StoreStep == ASSUME StoreInv, SentInv, Objects!Next PROVE StoreInv'
<1>1. CASE Objects!LateArrival \/ Objects!WriteBack \/ Objects!PowerLoss \/ Objects!Meddle
  BY <1>1, LateArrivalKeeps, WriteBackKeeps, PowerLossKeeps, MeddleKeeps
<1>2. ASSUME NEW p \in Users,
             \/ Objects!StartPut(p) \/ Objects!StartGet(p)
             \/ Objects!OpenParent(p) \/ Objects!Look(p) \/ Objects!CreateTemporary(p)
             \/ Objects!NameTaken(p)
             \/ Objects!Write(p) \/ Objects!Sync(p) \/ Objects!Rename(p) \/ Objects!Abandon(p)
             \/ Objects!SyncParent(p)
             \/ Objects!Open(p) \/ Objects!Size(p) \/ Objects!Read(p) \/ Objects!CallFails(p)
             \/ Objects!Arrives(p) \/ Objects!Acknowledged(p) \/ Objects!NoAnswer(p)
             \/ Objects!RefusedByServer(p)
             \/ Objects!Fetch(p) \/ Objects!Kill(p)
      PROVE  StoreInv'
  BY <1>2, StartPutKeeps, StartGetKeeps, OpenParentKeeps, LookKeeps, CreateTemporaryKeeps,
     NameTakenKeeps, WriteKeeps, SyncKeeps, RenameKeeps, AbandonKeeps, SyncParentKeeps,
     OpenKeeps, SizeKeeps, ReadKeeps, CallFailsKeeps, ArrivesKeeps, AcknowledgedKeeps,
     NoAnswerKeeps, RefusedKeeps, FetchKeeps, KillKeeps
<1> QED
  BY <1>1, <1>2 DEF Objects!Next

LEMMA StoreStutters ==
  ASSUME StoreInv, SentInv, UNCHANGED storeVars PROVE StoreInv' /\ SentInv'
<1>1. UNCHANGED <<kind, parent, values, shown, kept, named, late, calls, promised, survived>>
  BY DEF storeVars
<1>2. StoreTypes'
  BY <1>1 DEF StoreInv, StoreTypes
<1>3. ShownInv' /\ ParentInv'
  BY <1>1 DEF StoreInv, ShownInv, ParentInv, Objects!Missing, Objects!Symlink
<1>4. Grows
  <2>1. \A u \in DOMAIN values : values[u].bytes >= values[u].bytes
    BY ValueIs
  <2>2. Len(shown) <= Len(shown)
    BY DEF StoreInv, StoreTypes
  <2> QED
    BY <1>1, <2>1, <2>2 DEF Grows
<1>5. StoreInv'
  BY <1>1, <1>2, <1>3, <1>4, CallsStay
<1> QED
  BY <1>1, <1>5 DEF SentInv

LEMMA StoreBegins == ASSUME Objects!Init PROVE StoreInv /\ SentInv
<1>1. /\ kind \in {"directory", "bucket"} /\ parent = "missing" /\ values = <<>>
      /\ shown = <<0>> /\ kept = 1 /\ named = {} /\ late = {}
      /\ calls = [p \in Users |-> Objects!Idle] /\ promised = 1 /\ survived = <<1, 1>>
  BY DEF Objects!Init, Objects!Missing
<1>2. Objects!Idle \in Calls
  BY DEF Objects!Idle, Objects!Missing, Calls
<1>3. shown \in Seq(Nat) /\ Len(shown) = 1 /\ DOMAIN shown = 1..1 /\ shown[1] = 0
  BY <1>1
<1>4. values \in Seq(Values) /\ Len(values) = 0 /\ DOMAIN values = {}
  BY <1>1
<1>5. StoreTypes
  BY <1>1, <1>2, <1>3, <1>4, StoreAssumption DEF StoreTypes
<1>6. ShownInv /\ ParentInv
  <2>1. ShownInv
    BY <1>1, <1>3, <1>4 DEF ShownInv, Objects!Missing
  <2>2. ParentInv
    BY <1>1, <1>3 DEF ParentInv, Objects!Missing
  <2> QED
    BY <2>1, <2>2
<1>7. ASSUME NEW p \in Users
      PROVE  CallInv(p)
  <2>1. /\ calls[p].at = "ended" /\ calls[p].put = 0 /\ calls[p].since = 1
        /\ calls[p].answer = "none"
    BY <1>1 DEF Objects!Idle, Objects!Missing
  <2>2. PlaceInv(p)
    BY <1>3, <2>1 DEF PlaceInv, InDirectory, InBucket, Opened, Staging, Objects!Missing
  <2>3. PutInv(p) /\ GetInv(p)
    BY <2>1 DEF PutInv, GetInv
  <2> QED
    BY <2>2, <2>3 DEF CallInv
<1> QED
  BY <1>1, <1>5, <1>6, <1>7 DEF StoreInv, NamedInv, SentInv

StoreAlways == group = "store" => StoreInv /\ SentInv

LEMMA StoreInvariance == MCSpec => []StoreAlways
<1>1. MCInit => StoreAlways
  BY StoreBegins DEF MCInit, StoreAlways
<1>2. ASSUME StoreAlways, [MCNext]_<<vars, storeVars, sourcesVars, group>>
      PROVE  StoreAlways'
  <2>1. group' = group /\ (group = "store" => Objects!Next \/ UNCHANGED storeVars)
    BY <1>2 DEF MCNext
  <2>2. CASE group = "store"
    BY <1>2, <2>1, <2>2, StoreStep, SentKeeps, StoreStutters DEF StoreAlways
  <2>3. CASE group # "store"
    BY <2>1, <2>3 DEF StoreAlways
  <2> QED
    BY <2>2, <2>3
<1> QED
  BY <1>1, <1>2, PTL DEF MCSpec

\* What the invariant says of what is seen.
LEMMA StoreIsWhole == ASSUME StoreInv PROVE Objects!ObjectsWhole
<1>1. Objects!EntryWhole
  <2>1. Len(shown) \in DOMAIN shown
    BY DEF StoreInv, StoreTypes
  <2>2. ASSUME Objects!Entry \in DOMAIN values
        PROVE  values[Objects!Entry].bytes >= values[Objects!Entry].size
    <3>1. Objects!Entry # Objects!Missing /\ Objects!Entry # Objects!Symlink
      BY <2>2, ValueIs
    <3> QED
      BY <3>1, EntryIs
  <2> QED
    BY <2>2 DEF Objects!EntryWhole
<1>2. Objects!GetsTrue
  <2>1. \A p \in Users : GetInv(p)
    BY DEF StoreInv, CallInv
  <2> QED
    BY <2>1 DEF GetInv, Objects!GetsTrue, Objects!At, Objects!Puts, Objects!Missing
<1>3. Objects!PutsTrue
  <2>1. \A p \in Users : PutInv(p)
    BY DEF StoreInv, CallInv
  <2>2. \A p \in Users : Objects!At(p, "ended") /\ calls[p].answer = "stored" =>
          \E i \in DOMAIN shown : shown[i] = calls[p].put
    BY <2>1 DEF PutInv, Objects!At
  <2>3. \A value \in named :
          values[value].left \/ \E p \in Users : ~Objects!At(p, "ended") /\ calls[p].put = value
    BY DEF StoreInv, NamedInv, Staging, Objects!At
  <2> QED
    BY <2>2, <2>3 DEF Objects!PutsTrue
<1>4. Objects!PutsLast
  BY DEF StoreInv, ParentInv, Objects!PutsLast
<1> QED
  BY <1>1, <1>2, <1>3, <1>4 DEF Objects!ObjectsWhole

(***************************************************************************)
(* A reader of the shared store finds a whole value or none, what was put  *)
(* has been the entry, no temporary file is left but by a killed writer,   *)
(* and a power loss takes nothing back whose Put had returned, however     *)
(* many processes use the store and whatever is planted, lost, killed or   *)
(* late (compare/store.cc, FilesystemStore; compare/s3.cc, S3Store).       *)
(***************************************************************************)
THEOREM ObjectsAlwaysWhole == MCSpec => []ObjectsWhole
<1>1. StoreAlways => ObjectsWhole
  BY StoreIsWhole DEF StoreAlways, ObjectsWhole
<1> QED
  BY <1>1, StoreInvariance, PTL

-----------------------------------------------------------------------------
(* The digests of models.                                                  *)

Inspecting == {"memo", "confirm", "open", "hash", "record"}

\* The shard p inspects is the one its signature was taken of, unchanged.
Current(p) == Same(sig[p], Signature(shard[p]))

\* A signature g of shard s is the present one, or s has changed since; then
\* its time shows a change of the present round.
Watched(p, g, s) ==
  /\ g.time <= changes
  /\ \/ Same(g, Signature(s))
     \/ time[s] > g.time /\ time[s] > since[p] + round[p]

\* What p knows of the shard it inspects.
Inspection(p) ==
  /\ Len(found[p]) = shard[p] - 1
  /\ pc[p] = "stat" => attempt[p] = 0
  /\ pc[p] # "stat" => Watched(p, sig[p], shard[p])
  /\ attempt[p] = 1 => sig[p].time > since[p] + round[p]
  /\ Current(p) /\ pc[p] \in {"confirm", "record"}
       => digest[p] = Content(shard[p])
  /\ Current(p) /\ pc[p] = "hash"
       => /\ fd[p] = inode[shard[p]]
          /\ \A i \in 1..Len(digest[p]) : digest[p][i] = Content(shard[p])[i]

\* What p knows of the shards before it.
Findings(p) ==
  \A i \in 1..Len(found[p]) :
    /\ Watched(p, found[p][i].sig, i)
    /\ Same(found[p][i].sig, Signature(i)) => found[p][i].digest = Content(i)

\* What p knows of the model when it looks at it again.
Verification(p) ==
  /\ Len(found[p]) = Shards
  /\ attempt[p] = 0
  /\ \A s \in Numbers :
       Same(found[p][s].sig, Signature(s)) \/ s < shard[p] \/ pc[p] = "done"
         => found[p][s].digest = seen[p][s]

ProcInv(p) ==
  /\ pc[p] \in Inspecting \cup {"stat"} => Inspection(p)
  /\ Findings(p)
  /\ pc[p] \in {"verify", "done"} => Verification(p)
  /\ pc[p] \in {"idle", "thrown"} => attempt[p] = 0
  /\ since[p] + round[p] <= changes
  /\ pc[p] = "thrown" => since[p] + 2 <= changes

DiskInv ==
  \A s \in Numbers :
    /\ time[s] <= changes
    /\ \A m \in memo[s] : /\ m.sig.time <= changes
                          /\ Same(m.sig, Signature(s)) => m.digest = Content(s)

IInv == TypeOK /\ DiskInv /\ \A p \in Procs : ProcInv(p)

-----------------------------------------------------------------------------
(* The writer.                                                             *)

\* What a change of a shard does: no signature taken before is that of the
\* shard any more, and the other shards stay as they are.
LEMMA ChangeFacts ==
  ASSUME Resolution = 1, TypeOK, NEW s \in Numbers,
         Replace(s) \/ \E c \in 1..Chunks : Rewrite(s, c)
  PROVE  /\ changes' = changes + 1 /\ changes' \in Changes
         /\ time' = [time EXCEPT ![s] = changes + 1]
         /\ inode' \in [Numbers -> Changes]
         /\ blocks' \in [Numbers -> [Changes -> Files]]
         /\ \A t \in Numbers \ {s} :
              Signature(t)' = Signature(t) /\ Content(t)' = Content(t)
         /\ UNCHANGED <<memo, pc, local, aux>>
<1>1. /\ changes' = changes + 1 /\ changes' \in Changes
      /\ time' = [time EXCEPT ![s] = changes + 1]
      /\ UNCHANGED <<memo, pc, local, aux>>
  BY MaxChangesAssumption
  DEF Replace, Rewrite, Change, TypeOK, Changes
<1>2. CASE Replace(s)
  BY <1>1, <1>2
  DEF Replace, TypeOK, Changes, Files, Numbers, Signature, Content
<1>3. CASE \E c \in 1..Chunks : Rewrite(s, c)
  <2>1. PICK c \in 1..Chunks : Rewrite(s, c)
    BY <1>3
  <2>2. inode' = inode /\ blocks' = [blocks EXCEPT ![s][inode[s]][c] = changes + 1]
    BY <2>1 DEF Rewrite
  <2>3. blocks' \in [Numbers -> [Changes -> Files]]
    <3> DEFINE file == [blocks[s][inode[s]] EXCEPT ![c] = changes + 1]
               files == [blocks[s] EXCEPT ![inode[s]] = file]
    <3>1. file \in Files
      <4>1. blocks[s][inode[s]] \in Files
        BY DEF TypeOK
      <4>2. changes + 1 \in Changes
        BY <1>1
      <4> QED
        BY <4>1, <4>2 DEF Files
    <3>2. files \in [Changes -> Files]
      BY <3>1 DEF TypeOK
    <3>3. blocks' = [blocks EXCEPT ![s] = files]
      BY <2>2
    <3> HIDE DEF files
    <3> QED
      BY <3>2, <3>3 DEF TypeOK
  <2>4. \A t \in Numbers \ {s} : blocks'[t] = blocks[t]
    BY <2>2 DEF TypeOK
  <2> QED
    BY <1>1, <2>2, <2>3, <2>4 DEF TypeOK, Signature, Content
<1> QED
  BY <1>1, <1>2, <1>3

LEMMA ChangeStep ==
  ASSUME Resolution = 1, IInv, NEW s \in Numbers,
         Replace(s) \/ \E c \in 1..Chunks : Rewrite(s, c)
  PROVE  IInv'
<1> USE DEF IInv
<1>1. /\ changes' = changes + 1 /\ changes' \in Changes
      /\ time' = [time EXCEPT ![s] = changes + 1]
      /\ inode' \in [Numbers -> Changes]
      /\ blocks' \in [Numbers -> [Changes -> Files]]
      /\ \A t \in Numbers \ {s} :
           Signature(t)' = Signature(t) /\ Content(t)' = Content(t)
      /\ UNCHANGED <<memo, pc, local, aux>>
  BY ChangeFacts
<1>2. TypeOK'
  BY <1>1 DEF TypeOK, Changes, local, aux
<1>3. \A t \in Numbers : time[t] \in Nat /\ time'[t] \in Nat /\ changes \in Nat
  BY <1>2 DEF TypeOK, Changes
<1>4. ASSUME NEW t \in Numbers, NEW g \in Signatures, g.time <= changes
      PROVE  /\ Same(g, Signature(t)') => t # s
             /\ Same(g, Signature(t)') => Same(g, Signature(t)) /\ Content(t)' = Content(t)
             /\ Same(g, Signature(t)) => Same(g, Signature(t)') \/ time'[t] = changes + 1
  <2>1. g.time \in Nat
    BY DEF Signatures, Changes
  <2>2. time'[s] = changes + 1
    BY <1>1 DEF TypeOK
  <2>3. CASE t = s
    BY <1>3, <1>4, <2>1, <2>2, <2>3 DEF Same, Signature
  <2>4. CASE t # s
    BY <1>1, <2>4
  <2> QED
    BY <2>3, <2>4
<1>5. DiskInv'
  <2> SUFFICES ASSUME NEW t \in Numbers
               PROVE  /\ time'[t] <= changes'
                      /\ \A m \in memo'[t] :
                           /\ m.sig.time <= changes'
                           /\ Same(m.sig, Signature(t)') => m.digest = Content(t)'
    BY DEF DiskInv
  <2>1. time'[t] <= changes'
    BY <1>1, <1>3 DEF DiskInv, TypeOK
  <2>2. ASSUME NEW m \in memo[t]
        PROVE  /\ m.sig.time <= changes'
               /\ Same(m.sig, Signature(t)') => m.digest = Content(t)'
    <3>1. m.sig \in Signatures /\ m.sig.time \in Nat
      BY DEF TypeOK, Looks, Signatures, Changes
    <3>2. m.sig.time <= changes
      BY DEF DiskInv
    <3>3. Same(m.sig, Signature(t)) => m.digest = Content(t)
      BY DEF DiskInv
    <3> QED
      BY <1>1, <1>3, <1>4, <3>1, <3>2, <3>3
  <2> QED
    BY <1>1, <2>1, <2>2
<1>6. ASSUME NEW p \in Procs
      PROVE  ProcInv(p)'
  <2>1. /\ pc' = pc /\ shard' = shard /\ sig' = sig /\ fd' = fd
        /\ digest' = digest /\ attempt' = attempt /\ round' = round
        /\ found' = found /\ since' = since /\ seen' = seen
    BY <1>1 DEF local, aux
  <2>2. /\ ProcInv(p)
        /\ since[p] \in Nat /\ round[p] \in Nat /\ shard[p] \in Numbers
        /\ sig[p] \in Signatures
    <3>1. since[p] \in Changes /\ round[p] \in {0, 1} /\ ProcInv(p)
          /\ shard[p] \in Numbers /\ sig[p] \in Signatures
      BY DEF TypeOK
    <3> QED
      BY <3>1 DEF Changes
  <2>3. ASSUME NEW t \in Numbers, NEW g \in Signatures, Watched(p, g, t)
        PROVE  Watched(p, g, t)'
    <3>1. g.time \in Nat /\ g.time <= changes
      BY <2>3 DEF Signatures, Changes, Watched
    <3>2. since[p] + round[p] <= changes
      BY <2>2 DEF ProcInv
    <3>3. CASE t = s
      <4>1. time'[t] = changes + 1
        BY <1>1, <3>3 DEF TypeOK
      <4> QED
        BY <1>1, <1>3, <2>1, <2>2, <3>1, <3>2, <4>1 DEF Watched
    <3>4. CASE t # s
      <4>1. time'[t] = time[t] /\ Signature(t)' = Signature(t)
        BY <1>1, <3>4 DEF TypeOK
      <4> QED
        BY <1>1, <1>3, <2>1, <2>3, <3>1, <4>1 DEF Watched
    <3> QED
      BY <3>3, <3>4
  <2>4. Findings(p)'
    <3> SUFFICES ASSUME NEW i \in 1..Len(found[p])
                 PROVE  /\ Watched(p, found[p][i].sig, i)'
                        /\ Same(found[p][i].sig, Signature(i)')
                             => found[p][i].digest = Content(i)'
      BY <2>1 DEF Findings, Watched
    <3>1. found[p][i] \in Looks /\ i \in Numbers
      BY ShardsAssumption DEF TypeOK, Numbers
    <3>2. found[p][i].sig \in Signatures
      BY <3>1 DEF Looks
    <3>3. /\ Watched(p, found[p][i].sig, i)
          /\ Same(found[p][i].sig, Signature(i)) => found[p][i].digest = Content(i)
      BY <2>2 DEF ProcInv, Findings
    <3>4. found[p][i].sig.time <= changes
      BY <3>3 DEF Watched
    <3>5. Watched(p, found[p][i].sig, i)'
      BY <2>1, <2>3, <3>1, <3>2, <3>3 DEF Watched
    <3> QED
      BY <1>4, <3>1, <3>2, <3>3, <3>4, <3>5
  <2>5. ASSUME Inspection(p), pc[p] \in Inspecting \cup {"stat"}
        PROVE  Inspection(p)'
    <3>1. pc[p] # "stat" => Watched(p, sig[p], shard[p])'
      BY <2>1, <2>2, <2>3, <2>5 DEF Inspection, Watched
    <3>2. pc[p] # "stat" /\ Current(p)' =>
             Current(p) /\ shard[p] # s /\ Content(shard[p])' = Content(shard[p])
      BY <1>4, <2>1, <2>2, <2>5 DEF Inspection, Watched, Current
    <3>3. shard[p] # s => inode'[shard[p]] = inode[shard[p]]
      BY <1>1, <2>2 DEF Signature
    <3> QED
      BY <2>1, <2>5, <3>1, <3>2, <3>3 DEF Inspection
  <2>6. ASSUME Verification(p)
        PROVE  Verification(p)'
    <3>1. ASSUME NEW t \in Numbers
          PROVE  /\ Same(found[p][t].sig, Signature(t)')
                      => Same(found[p][t].sig, Signature(t))
      <4>1. Len(found[p]) = Shards /\ t \in 1..Len(found[p])
        BY <2>6 DEF Verification, Numbers
      <4>2. found[p][t] \in Looks
        BY <4>1 DEF TypeOK
      <4>3. found[p][t].sig \in Signatures /\ found[p][t].sig.time <= changes
        BY <2>2, <4>1, <4>2 DEF Looks, ProcInv, Findings, Watched
      <4> QED
        BY <1>4, <4>3
    <3> QED
      BY <2>1, <2>6, <3>1 DEF Verification
  <2> QED
    BY <1>1, <1>3, <2>1, <2>2, <2>4, <2>5, <2>6 DEF ProcInv
<1> QED
  BY <1>2, <1>5, <1>6

-----------------------------------------------------------------------------
(* The inspections: a step of one process changes neither the shards nor   *)
(* what another process knows.                                             *)

Spared(q) ==
  /\ pc'[q] = pc[q] /\ shard'[q] = shard[q] /\ sig'[q] = sig[q]
  /\ fd'[q] = fd[q] /\ digest'[q] = digest[q] /\ attempt'[q] = attempt[q]
  /\ round'[q] = round[q] /\ found'[q] = found[q] /\ since'[q] = since[q]
  /\ seen'[q] = seen[q]

LEMMA Frame ==
  ASSUME UNCHANGED disk, NEW q \in Procs, ProcInv(q), Spared(q)
  PROVE  ProcInv(q)'
<1>1. \A s : Signature(s)' = Signature(s) /\ Content(s)' = Content(s)
  BY DEF disk, Signature, Content
<1>2. \A g, s : Watched(q, g, s)' = Watched(q, g, s)
  BY <1>1 DEF Watched, disk, Spared
<1>3. Findings(q)' = Findings(q)
  BY <1>1, <1>2 DEF Findings, Spared
<1>4. Verification(q)' = Verification(q)
  BY <1>1 DEF Verification, Spared
<1>5. Inspection(q)' = Inspection(q)
  BY <1>1, <1>2 DEF Inspection, Current, Spared, disk
<1> QED
  BY <1>3, <1>4, <1>5 DEF ProcInv, Spared, disk

\* What a step of p has to establish.
LEMMA Preserved ==
  ASSUME IInv, NEW p \in Procs, UNCHANGED disk, TypeOK', DiskInv', ProcInv(p)',
         \A q \in Procs \ {p} : Spared(q)
  PROVE  IInv'
<1>1. \A q \in Procs \ {p} : ProcInv(q)'
  BY Frame DEF IInv
<1> QED
  BY <1>1 DEF IInv

\* The types of what p has.
LEMMA Typed ==
  ASSUME TypeOK, NEW p \in Procs
  PROVE  /\ changes \in Nat /\ since[p] \in Nat /\ round[p] \in {0, 1}
         /\ attempt[p] \in {0, 1} /\ shard[p] \in Numbers
         /\ sig[p] \in Signatures /\ sig[p].time \in Nat
         /\ found[p] \in Seq(Looks) /\ digest[p] \in Seq(Changes)
         /\ \A s \in Numbers : /\ time[s] \in Nat /\ inode[s] \in Changes
                               /\ Signature(s) \in Signatures
                               /\ Content(s) \in Files
<1>1. /\ changes \in Changes /\ since[p] \in Changes /\ round[p] \in {0, 1}
      /\ attempt[p] \in {0, 1} /\ shard[p] \in Numbers
      /\ sig[p] \in Signatures
      /\ found[p] \in Seq(Looks) /\ digest[p] \in Seq(Changes)
  BY DEF TypeOK
<1>2. sig[p].time \in Changes
  BY <1>1 DEF Signatures
<1>3. ASSUME NEW s \in Numbers
      PROVE  time[s] \in Changes /\ inode[s] \in Changes /\ Content(s) \in Files
  BY DEF TypeOK, Content
<1>4. \A s \in Numbers : Signature(s) \in Signatures
  BY <1>3 DEF Signature, Signatures
<1>5. Changes \subseteq Nat
  BY DEF Changes
<1> QED
  BY <1>1, <1>2, <1>3, <1>4, <1>5

LEMMA MemoKept ==
  ASSUME DiskInv, UNCHANGED <<disk, memo>>
  PROVE  DiskInv'
BY DEF DiskInv, disk, Signature, Content

\* An inspection begins.
LEMMA StartStep ==
  ASSUME IInv, NEW p \in Procs, Start(p)
  PROVE  IInv'
<1> USE DEF IInv
<1>1. TypeOK'
  BY ShardsAssumption DEF TypeOK, Start, Restart, GoTo, disk, Numbers
<1>2. DiskInv'
  BY MemoKept DEF Start
<1>3. ProcInv(p)'
  <2>1. /\ pc'[p] = "stat" /\ shard'[p] = 1 /\ round'[p] = 0
        /\ found'[p] = <<>> /\ since'[p] = changes /\ attempt'[p] = attempt[p]
        /\ changes' = changes
    BY DEF TypeOK, Start, Restart, GoTo, disk
  <2>2. attempt[p] = 0
    BY DEF Start, ProcInv, Verification
  <2> QED
    BY <2>1, <2>2, Typed DEF ProcInv, Inspection, Findings, Inspecting
<1>4. \A q \in Procs \ {p} : Spared(q)
  BY DEF Spared, TypeOK, Start, Restart, GoTo
<1> QED
  BY <1>1, <1>2, <1>3, <1>4, Preserved DEF Start

\* The process is at its next shard, whose signature is the present one.
LEMMA TakeSignatureStep ==
  ASSUME IInv, NEW p \in Procs, TakeSignature(p)
  PROVE  IInv'
<1> USE DEF IInv
<1>1. TypeOK'
  BY Typed DEF TypeOK, TakeSignature, GoTo, disk, aux
<1>2. DiskInv'
  BY MemoKept DEF TakeSignature
<1>3. ProcInv(p)'
  <2>1. /\ pc[p] = "stat" /\ pc'[p] = "memo" /\ sig'[p] = Signature(shard[p])
        /\ UNCHANGED <<disk, shard, fd, digest, attempt, round, found, since>>
    BY DEF TypeOK, TakeSignature, GoTo, aux
  <2>2. \A s : Signature(s)' = Signature(s) /\ Content(s)' = Content(s)
    BY <2>1 DEF disk, Signature, Content
  <2>3. Findings(p)'
    BY <2>1, <2>2 DEF ProcInv, Findings, Watched, disk
  <2>4. Watched(p, sig[p], shard[p])'
    BY <2>1, <2>2, Typed DEF Watched, Same, Signature, DiskInv, disk
  <2>5. Inspection(p)'
    BY <2>1, <2>4 DEF ProcInv, Inspection, Inspecting
  <2> QED
    BY <2>1, <2>3, <2>5 DEF ProcInv, Inspecting, disk
<1>4. \A q \in Procs \ {p} : Spared(q)
  BY DEF Spared, TypeOK, TakeSignature, GoTo, aux
<1> QED
  BY <1>1, <1>2, <1>3, <1>4, Preserved DEF TakeSignature

\* A memo for the signature has the shard's digest while it is the present one.
LEMMA MemoHitStep ==
  ASSUME IInv, NEW p \in Procs, MemoHit(p)
  PROVE  IInv'
<1> USE DEF IInv
<1>1. PICK m \in memo[shard[p]] :
        /\ Same(m.sig, sig[p])
        /\ digest' = [digest EXCEPT ![p] = m.digest]
  BY DEF MemoHit
<1>2. m.digest \in Files /\ m.sig \in Signatures
  BY Typed DEF TypeOK, Looks
<1>3. m.digest \in Seq(Changes) /\ Len(m.digest) = Chunks
  BY <1>2, ChunksAssumption DEF Files
<1>4. TypeOK'
  BY <1>1, <1>2, <1>3 DEF TypeOK, MemoHit, GoTo, disk, aux
<1>5. DiskInv'
  BY MemoKept DEF MemoHit
<1>6. ProcInv(p)'
  <2>1. /\ pc[p] = "memo" /\ pc'[p] = "confirm" /\ digest'[p] = m.digest
        /\ UNCHANGED <<disk, shard, sig, fd, attempt, round, found, since>>
    BY <1>1 DEF TypeOK, MemoHit, GoTo, aux
  <2>2. \A s : Signature(s)' = Signature(s) /\ Content(s)' = Content(s)
    BY <2>1 DEF disk, Signature, Content
  <2>3. Findings(p)' /\ Watched(p, sig[p], shard[p])' = Watched(p, sig[p], shard[p])
    BY <2>1, <2>2 DEF ProcInv, Findings, Watched, disk
  <2>4. Current(p) => m.digest = Content(shard[p])
    BY <1>1, Typed DEF Current, Same, DiskInv
  <2>5. Current(p)' = Current(p)
    BY <2>1, <2>2 DEF Current
  <2>6. Inspection(p)'
    BY <2>1, <2>2, <2>3, <2>4, <2>5 DEF ProcInv, Inspection, Inspecting
  <2> QED
    BY <2>1, <2>3, <2>6 DEF ProcInv, Inspecting, disk
<1>7. \A q \in Procs \ {p} : Spared(q)
  BY DEF Spared, TypeOK, MemoHit, GoTo, aux
<1> QED
  BY <1>4, <1>5, <1>6, <1>7, Preserved DEF MemoHit

\* Without a memo nothing is known but the signature.
LEMMA ToOpen ==
  ASSUME IInv, NEW p \in Procs, pc[p] \in {"memo", "confirm"},
         pc' = [pc EXCEPT ![p] = "open"], UNCHANGED <<disk, memo, local, aux>>
  PROVE  IInv'
<1> USE DEF IInv
<1>1. TypeOK'
  BY DEF TypeOK, disk, local, aux
<1>2. DiskInv'
  BY MemoKept
<1>3. ProcInv(p)'
  <2>1. pc'[p] = "open"
    BY DEF TypeOK
  <2>2. \A s : Signature(s)' = Signature(s)
    BY DEF disk, Signature
  <2>3. Findings(p)'
    BY <2>2 DEF ProcInv, Findings, Watched, disk, local, aux, Content
  <2>4. Watched(p, sig[p], shard[p])' = Watched(p, sig[p], shard[p])
    BY <2>2 DEF Watched, disk, local, aux
  <2>5. Inspection(p)'
    BY <2>1, <2>4 DEF ProcInv, Inspection, Inspecting, local, aux
  <2> QED
    BY <2>1, <2>3, <2>5 DEF ProcInv, Inspecting, disk, local, aux
<1>4. \A q \in Procs \ {p} : Spared(q)
  BY DEF Spared, TypeOK, local, aux
<1> QED
  BY <1>1, <1>2, <1>3, <1>4, Preserved

\* Hashing begins at the inode of the signature, if it is the present one.
LEMMA OpenStep ==
  ASSUME IInv, NEW p \in Procs, Open(p)
  PROVE  IInv'
<1> USE DEF IInv
<1>1. TypeOK'
  BY Typed, ChunksAssumption DEF TypeOK, Open, GoTo, disk, aux
<1>2. DiskInv'
  BY MemoKept DEF Open
<1>3. ProcInv(p)'
  <2>1. /\ pc[p] = "open" /\ pc'[p] = "hash" /\ fd'[p] = inode[shard[p]]
        /\ digest'[p] = <<>>
        /\ UNCHANGED <<disk, shard, sig, attempt, round, found, since>>
    BY DEF TypeOK, Open, GoTo, aux
  <2>2. \A s : Signature(s)' = Signature(s) /\ Content(s)' = Content(s)
    BY <2>1 DEF disk, Signature, Content
  <2>3. Findings(p)' /\ Watched(p, sig[p], shard[p])' = Watched(p, sig[p], shard[p])
    BY <2>1, <2>2 DEF ProcInv, Findings, Watched, disk
  <2>4. Inspection(p)'
    BY <2>1, <2>3 DEF ProcInv, Inspection, Inspecting, disk
  <2> QED
    BY <2>1, <2>3, <2>4 DEF ProcInv, Inspecting, disk
<1>4. \A q \in Procs \ {p} : Spared(q)
  BY DEF Spared, TypeOK, Open, GoTo, aux
<1> QED
  BY <1>1, <1>2, <1>3, <1>4, Preserved DEF Open

\* What has been read is the beginning of the shard while the signature lasts.
LEMMA HashChunkStep ==
  ASSUME IInv, NEW p \in Procs, HashChunk(p)
  PROVE  IInv'
<1> USE DEF IInv
<1> DEFINE block == blocks[shard[p]][fd[p]][Len(digest[p]) + 1]
<1>1. block \in Changes
  <2>1. blocks[shard[p]][fd[p]] \in Files
    BY Typed DEF TypeOK
  <2>2. Len(digest[p]) + 1 \in 1..Chunks
    BY Typed, ChunksAssumption DEF HashChunk
  <2> QED
    BY <2>1, <2>2 DEF Files
<1>2. /\ pc[p] = "hash" /\ Len(digest[p]) < Chunks
      /\ digest' = [digest EXCEPT ![p] = Append(digest[p], block)]
      /\ digest'[p] = Append(digest[p], block)
      /\ UNCHANGED <<disk, memo, pc, shard, sig, fd, attempt, round, found, since, seen>>
  BY DEF HashChunk, TypeOK, aux
<1>3. TypeOK'
  <2>1. /\ digest' \in [Procs -> Seq(Changes)]
        /\ Len(digest'[p]) <= Chunks
    BY <1>1, <1>2, ChunksAssumption DEF TypeOK
  <2>2. \A q \in Procs \ {p} : digest'[q] = digest[q]
    BY <1>2 DEF TypeOK
  <2> QED
    BY <1>2, <2>1, <2>2 DEF TypeOK, disk
<1>4. DiskInv'
  BY <1>2, MemoKept
<1>5. ProcInv(p)'
  <2>1. \A s : Signature(s)' = Signature(s) /\ Content(s)' = Content(s)
    BY <1>2 DEF disk, Signature, Content
  <2>2. Findings(p)' /\ Watched(p, sig[p], shard[p])' = Watched(p, sig[p], shard[p])
    BY <1>2, <2>1 DEF ProcInv, Findings, Watched, disk
  <2>3. Current(p)' = Current(p)
    BY <1>2, <2>1 DEF Current
  <2>4. Inspection(p)
    BY <1>2 DEF ProcInv, Inspecting
  <2>5. Current(p) =>
          \A i \in 1..Len(digest'[p]) : digest'[p][i] = Content(shard[p])[i]
    <3> SUFFICES ASSUME Current(p), NEW i \in 1..Len(digest'[p])
                 PROVE  digest'[p][i] = Content(shard[p])[i]
      OBVIOUS
    <3>1. CASE i <= Len(digest[p])
      BY <1>1, <1>2, <2>4, <3>1, Typed DEF Inspection
    <3>2. CASE i = Len(digest[p]) + 1
      BY <1>1, <1>2, <2>4, <3>2, Typed DEF Inspection, Content
    <3> QED
      BY <1>1, <1>2, <3>1, <3>2, Typed
  <2>6. Inspection(p)'
    BY <1>2, <2>1, <2>2, <2>3, <2>4, <2>5 DEF Inspection, disk
  <2> QED
    BY <1>2, <2>2, <2>6 DEF ProcInv, Inspecting, disk
<1>6. \A q \in Procs \ {p} : Spared(q)
  BY <1>2 DEF Spared, TypeOK
<1> QED
  BY <1>2, <1>3, <1>4, <1>5, <1>6, Preserved

\* A shard has its digest: that of its content, if the signature still holds.
LEMMA FoundStep ==
  ASSUME IInv, NEW p \in Procs, pc[p] \in {"confirm", "record"}, Found(p),
         memo' \in [Numbers -> SUBSET Looks], DiskInv'
  PROVE  IInv'
<1> USE DEF IInv
<1> DEFINE look == [sig |-> sig[p], digest |-> digest[p]]
<1>1. /\ found' = [found EXCEPT ![p] = Append(found[p], look)]
      /\ UNCHANGED <<disk, round, since>>
      /\ sig' = [sig EXCEPT ![p] = NoSignature]
      /\ fd' = [fd EXCEPT ![p] = 0]
      /\ digest' = [digest EXCEPT ![p] = <<>>]
      /\ attempt' = [attempt EXCEPT ![p] = 0]
  BY DEF Found, Leave
<1>2. Inspection(p) /\ Watched(p, sig[p], shard[p])
  BY DEF ProcInv, Inspecting, Inspection
<1>3. look \in Looks
  BY DEF TypeOK, Looks
<1>4. /\ found'[p] = Append(found[p], look)
      /\ found'[p] \in Seq(Looks) /\ Len(found'[p]) = shard[p]
      /\ found'[p][shard[p]] = look
      /\ \A i \in 1..Len(found[p]) : found'[p][i] = found[p][i]
  <2>1. found'[p] = Append(found[p], look)
    BY <1>1 DEF TypeOK
  <2>2. Len(found[p]) = shard[p] - 1 /\ shard[p] \in Nat
    BY <1>2, Typed DEF Inspection, Numbers
  <2> HIDE DEF look
  <2> QED
    BY <2>1, <2>2, <1>3, Typed
<1>5. \A s : Signature(s)' = Signature(s) /\ Content(s)' = Content(s)
  BY <1>1 DEF disk, Signature, Content
<1>7. ASSUME NEW i \in 1..Len(found'[p])
      PROVE  /\ Watched(p, found[p][i].sig, i)'
             /\ Same(found'[p][i].sig, Signature(i)) => found'[p][i].digest = Content(i)
  <2>1. CASE i \in 1..Len(found[p])
    <3>1. found'[p][i] = found[p][i]
      BY <1>4, <2>1
    <3> QED
      BY <1>1, <1>5, <2>1, <3>1 DEF ProcInv, Findings, Watched, disk
  <2>2. CASE i = shard[p]
    <3>1. found'[p][i].sig = sig[p] /\ found'[p][i].digest = digest[p]
      BY <1>4, <2>2
    <3> QED
      BY <1>1, <1>2, <1>5, <2>2, <3>1 DEF Inspection, Current, Watched, disk
  <2>3. Len(found[p]) = shard[p] - 1 /\ shard[p] \in Nat
    BY <1>2, Typed DEF Inspection, Numbers
  <2> QED
    BY <1>4, <2>1, <2>2, <2>3, Typed
<1>8. Findings(p)'
  BY <1>5, <1>7 DEF Findings
<1>9. CASE shard[p] < Shards
  <2>1. /\ pc' = [pc EXCEPT ![p] = "stat"]
        /\ shard' = [shard EXCEPT ![p] = shard[p] + 1]
        /\ seen' = seen
    BY <1>9 DEF Found, GoTo
  <2>2. shard[p] + 1 \in Numbers
    BY <1>9, Typed, ShardsAssumption DEF Numbers
  <2>3. TypeOK'
    <3>1. \A q \in Procs : found'[q] \in Seq(Looks) /\ Len(found'[q]) <= Shards
      BY <1>1, <1>4, Typed, ShardsAssumption DEF TypeOK, Numbers
    <3>2. found' \in [Procs -> Seq(Looks)]
      BY <1>1, <3>1 DEF TypeOK
    <3>3. digest' \in [Procs -> Seq(Changes)] /\ \A q \in Procs : Len(digest'[q]) <= Chunks
      BY <1>1, ChunksAssumption DEF TypeOK
    <3>4. \A q \in Procs : pc'[q] \in {"confirm", "record"} => digest'[q] \in Files
      BY <1>1, <2>1 DEF TypeOK
    <3>5. sig' \in [Procs -> Signatures] /\ fd' \in [Procs -> Changes]
      BY <1>1, MaxChangesAssumption DEF TypeOK, NoSignature, Signatures, Changes
    <3> QED
      BY <1>1, <2>1, <2>2, <3>1, <3>2, <3>3, <3>4, <3>5 DEF TypeOK, disk
  <2>4. ProcInv(p)'
    <3>1. pc'[p] = "stat" /\ shard'[p] = shard[p] + 1 /\ attempt'[p] = 0
      BY <1>1, <2>1 DEF TypeOK
    <3>2. Inspection(p)'
      BY <1>4, <3>1, Typed DEF Inspection, Numbers
    <3> QED
      BY <1>1, <1>8, <3>1, <3>2 DEF ProcInv, Inspecting, disk
  <2>5. \A q \in Procs \ {p} : Spared(q)
    BY <1>1, <2>1 DEF Spared, TypeOK
  <2> QED
    BY <1>1, <2>3, <2>4, <2>5, Preserved
<1>10. CASE ~(shard[p] < Shards)
  <2>1. /\ pc' = [pc EXCEPT ![p] = "verify"]
        /\ shard' = [shard EXCEPT ![p] = 1]
        /\ seen' = [seen EXCEPT ![p] = [s \in Numbers |-> Content(s)]]
    BY <1>10 DEF Found, GoTo
  <2>2. shard[p] = Shards /\ 1 \in Numbers
    BY <1>10, Typed, ShardsAssumption DEF Numbers
  <2>3. TypeOK'
    <3>1. \A q \in Procs : found'[q] \in Seq(Looks) /\ Len(found'[q]) <= Shards
      BY <1>1, <1>4, <2>2, ShardsAssumption DEF TypeOK
    <3>2. found' \in [Procs -> Seq(Looks)]
      BY <1>1, <3>1 DEF TypeOK
    <3>3. digest' \in [Procs -> Seq(Changes)] /\ \A q \in Procs : Len(digest'[q]) <= Chunks
      BY <1>1, ChunksAssumption DEF TypeOK
    <3>4. \A q \in Procs : pc'[q] \in {"confirm", "record"} => digest'[q] \in Files
      BY <1>1, <2>1 DEF TypeOK
    <3>5. sig' \in [Procs -> Signatures] /\ fd' \in [Procs -> Changes]
      BY <1>1, MaxChangesAssumption DEF TypeOK, NoSignature, Signatures, Changes
    <3>6. seen' \in [Procs -> {<<>>} \cup [Numbers -> Files]]
      BY <2>1, Typed DEF TypeOK
    <3> QED
      BY <1>1, <2>1, <2>2, <3>1, <3>2, <3>3, <3>4, <3>5, <3>6 DEF TypeOK, disk
  <2>4. ProcInv(p)'
    <3>1. /\ pc'[p] = "verify" /\ shard'[p] = 1 /\ attempt'[p] = 0
          /\ seen'[p] = [s \in Numbers |-> Content(s)]
      BY <1>1, <2>1 DEF TypeOK
    <3>2. ASSUME NEW s \in Numbers, Same(found'[p][s].sig, Signature(s)')
          PROVE  found'[p][s].digest = seen'[p][s]
      BY <1>4, <1>5, <1>7, <2>2, <3>1, <3>2 DEF Numbers
    <3>3. \A s \in Numbers : ~(s < 1)
      BY DEF Numbers
    <3>4. Verification(p)'
      BY <1>4, <2>2, <3>1, <3>2, <3>3 DEF Verification
    <3> QED
      BY <1>1, <1>8, <3>1, <3>4 DEF ProcInv, Inspecting, disk
  <2>5. \A q \in Procs \ {p} : Spared(q)
    BY <1>1, <2>1 DEF Spared, TypeOK
  <2> QED
    BY <1>1, <2>3, <2>4, <2>5, Preserved
<1> QED
  BY <1>9, <1>10

\* The memo is confirmed, or it is as if there were none.
LEMMA ConfirmStep ==
  ASSUME IInv, NEW p \in Procs, Confirm(p)
  PROVE  IInv'
<1>1. pc[p] = "confirm" /\ memo' = memo
  BY DEF Confirm
<1>2. CASE Found(p)
  <2>1. DiskInv'
    BY <1>1, <1>2, MemoKept DEF IInv, Found
  <2>2. memo' \in [Numbers -> SUBSET Looks]
    BY <1>1 DEF IInv, TypeOK
  <2> QED
    BY <1>1, <1>2, <2>1, <2>2, FoundStep
<1>3. CASE ~Found(p)
  BY <1>1, <1>3, ToOpen DEF Confirm, GoTo
<1> QED
  BY <1>2, <1>3

\* The memo written is true, even if the shard has changed since the hash.
LEMMA RecordStep ==
  ASSUME IInv, NEW p \in Procs, Record(p)
  PROVE  IInv'
<1> USE DEF IInv
<1> DEFINE look == [sig |-> sig[p], digest |-> digest[p]]
<1>1. pc[p] = "record" /\ Found(p) /\ UNCHANGED disk
  BY DEF Record, Found
<1>2. look \in Looks
  BY <1>1 DEF TypeOK, Looks
<1>3. /\ look.sig.time <= changes
      /\ Same(look.sig, Signature(shard[p])) => look.digest = Content(shard[p])
  BY <1>1 DEF ProcInv, Inspection, Inspecting, Watched, Current
<1>4. memo' = memo \/ memo' = [memo EXCEPT ![shard[p]] = {look}]
  BY DEF Record, Recorded
<1>5. memo' \in [Numbers -> SUBSET Looks]
  <2>1. memo \in [Numbers -> SUBSET Looks] /\ {look} \in SUBSET Looks
    BY <1>2 DEF TypeOK
  <2> HIDE DEF look
  <2> QED
    BY <1>4, <2>1
<1>6. \A s \in Numbers : memo'[s] = memo[s] \/ (s = shard[p] /\ memo'[s] = {look})
  <2>1. memo \in [Numbers -> SUBSET Looks]
    BY DEF TypeOK
  <2> HIDE DEF look
  <2>2. CASE memo' = memo
    BY <2>2
  <2>3. CASE memo' = [memo EXCEPT ![shard[p]] = {look}]
    BY <2>1, <2>3
  <2> QED
    BY <1>4, <2>2, <2>3
<1>7. DiskInv'
  <2>1. \A s : Signature(s)' = Signature(s) /\ Content(s)' = Content(s)
    BY <1>1 DEF disk, Signature, Content
  <2>2. changes' = changes /\ time' = time
    BY <1>1 DEF disk
  <2> HIDE DEF look
  <2> QED
    BY <1>3, <1>6, <2>1, <2>2 DEF DiskInv
<1> QED
  BY <1>1, <1>5, <1>7, FoundStep

\* An inspection that is left without a result knows nothing.
LEMMA AbandonStep ==
  ASSUME IInv, NEW p \in Procs, NEW point \in {"idle", "thrown"},
         Abandon(p, point), UNCHANGED <<disk, memo, since>>,
         point = "thrown" => since[p] + 2 <= changes
  PROVE  IInv'
<1> USE DEF IInv
<1>1. TypeOK'
  <2>1. NoSignature \in Signatures /\ 0 \in Changes /\ 1 \in Numbers
    BY MaxChangesAssumption, ShardsAssumption
    DEF NoSignature, Signatures, Changes, Numbers
  <2>2. <<>> \in Seq(Changes) /\ <<>> \in Seq(Looks) /\ Len(<<>>) = 0
    OBVIOUS
  <2>3. /\ digest' \in [Procs -> Seq(Changes)] /\ found' \in [Procs -> Seq(Looks)]
        /\ \A q \in Procs : Len(digest'[q]) <= Chunks /\ Len(found'[q]) <= Shards
    BY <2>2, ShardsAssumption, ChunksAssumption DEF TypeOK, Abandon, Leave
  <2>4. \A q \in Procs : pc'[q] \in {"confirm", "record"} => digest'[q] \in Files
    BY DEF TypeOK, Abandon, Leave, GoTo
  <2> QED
    BY <2>1, <2>3, <2>4 DEF TypeOK, Abandon, Leave, GoTo, disk
<1>2. DiskInv'
  BY MemoKept
<1>3. ProcInv(p)'
  <2>1. /\ pc'[p] = point /\ found'[p] = <<>> /\ attempt'[p] = 0
        /\ round'[p] = 0 /\ since'[p] = since[p] /\ changes' = changes
    BY DEF TypeOK, Abandon, Leave, GoTo, disk
  <2>2. since[p] <= changes
    BY Typed DEF ProcInv
  <2> QED
    BY <2>1, <2>2, Typed DEF ProcInv, Findings, Inspecting
<1>4. \A q \in Procs \ {p} : Spared(q)
  BY DEF Spared, TypeOK, Abandon, Leave, GoTo
<1> QED
  BY <1>1, <1>2, <1>3, <1>4, Preserved

\* Hashing ends: the signature holds, or the shard has changed, and twice if
\* this was the second attempt.
LEMMA CheckSignatureStep ==
  ASSUME IInv, NEW p \in Procs, CheckSignature(p)
  PROVE  IInv'
<1> USE DEF IInv
<1>1. /\ pc[p] = "hash" /\ Len(digest[p]) = Chunks
      /\ UNCHANGED <<disk, memo, since>>
  BY DEF CheckSignature
<1>2. Inspection(p) /\ Watched(p, sig[p], shard[p])
  BY <1>1 DEF ProcInv, Inspecting, Inspection
<1>3. \A s : Signature(s)' = Signature(s) /\ Content(s)' = Content(s)
  BY <1>1 DEF disk, Signature, Content
<1>4. DiskInv'
  BY <1>1, MemoKept
<1>5. CASE Current(p)
  <2>1. pc' = [pc EXCEPT ![p] = "record"] /\ UNCHANGED <<local, seen>>
    BY <1>5 DEF CheckSignature, Current, GoTo
  <2>2. digest[p] = Content(shard[p]) /\ digest[p] \in Files
    <3>1. Content(shard[p]) \in Files
      BY Typed
    <3>2. \A i \in 1..Chunks : digest[p][i] = Content(shard[p])[i]
      BY <1>1, <1>2, <1>5 DEF Inspection
    <3>3. digest[p] = [i \in 1..Chunks |-> digest[p][i]]
      BY <1>1, Typed
    <3>4. Content(shard[p]) = [i \in 1..Chunks |-> Content(shard[p])[i]]
      BY <3>1 DEF Files
    <3> QED
      BY <3>1, <3>2, <3>3, <3>4
  <2>3. TypeOK'
    BY <1>1, <2>1, <2>2 DEF TypeOK, disk, local
  <2>4. ProcInv(p)'
    <3>1. pc'[p] = "record"
      BY <2>1 DEF TypeOK
    <3>2. /\ Findings(p)'
          /\ Watched(p, sig[p], shard[p])' = Watched(p, sig[p], shard[p])
      BY <1>1, <1>3, <2>1 DEF ProcInv, Findings, Watched, disk, local
    <3>3. Inspection(p)'
      BY <1>1, <1>2, <1>3, <2>1, <2>2, <3>1, <3>2 DEF Inspection, local
    <3> QED
      BY <1>1, <2>1, <3>1, <3>2, <3>3 DEF ProcInv, Inspecting, disk, local
  <2>5. \A q \in Procs \ {p} : Spared(q)
    BY <1>1, <2>1 DEF Spared, TypeOK, local
  <2> QED
    BY <1>1, <1>4, <2>3, <2>4, <2>5, Preserved
<1>6. CASE ~Current(p) /\ attempt[p] = 0
  <2>1. /\ pc' = [pc EXCEPT ![p] = "open"]
        /\ sig' = [sig EXCEPT ![p] = Signature(shard[p])]
        /\ attempt' = [attempt EXCEPT ![p] = attempt[p] + 1]
        /\ UNCHANGED <<shard, fd, digest, round, found, seen>>
    BY <1>6 DEF CheckSignature, Current, GoTo, RetryLeft
  <2>2. TypeOK'
    BY <1>1, <1>6, <2>1, Typed DEF TypeOK, disk
  <2>3. ProcInv(p)'
    <3>1. /\ pc'[p] = "open" /\ sig'[p] = Signature(shard[p])
          /\ attempt'[p] = 1
      BY <1>6, <2>1 DEF TypeOK
    <3>2. time[shard[p]] > since[p] + round[p] /\ time[shard[p]] <= changes
      BY <1>2, <1>6, Typed DEF Watched, Current, DiskInv
    <3>3. Findings(p)'
      BY <1>1, <1>3, <2>1 DEF ProcInv, Findings, Watched, disk
    <3>4. Watched(p, sig[p], shard[p])'
      BY <1>1, <1>3, <2>1, <3>1, <3>2 DEF Watched, Same, Signature, disk
    <3>5. sig'[p].time > since'[p] + round'[p]
      BY <1>1, <2>1, <3>1, <3>2 DEF Signature
    <3>6. Inspection(p)'
      BY <1>2, <2>1, <3>1, <3>4, <3>5 DEF Inspection
    <3> QED
      BY <1>1, <2>1, <3>1, <3>3, <3>6 DEF ProcInv, Inspecting, disk
  <2>4. \A q \in Procs \ {p} : Spared(q)
    BY <1>1, <2>1 DEF Spared, TypeOK
  <2> QED
    BY <1>1, <1>4, <2>2, <2>3, <2>4, Preserved
<1>7. CASE ~Current(p) /\ attempt[p] # 0
  <2>1. Abandon(p, "thrown")
    BY <1>7 DEF CheckSignature, Current, RetryLeft
  <2>2. attempt[p] = 1
    BY <1>7, Typed
  <2>3. sig[p].time > since[p] + round[p] /\ time[shard[p]] > sig[p].time
        /\ time[shard[p]] <= changes
    BY <1>2, <1>7, <2>2, Typed DEF Inspection, Watched, Current, DiskInv
  <2>4. since[p] + 2 <= changes
    BY <2>3, Typed
  <2> QED
    BY <1>1, <2>1, <2>4, AbandonStep
<1> QED
  BY <1>5, <1>6, <1>7

\* The verification of one shard: what has the signature of the inspection is
\* what was seen when the last shard had been inspected.
LEMMA VerifyStep ==
  ASSUME IInv, NEW p \in Procs, Verify(p)
  PROVE  IInv'
<1> USE DEF IInv
<1>1. pc[p] = "verify" /\ UNCHANGED <<disk, memo, since>>
  BY DEF Verify
<1>2. Verification(p) /\ Findings(p)
  BY <1>1 DEF ProcInv
<1>3. \A s : Signature(s)' = Signature(s) /\ Content(s)' = Content(s)
  BY <1>1 DEF disk, Signature, Content
<1>4. DiskInv'
  BY <1>1, MemoKept
<1>5. /\ shard[p] \in 1..Len(found[p]) /\ shard[p] \in Nat
      /\ Watched(p, found[p][shard[p]].sig, shard[p])
  BY <1>2, Typed DEF Verification, Findings, Numbers
<1>6. CASE Unchanged(p)
  <2>1. /\ UNCHANGED <<sig, fd, digest, attempt, round, found, seen>>
        /\ \/ /\ shard[p] < Shards /\ pc' = pc
              /\ shard' = [shard EXCEPT ![p] = shard[p] + 1]
           \/ /\ ~(shard[p] < Shards) /\ shard' = shard
              /\ pc' = [pc EXCEPT ![p] = "done"]
    BY <1>6 DEF Verify, GoTo
  <2>2. TypeOK'
    <3>1. shard' \in [Procs -> Numbers]
      BY <2>1, Typed, ShardsAssumption DEF TypeOK, Numbers
    <3>2. pc' = pc \/ pc' = [pc EXCEPT ![p] = "done"]
      BY <2>1
    <3> QED
      BY <1>1, <2>1, <3>1, <3>2 DEF TypeOK, disk
  <2>3. ProcInv(p)'
    <3>1. found[p][shard[p]].digest = seen[p][shard[p]]
      BY <1>2, <1>6, Typed DEF Verification, Unchanged
    <3>2. Findings(p)'
      BY <1>1, <1>2, <1>3, <2>1 DEF Findings, Watched, disk
    <3>3. \/ pc'[p] = "verify" /\ shard'[p] = shard[p] + 1
          \/ pc'[p] = "done" /\ shard[p] = Shards /\ shard'[p] = shard[p]
      BY <1>1, <2>1, Typed, ShardsAssumption DEF TypeOK, Numbers
    <3>4. Verification(p)'
      <4>1. ASSUME NEW s \in Numbers,
                   \/ Same(found[p][s].sig, Signature(s))
                   \/ s < shard'[p] \/ pc'[p] = "done"
            PROVE  found[p][s].digest = seen[p][s]
        <5>1. s \in Nat /\ s <= Shards
          BY ShardsAssumption DEF Numbers
        <5>2. CASE Same(found[p][s].sig, Signature(s))
          BY <1>2, <5>2 DEF Verification
        <5>3. CASE s < shard[p]
          BY <1>2, <5>3 DEF Verification
        <5>4. CASE s = shard[p]
          BY <3>1, <5>4
        <5> QED
          BY <1>5, <3>3, <4>1, <5>1, <5>2, <5>3, <5>4
      <4> QED
        BY <1>2, <1>3, <2>1, <4>1 DEF Verification
    <3> QED
      BY <1>1, <2>1, <3>2, <3>3, <3>4 DEF ProcInv, Inspecting, disk
  <2>4. \A q \in Procs \ {p} : Spared(q)
    BY <1>1, <2>1 DEF Spared, TypeOK
  <2> QED
    BY <1>1, <1>4, <2>2, <2>3, <2>4, Preserved
<1>7. CASE ~Unchanged(p)
  <2>1. since[p] + round[p] + 1 <= changes
    <3>1. time[shard[p]] > since[p] + round[p]
      BY <1>5, <1>7 DEF Watched, Unchanged
    <3>2. time[shard[p]] <= changes
      BY Typed DEF DiskInv
    <3> QED
      BY <3>1, <3>2, Typed
  <2>2. CASE round[p] = 0
    <3>1. /\ Restart(p, round[p] + 1)
          /\ UNCHANGED <<sig, fd, digest, attempt, seen>>
      BY <1>7, <2>2 DEF Verify, RetryLeft
    <3>2. TypeOK'
      BY <1>1, <2>2, <3>1, ShardsAssumption
      DEF TypeOK, Restart, GoTo, disk, Numbers
    <3>3. ProcInv(p)'
      <4>1. /\ pc'[p] = "stat" /\ shard'[p] = 1 /\ round'[p] = 1
            /\ found'[p] = <<>> /\ attempt'[p] = 0 /\ changes' = changes
        BY <1>1, <1>2, <2>2, <3>1
        DEF TypeOK, Restart, GoTo, disk, Verification
      <4> QED
        BY <1>1, <2>1, <2>2, <4>1, Typed
        DEF ProcInv, Inspection, Findings, Inspecting
    <3>4. \A q \in Procs \ {p} : Spared(q)
      BY <1>1, <3>1 DEF Spared, TypeOK, Restart, GoTo
    <3> QED
      BY <1>1, <1>4, <3>2, <3>3, <3>4, Preserved
  <2>3. CASE round[p] # 0
    <3>1. Abandon(p, "thrown")
      BY <1>7, <2>3 DEF Verify, RetryLeft
    <3>2. since[p] + 2 <= changes
      BY <2>1, <2>3, Typed
    <3> QED
      BY <1>1, <3>1, <3>2, AbandonStep
  <2> QED
    BY <2>2, <2>3
<1> QED
  BY <1>6, <1>7

-----------------------------------------------------------------------------
(* The theorems.                                                           *)

\* The invariant holds whatever is rewritten, replaced or interrupted.
THEOREM Invariance ==
  ASSUME Resolution = 1
  PROVE  Spec => []IInv
<1>1. Init => IInv
  <2> SUFFICES ASSUME Init PROVE IInv
    OBVIOUS
  <2>1. TypeOK
    BY MaxChangesAssumption, ShardsAssumption, ChunksAssumption
    DEF Init, TypeOK, NoSignature, Signatures, Changes, Files, Numbers
  <2>2. DiskInv
    BY DEF Init, DiskInv
  <2>3. \A p \in Procs : ProcInv(p)
    <3> SUFFICES ASSUME NEW p \in Procs PROVE ProcInv(p)
      OBVIOUS
    <3>1. /\ pc[p] = "idle" /\ found[p] = <<>> /\ attempt[p] = 0
          /\ since[p] = 0 /\ round[p] = 0 /\ changes = 0
      BY DEF Init
    <3> QED
      BY <3>1 DEF ProcInv, Findings, Inspecting
  <2> QED
    BY <2>1, <2>2, <2>3 DEF IInv
<1>2. IInv /\ [Next]_vars => IInv'
  <2> SUFFICES ASSUME IInv, [Next]_vars PROVE IInv'
    OBVIOUS
  <2>1. ASSUME NEW s \in Numbers,
               Replace(s) \/ \E c \in 1..Chunks : Rewrite(s, c)
        PROVE  IInv'
    BY <2>1, ChangeStep
  <2>2. ASSUME NEW p \in Procs, Start(p) PROVE IInv'
    BY <2>2, StartStep
  <2>3. ASSUME NEW p \in Procs, Step(p) PROVE IInv'
    <3>1. CASE TakeSignature(p)
      BY <3>1, TakeSignatureStep
    <3>2. CASE MemoHit(p)
      BY <3>2, MemoHitStep
    <3>3. CASE MemoMiss(p)
      BY <3>3, ToOpen DEF MemoMiss, GoTo
    <3>4. CASE Confirm(p)
      BY <3>4, ConfirmStep
    <3>5. CASE Open(p)
      BY <3>5, OpenStep
    <3>6. CASE HashChunk(p)
      BY <3>6, HashChunkStep
    <3>7. CASE CheckSignature(p)
      BY <3>7, CheckSignatureStep
    <3>8. CASE Record(p)
      BY <3>8, RecordStep
    <3>9. CASE Verify(p)
      BY <3>9, VerifyStep
    <3> QED
      BY <2>3, <3>1, <3>2, <3>3, <3>4, <3>5, <3>6, <3>7, <3>8, <3>9 DEF Step
  <2>4. ASSUME NEW p \in Procs, Die(p) PROVE IInv'
    BY <2>4, AbandonStep DEF Die
  <2>5. CASE UNCHANGED vars
    <3>1. /\ TypeOK' = TypeOK /\ UNCHANGED <<disk, memo>>
          /\ \A p \in Procs : Spared(p)
      BY <2>5 DEF vars, TypeOK, disk, local, aux, Spared
    <3>2. DiskInv'
      BY <3>1, MemoKept DEF IInv
    <3> QED
      BY <3>1, <3>2, Frame DEF IInv
  <2> QED
    BY <2>1, <2>2, <2>3, <2>4, <2>5 DEF Next
<1> QED
  BY <1>1, <1>2, PTL DEF Spec

\* Every variable keeps its type: in particular there is no third attempt.
THEOREM TypeCorrect ==
  ASSUME Resolution = 1
  PROVE  Spec => []TypeOK
<1>1. IInv => TypeOK
  BY DEF IInv
<1> QED
  BY <1>1, Invariance, PTL

\* A memo that would be believed holds the digest of the file as it is.
THEOREM MemosTrue ==
  ASSUME Resolution = 1
  PROVE  Spec => []MemoTrue
<1>1. IInv => MemoTrue
  BY DEF IInv, DiskInv, MemoTrue
<1> QED
  BY <1>1, Invariance, PTL

\* InspectModel returns the digest of a model that existed as a whole.
THEOREM DigestsOfOneModel ==
  ASSUME Resolution = 1
  PROVE  Spec => []OneModel
<1>1. IInv => OneModel
  BY DEF IInv, ProcInv, Verification, OneModel
<1> QED
  BY <1>1, Invariance, PTL

\* It throws only if the model has changed at least twice meanwhile.
THEOREM ThrowsAfterTwoChanges ==
  ASSUME Resolution = 1
  PROVE  Spec => []OneChangeTolerated
<1>1. IInv => OneChangeTolerated
  BY Typed DEF IInv, ProcInv, OneChangeTolerated
<1> QED
  BY <1>1, Invariance, PTL
=============================================================================
