-------------------------- MODULE BackendFetchProofs --------------------------
(***************************************************************************)
(* What BackendFetch promises, for any number of processes, publications   *)
(* and faults.                                                             *)
(***************************************************************************)
EXTENDS BackendFetch, SequenceTheorems, TLAPS

-----------------------------------------------------------------------------
(* The inductive invariant.                                                *)

Held(p) == \/ pc[p] \in Fetching \cup {"confirm"}
           \/ pc[p] \in Reading /\ phase[p] # "cached"

Shapes ==
  /\ kind \in {"cuda", "rocm"} /\ unlinked \in BOOLEAN
  /\ bundle \in Prefixes /\ partial \in Prefixes /\ Len(bundle) \in {0, Parts}
  /\ {checksum, sumPartial, manifest} \subseteq Publications \cup {Absent}
  /\ lock \in Procs \cup {Nobody} /\ extracting \in [Publications -> Procs \cup {Nobody}]
  /\ runtime \in [Publications -> Pairs \cup {Absent}]
  /\ pc \in [Procs -> Pcs]
  /\ phase \in [Procs -> {"cached", "locked", "fetched"}]
  /\ from \in [Procs -> Publications \cup {Absent}]
  /\ footer \in [Procs -> Publications \cup {Absent}]
  /\ hashed \in [Procs -> Prefixes] /\ opened \in [Procs -> Prefixes]
  /\ loaded \in [Procs -> Pairs \cup {<<>>}]
  /\ touched \in [Procs -> BOOLEAN]
  /\ faults \in 0..MaxFaults

\* A process that unpacks holds the lock of its own directory, and no other.
Unpacks(p) == pc[p] \in {"reuse", "stage"}
Extraction(p) == \A x \in Publications : extracting[x] = p <=> Unpacks(p) /\ Name(p) = x
NoExtraction(p) == \A x \in Publications : extracting[x] # p

Locks == \A p \in Procs : (lock = p <=> Held(p)) /\ Extraction(p)

\* A bundle that a verification would accept.
Valid == checksum # Absent /\ bundle = Whole(checksum) /\ manifest \in Good

\* What was downloaded so far came from the URL of whoever downloads.
Downloads(p) ==
  /\ Held(p) \/ pc[p] = "lock" => from[p] \in Publications
  /\ pc[p] = "install" => sumPartial \in {from[p], Absent}
  /\ pc[p] \in {"drop", "manifest"} => checksum \in {from[p], Absent}
  /\ phase[p] = "fetched" =>
       /\ pc[p] \in Reading => {checksum, manifest} \subseteq {from[p], Absent}
       /\ pc[p] \in {"build", "open"} => hashed[p] = Whole(from[p])
       /\ pc[p] = "open" => from[p] \in Good

\* Whoever verifies under the lock sees what is there, or somebody removes it;
\* and it is about to download only because that was not valid.
SeesTrue(p) ==
  /\ pc[p] = "confirm" => ~Valid
  /\ phase[p] = "locked" /\ bundle # <<>> =>
       /\ pc[p] \in {"hash", "recorded"} => footer[p] = bundle[Parts]
       /\ pc[p] \in {"recorded", "build"} => hashed[p] = bundle

\* As long as nobody fetches or removes, what was verified stays as it was.
Untouched(p) ==
  pc[p] \in Reading \cup {"open"} /\ ~touched[p] =>
    /\ ~OtherFetches(p)
    /\ pc[p] \in {"recorded", "build", "open"} => hashed[p] = bundle
    /\ pc[p] \in {"build", "open"} => checksum # Absent /\ hashed[p] = Whole(checksum)
    /\ pc[p] = "open" => manifest \in Good

\* What is unpacked and loaded consists of a table with its own files.
CodeWhole(p) ==
  /\ pc[p] \in {"seal", "extract", "reuse", "stage", "load"} =>
       opened[p] \in [1..Parts -> Publications]
  /\ pc[p] = "done" => loaded[p][1] = loaded[p][2]

RuntimeWhole ==
  \A x \in Publications : runtime[x] # Absent => runtime[x][1] = runtime[x][2]

Proc(p) == Downloads(p) /\ SeesTrue(p) /\ Untouched(p) /\ CodeWhole(p)

IInv == Shapes /\ Locks /\ RuntimeWhole /\ \A p \in Procs : Proc(p)

-----------------------------------------------------------------------------
(* Facts about the data.                                                   *)

\* A path of parts: none, some or all, each from a publication.
LEMMA PrefixFacts ==
  /\ <<>> \in Prefixes /\ Len(<<>>) = 0
  /\ \A x \in Publications : Whole(x) # <<>> /\ Whole(x)[Parts] = x
  /\ \A s \in Prefixes : /\ s \in Seq(Publications) /\ Len(s) \in 0..Parts
                         /\ Len(s) = Parts => s \in [1..Parts -> Publications] /\ s # <<>>
                         /\ s # <<>> <=> Len(s) # 0
                         /\ Len(s) < Parts => \A x \in Publications : Append(s, x) \in Prefixes
<1>1. \A n \in 0..Parts : \A s \in [1..n -> Publications] :
        s \in Seq(Publications) /\ Len(s) = n
  <2> SUFFICES ASSUME NEW n \in 0..Parts, NEW s \in [1..n -> Publications]
               PROVE  s \in Seq(Publications) /\ Len(s) = n
    OBVIOUS
  <2>1. n \in Nat
    BY DEF Parts
  <2>2. s \in Seq(Publications)
    BY <2>1, SeqDef
  <2>3. DOMAIN s = 1..n
    OBVIOUS
  <2>4. DOMAIN s = 1..Len(s) /\ Len(s) \in Nat
    BY <2>2, LenProperties
  <2> QED BY <2>1, <2>2, <2>3, <2>4
<1>2. \A s \in Prefixes : s \in Seq(Publications) /\ Len(s) \in 0..Parts
  BY <1>1 DEF Prefixes
<1>3. \A s \in Seq(Publications) : Len(s) \in 0..Parts => s \in Prefixes
  <2> SUFFICES ASSUME NEW s \in Seq(Publications), Len(s) \in 0..Parts
               PROVE  s \in Prefixes
    OBVIOUS
  <2>1. s \in [1..Len(s) -> Publications]
    BY LenProperties
  <2> QED BY <2>1 DEF Prefixes
<1>4. <<>> \in Prefixes /\ Len(<<>>) = 0
  <2>1. <<>> \in Seq(Publications) /\ Len(<<>>) = 0
    BY EmptySeq
  <2>2. Len(<<>>) \in 0..Parts
    BY <2>1 DEF Parts
  <2> QED BY <2>1, <2>2, <1>3
<1>5. ASSUME NEW x \in Publications PROVE Whole(x) # <<>> /\ Whole(x)[Parts] = x
  BY DEF Whole, Parts
<1>6. ASSUME NEW s \in Prefixes, Len(s) = Parts
      PROVE  s \in [1..Parts -> Publications] /\ s # <<>>
  <2>1. s \in Seq(Publications)
    BY <1>2
  <2>2. s \in [1..Parts -> Publications]
    BY <2>1, <1>6, LenProperties
  <2>3. s # <<>>
    BY <1>4, <1>6 DEF Parts
  <2> QED BY <2>2, <2>3
<1>7. ASSUME NEW s \in Prefixes PROVE s # <<>> <=> Len(s) # 0
  BY <1>2, <1>4, <1>7, EmptySeq
<1>8. ASSUME NEW s \in Prefixes, Len(s) < Parts, NEW x \in Publications
      PROVE  Append(s, x) \in Prefixes
  <2>1. Append(s, x) \in Seq(Publications) /\ Len(Append(s, x)) = Len(s) + 1
    BY <1>2, AppendProperties
  <2>2. Len(s) \in 0..Parts
    BY <1>2
  <2>3. Len(s) + 1 \in 0..Parts
    BY <1>8, <2>2 DEF Parts
  <2> QED BY <2>1, <2>3, <1>3
<1> QED BY <1>2, <1>4, <1>5, <1>6, <1>7, <1>8

LEMMA PairFacts ==
  \A s \in [1..Parts -> Publications] :
    SubSeq(s, 1, 2) \in Pairs /\ SubSeq(s, 1, 2)[1] = s[1] /\ SubSeq(s, 1, 2)[2] = s[2]
<1> SUFFICES ASSUME NEW s \in [1..Parts -> Publications]
             PROVE  /\ SubSeq(s, 1, 2) \in Pairs
                    /\ SubSeq(s, 1, 2)[1] = s[1] /\ SubSeq(s, 1, 2)[2] = s[2]
  OBVIOUS
<1>1. SubSeq(s, 1, 2) = [i \in 1..2 |-> s[i]]
  BY DEF Parts
<1>2. \A i \in 1..2 : s[i] \in Publications
  BY DEF Parts
<1>3. [i \in 1..2 |-> s[i]] \in [1..2 -> Publications]
  BY <1>2
<1>4. [i \in 1..2 |-> s[i]][1] = s[1] /\ [i \in 1..2 |-> s[i]][2] = s[2]
  OBVIOUS
<1>5. [i \in 1..2 |-> s[i]] \in Pairs
  BY <1>3 DEF Pairs
<1> QED BY <1>1, <1>4, <1>5, Zenon

LEMMA RemovalFacts ==
  /\ {Removals[i] : i \in DOMAIN Removals}
       = {"rm bundle", "rm partial", "rm checksum", "rm sumPartial", "rm manifest"}
  /\ After("rm bundle") = "rm partial"
  /\ After("rm partial") = "rm checksum"
  /\ After("rm checksum") = "rm sumPartial"
  /\ After("rm sumPartial") = "rm manifest"
<1>1. /\ DOMAIN Removals = 1..5
      /\ Removals[1] = "rm bundle" /\ Removals[2] = "rm partial" /\ Removals[3] = "rm checksum"
      /\ Removals[4] = "rm sumPartial" /\ Removals[5] = "rm manifest"
  BY DEF Removals
<1>2. {Removals[i] : i \in DOMAIN Removals}
       = {"rm bundle", "rm partial", "rm checksum", "rm sumPartial", "rm manifest"}
  <2>1. 1..5 = {1, 2, 3, 4, 5}
    OBVIOUS
  <2>2. {Removals[i] : i \in {1, 2, 3, 4, 5}}
          = {Removals[1], Removals[2], Removals[3], Removals[4], Removals[5]}
    OBVIOUS
  <2> QED BY <1>1, <2>1, <2>2
<1>3. ASSUME NEW k \in 1..4 PROVE After(Removals[k]) = Removals[k + 1]
  <2>1. \A i \in 1..4 : Removals[i] = Removals[k] => i = k
    <3>1. 1..4 = {1, 2, 3, 4}
      OBVIOUS
    <3>2. \A i, j \in {1, 2, 3, 4} : i # j => Removals[i] # Removals[j]
      BY <1>1
    <3> QED BY <3>1, <3>2
  <2>2. (CHOOSE i \in 1..4 : Removals[i] = Removals[k]) = k
    BY <2>1
  <2> QED BY <2>2 DEF After
<1>4. /\ After(Removals[1]) = Removals[2] /\ After(Removals[2]) = Removals[3]
      /\ After(Removals[3]) = Removals[4] /\ After(Removals[4]) = Removals[5]
  BY <1>3
<1> QED BY <1>1, <1>2, <1>4

Removing == {"rm bundle", "rm partial", "rm checksum", "rm sumPartial", "rm manifest"}

LEMMA PcsFacts ==
  Pcs = Resting \cup Fetching \cup Reading \cup Removing \cup
        {"open", "ask", "lock", "confirm", "seal", "extract", "reuse", "stage", "load"}
BY RemovalFacts DEF Pcs, Removing

-----------------------------------------------------------------------------
(* What a step of p leaves to the others.                                  *)

OthersKeep(p) ==
  \A q \in Procs \ {p} :
    /\ pc'[q] = pc[q] /\ phase'[q] = phase[q] /\ from'[q] = from[q]
    /\ footer'[q] = footer[q] /\ hashed'[q] = hashed[q]
    /\ opened'[q] = opened[q] /\ loaded'[q] = loaded[q]

TouchedKept(p) == \A q \in Procs \ {p} : touched'[q] = touched[q]

\* p takes the lock or gives it back, or neither.
MovesLock(p) ==
  /\ \/ lock' = lock
     \/ lock = p /\ lock' = Nobody
     \/ lock = Nobody /\ lock' = p
  /\ \A x \in Publications :
       \/ extracting'[x] = extracting[x]
       \/ extracting[x] = p /\ extracting'[x] = Nobody
       \/ extracting[x] = Nobody /\ extracting'[x] = p

\* p is in the midst of a fetch.
Fetches(p) == lock = p /\ (pc[p] \in Fetching \/ phase[p] = "fetched")

LEMMA LocksKept ==
  ASSUME IInv, NEW p \in Procs, OthersKeep(p), MovesLock(p),
         lock' = p <=> Held(p)', Extraction(p)'
  PROVE  Locks'
BY MarkerAssumption DEF IInv, Locks, Held, Extraction, Unpacks, Name, OthersKeep, MovesLock

\* A step that leaves the files alone and starts no fetch.
LEMMA OthersQuiet ==
  ASSUME IInv, NEW p \in Procs, OthersKeep(p), TouchedKept(p), MovesLock(p),
         UNCHANGED files, Fetches(p)' => Fetches(p)
  PROVE  \A q \in Procs \ {p} : Proc(q)'
<1> SUFFICES ASSUME NEW q \in Procs \ {p} PROVE Proc(q)'
  OBVIOUS
<1>1. Proc(q)
  BY DEF IInv
<1>2. UNCHANGED <<bundle, checksum, sumPartial, manifest, pc[q], phase[q], from[q], footer[q],
                  hashed[q], opened[q], loaded[q], touched[q]>>
  BY DEF OthersKeep, TouchedKept, files
<1>3. OtherFetches(q)' => OtherFetches(q)
  BY MarkerAssumption DEF OtherFetches, OthersKeep, MovesLock, Fetches
<1>4. Downloads(q)' /\ SeesTrue(q)' /\ CodeWhole(q)'
  BY <1>1, <1>2 DEF Proc, Downloads, SeesTrue, CodeWhole, Held, Valid
<1>5. Untouched(q)'
  BY <1>1, <1>2, <1>3 DEF Proc, Untouched
<1> QED BY <1>4, <1>5 DEF Proc

\* A step of whoever fetches: all others that verify know of it.
LEMMA OthersFetching ==
  ASSUME IInv, NEW p \in Procs, OthersKeep(p), TouchedKept(p), Fetches(p)
  PROVE  \A q \in Procs \ {p} : Proc(q)'
<1> SUFFICES ASSUME NEW q \in Procs \ {p} PROVE Proc(q)'
  OBVIOUS
<1>1. Proc(q) /\ ~Held(q)
  BY DEF IInv, Locks, Fetches
<1>2. UNCHANGED <<pc[q], phase[q], from[q], footer[q], hashed[q], opened[q], loaded[q], touched[q]>>
  BY DEF OthersKeep, TouchedKept
<1>3. OtherFetches(q)
  BY DEF OtherFetches, Fetches
<1>4. pc[q] \in Reading \cup {"open"} => touched[q]
  BY <1>1, <1>3 DEF Proc, Untouched
<1>5. CodeWhole(q)' /\ Untouched(q)'
  BY <1>1, <1>2, <1>4 DEF Proc, CodeWhole, Untouched
<1>6. Downloads(q)' /\ SeesTrue(q)'
  BY <1>1, <1>2 DEF Proc, Downloads, SeesTrue, Held, Fetching, Reading
<1> QED BY <1>5, <1>6 DEF Proc

-----------------------------------------------------------------------------
(* The steps, one after the other.                                         *)

LEMMA InitInv ==
  ASSUME Init
  PROVE  IInv
<1>1. Shapes
  <2>1. touched \in [Procs -> BOOLEAN] /\ unlinked \in BOOLEAN
    BY Zenon DEF Init
  <2>2. /\ bundle \in Prefixes /\ partial \in Prefixes /\ Len(bundle) \in {0, Parts}
        /\ hashed \in [Procs -> Prefixes] /\ opened \in [Procs -> Prefixes]
    BY PrefixFacts DEF Init
  <2>3. faults \in 0..MaxFaults
    BY BoundAssumption DEF Init
  <2>4. pc \in [Procs -> Pcs]
    BY PcsFacts DEF Init, Resting
  <2> QED BY <2>1, <2>2, <2>3, <2>4 DEF Init, Shapes
<1>2. Locks
  BY MarkerAssumption DEF Init, Locks, Held, Extraction, NoExtraction, Unpacks, Fetching, Reading
<1>3. \A p \in Procs : Proc(p)
  BY DEF Init, Proc, Downloads, SeesTrue, Untouched, CodeWhole, Held, Fetching, Reading
<1> QED BY <1>1, <1>2, <1>3 DEF IInv, Init, RuntimeWhole

\* A step that reads neither files nor locks of others and changes only p.
LEMMA StartInv ==
  ASSUME IInv, NEW p \in Procs, Start(p)
  PROVE  IInv'
<1> USE DEF Start, Verify
<1>0. OtherFetches(p) \in BOOLEAN
  BY Zenon DEF OtherFetches
<1>1. Shapes'
  BY <1>0, PcsFacts DEF IInv, Shapes, files, setting, Reading
<1>2. OthersKeep(p) /\ TouchedKept(p) /\ MovesLock(p) /\ UNCHANGED files
  BY DEF IInv, Shapes, OthersKeep, TouchedKept, MovesLock
<1>3. pc'[p] = "footer" /\ phase'[p] = "cached" /\ touched'[p] = OtherFetches(p)
  BY DEF IInv, Shapes
<1>4. lock # p /\ NoExtraction(p)
  BY DEF IInv, Locks, Held, Extraction, NoExtraction, Unpacks, Fetching, Reading, Resting
<1>5. Locks'
  BY <1>2, <1>3, <1>4, LocksKept DEF Extraction, NoExtraction, Unpacks, Held, Fetching, Reading
<1>6. OtherFetches(p)' => OtherFetches(p)
  BY <1>2 DEF OtherFetches, OthersKeep
<1>7. Proc(p)'
  BY <1>3, <1>6 DEF Proc, Downloads, SeesTrue, Untouched, CodeWhole, Held, Fetching, Reading
<1>8. \A q \in Procs \ {p} : Proc(q)'
  BY <1>2, <1>4, OthersQuiet DEF Fetches
<1> QED BY <1>1, <1>5, <1>7, <1>8 DEF IInv, RuntimeWhole

\* The answer of a verification that failed, with what its caller had checked.
LEMMA RejectInv ==
  ASSUME IInv, NEW p \in Procs, pc[p] \in Reading, Reject(p), UNCHANGED Verifying,
         phase[p] = "locked" => ~Valid
  PROVE  IInv'
<1> USE DEF Reject, GiveUp, Unlocked, Verifying, setting
<1>1. Shapes'
  BY PcsFacts, PrefixFacts DEF IInv, Shapes, Resting
<1>2. OthersKeep(p) /\ TouchedKept(p) /\ MovesLock(p)
  BY DEF IInv, Shapes, OthersKeep, TouchedKept, MovesLock
<1>3. /\ lock = p <=> phase[p] # "cached"
      /\ NoExtraction(p)
  BY DEF IInv, Locks, Held, Extraction, NoExtraction, Unpacks, Fetching, Reading
<1>4. \/ phase[p] = "cached" /\ pc'[p] = "ask" /\ UNCHANGED <<bundle, lock, from>>
      \/ phase[p] = "locked" /\ pc'[p] = "confirm" /\ UNCHANGED <<bundle, lock, from>>
      \/ phase[p] = "fetched" /\ pc'[p] = "idle" /\ lock' = Nobody
  BY <1>3 DEF IInv, Shapes
<1>5. Locks'
  BY <1>2, <1>3, <1>4, LocksKept, MarkerAssumption DEF Extraction, NoExtraction, Unpacks, Held, Fetching, Reading
<1>6. Proc(p)'
  <2>1. Downloads(p)'
    BY <1>3, <1>4 DEF IInv, Proc, Downloads, Held, Fetching, Reading
  <2>2. SeesTrue(p)'
    BY <1>4 DEF SeesTrue, Valid
  <2>3. Untouched(p)' /\ CodeWhole(p)'
    BY <1>4 DEF Untouched, CodeWhole, Reading
  <2> QED BY <2>1, <2>2, <2>3 DEF Proc
<1>7. \A q \in Procs \ {p} : Proc(q)'
  <2>1. CASE phase[p] = "fetched"
    BY <1>2, <1>3, <2>1, OthersFetching DEF Fetches
  <2>2. CASE phase[p] # "fetched"
    BY <1>2, <1>4, <2>2, OthersQuiet DEF Fetches, files, Fetching
  <2> QED BY <2>1, <2>2
<1> QED BY <1>1, <1>5, <1>6, <1>7 DEF IInv, RuntimeWhole

\* A verification that goes on by reading what is there.
LEMMA VerifyOn ==
  ASSUME IInv, NEW p \in Procs, pc[p] \in Reading, NEW place \in Reading \cup {"open"},
         pc' = [pc EXCEPT ![p] = place], UNCHANGED Verifying, UNCHANGED <<bundle, from>>,
         IF place = "open" THEN Unlocked(p) ELSE UNCHANGED lock,
         footer' \in [Procs -> Publications \cup {Absent}],
         hashed' \in [Procs -> Prefixes],
         \A q \in Procs \ {p} : footer'[q] = footer[q] /\ hashed'[q] = hashed[q]
  PROVE  /\ Shapes' /\ Locks' /\ RuntimeWhole' /\ \A q \in Procs \ {p} : Proc(q)'
         /\ pc'[p] = place /\ CodeWhole(p)'
         /\ OtherFetches(p)' => OtherFetches(p)
<1> USE DEF Unlocked, Verifying, setting
<1>1. Shapes'
  BY PcsFacts DEF IInv, Shapes
<1>2. OthersKeep(p) /\ TouchedKept(p) /\ MovesLock(p) /\ pc'[p] = place
  BY DEF IInv, Shapes, OthersKeep, TouchedKept, MovesLock
<1>3. /\ lock = p <=> phase[p] # "cached"
      /\ NoExtraction(p)
  BY DEF IInv, Locks, Held, Extraction, NoExtraction, Unpacks, Fetching, Reading
<1>4. Locks'
  BY <1>2, <1>3, LocksKept, MarkerAssumption DEF Extraction, NoExtraction, Unpacks, Held, Fetching, Reading
<1>5. \A q \in Procs \ {p} : Proc(q)'
  BY <1>2, OthersQuiet, MarkerAssumption DEF Fetches, files, Fetching, Reading
<1>6. CodeWhole(p)'
  BY <1>2 DEF CodeWhole, Reading
<1>7. OtherFetches(p)' => OtherFetches(p)
  BY <1>2, MarkerAssumption DEF OtherFetches, OthersKeep
<1> QED BY <1>1, <1>2, <1>4, <1>5, <1>6, <1>7 DEF IInv, RuntimeWhole

LEMMA ReadBundleFooterInv ==
  ASSUME IInv, NEW p \in Procs, ReadBundleFooter(p)
  PROVE  IInv'
<1>1. pc[p] = "footer" /\ UNCHANGED Verifying
  BY DEF ReadBundleFooter
<1>2. CASE bundle # <<>> /\ checksum # Absent
  <2>1. /\ footer' = [footer EXCEPT ![p] = bundle[Parts]]
        /\ pc' = [pc EXCEPT ![p] = "hash"] /\ UNCHANGED <<bundle, lock, from, hashed>>
    BY <1>2 DEF ReadBundleFooter
  <2>2. bundle[Parts] \in Publications
    BY <1>2, PrefixFacts DEF IInv, Shapes, Parts
  <2>3. /\ footer' \in [Procs -> Publications \cup {Absent}]
        /\ hashed' \in [Procs -> Prefixes]
        /\ \A q \in Procs \ {p} : footer'[q] = footer[q] /\ hashed'[q] = hashed[q]
        /\ footer'[p] = bundle[Parts]
    BY <2>1, <2>2 DEF IInv, Shapes
  <2>4. /\ Shapes' /\ Locks' /\ RuntimeWhole' /\ \A q \in Procs \ {p} : Proc(q)'
        /\ pc'[p] = "hash" /\ CodeWhole(p)'
        /\ OtherFetches(p)' => OtherFetches(p)
    BY <1>1, <2>1, <2>3, VerifyOn DEF Reading
  <2>5. Downloads(p)'
    BY <1>1, <2>1, <2>4 DEF IInv, Proc, Downloads, Held, Reading, Fetching, Verifying
  <2>6. SeesTrue(p)'
    BY <1>1, <2>1, <2>3, <2>4 DEF SeesTrue, IInv, Proc, Verifying
  <2>7. Untouched(p)'
    BY <1>1, <2>1, <2>3, <2>4 DEF IInv, Proc, Untouched, Reading, Verifying
  <2> QED BY <2>4, <2>5, <2>6, <2>7 DEF IInv, Proc
<1>3. CASE ~(bundle # <<>> /\ checksum # Absent)
  <2>1. ~Valid
    BY <1>3, PrefixFacts DEF IInv, Shapes, Valid
  <2> QED BY <1>1, <1>3, <2>1, RejectInv DEF ReadBundleFooter, Reading
<1> QED BY <1>2, <1>3

LEMMA HashBundleInv ==
  ASSUME IInv, NEW p \in Procs, HashBundle(p)
  PROVE  IInv'
<1>1. pc[p] = "hash" /\ UNCHANGED Verifying
  BY DEF HashBundle
<1>2. CASE bundle # <<>>
  <2>1. /\ hashed' = [hashed EXCEPT ![p] = bundle]
        /\ pc' = [pc EXCEPT ![p] = "recorded"] /\ UNCHANGED <<bundle, lock, from, footer>>
    BY <1>2 DEF HashBundle
  <2>3. /\ footer' \in [Procs -> Publications \cup {Absent}]
        /\ hashed' \in [Procs -> Prefixes]
        /\ \A q \in Procs \ {p} : footer'[q] = footer[q] /\ hashed'[q] = hashed[q]
        /\ hashed'[p] = bundle
    BY <2>1 DEF IInv, Shapes
  <2>4. /\ Shapes' /\ Locks' /\ RuntimeWhole' /\ \A q \in Procs \ {p} : Proc(q)'
        /\ pc'[p] = "recorded" /\ CodeWhole(p)'
        /\ OtherFetches(p)' => OtherFetches(p)
    BY <1>1, <2>1, <2>3, VerifyOn DEF Reading
  <2>5. Downloads(p)'
    BY <1>1, <2>1, <2>4 DEF IInv, Proc, Downloads, Held, Reading, Fetching, Verifying
  <2>6. SeesTrue(p)'
    BY <1>1, <2>1, <2>3, <2>4 DEF SeesTrue, IInv, Proc, Verifying
  <2>7. Untouched(p)'
    BY <1>1, <2>1, <2>3, <2>4 DEF IInv, Proc, Untouched, Reading, Verifying
  <2> QED BY <2>4, <2>5, <2>6, <2>7 DEF IInv, Proc
<1>3. CASE bundle = <<>>
  <2>1. ~Valid
    BY <1>3, PrefixFacts DEF IInv, Shapes, Valid
  <2> QED BY <1>1, <1>3, <2>1, RejectInv DEF HashBundle, Reading
<1> QED BY <1>2, <1>3

LEMMA ReadRecordedHashInv ==
  ASSUME IInv, NEW p \in Procs, ReadRecordedHash(p)
  PROVE  IInv'
<1>1. pc[p] = "recorded" /\ UNCHANGED Verifying
  BY DEF ReadRecordedHash
<1>2. CASE Authentic(p)
  <2>1. /\ footer' = [footer EXCEPT ![p] = Absent]
        /\ pc' = [pc EXCEPT ![p] = "build"] /\ UNCHANGED <<bundle, lock, from, hashed>>
    BY <1>2 DEF ReadRecordedHash
  <2>3. /\ footer' \in [Procs -> Publications \cup {Absent}]
        /\ hashed' \in [Procs -> Prefixes]
        /\ \A q \in Procs \ {p} : footer'[q] = footer[q] /\ hashed'[q] = hashed[q]
    BY <2>1 DEF IInv, Shapes
  <2>4. /\ Shapes' /\ Locks' /\ RuntimeWhole' /\ \A q \in Procs \ {p} : Proc(q)'
        /\ pc'[p] = "build" /\ CodeWhole(p)'
        /\ OtherFetches(p)' => OtherFetches(p)
    BY <1>1, <2>1, <2>3, VerifyOn DEF Reading
  <2>5. SeesTrue(p)' /\ Untouched(p)'
    BY <1>1, <1>2, <2>1, <2>4
       DEF IInv, Proc, SeesTrue, Untouched, Reading, Verifying, Authentic
  <2>6. Downloads(p)'
    <3>1. Downloads(p) /\ (Held(p)' => Held(p))
      BY <1>1, <2>4 DEF IInv, Proc, Held, Reading, Verifying, Fetching
    <3>2. phase[p] = "fetched" => checksum = from[p] /\ manifest \in {from[p], Absent}
      BY <1>1, <1>2, <3>1 DEF Downloads, Reading, Authentic
    <3>3. phase[p] = "fetched" => hashed[p] = Whole(from[p])
      BY <1>2, <3>2 DEF Authentic
    <3> QED BY <1>1, <2>1, <2>4, <3>1, <3>2, <3>3 DEF Downloads, Verifying
  <2> QED BY <2>4, <2>5, <2>6 DEF IInv, Proc
<1>3. CASE ~Authentic(p)
  <2>1. ASSUME phase[p] = "locked", Valid PROVE FALSE
    <3>1. checksum \in Publications /\ bundle # <<>> /\ bundle[Parts] = checksum
      BY <2>1, PrefixFacts DEF IInv, Shapes, Valid
    <3>2. footer[p] = checksum /\ hashed[p] = bundle
      BY <1>1, <2>1, <3>1 DEF IInv, Proc, SeesTrue
    <3> QED BY <1>3, <2>1, <3>2 DEF Authentic, Valid
  <2> QED BY <1>1, <1>3, <2>1, RejectInv DEF ReadRecordedHash, Reading
<1> QED BY <1>2, <1>3

LEMMA VerifyManifestInv ==
  ASSUME IInv, NEW p \in Procs, VerifyManifest(p)
  PROVE  IInv'
<1>1. pc[p] = "build" /\ UNCHANGED Verifying
  BY DEF VerifyManifest
<1>2. CASE manifest \in Good
  <2>1. /\ Unlocked(p)
        /\ pc' = [pc EXCEPT ![p] = "open"] /\ UNCHANGED <<bundle, from, footer, hashed>>
    BY <1>2 DEF VerifyManifest
  <2>4. /\ Shapes' /\ Locks' /\ RuntimeWhole' /\ \A q \in Procs \ {p} : Proc(q)'
        /\ pc'[p] = "open" /\ CodeWhole(p)'
        /\ OtherFetches(p)' => OtherFetches(p)
    BY <1>1, <2>1, VerifyOn DEF IInv, Shapes, Reading
  <2>5. SeesTrue(p)' /\ Untouched(p)'
    BY <1>1, <1>2, <2>1, <2>4
       DEF IInv, Proc, SeesTrue, Untouched, Reading, Verifying
  <2>6. Downloads(p)'
    BY <1>1, <1>2, <2>1, <2>4, PublicationAssumption, MarkerAssumption
       DEF IInv, Proc, Downloads, Held, Reading, Fetching, Verifying
  <2> QED BY <2>4, <2>5, <2>6 DEF IInv, Proc
<1>3. CASE manifest \notin Good
  <2>1. ~Valid
    BY <1>3 DEF Valid
  <2> QED BY <1>1, <1>3, <2>1, RejectInv DEF VerifyManifest, Reading
<1> QED BY <1>2, <1>3

LEMMA AskInv ==
  ASSUME IInv, NEW p \in Procs, Ask(p)
  PROVE  IInv'
<1>1. /\ pc[p] = "ask"
      /\ UNCHANGED <<setting, files, lock, runtime, extracting, phase, footer, hashed,
                     opened, loaded, touched, faults>>
  BY DEF Ask
<1>2. \/ pc' = [pc EXCEPT ![p] = "idle"] /\ UNCHANGED from
      \/ pc' = [pc EXCEPT ![p] = "lock"]
           /\ \E x \in Publications : from' = [from EXCEPT ![p] = x]
  BY DEF Ask
<1>3. Shapes'
  BY <1>1, <1>2, PcsFacts DEF IInv, Shapes, files, setting, Resting
<1>4. OthersKeep(p) /\ TouchedKept(p) /\ MovesLock(p)
  BY <1>1, <1>2 DEF IInv, Shapes, OthersKeep, TouchedKept, MovesLock
<1>5. /\ lock # p /\ NoExtraction(p)
      /\ \/ pc'[p] = "idle"
         \/ pc'[p] = "lock" /\ from'[p] \in Publications
  BY <1>1, <1>2 DEF IInv, Shapes, Locks, Held, Extraction, NoExtraction, Unpacks, Fetching, Reading
<1>6. Locks'
  BY <1>1, <1>4, <1>5, LocksKept DEF Extraction, NoExtraction, Unpacks, Held, Fetching, Reading
<1>7. Proc(p)'
  BY <1>5 DEF Proc, Downloads, SeesTrue, Untouched, CodeWhole, Held, Fetching, Reading
<1>8. \A q \in Procs \ {p} : Proc(q)'
  BY <1>1, <1>4, <1>5, OthersQuiet DEF Fetches
<1> QED BY <1>1, <1>3, <1>6, <1>7, <1>8 DEF IInv, RuntimeWhole

LEMMA BackendCacheLockInv ==
  ASSUME IInv, NEW p \in Procs, BackendCacheLock(p)
  PROVE  IInv'
<1> USE DEF BackendCacheLock, Verify, LockFree
<1>0. OtherFetches(p) \in BOOLEAN
  BY Zenon DEF OtherFetches
<1>1. Shapes'
  BY <1>0, PcsFacts DEF IInv, Shapes, files, setting, Reading
<1>2. OthersKeep(p) /\ TouchedKept(p) /\ MovesLock(p) /\ UNCHANGED files
  BY DEF IInv, Shapes, OthersKeep, TouchedKept, MovesLock
<1>3. /\ pc'[p] = "footer" /\ phase'[p] = "locked" /\ lock' = p
      /\ NoExtraction(p)' /\ from'[p] \in Publications
  BY DEF IInv, Shapes, Locks, Extraction, NoExtraction, Unpacks, Proc, Downloads
<1>5. Locks'
  BY <1>2, <1>3, LocksKept DEF Extraction, NoExtraction, Unpacks, Held, Fetching, Reading
<1>6. ~OtherFetches(p)'
  BY <1>3 DEF OtherFetches
<1>7. Proc(p)'
  BY <1>3, <1>6 DEF Proc, Downloads, SeesTrue, Untouched, CodeWhole, Held, Fetching, Reading
<1>8. \A q \in Procs \ {p} : Proc(q)'
  BY <1>2, <1>3, OthersQuiet DEF Fetches, Fetching
<1> QED BY <1>1, <1>5, <1>7, <1>8 DEF IInv, RuntimeWhole

LEMMA DeclineInv ==
  ASSUME IInv, NEW p \in Procs, Decline(p)
  PROVE  IInv'
<1> USE DEF Decline, Unlocked
<1>1. Shapes'
  BY PcsFacts DEF IInv, Shapes, files, setting, Resting
<1>2. OthersKeep(p) /\ TouchedKept(p) /\ MovesLock(p) /\ UNCHANGED files
  BY DEF IInv, Shapes, OthersKeep, TouchedKept, MovesLock
<1>3. pc'[p] = "idle" /\ lock' # p /\ NoExtraction(p)'
  BY MarkerAssumption DEF IInv, Shapes, Locks, Extraction, NoExtraction, Unpacks
<1>5. Locks'
  BY <1>2, <1>3, LocksKept DEF Extraction, NoExtraction, Unpacks, Held, Fetching, Reading
<1>7. Proc(p)'
  BY <1>3 DEF Proc, Downloads, SeesTrue, Untouched, CodeWhole, Held, Fetching, Reading
<1>8. \A q \in Procs \ {p} : Proc(q)'
  BY <1>2, <1>3, OthersQuiet DEF Fetches
<1> QED BY <1>1, <1>5, <1>7, <1>8 DEF IInv, RuntimeWhole

\* The download begins: nobody has verified what goes now.
LEMMA ConfirmDownloadInv ==
  ASSUME IInv, NEW p \in Procs, ConfirmDownload(p)
  PROVE  IInv'
<1> USE DEF ConfirmDownload
<1>1. Shapes'
  <2>1. bundle' \in Prefixes /\ Len(bundle') \in {0, Parts}
    BY PrefixFacts
  <2>2. touched' \in [Procs -> BOOLEAN]
    BY DEF IInv, Shapes
  <2> QED BY <2>1, <2>2, PcsFacts DEF IInv, Shapes, setting, locals, Fetching
<1>2. OthersKeep(p) /\ MovesLock(p)
  BY DEF IInv, Shapes, OthersKeep, MovesLock, locals
<1>3. pc'[p] = "request" /\ lock = p /\ NoExtraction(p) /\ from'[p] \in Publications
  BY DEF IInv, Shapes, Locks, Held, Extraction, NoExtraction, Unpacks, Proc, Downloads, locals
<1>4. Locks'
  BY <1>2, <1>3, LocksKept DEF Extraction, NoExtraction, Unpacks, Held, Fetching, Reading
<1>5. Proc(p)'
  BY <1>3 DEF Proc, Downloads, SeesTrue, Untouched, CodeWhole, Held, Fetching, Reading
<1>6. ASSUME NEW q \in Procs \ {p} PROVE Proc(q)'
  <2>1. Proc(q) /\ ~Held(q)
    BY <1>3 DEF IInv, Locks
  <2>2. UNCHANGED <<pc[q], phase[q], from[q], footer[q], hashed[q], opened[q], loaded[q]>>
    BY <1>2 DEF OthersKeep
  <2>3. pc[q] \in Reading \cup {"open"} => touched'[q]
    <3>1. CASE pc[q] \in Reading
      BY <3>1 DEF IInv, Shapes
    <3>2. CASE pc[q] = "open"
      <4>1. ~Valid
        BY DEF IInv, Proc, SeesTrue
      <4>2. touched[q]
        BY <2>1, <3>2, <4>1 DEF Proc, Untouched, Valid
      <4> QED BY <3>2, <4>2 DEF IInv, Shapes
    <3> QED BY <3>1, <3>2
  <2>4. CodeWhole(q)' /\ Untouched(q)'
    BY <2>1, <2>2, <2>3 DEF Proc, CodeWhole, Untouched
  <2>5. Downloads(q)' /\ SeesTrue(q)'
    BY <2>1, <2>2 DEF Proc, Downloads, SeesTrue, Held, Fetching, Reading
  <2> QED BY <2>4, <2>5 DEF Proc
<1> QED BY <1>1, <1>4, <1>5, <1>6 DEF IInv, RuntimeWhole

-----------------------------------------------------------------------------
(* The steps of a download, of which all who verify know.                  *)

\* A fetcher's step to another place of the fetch.
LEMMA FetchStep ==
  ASSUME IInv, NEW p \in Procs, NEW place \in Fetching, Step(p, pc[p], place),
         pc[p] \in Fetching, UNCHANGED <<kind, Received, faults>>,
         unlinked' \in BOOLEAN,
         bundle' \in Prefixes, partial' \in Prefixes, Len(bundle') \in {0, Parts},
         {checksum', sumPartial', manifest'} \subseteq Publications \cup {Absent},
         place = "install" => sumPartial' \in {from[p], Absent},
         place \in {"drop", "manifest"} => checksum' \in {from[p], Absent}
  PROVE  IInv'
<1> USE DEF Step, Received
<1>1. Shapes'
  BY PcsFacts DEF IInv, Shapes
<1>2. OthersKeep(p) /\ TouchedKept(p) /\ MovesLock(p) /\ pc'[p] = place
  BY DEF IInv, Shapes, OthersKeep, TouchedKept, MovesLock
<1>3. lock = p /\ NoExtraction(p) /\ from[p] \in Publications
  BY DEF IInv, Locks, Held, Extraction, NoExtraction, Unpacks, Fetching, Proc, Downloads
<1>4. Locks'
  BY <1>2, <1>3, LocksKept DEF Extraction, NoExtraction, Unpacks, Held, Fetching
<1>5. Proc(p)'
  BY <1>2, <1>3 DEF Proc, Downloads, SeesTrue, Untouched, CodeWhole, Fetching, Reading
<1>6. \A q \in Procs \ {p} : Proc(q)'
  BY <1>2, <1>3, OthersFetching DEF Fetches
<1> QED BY <1>1, <1>4, <1>5, <1>6 DEF IInv, RuntimeWhole

\* A fetch that fails; the partial files stay.
LEMMA GiveUpInv ==
  ASSUME IInv, NEW p \in Procs, pc[p] \in Fetching, GiveUp(p), UNCHANGED <<kind, Received>>,
         unlinked' \in BOOLEAN, UNCHANGED <<partial, checksum, sumPartial, manifest>>,
         faults' \in 0..MaxFaults
  PROVE  IInv'
<1> USE DEF GiveUp, Unlocked, Received
<1>1. Shapes'
  BY PcsFacts, PrefixFacts DEF IInv, Shapes, Resting
<1>2. OthersKeep(p) /\ TouchedKept(p) /\ MovesLock(p) /\ pc'[p] = "idle"
  BY DEF IInv, Shapes, OthersKeep, TouchedKept, MovesLock
<1>3. lock = p /\ NoExtraction(p) /\ lock' # p
  BY MarkerAssumption DEF IInv, Locks, Held, Extraction, NoExtraction, Unpacks, Fetching
<1>4. Locks'
  BY <1>2, <1>3, LocksKept DEF Extraction, NoExtraction, Unpacks, Held, Fetching, Reading
<1>5. Proc(p)'
  BY <1>2 DEF Proc, Downloads, SeesTrue, Untouched, CodeWhole, Held, Fetching, Reading
<1>6. \A q \in Procs \ {p} : Proc(q)'
  BY <1>2, <1>3, OthersFetching DEF Fetches
<1> QED BY <1>1, <1>4, <1>5, <1>6 DEF IInv, RuntimeWhole

LEMMA RequestInv ==
  ASSUME IInv, NEW p \in Procs, Request(p) \/ Receive(p) \/ InstallBundle(p)
  PROVE  IInv'
<1> USE DEF FetchFrame, setting
<1>1. from[p] \in Publications \/ pc[p] \notin Fetching
  BY DEF IInv, Proc, Downloads, Held
<1>2. CASE Request(p)
  <2>1. unlinked' \in BOOLEAN
    BY <1>2, Zenon DEF Request
  <2>2. partial' \in Prefixes
    BY <1>2, PrefixFacts DEF Request, IInv, Shapes
  <2> QED BY <1>2, <2>1, <2>2, FetchStep DEF Request, IInv, Shapes, Fetching, Step
<1>3. CASE Receive(p)
  <2>1. partial' \in Prefixes
    BY <1>1, <1>3, PrefixFacts DEF Receive, Step, IInv, Shapes, Fetching
  <2> QED BY <1>3, <2>1, FetchStep DEF Receive, IInv, Shapes, Fetching, Step
<1>4. CASE InstallBundle(p)
  BY <1>4, FetchStep, PrefixFacts DEF InstallBundle, IInv, Shapes, Fetching, Step
<1> QED BY <1>2, <1>3, <1>4

LEMMA ChecksumInv ==
  ASSUME IInv, NEW p \in Procs, FetchChecksum(p) \/ InstallChecksum(p) \/ DropManifest(p)
  PROVE  IInv'
<1> USE DEF FetchFrame, setting
<1>1. from[p] \in Publications \/ pc[p] \notin Fetching
  BY DEF IInv, Proc, Downloads, Held
<1>2. CASE FetchChecksum(p)
  BY <1>1, <1>2, FetchStep DEF FetchChecksum, IInv, Shapes, Fetching, Step
<1>3. CASE InstallChecksum(p)
  <2>1. sumPartial \in {from[p], Absent}
    BY <1>3 DEF InstallChecksum, Step, IInv, Proc, Downloads
  <2> QED BY <1>3, <2>1, FetchStep DEF InstallChecksum, IInv, Shapes, Fetching, Step
<1>4. CASE DropManifest(p)
  <2>1. checksum \in {from[p], Absent}
    BY <1>4 DEF DropManifest, Step, IInv, Proc, Downloads
  <2> QED BY <1>4, <2>1, FetchStep DEF DropManifest, IInv, Shapes, Fetching, Step
<1> QED BY <1>2, <1>3, <1>4

LEMMA FetchFailsInv ==
  ASSUME IInv, NEW p \in Procs,
         \/ BundleRangeRefused(p) \/ InstallFails(p) \/ ChecksumRangeRefused(p)
         \/ RequestFails(p)
  PROVE  IInv'
<1> USE DEF FetchFrame, setting
<1>1. CASE BundleRangeRefused(p) \/ ChecksumRangeRefused(p)
  BY <1>1, GiveUpInv DEF BundleRangeRefused, ChecksumRangeRefused, Fetching, IInv, Shapes
<1>2. CASE InstallFails(p) \/ RequestFails(p)
  <2>1. unlinked' \in BOOLEAN
    BY <1>2, Zenon DEF InstallFails, RequestFails
  <2>2. faults' \in 0..MaxFaults
    BY <1>2, BoundAssumption DEF InstallFails, RequestFails, IInv, Shapes
  <2> QED BY <1>2, <2>1, <2>2, GiveUpInv DEF InstallFails, RequestFails, Fetching
<1> QED BY <1>1, <1>2

LEMMA DownloadManifestInv ==
  ASSUME IInv, NEW p \in Procs, DownloadManifest(p)
  PROVE  IInv'
<1> USE DEF DownloadManifest, Verify, setting
<1>1. lock = p /\ NoExtraction(p) /\ from[p] \in Publications /\ checksum \in {from[p], Absent}
  BY DEF IInv, Locks, Held, Extraction, NoExtraction, Unpacks, Fetching, Proc, Downloads
<1>2. ~OtherFetches(p) /\ OtherFetches(p) \in BOOLEAN
  BY <1>1, Zenon DEF OtherFetches
<1>3. Shapes'
  BY <1>1, <1>2, PcsFacts DEF IInv, Shapes, Reading
<1>4. OthersKeep(p) /\ TouchedKept(p) /\ MovesLock(p) /\ pc'[p] = "footer" /\ phase'[p] = "fetched"
  BY DEF IInv, Shapes, OthersKeep, TouchedKept, MovesLock
<1>5. Locks'
  BY <1>1, <1>4, LocksKept DEF Extraction, NoExtraction, Unpacks, Held, Reading
<1>6. ~OtherFetches(p)'
  BY <1>1, <1>4 DEF OtherFetches
<1>7. Proc(p)'
  BY <1>1, <1>4, <1>6 DEF Proc, Downloads, SeesTrue, Untouched, CodeWhole, Fetching, Reading, Held
<1>8. \A q \in Procs \ {p} : Proc(q)'
  BY <1>1, <1>4, OthersFetching DEF Fetches, Fetching
<1> QED BY <1>3, <1>5, <1>7, <1>8 DEF IInv, RuntimeWhole

-----------------------------------------------------------------------------
(* Removals, for which nobody has a lock.                                  *)

LEMMA StartRemovalInv ==
  ASSUME IInv, NEW p \in Procs, StartRemoval(p)
  PROVE  IInv'
<1> USE DEF StartRemoval
<1>1. Shapes'
  <2>1. faults \in 0..MaxFaults /\ faults < MaxFaults /\ faults' = faults + 1
    BY DEF IInv, Shapes
  <2>2. faults' \in 0..MaxFaults
    <3> HIDE DEF StartRemoval
    <3> QED BY <2>1, BoundAssumption
  <2>3. pc' \in [Procs -> Pcs] /\ loaded' \in [Procs -> Pairs \cup {<<>>}]
    BY PcsFacts DEF IInv, Shapes, Removing
  <2> QED BY <2>2, <2>3 DEF IInv, Shapes, files, setting
<1>2. OthersKeep(p) /\ TouchedKept(p) /\ MovesLock(p) /\ UNCHANGED files
  BY DEF IInv, Shapes, OthersKeep, TouchedKept, MovesLock
<1>3. pc'[p] = "rm bundle" /\ lock # p /\ NoExtraction(p)
  BY DEF IInv, Shapes, Locks, Held, Extraction, NoExtraction, Unpacks, Fetching, Reading, Resting
<1>4. Locks'
  BY <1>2, <1>3, LocksKept DEF Extraction, NoExtraction, Unpacks, Held, Fetching, Reading
<1>5. Proc(p)'
  BY <1>3 DEF Proc, Downloads, SeesTrue, Untouched, CodeWhole, Held, Fetching, Reading
<1>6. \A q \in Procs \ {p} : Proc(q)'
  BY <1>2, <1>3, OthersQuiet DEF Fetches
<1> QED BY <1>1, <1>4, <1>5, <1>6 DEF IInv, RuntimeWhole

LEMMA RemoveBackendInv ==
  ASSUME IInv, NEW p \in Procs, RemoveBackend(p)
  PROVE  IInv'
<1>1. /\ bundle' \in {<<>>, bundle} /\ partial' \in {<<>>, partial}
      /\ checksum' \in {Absent, checksum} /\ sumPartial' \in {Absent, sumPartial}
      /\ manifest' \in {Absent, manifest}
      /\ UNCHANGED <<kind, lock, runtime, extracting, locals, faults>>
      /\ touched' = [q \in Procs |-> touched[q] \/ pc[q] \in Reading \cup {"open"}]
  BY DEF RemoveBackend
<1>2. pc[p] \in Removing
  BY RemovalFacts DEF RemoveBackend, Removing
<1>3. PICK place \in Removing \cup {"idle"} : pc' = [pc EXCEPT ![p] = place]
  BY <1>2, RemovalFacts DEF RemoveBackend, Removing
<1>4. Shapes'
  <2>1. /\ bundle' \in Prefixes /\ partial' \in Prefixes /\ Len(bundle') \in {0, Parts}
        /\ {checksum', sumPartial', manifest'} \subseteq Publications \cup {Absent}
    BY <1>1, PrefixFacts DEF IInv, Shapes
  <2>2. touched' \in [Procs -> BOOLEAN]
    BY <1>1 DEF IInv, Shapes
  <2>3. unlinked' \in BOOLEAN
    BY Zenon DEF RemoveBackend
  <2>4. pc' \in [Procs -> Pcs]
    BY <1>3, PcsFacts DEF IInv, Shapes, Resting
  <2> QED BY <1>1, <2>1, <2>2, <2>3, <2>4 DEF IInv, Shapes, locals
<1>5. OthersKeep(p) /\ MovesLock(p) /\ pc'[p] = place
  BY <1>1, <1>3 DEF IInv, Shapes, OthersKeep, MovesLock, locals
<1>6. lock # p /\ NoExtraction(p)
  BY <1>2 DEF IInv, Locks, Held, Extraction, NoExtraction, Unpacks, Fetching, Reading, Removing
<1>7. Locks'
  BY <1>1, <1>5, <1>6, LocksKept DEF Extraction, NoExtraction, Unpacks, Held, Fetching, Reading, Removing
<1>8. Proc(p)'
  BY <1>5 DEF Proc, Downloads, SeesTrue, Untouched, CodeWhole, Held, Fetching, Reading, Removing
<1>9. ASSUME NEW q \in Procs \ {p} PROVE Proc(q)'
  <2>1. Proc(q)
    BY DEF IInv
  <2>2. UNCHANGED <<pc[q], phase[q], from[q], footer[q], hashed[q], opened[q], loaded[q]>>
    BY <1>5 DEF OthersKeep
  <2>3. Untouched(q)' /\ CodeWhole(q)'
    <3>1. pc[q] \in Reading \cup {"open"} => touched'[q]
      BY <1>1
    <3> QED BY <2>1, <2>2, <3>1 DEF Untouched, CodeWhole, Proc
  <2>4. SeesTrue(q)'
    <3>1. Valid' => Valid
      BY <1>1, <1>4, PrefixFacts, PublicationAssumption, MarkerAssumption DEF Valid, IInv, Shapes
    <3>2. bundle' # <<>> => bundle' = bundle
      BY <1>1
    <3> QED BY <2>1, <2>2, <3>1, <3>2 DEF Proc, SeesTrue
  <2>5. Downloads(q)'
    BY <1>1, <2>1, <2>2 DEF Proc, Downloads, Held
  <2> QED BY <2>3, <2>4, <2>5 DEF Proc
<1> QED BY <1>1, <1>4, <1>7, <1>8, <1>9 DEF IInv, RuntimeWhole

-----------------------------------------------------------------------------
(* Unpacking and loading.                                                  *)

\* A step of a process that has done with the files in the cache.
LEMMA LoadStep ==
  ASSUME IInv, NEW p \in Procs, Shapes', RuntimeWhole', CodeWhole(p)', OthersKeep(p),
         UNCHANGED <<files, lock, phase, touched>>, MovesLock(p),
         pc[p] \in {"seal", "extract", "reuse", "stage", "load"},
         pc'[p] \in {"extract", "reuse", "stage", "load", "done", "idle"},
         Extraction(p)'
  PROVE  IInv'
<1>1. lock # p
  BY DEF IInv, Locks, Held, Fetching, Reading
<1>2. Locks'
  BY <1>1, LocksKept DEF Held, Fetching, Reading
<1>3. Proc(p)'
  BY DEF Proc, Downloads, SeesTrue, Untouched, Held, Fetching, Reading
<1>4. \A q \in Procs \ {p} : Proc(q)'
  BY <1>1, OthersQuiet DEF Fetches, TouchedKept
<1> QED BY <1>2, <1>3, <1>4 DEF IInv

LEMMA OpenInv ==
  ASSUME IInv, NEW p \in Procs, Open(p)
  PROVE  IInv'
<1> USE DEF Open
<1>1. PICK place \in {"idle", "seal", "extract"} :
        pc' = [pc EXCEPT ![p] = place] /\ (place # "idle" => bundle # <<>>)
  BY DEF Open
<1>2. Shapes'
  <2>1. touched' \in [Procs -> BOOLEAN]
    BY Zenon DEF IInv, Shapes
  <2> QED BY <1>1, <2>1, PcsFacts, PrefixFacts DEF IInv, Shapes, files, setting, Resting
<1>3. OthersKeep(p) /\ TouchedKept(p) /\ MovesLock(p) /\ pc'[p] = place /\ opened'[p] = bundle
  BY <1>1 DEF IInv, Shapes, OthersKeep, TouchedKept, MovesLock
<1>4. lock # p /\ NoExtraction(p)
  BY DEF IInv, Locks, Held, Extraction, NoExtraction, Unpacks, Fetching, Reading
<1>5. Locks'
  BY <1>3, <1>4, LocksKept DEF Extraction, NoExtraction, Unpacks, Held, Fetching, Reading
<1>6. place # "idle" => bundle \in [1..Parts -> Publications]
  BY <1>1, PrefixFacts DEF IInv, Shapes
<1>7. Proc(p)'
  BY <1>3, <1>6 DEF Proc, Downloads, SeesTrue, Untouched, CodeWhole, Held, Fetching, Reading
<1>8. \A q \in Procs \ {p} : Proc(q)'
  BY <1>3, <1>4, OthersQuiet DEF Fetches
<1> QED BY <1>2, <1>5, <1>7, <1>8 DEF IInv, RuntimeWhole

LEMMA ExtractionLockInv ==
  ASSUME IInv, NEW p \in Procs, ExtractionLock(p)
  PROVE  IInv'
<1> USE DEF ExtractionLock, LoadFrame, setting
<1>1. Name(p) \in Publications /\ NoExtraction(p)
  BY DEF Name, Parts, IInv, Proc, CodeWhole, Locks, Extraction, NoExtraction, Unpacks
<1>2. /\ extracting' \in [Publications -> Procs \cup {Nobody}]
      /\ \A x \in Publications : extracting'[x] = IF x = Name(p) THEN p ELSE extracting[x]
  BY <1>1 DEF HeldBy, IInv, Shapes
<1>3. Shapes' /\ RuntimeWhole'
  BY <1>2, PcsFacts DEF IInv, Shapes, files, RuntimeWhole
<1>4. OthersKeep(p) /\ pc'[p] = "reuse" /\ opened'[p] = opened[p]
  BY DEF IInv, Shapes, OthersKeep
<1>5. MovesLock(p)
  BY <1>2 DEF MovesLock
<1>6. Extraction(p)'
  BY <1>1, <1>2, <1>4 DEF Extraction, NoExtraction, Unpacks, Name
<1>7. CodeWhole(p)'
  BY <1>4 DEF IInv, Proc, CodeWhole
<1> QED BY <1>3, <1>4, <1>5, <1>6, <1>7, LoadStep

\* An end of the loading, with the code of one publication or without any.
LEMMA LoadEnds ==
  ASSUME IInv, NEW p \in Procs, pc[p] \in {"seal", "load"}, UNCHANGED <<LoadFrame, runtime, extracting>>,
         \/ LoadFails(p)
         \/ \E code \in Pairs : code[1] = code[2] /\ Finish(p, code)
  PROVE  IInv'
<1> USE DEF LoadFrame, setting
<1>1. \/ LoadFails(p)
      \/ \E code \in Pairs : code[1] = code[2] /\ Finish(p, code)
  OBVIOUS
<1>2. /\ opened' = [opened EXCEPT ![p] = <<>>]
      /\ \/ pc' = [pc EXCEPT ![p] = "idle"] /\ UNCHANGED loaded
         \/ /\ pc' = [pc EXCEPT ![p] = "done"]
            /\ \E code \in Pairs : code[1] = code[2] /\ loaded' = [loaded EXCEPT ![p] = code]
  BY <1>1 DEF LoadFails, Finish
<1>3. Shapes' /\ RuntimeWhole'
  <2>1. opened' \in [Procs -> Prefixes] /\ loaded' \in [Procs -> Pairs \cup {<<>>}]
        /\ pc' \in [Procs -> Pcs]
    BY <1>2, PrefixFacts, PcsFacts DEF IInv, Shapes, Resting
  <2> QED BY <2>1 DEF IInv, Shapes, files, RuntimeWhole
<1>4. OthersKeep(p) /\ MovesLock(p) /\ pc'[p] \in {"idle", "done"}
  BY <1>2 DEF IInv, Shapes, OthersKeep, MovesLock
<1>5. CodeWhole(p)'
  BY <1>2, <1>4 DEF IInv, Shapes, CodeWhole
<1>6. Extraction(p)'
  BY <1>4 DEF IInv, Locks, Extraction, Unpacks
<1> QED BY <1>3, <1>4, <1>5, <1>6, LoadStep

LEMMA PrepareInv ==
  ASSUME IInv, NEW p \in Procs, PrepareCuda(p) \/ Load(p)
  PROVE  IInv'
<1>1. opened[p] \in [1..Parts -> Publications] \/ pc[p] \notin {"seal", "load"}
  BY DEF IInv, Proc, CodeWhole
<1>2. CASE PrepareCuda(p)
  <2>1. CASE Copies(opened[p])
    <3> DEFINE code == SubSeq(opened[p], 1, 2)
    <3>1. code \in Pairs /\ code[1] = code[2]
      BY <1>1, <1>2, <2>1, PairFacts DEF PrepareCuda, Copies
    <3>2. Finish(p, code)
      BY <1>2, <2>1 DEF PrepareCuda
    <3> HIDE DEF code
    <3> QED BY <1>2, <3>1, <3>2, LoadEnds DEF PrepareCuda
  <2>2. CASE ~Copies(opened[p])
    BY <1>2, <2>2, LoadEnds DEF PrepareCuda
  <2> QED BY <2>1, <2>2
<1>3. CASE Load(p)
  <2>1. CASE runtime[Name(p)] # Absent
    <3>1. Name(p) \in Publications
      BY <1>1, <1>3 DEF Name, Load, Parts
    <3>2. runtime[Name(p)] \in Pairs /\ runtime[Name(p)][1] = runtime[Name(p)][2]
      BY <2>1, <3>1 DEF IInv, Shapes, RuntimeWhole
    <3> QED BY <1>3, <2>1, <3>2, LoadEnds DEF Load
  <2>2. CASE runtime[Name(p)] = Absent
    BY <1>3, <2>2, LoadEnds DEF Load
  <2> QED BY <2>1, <2>2
<1> QED BY <1>2, <1>3

\* The lock of its directory is the one that a process which unpacks has to give
\* back.
LEMMA GivesBack ==
  ASSUME IInv, NEW p \in Procs, Name(p) \in Publications, HeldBy(Nobody, p)
  PROVE  /\ extracting' \in [Publications -> Procs \cup {Nobody}]
         /\ NoExtraction(p)'
         /\ UNCHANGED lock /\ Unpacks(p) => MovesLock(p)
<1>1. /\ extracting' \in [Publications -> Procs \cup {Nobody}]
      /\ \A x \in Publications :
           extracting'[x] = IF x = Name(p) THEN Nobody ELSE extracting[x]
  BY DEF HeldBy, IInv, Shapes
<1>2. \A x \in Publications : extracting[x] = p <=> Unpacks(p) /\ Name(p) = x
  BY DEF IInv, Locks, Extraction
<1>3. NoExtraction(p)'
  BY <1>1, <1>2, MarkerAssumption DEF NoExtraction
<1> QED BY <1>1, <1>2, <1>3 DEF MovesLock

LEMMA UnpackInv ==
  ASSUME IInv, NEW p \in Procs, Reuse(p) \/ RemoveCorrupt(p) \/ Publish(p)
  PROVE  IInv'
<1> USE DEF LoadFrame, setting
<1>1. pc[p] \in {"reuse", "stage"} /\ opened[p] \in [1..Parts -> Publications]
  BY DEF Reuse, RemoveCorrupt, Publish, IInv, Proc, CodeWhole
<1>2. Name(p) \in Publications /\ Unpacks(p) /\ Extraction(p)
  BY <1>1 DEF Name, Parts, IInv, Locks, Unpacks
<1>3. CASE Reuse(p)
  <2>1. /\ extracting' \in [Publications -> Procs \cup {Nobody}]
        /\ NoExtraction(p)' /\ MovesLock(p)
    BY <1>2, <1>3, GivesBack DEF Reuse
  <2>2. Shapes' /\ RuntimeWhole'
    BY <1>3, <2>1, PcsFacts DEF Reuse, IInv, Shapes, files, RuntimeWhole
  <2>3. OthersKeep(p) /\ pc'[p] = "load" /\ opened'[p] = opened[p]
    BY <1>3 DEF Reuse, IInv, Shapes, OthersKeep
  <2>4. Extraction(p)' /\ CodeWhole(p)'
    BY <1>1, <2>1, <2>3 DEF CodeWhole, Extraction, NoExtraction, Unpacks
  <2> QED BY <1>1, <1>3, <2>1, <2>2, <2>3, <2>4, LoadStep DEF Reuse
<1>4. CASE RemoveCorrupt(p)
  <2>1. Shapes' /\ RuntimeWhole'
    <3>1. runtime' \in [Publications -> Pairs \cup {Absent}]
      BY <1>4 DEF RemoveCorrupt, IInv, Shapes
    <3>2. RuntimeWhole'
      BY <1>4 DEF RemoveCorrupt, IInv, Shapes, RuntimeWhole
    <3> QED BY <1>4, <3>1, <3>2, PcsFacts DEF RemoveCorrupt, IInv, Shapes, files
  <2>2. OthersKeep(p) /\ MovesLock(p) /\ pc'[p] = "stage" /\ opened'[p] = opened[p]
    BY <1>4 DEF RemoveCorrupt, IInv, Shapes, OthersKeep, MovesLock
  <2>3. Extraction(p)' /\ CodeWhole(p)'
    BY <1>1, <1>2, <1>4, <2>2 DEF RemoveCorrupt, CodeWhole, Extraction, Unpacks, Name
  <2> QED BY <1>1, <1>4, <2>1, <2>2, <2>3, LoadStep DEF RemoveCorrupt
<1>5. CASE Publish(p)
  <2>1. PICK place \in {"load", "idle"} :
          /\ pc' = [pc EXCEPT ![p] = place]
          /\ \/ place = "load" /\ opened' = opened
             \/ place = "idle" /\ opened' = [opened EXCEPT ![p] = <<>>]
          /\ UNCHANGED loaded
          /\ \/ UNCHANGED runtime
             \/ /\ Copies(opened[p])
                /\ runtime' = [runtime EXCEPT ![Name(p)] = SubSeq(opened[p], 1, 2)]
    BY <1>5 DEF Publish, LoadFails
  <2>2. runtime' \in [Publications -> Pairs \cup {Absent}] /\ RuntimeWhole'
    <3>1. CASE UNCHANGED runtime
      BY <3>1 DEF IInv, Shapes, RuntimeWhole
    <3>2. CASE /\ Copies(opened[p])
               /\ runtime' = [runtime EXCEPT ![Name(p)] = SubSeq(opened[p], 1, 2)]
      <4> DEFINE code == SubSeq(opened[p], 1, 2)
      <4>1. code \in Pairs /\ code[1] = code[2]
        BY <1>1, <3>2, PairFacts DEF Copies
      <4>2. runtime' = [runtime EXCEPT ![Name(p)] = code]
        BY <3>2
      <4> HIDE DEF code
      <4> QED BY <1>2, <4>1, <4>2 DEF IInv, Shapes, RuntimeWhole
    <3> QED BY <2>1, <3>1, <3>2
  <2>3. /\ extracting' \in [Publications -> Procs \cup {Nobody}]
        /\ NoExtraction(p)' /\ MovesLock(p)
    BY <1>2, <1>5, GivesBack DEF Publish
  <2>4. Shapes'
    <3>1. pc' \in [Procs -> Pcs]
      BY <2>1, PcsFacts DEF IInv, Shapes, Resting
    <3>2. opened' = opened \/ opened' = [opened EXCEPT ![p] = <<>>]
      BY <2>1
    <3>3. opened' \in [Procs -> Prefixes]
      BY <3>2, PrefixFacts DEF IInv, Shapes
    <3> QED BY <1>5, <2>1, <2>2, <2>3, <3>1, <3>3 DEF Publish, IInv, Shapes, files
  <2>5. OthersKeep(p) /\ pc'[p] = place
    BY <1>5, <2>1 DEF Publish, IInv, Shapes, OthersKeep
  <2>6. Extraction(p)' /\ CodeWhole(p)'
    BY <1>1, <2>1, <2>3, <2>5 DEF CodeWhole, Extraction, NoExtraction, Unpacks
  <2> QED BY <1>1, <1>5, <2>2, <2>3, <2>4, <2>5, <2>6, LoadStep DEF Publish
<1> QED BY <1>3, <1>4, <1>5

\* A killed process changes no file, and the kernel gives its locks back.
LEMMA CrashInv ==
  ASSUME IInv, NEW p \in Procs, Crash(p)
  PROVE  IInv'
<1> USE DEF Crash, Unlocked
<1>1. Shapes'
  <2>1. faults' \in 0..MaxFaults
    BY BoundAssumption DEF IInv, Shapes
  <2>2. unlinked' \in BOOLEAN /\ touched' \in [Procs -> BOOLEAN]
    BY Zenon DEF IInv, Shapes
  <2>3. /\ pc' \in [Procs -> Pcs]
        /\ hashed' \in [Procs -> Prefixes] /\ opened' \in [Procs -> Prefixes]
    BY PcsFacts, PrefixFacts DEF IInv, Shapes, Resting
  <2> QED BY <2>1, <2>2, <2>3 DEF IInv, Shapes, files
<1>2. OthersKeep(p) /\ TouchedKept(p) /\ MovesLock(p) /\ UNCHANGED files
  BY DEF IInv, Shapes, OthersKeep, TouchedKept, MovesLock
<1>3. pc'[p] = "idle" /\ lock' # p /\ NoExtraction(p)'
  BY MarkerAssumption DEF IInv, Shapes, NoExtraction
<1>4. Locks'
  BY <1>2, <1>3, LocksKept DEF Extraction, NoExtraction, Unpacks, Held, Fetching, Reading
<1>5. Proc(p)'
  BY <1>3 DEF Proc, Downloads, SeesTrue, Untouched, CodeWhole, Held, Fetching, Reading
<1>6. \A q \in Procs \ {p} : Proc(q)'
  BY <1>2, <1>3, OthersQuiet DEF Fetches
<1> QED BY <1>1, <1>4, <1>5, <1>6 DEF IInv, RuntimeWhole

LEMMA StepInv ==
  ASSUME IInv, [Next]_vars
  PROVE  IInv'
<1>1. ASSUME NEW p \in Procs, Proceed(p) PROVE IInv'
  BY <1>1, ReadBundleFooterInv, HashBundleInv, ReadRecordedHashInv, VerifyManifestInv, AskInv,
     BackendCacheLockInv, ConfirmDownloadInv, DeclineInv, RequestInv, ChecksumInv,
     FetchFailsInv, DownloadManifestInv, RemoveBackendInv, OpenInv, PrepareInv,
     ExtractionLockInv, UnpackInv DEF Proceed
<1>2. CASE UNCHANGED vars
  <2> USE <1>2 DEF vars, files, locals, setting
  <2>1. Shapes' /\ RuntimeWhole'
    BY DEF IInv, Shapes, RuntimeWhole
  <2>2. Locks'
    BY DEF IInv, Locks, Held, Extraction, Unpacks, Name
  <2>3. ASSUME NEW p \in Procs PROVE Proc(p)'
    BY DEF IInv, Proc, Downloads, SeesTrue, Untouched, CodeWhole, Held, Valid, OtherFetches
  <2> QED BY <2>1, <2>2, <2>3 DEF IInv
<1> QED BY <1>1, <1>2, StartInv, StartRemovalInv, FetchFailsInv, CrashInv DEF Next

-----------------------------------------------------------------------------
LEMMA Invariance == Spec => []IInv
<1>1. Init => IInv
  BY InitInv
<1>2. IInv /\ [Next]_vars => IInv'
  BY StepInv
<1> QED BY <1>1, <1>2, PTL DEF Spec

\* The state stays well typed, a bundle in place has all its parts, and exactly
\* the processes between taking a lock and giving it back hold it, for any
\* processes, publications and faults (backend_fetch.cc:621, payload.cc:548).
THEOREM TypeCorrect == Spec => []TypeOK
<1>1. IInv => TypeOK
  BY DEF IInv, Shapes, Locks, Held, Extraction, Unpacks, TypeOK
<1> QED BY <1>1, Invariance, PTL

\* Whatever partial files were mixed, and whatever was replaced between its
\* verification and its opening, what is loaded is one publication's table with
\* that publication's files (payload.cc:469).
THEOREM CodeOfOnePublication == Spec => []LoadedWhole
<1>1. IInv => LoadedWhole
  BY DEF IInv, Proc, CodeWhole, LoadedWhole
<1> QED BY <1>1, Invariance, PTL

\* Who has fetched and verified under the lock has the bundle it asked for, of
\* its own commit (backend_fetch.cc:655).
THEOREM FetchesWhatWasAsked == Spec => []FetchedAsAsked
<1>1. IInv => FetchedAsAsked
  BY DEF IInv, Proc, Downloads, FetchedAsAsked
<1> QED BY <1>1, Invariance, PTL

\* A bundle that was verified while nobody else was fetching is still there, the
\* same, when it is opened, unless a user removed it (backend_fetch.cc:623, 633).
THEOREM VerifiedBundleStays == Spec => []VerifiedStays
<1>1. IInv => VerifiedStays
  BY DEF IInv, Proc, Untouched, VerifiedStays
<1> QED BY <1>1, Invariance, PTL
=============================================================================
