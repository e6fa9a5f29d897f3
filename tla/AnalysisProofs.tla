---------------------------- MODULE AnalysisProofs ----------------------------
(***************************************************************************)
(* What MCAnalysis checks of the sequential parts of the program, for      *)
(* every value of their bounds.                                            *)
(***************************************************************************)
EXTENDS MCAnalysis, Integers, FiniteSetTheorems, SequenceTheorems,
        WellFoundedInduction, TLAPS

(* Payload.                                                                *)

Entries == [path : Archive!Paths, size : Nat, path_size : Nat, data_offset : Nat]

ArchiveTypes ==
  /\ holder \in {"executable", "bundle"}
  /\ size \in 0..MaxFile
  /\ location \in [offset : Nat, length : Nat]
  /\ count \in Nat /\ position \in Nat
  /\ entries \in Seq(Entries)
  /\ outcome \in {"finding", "reading", "found", "none", "thrown"}

\* The payload is inside of the file from when it was found.
InFile ==
  /\ outcome \in {"reading", "found"} =>
       Footer <= size /\ location.offset + Archive!Length <= size - Footer
  /\ outcome = "finding" => entries = <<>>

\* The next byte to read is the one behind the last entry.
PositionInv ==
  outcome = "reading" =>
    location.offset + position = Archive!StartOf(Len(entries) + 1)

\* The entries follow one another inside of the payload.
EntriesInv ==
  \A i \in 1..Len(entries) :
    LET entry == entries[i] IN
    /\ entry.data_offset = Archive!StartOf(i) + EntryHeader + entry.path_size
    /\ entry.size > 0 /\ Archive!EndOf(entry) <= location.offset + Archive!Length
    /\ Archive!Below(entry.path)

FoundInv ==
  outcome = "found" =>
    /\ Len(entries) = count /\ count > 0
    /\ Archive!EndOf(entries[Len(entries)]) = location.offset + Archive!Length

ArchiveInv == ArchiveTypes /\ InFile /\ PositionInv /\ EntriesInv /\ FoundInv

ArchiveAlways == group = "payload" => ArchiveInv

-----------------------------------------------------------------------------
\* Sums and differences of unsigned numbers that do not leave their range.
LEMMA PlusInRange ==
  ASSUME NEW a \in Nat, NEW b \in Nat, a + b < Wide
  PROVE  Archive!Plus(a, b) = a + b
BY ArchiveAssumption DEF Archive!Plus

LEMMA MinusInRange ==
  ASSUME NEW a \in Nat, NEW b \in Nat, b <= a, a < Wide
  PROVE  Archive!Minus(a, b) = a - b
BY ArchiveAssumption DEF Archive!Minus

\* The bounds are compared by a difference, which is one that does not wrap.
LEMMA NotBeyond ==
  ASSUME NEW from \in Nat, NEW n \in Nat, NEW end \in Nat, end < Wide,
         ~Archive!Beyond(from, n, end)
  PROVE  from + n <= end /\ Archive!Plus(from, n) = from + n
<1>1. from <= end /\ ~(n > Archive!Minus(end, from))
  BY DEF Archive!Beyond
<1>2. Archive!Minus(end, from) = end - from
  BY <1>1, MinusInRange
<1>3. from + n <= end
  BY <1>1, <1>2
<1>4. from + n < Wide
  BY <1>3, ArchiveAssumption
<1> QED BY <1>3, <1>4, PlusInRange

\* A path with no empty, single or double dot name leads below.
LEMMA SafeIsBelow ==
  ASSUME NEW path \in Archive!Paths, Archive!SafeRelativePath(path)
  PROVE  Archive!Below(path)
<1>1. PICK n \in 1..2 : path \in [1..n -> {"a", "", ".", ".."}]
  BY DEF Archive!Paths
<1>2. \A i \in 1..n : path[i] = "a"
  BY <1>1 DEF Archive!SafeRelativePath
<1>3. Len(path) = n /\ DOMAIN path = 1..n
  <2>1. path \in Seq({"a", "", ".", ".."})
    <3>1. n \in Nat
      OBVIOUS
    <3> QED BY <1>1, <3>1, SeqDef
  <2>2. DOMAIN path = 1..n
    BY <1>1
  <2>3. DOMAIN path = 1..Len(path) /\ Len(path) \in Nat
    BY <2>1, LenProperties
  <2> QED BY <2>2, <2>3
<1>4. ASSUME NEW m \in 1..n
      PROVE  Cardinality({i \in 1..m : path[i] = ".."}) <
               Cardinality({i \in 1..m : path[i] = "a"})
  <2>1. {i \in 1..m : path[i] = ".."} = {} /\ {i \in 1..m : path[i] = "a"} = 1..m
    BY <1>2
  <2>2. 1 \in Int /\ m \in Int /\ ~(1 > m) /\ m - 1 + 1 = m
    OBVIOUS
  <2>3. Cardinality(1..m) = m
    BY <2>2, FS_Interval
  <2>4. Cardinality({}) = 0
    BY FS_EmptySet
  <2>5. 0 < m
    OBVIOUS
  <2> QED BY <2>1, <2>3, <2>4, <2>5, Zenon
<1>5. \A S : Archive!Cardinality(S) = Cardinality(S)
  BY DEF Archive!Cardinality, Cardinality
<1> QED BY <1>2, <1>3, <1>4, <1>5 DEF Archive!Below

-----------------------------------------------------------------------------
LEMMA ArchiveInit ==
  ASSUME Archive!Init
  PROVE  ArchiveInv
BY DEF Archive!Init, ArchiveInv, ArchiveTypes, InFile, PositionInv, EntriesInv, FoundInv

\* A search or a reading that ends without a payload changes nothing else.
LEMMA EndInv ==
  ASSUME ArchiveInv, NEW how \in {"none", "thrown"}, Archive!End(how)
  PROVE  ArchiveInv'
BY DEF Archive!End, ArchiveInv, ArchiveTypes, InFile, PositionInv, EntriesInv, FoundInv, Archive!StartOf, Archive!EndOf, Archive!Length

LEMMA FoundStep ==
  ASSUME ArchiveInv, outcome = "finding", NEW from \in Archive!Numbers, NEW length \in Archive!Numbers,
         NEW claimed \in Nat, Footer <= size, from + length <= size - Footer,
         Archive!Found(from, length), count' = claimed
  PROVE  ArchiveInv'
<1>1. /\ location' = [offset |-> from, length |-> length] /\ position' = Header
      /\ outcome' = "reading" /\ UNCHANGED <<holder, size, entries>>
  BY DEF Archive!Found
<1>2. entries = <<>> /\ Len(entries) = 0
  BY DEF ArchiveInv, InFile
<1>3. ArchiveTypes'
  BY <1>1, ArchiveAssumption DEF ArchiveInv, ArchiveTypes, Archive!Numbers
<1>4. InFile' /\ FoundInv'
  BY <1>1 DEF InFile, FoundInv, Archive!Length
<1>5. PositionInv'
  BY <1>1, <1>2 DEF PositionInv, Archive!StartOf
<1>6. EntriesInv'
  BY <1>1, <1>2 DEF EntriesInv
<1> QED BY <1>3, <1>4, <1>5, <1>6 DEF ArchiveInv

LEMMA FindInv ==
  ASSUME ArchiveInv, Archive!FindPayload \/ Archive!FindStandalonePayload
  PROVE  ArchiveInv'
<1>1. size \in Nat /\ size < Wide /\ \A c \in 0..MaxEntries + 1 : c \in Nat
  BY ArchiveAssumption DEF ArchiveInv, ArchiveTypes
<1>2. ASSUME NEW how \in {"none", "thrown"}, Archive!End(how) PROVE ArchiveInv'
  BY <1>2, EndInv
<1>3. CASE Archive!FindPayload
  <2>1. ASSUME NEW from \in Archive!Numbers, NEW length \in Archive!Numbers, NEW claimed \in 0..MaxEntries + 1,
               size >= Footer, ~Archive!Beyond(from, length, size - Footer),
               outcome = "finding", Archive!Found(from, length), count' = claimed
        PROVE  ArchiveInv'
    <3>1. size - Footer \in Nat /\ size - Footer < Wide /\ from \in Nat /\ length \in Nat
      BY <1>1, <2>1, ArchiveAssumption DEF Archive!Numbers
    <3>2. from + length <= size - Footer
      BY <2>1, <3>1, NotBeyond
    <3> QED BY <1>1, <2>1, <3>2, FoundStep, ArchiveAssumption
  <2>2. CASE size < Footer
    BY <1>2, <1>3, <2>2 DEF Archive!FindPayload
  <2>3. CASE ~(size < Footer)
    <3>1. size >= Footer
      BY <1>1, <2>3, ArchiveAssumption
    <3> QED BY <1>2, <1>3, <2>1, <2>3, <3>1 DEF Archive!FindPayload
  <2> QED BY <2>2, <2>3
<1>4. CASE Archive!FindStandalonePayload
  <2>1. ASSUME NEW from \in Archive!Numbers, NEW length \in Archive!Numbers, NEW claimed \in 0..MaxEntries + 1,
               size >= Footer, from = 0, length = size - Footer,
               outcome = "finding", Archive!Found(from, length), count' = claimed
        PROVE  ArchiveInv'
    <3>1. from + length <= size - Footer /\ Footer <= size
      BY <1>1, <2>1, ArchiveAssumption
    <3> QED BY <1>1, <2>1, <3>1, FoundStep
  <2>2. CASE size < Footer + Magic
    BY <1>2, <1>4, <2>2 DEF Archive!FindStandalonePayload
  <2>3. CASE ~(size < Footer + Magic)
    <3>1. size >= Footer /\ ~(size < Magic)
      BY <1>1, <2>3, ArchiveAssumption
    <3> QED BY <1>2, <1>4, <2>1, <2>3, <3>1 DEF Archive!FindStandalonePayload
  <2> QED BY <2>2, <2>3
<1> QED BY <1>3, <1>4

\* An entry that is accepted lies where the position was, and moves it behind.
LEMMA EntryInv ==
  ASSUME ArchiveInv, outcome = "reading", ~Archive!Malformed, Len(entries) < count,
         ~Archive!Beyond(position, EntryHeader, Archive!Length),
         NEW path_size \in 0..MaxPath + 1, NEW file_size \in Archive!Numbers, NEW path \in Archive!Paths,
         Archive!Entry(path_size, file_size, path)
  PROVE  ArchiveInv'
<1> DEFINE start == Archive!Plus(position, EntryHeader)
           data == Archive!Plus(start, path_size)
           bad == \/ path_size = 0 \/ path_size > MaxPath \/ file_size = 0
                  \/ Archive!Beyond(start, path_size, Archive!Length)
                  \/ ~Archive!SafeRelativePath(path)
                  \/ Archive!Beyond(data, file_size, Archive!Length)
           new == [path |-> path, size |-> file_size, path_size |-> path_size,
                   data_offset |-> Archive!Plus(location.offset, data)]
<1>1. CASE bad
  <2>1. Archive!End("thrown")
    BY <1>1 DEF Archive!Entry
  <2> QED BY <2>1, EndInv
<1>2. CASE ~bad
  <2>1. /\ entries' = Append(entries, new) /\ position' = Archive!Plus(data, file_size)
        /\ UNCHANGED <<holder, size, location, count, outcome>>
    BY <1>2 DEF Archive!Entry
  <2>2. /\ position \in Nat /\ path_size \in Nat /\ file_size \in Nat /\ file_size > 0
        /\ location.offset \in Nat /\ Archive!Length \in Nat /\ EntryHeader \in Nat
        /\ Footer \in Nat /\ size \in Nat /\ Wide \in Nat /\ size < Wide
        /\ Footer <= size /\ location.offset + Archive!Length <= size - Footer
    BY <1>2, ArchiveAssumption DEF ArchiveInv, ArchiveTypes, InFile, Archive!Numbers, Archive!Length
  <2>3. Archive!Length < Wide
    BY <2>2
  <2>4. position + EntryHeader <= Archive!Length /\ start = position + EntryHeader
    BY <2>2, <2>3, NotBeyond
  <2>5. start \in Nat
    BY <2>2, <2>4
  <2>6. start + path_size <= Archive!Length /\ data = start + path_size
    <3> HIDE DEF start
    <3> QED BY <1>2, <2>2, <2>3, <2>5, NotBeyond
  <2>7. data \in Nat
    BY <2>2, <2>5, <2>6
  <2>8. data + file_size <= Archive!Length /\ Archive!Plus(data, file_size) = data + file_size
    <3> HIDE DEF data
    <3> QED BY <1>2, <2>2, <2>3, <2>7, NotBeyond
  <2>9. Archive!Plus(location.offset, data) = location.offset + data
    <3> HIDE DEF data
    <3>1. location.offset + data < Wide
      BY <2>2, <2>7, <2>8
    <3> QED BY <2>2, <2>7, <3>1, PlusInRange
  <2>10. /\ new \in Entries
         /\ new.data_offset = location.offset + position + EntryHeader + path_size
         /\ Archive!EndOf(new) = location.offset + position'
         /\ Archive!EndOf(new) <= location.offset + Archive!Length
    <3> HIDE DEF data, start
    <3> QED BY <2>1, <2>2, <2>4, <2>5, <2>6, <2>7, <2>8, <2>9 DEF Entries, Archive!EndOf
  <2> HIDE DEF data, start, new
  <2>11. entries \in Seq(Entries) /\ Len(entries) \in Nat
    BY LenProperties DEF ArchiveInv, ArchiveTypes
  <2>12. /\ entries' \in Seq(Entries) /\ Len(entries') = Len(entries) + 1
         /\ \A i \in 1..Len(entries) : entries'[i] = entries[i]
         /\ entries'[Len(entries) + 1] = new
    BY <2>1, <2>10, <2>11, AppendProperties
  <2>13. position' \in Nat
    BY <2>1, <2>2, <2>7, <2>8
  <2>14. ArchiveTypes'
    BY <2>1, <2>12, <2>13 DEF ArchiveInv, ArchiveTypes
  <2>15. InFile' /\ FoundInv'
    BY <2>1 DEF ArchiveInv, InFile, FoundInv, Archive!Length
  <2>16. \A i \in 1..Len(entries) + 1 : Archive!StartOf(i)' = Archive!StartOf(i)
    BY <2>1, <2>11, <2>12 DEF Archive!StartOf, Archive!EndOf
  <2>17. PositionInv'
    <3>1. Archive!StartOf(Len(entries) + 1)' = Archive!EndOf(entries'[Len(entries) + 1])
      BY <2>11, <2>12 DEF Archive!StartOf, Archive!EndOf
    <3> QED BY <2>1, <2>10, <2>11, <2>12, <3>1 DEF PositionInv
  <2>18. EntriesInv'
    <3>1. SUFFICES ASSUME NEW i \in 1..Len(entries')
                   PROVE  /\ entries'[i].data_offset
                               = Archive!StartOf(i)' + EntryHeader + entries'[i].path_size
                          /\ entries'[i].size > 0
                          /\ Archive!EndOf(entries'[i]) <= location.offset + Archive!Length
                          /\ Archive!Below(entries'[i].path)
      BY <2>1 DEF EntriesInv, Archive!EndOf, Archive!Length
    <3>2. CASE i \in 1..Len(entries)
      BY <2>12, <2>16, <3>2, <2>11 DEF ArchiveInv, EntriesInv
    <3>3. CASE i = Len(entries) + 1
      <4>1. Archive!StartOf(i)' = location.offset + position
        BY <2>11, <2>16, <3>3 DEF ArchiveInv, PositionInv
      <4>2. Archive!Below(new.path) /\ new.size > 0 /\ new.path_size = path_size
        BY <1>2, <2>2, SafeIsBelow DEF new
      <4> QED BY <2>10, <2>12, <3>3, <4>1, <4>2
    <3> QED BY <2>11, <2>12, <3>2, <3>3
  <2> QED BY <2>14, <2>15, <2>17, <2>18 DEF ArchiveInv
<1> QED BY <1>1, <1>2

LEMMA ReadInv ==
  ASSUME ArchiveInv, Archive!ReadArchiveEntries
  PROVE  ArchiveInv'
<1>1. CASE Archive!ReadHeader
  BY <1>1, EndInv DEF Archive!ReadHeader
<1>2. CASE Archive!ReadEntry
  BY <1>2, EndInv, EntryInv DEF Archive!ReadEntry
<1>3. CASE Archive!Finish
  <2>1. CASE position # Archive!Length
    BY <1>3, <2>1, EndInv DEF Archive!Finish
  <2>2. CASE position = Archive!Length
    <3>1. /\ outcome = "reading" /\ outcome' = "found"
          /\ UNCHANGED <<holder, size, location, count, position, entries>>
          /\ Len(entries) = count /\ count # 0
      BY <1>3, <2>2 DEF Archive!Finish, Archive!End, Archive!Malformed
    <3>2. ArchiveTypes' /\ InFile' /\ PositionInv' /\ EntriesInv'
      BY <3>1 DEF ArchiveInv, ArchiveTypes, InFile, PositionInv, EntriesInv, Archive!StartOf, Archive!EndOf, Archive!Length
    <3>3. count \in Nat /\ Len(entries) + 1 # 1
      BY <3>1 DEF ArchiveInv, ArchiveTypes
    <3>4. Archive!StartOf(Len(entries) + 1) = Archive!EndOf(entries[Len(entries)])
      BY <3>1, <3>3 DEF Archive!StartOf
    <3>5. FoundInv'
      BY <2>2, <3>1, <3>3, <3>4 DEF ArchiveInv, PositionInv, FoundInv, Archive!EndOf, Archive!Length
    <3> QED BY <3>2, <3>5 DEF ArchiveInv
  <2> QED BY <2>1, <2>2
<1> QED BY <1>1, <1>2, <1>3 DEF Archive!ReadArchiveEntries

-----------------------------------------------------------------------------
\* Whatever numbers the file contains, the position stays behind the last
\* entry that was read and no sum of theirs wraps unnoticed
\* (payload.cc:263-305, 371-431).
LEMMA ArchiveInvariance == MCSpec => []ArchiveAlways
<1>1. MCInit => ArchiveAlways
  BY ArchiveInit DEF MCInit, ArchiveAlways
<1>2. MCNext \/ UNCHANGED all =>
        group' = group /\ (group = "payload" => Archive!PreparePayload \/ UNCHANGED payloadVars)
  BY DEF MCNext, all
<1>3. ArchiveInv /\ UNCHANGED payloadVars => ArchiveInv'
  BY DEF payloadVars, ArchiveInv, ArchiveTypes, InFile, PositionInv, EntriesInv,
     FoundInv, Archive!StartOf, Archive!EndOf, Archive!Length
<1>4. ArchiveInv /\ Archive!PreparePayload => ArchiveInv'
  BY FindInv, ReadInv DEF Archive!PreparePayload
<1>5. ArchiveAlways /\ [MCNext]_all => ArchiveAlways'
  BY <1>2, <1>3, <1>4 DEF ArchiveAlways
<1> QED BY <1>1, <1>5, PTL DEF MCSpec

\* The entries of an archive are inside of the payload, one behind the other,
\* and their paths lead below the directory where they are unpacked, however
\* wide the numbers are and whatever the file claims
\* (payload.cc:263-305, 317-360, 371-431).
THEOREM EntriesAlwaysWithin == MCSpec => []EntriesWithin
<1>1. ArchiveAlways => EntriesWithin
  <2> SUFFICES ASSUME ArchiveInv PROVE Archive!EntriesWithin
    BY DEF EntriesWithin, ArchiveAlways
  <2>1. DOMAIN entries = 1..Len(entries)
    BY LenProperties DEF ArchiveInv, ArchiveTypes
  <2> QED BY <2>1 DEF ArchiveInv, InFile, EntriesInv, FoundInv, Archive!EntriesWithin
<1> QED BY <1>1, ArchiveInvariance, PTL
-----------------------------------------------------------------------------
(* BackendRuntime.                                                         *)

Searching == {"configured", "embedded", "installed", "beside", "cache", "fetch", "prepare"}
Trying == {"driver", "probe", "topology", "load"} \cup Searching
BackendPlaces ==
  Trying \cup {"start", "next", "inventory", "select", "selected", "unwind", "failed",
              "running", "destroyed"}
Sizes == {<<>>} \cup {<<m>> : m \in Amounts} \cup (Amounts \X Amounts)
Plugins == [registry : BOOLEAN, fd : BOOLEAN, driver : BOOLEAN, detected : BOOLEAN,
            missing : BOOLEAN, failure : {"none", "unavailable", "unusable", "broken"}]

BackendTypes ==
  /\ request \in [backend : {"auto", "cpu", "cuda", "rocm"}, layers : {-1, 0, 1},
                  directory : BOOLEAN, fetch : BOOLEAN]
  /\ at \in BackendPlaces
  /\ family \in {"none", "cuda", "rocm"}
  /\ hardware \in [Backend!Families ->
                     {"unknown", "absent", "unsure", "unsupported", "denied", "ready"}]
  /\ fd \in BOOLEAN /\ driver \in BOOLEAN
  /\ DOMAIN plugins \subseteq Backend!Families /\ plugins \in [DOMAIN plugins -> Plugins]
  /\ devices \in [Backend!Families -> Sizes]
  /\ selected \in {"none", "cpu", "cuda", "rocm"}

\* What LoadPlugin works on: a family that has no plugin yet.
TryingInv ==
  at \in Trying =>
    /\ family \in Backend!Families /\ family \notin DOMAIN plugins
    /\ at \in {"driver", "probe"} => family = "cuda"
    /\ at = "topology" => family = "rocm"
    /\ driver = (family = "cuda" /\ at # "driver")
    /\ fd => family = "cuda" /\ at = "load"
    /\ at \in Searching \cup {"load"} => hardware[family] \in {"unsure", "ready"}
    /\ family = "cuda" /\ at \in Searching \cup {"load"} => hardware[family] = "ready"

\* What the process has open: the plugins' handles and those of the attempt.
InFlight ==
  {<<thing, family>> : thing \in {t \in {"fd", "driver"} : IF t = "fd" THEN fd ELSE driver}}
Loaded == UNION {Backend!Handles(f) : f \in DOMAIN plugins}
HeldInv ==
  held = IF at \in {"failed", "destroyed"} THEN {}
         ELSE IF at \in Trying THEN Loaded \cup InFlight ELSE Loaded

\* A plugin without a registry has nothing open, and says of the hardware what
\* the probe found.
PluginInv(f) ==
  /\ ~plugins[f].registry => ~plugins[f].fd /\ ~plugins[f].driver
  /\ plugins[f].registry /\ f = "cuda" => plugins[f].driver
  /\ at \in Trying \cup {"next", "inventory"} =>
       /\ plugins[f].missing => Backend!Detected(f)
       /\ f = "cuda" /\ plugins[f].detected => Backend!Detected(f)
       /\ ~plugins[f].registry /\ Backend!Detected(f) =>
            \/ plugins[f].missing
            \/ plugins[f].detected /\ plugins[f].failure # "none"

\* A choice is made among the families that were all tried and have devices.
ChoiceInv ==
  /\ (request.backend = "cpu") = (request.layers = 0)
  /\ at = "start" => DOMAIN plugins = {}
  /\ at = "inventory" => \A f \in Backend!Families : Backend!Wants(f) => f \in DOMAIN plugins
  /\ at \in {"select", "selected"} =>
       \A f \in Backend!Families : devices[f] # <<>> => Backend!Usable(f)
  /\ at \in {"running"} => DOMAIN plugins = {selected} \ {"cpu"}
  /\ at = "running" /\ selected # "cpu" => Backend!Usable(selected)
  /\ at \in {"selected", "running"} => selected # "none"

BackendInv ==
  /\ BackendTypes /\ TryingInv /\ HeldInv /\ \A f \in DOMAIN plugins : PluginInv(f)
  /\ ChoiceInv /\ Backend!BackendChosen /\ Backend!ModelFits

BackendAlways == group = "backend" => BackendInv

\* What UnloadPlugin closes.
LEMMA HandlesOf ==
  ASSUME NEW f, plugins[f] \in Plugins
  PROVE  Backend!Handles(f) =
           (IF plugins[f].registry THEN {<<"registry", f>>} ELSE {})
             \cup (IF plugins[f].fd THEN {<<"fd", f>>} ELSE {})
             \cup (IF plugins[f].driver THEN {<<"driver", f>>} ELSE {})
BY DEF Backend!Handles, Plugins

LEMMA FlightOf ==
  ASSUME fd \in BOOLEAN, driver \in BOOLEAN
  PROVE  InFlight = (IF fd THEN {<<"fd", family>>} ELSE {})
                      \cup (IF driver THEN {<<"driver", family>>} ELSE {})
BY DEF InFlight

\* The handles of the plugins so far are of other families than the one that
\* is being tried.
LEMMA LoadedApart ==
  ASSUME BackendInv, at \in Trying, NEW h \in Loaded
  PROVE  h[2] # family /\ h[1] \in {"registry", "fd", "driver"}
<1>1. PICK f \in DOMAIN plugins : h \in Backend!Handles(f)
  BY DEF Loaded
<1>2. f # family
  BY DEF BackendInv, TryingInv
<1> QED BY <1>1, <1>2 DEF Backend!Handles

-----------------------------------------------------------------------------
LEMMA BackendInit ==
  ASSUME Backend!Init
  PROVE  BackendInv
<1>1. PICK o \in Backend!Options, d \in BOOLEAN, b \in BOOLEAN :
        /\ ~Backend!Contradictory(o)
        /\ request = [backend |-> Backend!Resolved(o).backend,
                      layers |-> Backend!Resolved(o).layers, directory |-> d, fetch |-> b]
  BY DEF Backend!Init
<1>2. /\ Backend!Resolved(o).backend \in {"auto", "cpu", "cuda", "rocm"}
      /\ Backend!Resolved(o).layers \in {-1, 0, 1}
      /\ (Backend!Resolved(o).backend = "cpu") = (Backend!Resolved(o).layers = 0)
  <2>1. o.layers \in {<<>>, <<-1>>, <<0>>, <<1>>} /\ o.backend \in {"auto", "cpu", "cuda", "rocm"}
    BY DEF Backend!Options, Backend!Families
  <2>2. Head(<<-1>>) = -1 /\ Head(<<0>>) = 0 /\ Head(<<1>>) = 1
    OBVIOUS
  <2>3. <<-1>> # <<>> /\ <<0>> # <<>> /\ <<1>> # <<>> /\ <<-1>> # <<0>> /\ <<1>> # <<0>>
    OBVIOUS
  <2>4. CASE Backend!OnCpu(o) \/ o.layers = <<0>>
    BY <2>4 DEF Backend!Resolved
  <2>5. CASE ~(Backend!OnCpu(o) \/ o.layers = <<0>>)
    BY <2>1, <2>2, <2>3, <2>5 DEF Backend!Resolved, Backend!OnCpu
  <2> QED BY <2>4, <2>5
<1>3. /\ at = "start" /\ family = "none"
      /\ hardware = [f \in Backend!Families |-> "unknown"]
      /\ fd = FALSE /\ driver = FALSE /\ DOMAIN plugins = {} /\ plugins = [f \in {} |-> 0]
      /\ devices = [f \in Backend!Families |-> <<>>]
      /\ selected = "none" /\ placement = <<>> /\ held = {}
  BY DEF Backend!Init
<1>4. BackendTypes
  BY <1>1, <1>2, <1>3 DEF BackendTypes, BackendPlaces, Sizes
<1>5. TryingInv /\ HeldInv /\ ChoiceInv
  BY <1>1, <1>2, <1>3 DEF TryingInv, HeldInv, ChoiceInv, Loaded, Trying, Searching
<1>6. Backend!BackendChosen /\ Backend!ModelFits
  BY <1>3 DEF Backend!BackendChosen, Backend!ModelFits
<1> QED BY <1>3, <1>4, <1>5, <1>6 DEF BackendInv

\* A step inside of LoadPlugin.
LEMMA MoveInv ==
  ASSUME BackendInv, at \in Trying, at' \in Trying, TryingInv',
         hardware' \in [Backend!Families ->
                        {"unknown", "absent", "unsure", "unsupported", "denied", "ready"}],
         \A f \in DOMAIN plugins : hardware'[f] = hardware[f],
         fd' \in BOOLEAN, driver' \in BOOLEAN,
         UNCHANGED <<request, family, plugins, devices, selected, placement, error>>,
         held' = Loaded \cup InFlight'
  PROVE  BackendInv'
<1>1. BackendTypes'
  BY DEF BackendInv, BackendTypes, BackendPlaces
<1>2. HeldInv'
  <2>1. Loaded' = Loaded
    BY DEF Loaded, Backend!Handles
  <2> QED BY <2>1 DEF HeldInv, Trying, Searching
<1>3. ASSUME NEW f \in DOMAIN plugins PROVE PluginInv(f)'
  BY <1>3 DEF BackendInv, PluginInv, Backend!Detected
<1>4. ChoiceInv'
  BY DEF BackendInv, ChoiceInv, Trying, Searching
<1>5. Backend!BackendChosen' /\ Backend!ModelFits'
  BY DEF BackendInv, Backend!BackendChosen, Backend!ModelFits, Trying, Searching
<1> QED BY <1>1, <1>2, <1>3, <1>4, <1>5 DEF BackendInv
-----------------------------------------------------------------------------
LEMMA LoadPluginMoves ==
  ASSUME BackendInv,
         \/ Backend!LoadDriver \/ Backend!Probed \/ Backend!FindsNothing
         \/ Backend!FindsBundle \/ Backend!FindsLibrary \/ Backend!Prepare
  PROVE  BackendInv'
<1>1. /\ fd \in BOOLEAN /\ driver \in BOOLEAN /\ TryingInv
      /\ hardware \in [Backend!Families ->
                       {"unknown", "absent", "unsure", "unsupported", "denied", "ready"}]
      /\ at \in Trying => held = Loaded \cup InFlight
  BY DEF BackendInv, BackendTypes, HeldInv, Trying, Searching
<1>2. CASE Backend!LoadDriver
  <2>1. at = "driver" /\ family = "cuda" /\ driver = FALSE /\ fd = FALSE
    BY <1>1, <1>2 DEF Backend!LoadDriver, TryingInv, Trying
  <2>2. /\ driver' = TRUE /\ fd' = fd /\ at' = "probe" /\ held' = held \cup {<<"driver", "cuda">>}
        /\ UNCHANGED <<request, family, hardware, plugins, devices, selected, placement, error>>
    BY <1>2 DEF Backend!LoadDriver, Backend!Go, Backend!outcome
  <2>3. InFlight = {} /\ InFlight' = {<<"driver", "cuda">>}
    BY <2>1, <2>2 DEF InFlight
  <2>4. TryingInv'
    BY <1>1, <2>1, <2>2 DEF TryingInv, Trying, Searching
  <2> QED BY <1>1, <2>1, <2>2, <2>3, <2>4, MoveInv DEF Trying
<1>3. CASE Backend!Probed
  <2>1. PICK found \in {"unsure", "ready"} :
          /\ hardware' = [hardware EXCEPT ![family] = found]
          /\ family = "cuda" => found = "ready"
          /\ at \in {"probe", "topology"}
    BY <1>1, <1>3 DEF Backend!Probed, TryingInv, Trying
  <2>2. /\ at' = "configured"
        /\ UNCHANGED <<request, family, fd, driver, plugins, devices, selected, placement,
                       error, held>>
    BY <1>3 DEF Backend!Probed, Backend!Go, Backend!outcome, Backend!locals
  <2>3. InFlight' = InFlight
    BY <2>2 DEF InFlight
  <2>4. family \in Backend!Families /\ family \notin DOMAIN plugins
    BY <1>1, <2>1 DEF TryingInv, Trying
  <2>5. DOMAIN plugins \subseteq Backend!Families
    BY DEF BackendInv, BackendTypes
  <2>6. /\ hardware' \in [Backend!Families ->
                       {"unknown", "absent", "unsure", "unsupported", "denied", "ready"}]
        /\ \A f \in DOMAIN plugins : hardware'[f] = hardware[f]
        /\ hardware'[family] = found
    BY <1>1, <2>1, <2>4, <2>5
  <2>7. TryingInv'
    BY <1>1, <2>1, <2>2, <2>4, <2>6 DEF TryingInv, Trying, Searching
  <2> QED BY <1>1, <2>1, <2>2, <2>3, <2>6, <2>7, MoveInv DEF Trying, Searching
<1>4. CASE Backend!FindsNothing \/ Backend!FindsBundle \/ Backend!FindsLibrary
  <2>1. at \in Searching /\ at # "prepare" /\ at' \in Searching \cup {"load"}
    BY <1>4 DEF Backend!FindsNothing, Backend!FindsBundle, Backend!FindsLibrary, Backend!Go,
       Backend!After, Searching, Backend!Searched, Backend!Fetched
  <2>2. UNCHANGED <<request, family, hardware, fd, driver, plugins, devices, selected,
                    placement, error, held>>
    BY <1>4 DEF Backend!FindsNothing, Backend!FindsBundle, Backend!FindsLibrary,
       Backend!outcome, Backend!locals
  <2>3. InFlight' = InFlight
    BY <2>2 DEF InFlight
  <2>4. TryingInv'
    BY <1>1, <2>1, <2>2 DEF TryingInv, Trying, Searching
  <2> QED BY <1>1, <2>1, <2>2, <2>3, <2>4, MoveInv DEF Trying, Searching
<1>5. CASE Backend!Prepare
  <2>1. /\ at \in Searching /\ at' = "load" /\ fd' = (family = "cuda")
        /\ held' = IF family = "cuda" THEN held \cup {<<"fd", family>>} ELSE held
        /\ UNCHANGED <<request, family, hardware, driver, plugins, devices, selected,
                       placement, error>>
    BY <1>5 DEF Backend!Prepare, Backend!Go, Searching, Backend!outcome
  <2>2. fd = FALSE /\ fd' \in BOOLEAN
    BY <1>1, <2>1, Zenon DEF TryingInv, Trying, Searching
  <2>3. TryingInv'
    BY <1>1, <2>1 DEF TryingInv, Trying, Searching
  <2>4. InFlight' = IF family = "cuda" THEN InFlight \cup {<<"fd", family>>} ELSE InFlight
    BY <2>1, <2>2, <1>1 DEF InFlight
  <2>5. held' = Loaded \cup InFlight'
    BY <1>1, <2>1, <2>4 DEF Trying
  <2> QED BY <1>1, <2>1, <2>2, <2>3, <2>5, MoveInv DEF Trying
<1> QED BY <1>2, <1>3, <1>4, <1>5

\* An attempt that ends with a record in gpu_plugins.
LEMMA RecordInv ==
  ASSUME BackendInv, at \in Trying,
         NEW registry \in BOOLEAN, NEW detected \in BOOLEAN, NEW lacking \in BOOLEAN,
         NEW failure \in {"none", "unavailable", "unusable", "broken"},
         Backend!Record(registry, detected, lacking, failure),
         hardware' \in [Backend!Families ->
                        {"unknown", "absent", "unsure", "unsupported", "denied", "ready"}],
         \A f \in DOMAIN plugins : hardware'[f] = hardware[f],
         fd' \in BOOLEAN, driver' \in BOOLEAN,
         UNCHANGED <<request, family, devices, selected, placement>>,
         registry /\ family = "cuda" => driver,
         lacking => Backend!Detected(family)',
         family = "cuda" /\ detected => Backend!Detected(family)',
         ~registry /\ Backend!Detected(family)' => lacking \/ (detected /\ failure # "none"),
         held' = Loaded \cup (IF registry THEN InFlight \cup {<<"registry", family>>} ELSE {})
  PROVE  BackendInv'
<1> DEFINE new == [registry |-> registry, fd |-> registry /\ fd, driver |-> registry /\ driver,
                   detected |-> detected, missing |-> lacking, failure |-> failure]
<1>1. /\ plugins' = [f \in {family} \cup DOMAIN plugins |->
                       IF f # family THEN plugins[f] ELSE new]
      /\ at' = "next" /\ error' = error
  BY DEF Backend!Record, Backend!Go
<1>2. /\ family \in Backend!Families /\ family \notin DOMAIN plugins
      /\ DOMAIN plugins \subseteq Backend!Families /\ plugins \in [DOMAIN plugins -> Plugins]
      /\ fd \in BOOLEAN /\ driver \in BOOLEAN
  BY DEF BackendInv, BackendTypes, TryingInv
<1>3. new \in Plugins
  <2>1. (registry /\ fd) \in BOOLEAN /\ (registry /\ driver) \in BOOLEAN
    BY <1>2, Zenon
  <2> QED BY <2>1 DEF Plugins
<1>4. /\ DOMAIN plugins' = {family} \cup DOMAIN plugins
      /\ plugins'[family] = new
      /\ \A f \in DOMAIN plugins : plugins'[f] = plugins[f]
  <2> HIDE DEF new
  <2> QED BY <1>1, <1>2
<1>5. DOMAIN plugins' \subseteq Backend!Families /\ plugins' \in [DOMAIN plugins' -> Plugins]
  <2> HIDE DEF new
  <2> QED BY <1>1, <1>2, <1>3
<1>6. BackendTypes'
  BY <1>1, <1>5 DEF BackendInv, BackendTypes, BackendPlaces
<1>7. TryingInv'
  BY <1>1 DEF TryingInv, Trying, Searching
<1>8. HeldInv'
  <2>1. \A f \in DOMAIN plugins : Backend!Handles(f)' = Backend!Handles(f)
    BY <1>4 DEF Backend!Handles
  <2>2. Backend!Handles(family)' = IF registry THEN InFlight \cup {<<"registry", family>>} ELSE {}
    <3>1. Backend!Handles(family)' = {<<thing, family>> : thing \in
             {t \in {"registry", "fd", "driver"} : new[t]}}
      BY <1>4 DEF Backend!Handles
    <3>2. new.registry = registry /\ new.fd = (registry /\ fd) /\ new.driver = (registry /\ driver)
      OBVIOUS
    <3> HIDE DEF new
    <3>3. CASE registry
      <4>1. new["registry"] /\ new["fd"] = fd /\ new["driver"] = driver
        BY <1>2, <1>3, <3>2, <3>3 DEF Plugins
      <4>2. \A h : h \in Backend!Handles(family)' <=>
              \/ h = <<"registry", family>> \/ (h = <<"fd", family>> /\ fd)
              \/ (h = <<"driver", family>> /\ driver)
        BY <3>1, <4>1
      <4> QED BY <1>2, <3>3, <4>2, FlightOf
    <3>4. CASE ~registry
      BY <1>2, <1>3, <3>1, <3>2, <3>4 DEF InFlight, Plugins
    <3> QED BY <3>3, <3>4
  <2>3. Loaded' = Loaded \cup Backend!Handles(family)'
    BY <1>4, <2>1 DEF Loaded
  <2> QED BY <1>1, <2>2, <2>3 DEF HeldInv, Trying, Searching
<1>9. ASSUME NEW f \in DOMAIN plugins' PROVE PluginInv(f)'
  <2>1. CASE f = family
    <3>1. /\ plugins'[f].registry = registry /\ plugins'[f].fd = (registry /\ fd)
          /\ plugins'[f].driver = (registry /\ driver) /\ plugins'[f].detected = detected
          /\ plugins'[f].missing = lacking /\ plugins'[f].failure = failure
      BY <1>4, <2>1
    <3> HIDE DEF new
    <3> QED BY <1>2, <2>1, <3>1 DEF PluginInv
  <2>2. CASE f # family
    <3>1. f \in DOMAIN plugins /\ plugins'[f] = plugins[f] /\ hardware'[f] = hardware[f]
      <4> HIDE DEF new
      <4> QED BY <1>4, <1>9, <2>2
    <3> HIDE DEF new
    <3> QED BY <1>1, <3>1 DEF BackendInv, PluginInv, Backend!Detected
  <2> QED BY <2>1, <2>2
<1>10. ChoiceInv'
  BY <1>1 DEF BackendInv, ChoiceInv
<1>11. Backend!BackendChosen' /\ Backend!ModelFits'
  BY <1>1 DEF BackendInv, Backend!BackendChosen, Backend!ModelFits
<1> HIDE DEF new
<1> QED BY <1>6, <1>7, <1>8, <1>9, <1>10, <1>11 DEF BackendInv

\* An exception on the way: it is about the family that was asked for, or the
\* choice among all of them has its culprit.
LEMMA ThrowInv ==
  ASSUME BackendInv, NEW what, NEW whom, Backend!Throw(what, whom),
         hardware' \in [Backend!Families ->
                        {"unknown", "absent", "unsure", "unsupported", "denied", "ready"}],
         fd' \in BOOLEAN, driver' \in BOOLEAN, devices' \in [Backend!Families -> Sizes],
         UNCHANGED <<request, family, plugins, selected, placement>>,
         held' = Loaded,
         request.backend = "auto" /\ whom \in Backend!Families
           /\ (\E f \in Backend!Families : Backend!Detected(f)' /\ ~Backend!Usable(f))
         => Backend!Detected(whom)'
  PROVE  BackendInv'
<1>1. error' = <<what, whom>> /\ at' = "unwind"
  BY DEF Backend!Throw, Backend!Go
<1>2. BackendTypes'
  BY <1>1 DEF BackendInv, BackendTypes, BackendPlaces
<1>3. TryingInv' /\ HeldInv'
  <2>1. Loaded' = Loaded
    BY DEF Loaded, Backend!Handles
  <2> QED BY <1>1, <2>1 DEF TryingInv, HeldInv, Trying, Searching
<1>4. ASSUME NEW f \in DOMAIN plugins PROVE PluginInv(f)'
  BY <1>1, <1>4 DEF BackendInv, PluginInv, Trying, Searching
<1>5. ChoiceInv'
  BY <1>1 DEF BackendInv, ChoiceInv
<1>6. Backend!BackendChosen'
  <2>1. error'[2] = whom
    BY <1>1
  <2>2. \A f \in Backend!Families : Backend!Usable(f)' = Backend!Usable(f)
    BY DEF Backend!Usable
  <2> QED BY <1>1, <2>1, <2>2 DEF Backend!BackendChosen
<1>7. Backend!ModelFits'
  BY <1>1 DEF BackendInv, Backend!ModelFits
<1> QED BY <1>2, <1>3, <1>4, <1>5, <1>6, <1>7 DEF BackendInv
-----------------------------------------------------------------------------
LEMMA LoadPluginEnds ==
  ASSUME BackendInv,
         \/ Backend!LoadDriverFails \/ Backend!ProbeFails \/ Backend!NoTopology
         \/ Backend!UnusableTopology \/ Backend!FindsInvalid \/ Backend!Missing
         \/ Backend!Load \/ Backend!LoadFails
  PROVE  BackendInv'
<1> DEFINE Findings == {"unknown", "absent", "unsure", "unsupported", "denied", "ready"}
<1>1. /\ fd \in BOOLEAN /\ driver \in BOOLEAN /\ TryingInv
      /\ hardware \in [Backend!Families -> Findings]
      /\ devices \in [Backend!Families -> Sizes]
      /\ DOMAIN plugins \subseteq Backend!Families
      /\ at \in Trying => held = Loaded \cup InFlight
  BY DEF BackendInv, BackendTypes, HeldInv, Trying, Searching
<1>2. at \in Trying
  BY DEF Backend!LoadDriverFails, Backend!ProbeFails, Backend!NoTopology,
     Backend!UnusableTopology, Backend!FindsInvalid, Backend!Missing, Backend!Load,
     Backend!LoadFails, Backend!Searched, Backend!Fetched, Trying, Searching
<1>3. family \in Backend!Families /\ family \notin DOMAIN plugins
  BY <1>1, <1>2 DEF TryingInv
\* Nothing is left but the handles of the plugins before.
<1>4. /\ \A h \in Loaded : h[2] # family
      /\ at # "load" => held \ {<<"driver", family>>} = Loaded
      /\ held \ {<<"fd", family>>, <<"driver", family>>} = Loaded
      /\ at \in {"driver", "topology"} => held = Loaded
  <2>1. \A h \in Loaded : h[2] # family
    BY <1>2, LoadedApart
  <2>2. /\ InFlight \subseteq {<<"fd", family>>, <<"driver", family>>}
        /\ at # "load" => InFlight \subseteq {<<"driver", family>>}
        /\ at \in {"driver", "topology"} => InFlight = {}
    BY <1>1, <1>2, FlightOf DEF TryingInv
  <2> QED BY <1>1, <1>2, <2>1, <2>2
<1>5. ASSUME NEW what \in {"unavailable", "unusable", "broken"}, NEW detected \in BOOLEAN,
             Backend!Fails(what, detected), held' = Loaded,
             hardware' \in [Backend!Families -> Findings],
             \A f \in DOMAIN plugins : hardware'[f] = hardware[f],
             family = "cuda" /\ detected => Backend!Detected(family)',
             Backend!Detected(family)' => detected
      PROVE  BackendInv'
  <2>1. /\ fd' = FALSE /\ driver' = FALSE
        /\ UNCHANGED <<request, family, devices, selected, placement>>
    BY <1>5 DEF Backend!Fails, Backend!outcome
  <2>2. CASE Backend!Required
    <3>1. Backend!Throw(what, family) /\ UNCHANGED plugins
      BY <1>5, <2>2 DEF Backend!Fails
    <3>2. request.backend # "auto"
      BY <1>3, <2>2 DEF Backend!Required, Backend!Families
    <3> HIDE DEF Findings
    <3> QED BY <1>1, <1>5, <2>1, <3>1, <3>2, ThrowInv DEF Findings
  <2>3. CASE ~Backend!Required
    <3>1. Backend!Record(FALSE, detected, FALSE, what)
      BY <1>5, <2>3 DEF Backend!Fails
    <3> QED BY <1>2, <1>5, <2>1, <3>1, RecordInv
  <2> QED BY <2>2, <2>3
<1>6. ASSUME at \in Searching \cup {"load"}, UNCHANGED hardware,
             Backend!Fails("broken", TRUE), held' = Loaded
      PROVE  BackendInv'
  <2>1. family = "cuda" => Backend!Detected(family)'
    <3>1. family' = family
      BY <1>6 DEF Backend!Fails
    <3>2. family = "cuda" => hardware[family] = "ready"
      BY <1>1, <1>2, <1>6 DEF TryingInv
    <3> QED BY <1>6, <3>1, <3>2 DEF Backend!Detected
  <2> QED BY <1>1, <1>5, <1>6, <2>1
<1>7. CASE Backend!LoadDriverFails \/ Backend!ProbeFails
  <2>1. at \in {"driver", "probe"} /\ hardware' = [hardware EXCEPT !["cuda"] = "absent"]
        /\ Backend!Fails("unavailable", FALSE)
    BY <1>7 DEF Backend!LoadDriverFails, Backend!ProbeFails
  <2>2. family = "cuda"
    BY <1>1, <1>2, <2>1 DEF TryingInv
  <2>3. held' = Loaded
    BY <1>4, <1>7, <2>1 DEF Backend!LoadDriverFails, Backend!ProbeFails, Backend!CloseDriver
  <2>4. /\ hardware' \in [Backend!Families -> Findings] /\ hardware'["cuda"] = "absent"
        /\ \A f \in DOMAIN plugins : hardware'[f] = hardware[f]
    BY <1>1, <1>3, <2>1, <2>2
  <2>5. ~Backend!Detected(family)'
    BY <2>2, <2>4, <2>1 DEF Backend!Detected, Backend!Fails
  <2> QED BY <1>5, <2>1, <2>3, <2>4, <2>5
<1>8. CASE Backend!NoTopology
  <2>1. /\ at = "topology" /\ hardware' = [hardware EXCEPT !["rocm"] = "absent"]
        /\ Backend!Record(FALSE, FALSE, FALSE, "none")
        /\ UNCHANGED <<request, family, fd, driver, devices, selected, placement, held>>
    BY <1>8 DEF Backend!NoTopology, Backend!locals, Backend!outcome
  <2>2. family = "rocm"
    BY <1>1, <1>2, <2>1 DEF TryingInv
  <2>3. /\ hardware' \in [Backend!Families -> Findings] /\ hardware'["rocm"] = "absent"
        /\ \A f \in DOMAIN plugins : hardware'[f] = hardware[f]
    BY <1>1, <1>3, <2>1, <2>2
  <2>4. ~Backend!Detected(family)'
    BY <2>1, <2>2, <2>3 DEF Backend!Detected
  <2>5. held' = Loaded
    BY <1>4, <2>1
  <2> QED BY <1>1, <1>2, <2>1, <2>3, <2>4, <2>5, RecordInv
<1>9. CASE Backend!UnusableTopology
  <2>1. PICK found \in {"unsupported", "denied"} :
          at = "topology" /\ hardware' = [hardware EXCEPT !["rocm"] = found]
    BY <1>9 DEF Backend!UnusableTopology
  <2>2. Backend!Fails("unusable", TRUE) /\ held' = held
    BY <1>9 DEF Backend!UnusableTopology
  <2>3. family = "rocm"
    BY <1>1, <1>2, <2>1 DEF TryingInv
  <2>4. /\ hardware' \in [Backend!Families -> Findings]
        /\ \A f \in DOMAIN plugins : hardware'[f] = hardware[f]
    BY <1>1, <1>3, <2>1, <2>3
  <2> QED BY <1>4, <1>5, <2>1, <2>2, <2>3, <2>4
<1>10. CASE Backend!FindsInvalid
  <2>1. ASSUME at = "cache", Backend!Fetches, Backend!Go("fetch"),
               UNCHANGED <<request, hardware, Backend!locals, plugins, Backend!outcome, error, held>>
        PROVE  BackendInv'
    <3>1. /\ at' = "fetch"
          /\ UNCHANGED <<request, family, hardware, fd, driver, plugins, devices, selected,
                         placement, error, held>>
      BY <2>1 DEF Backend!Go, Backend!locals, Backend!outcome
    <3>2. InFlight' = InFlight
      BY <3>1 DEF InFlight
    <3>3. TryingInv'
      BY <1>1, <2>1, <3>1 DEF TryingInv, Trying, Searching
    <3> QED BY <1>1, <1>2, <3>1, <3>2, <3>3, MoveInv DEF Trying, Searching
  <2>2. ASSUME at \in Searching, Backend!Broken
        PROVE  BackendInv'
    <3>1. at # "load"
      BY <2>2 DEF Searching
    <3> QED BY <1>4, <1>6, <2>2, <3>1 DEF Backend!Broken, Backend!CloseDriver
  <2> QED BY <1>10, <2>1, <2>2 DEF Backend!FindsInvalid, Backend!Searched, Backend!Fetched,
             Searching
<1>11. CASE Backend!Missing
  <2> DEFINE lacking == hardware[family] = "ready"
  <2>1. /\ at = "fetch" /\ fd' = FALSE /\ driver' = FALSE /\ held' = held \ {<<"driver", family>>}
        /\ UNCHANGED <<request, family, hardware, devices, selected, placement>>
    BY <1>11 DEF Backend!Missing, Backend!CloseDriver, Backend!outcome
  <2>2. hardware[family] \in {"unsure", "ready"} /\ lacking \in BOOLEAN
    BY <1>1, <2>1 DEF TryingInv, Trying, Searching
  <2>3. Backend!Detected(family)' = lacking
    BY <2>1, <2>2 DEF Backend!Detected
  <2>4. held' = Loaded
    BY <1>4, <2>1
  <2>5. CASE Backend!Required
    <3>1. Backend!Throw("missing", family) /\ UNCHANGED plugins
      BY <1>11, <2>5 DEF Backend!Missing
    <3>2. request.backend # "auto"
      BY <1>3, <2>5 DEF Backend!Required, Backend!Families
    <3> HIDE DEF lacking
    <3> QED BY <1>1, <2>1, <2>4, <3>1, <3>2, ThrowInv
  <2>6. CASE ~Backend!Required
    <3>1. Backend!Record(FALSE, lacking, lacking, "none")
      BY <1>11, <2>6 DEF Backend!Missing
    <3> HIDE DEF lacking
    <3> QED BY <1>1, <1>2, <2>1, <2>2, <2>3, <2>4, <3>1, RecordInv
  <2> QED BY <2>5, <2>6
<1>12. CASE Backend!Load
  <2>1. /\ at = "load" /\ held' = held \cup {<<"registry", family>>}
        /\ Backend!Record(TRUE, FALSE, FALSE, "none")
        /\ UNCHANGED <<request, hardware, family, fd, driver, devices, selected, placement>>
    BY <1>12 DEF Backend!Load, Backend!locals, Backend!outcome
  <2>2. family = "cuda" => driver
    BY <1>1, <1>2, <2>1 DEF TryingInv
  <2>3. held' = Loaded \cup (InFlight \cup {<<"registry", family>>})
    BY <1>1, <1>2, <2>1
  <2> QED BY <1>1, <1>2, <2>1, <2>2, <2>3, RecordInv
<1>13. CASE Backend!LoadFails
  <2>1. /\ at = "load" /\ Backend!Fails("broken", TRUE) /\ UNCHANGED hardware
        /\ held' = held \ {<<"fd", family>>, <<"driver", family>>}
    BY <1>13 DEF Backend!LoadFails, Backend!ClosedAfterLoad
  <2> QED BY <1>4, <1>6, <2>1
<1> QED BY <1>7, <1>8, <1>9, <1>10, <1>11, <1>12, <1>13
-----------------------------------------------------------------------------
LEMMA ConstructorBegins ==
  ASSUME BackendInv, Backend!ValidateBackendDirectory \/ Backend!NextFamily
  PROVE  BackendInv'
<1>1. /\ request.backend \in {"auto", "cpu", "cuda", "rocm"}
      /\ DOMAIN plugins \subseteq Backend!Families
  BY DEF BackendInv, BackendTypes
<1>2. CASE Backend!ValidateBackendDirectory
  <2>1. /\ at = "start" /\ at' = "failed"
        /\ UNCHANGED <<request, hardware, family, fd, driver, plugins, devices, selected,
                       placement, held>>
    BY <1>2 DEF Backend!ValidateBackendDirectory, Backend!Go, Backend!locals, Backend!outcome
  <2>2. DOMAIN plugins = {} /\ held = {}
    BY <2>1 DEF BackendInv, HeldInv, ChoiceInv, Loaded, Trying, Searching
  <2>3. BackendTypes' /\ TryingInv' /\ HeldInv'
    BY <2>1, <2>2 DEF BackendInv, BackendTypes, BackendPlaces, TryingInv, HeldInv, Trying,
       Searching
  <2>4. ChoiceInv' /\ Backend!BackendChosen' /\ Backend!ModelFits'
    BY <2>1 DEF BackendInv, ChoiceInv, Backend!BackendChosen, Backend!ModelFits
  <2> QED BY <2>1, <2>2, <2>3, <2>4 DEF BackendInv
<1>3. CASE Backend!NextFamily
  <2> DEFINE left == {f \in Backend!Families \ DOMAIN plugins : Backend!Wants(f)}
  <2>1. /\ at \in {"start", "next"} /\ fd' = FALSE /\ driver' = FALSE
        /\ UNCHANGED <<request, hardware, plugins, devices, selected, placement, error, held>>
        /\ IF left = {} THEN at' = "inventory" /\ family' = "none"
           ELSE /\ family' = Backend!First(left)
                /\ at' = IF Backend!First(left) = "cuda" THEN "driver" ELSE "topology"
    BY <1>3 DEF Backend!NextFamily, Backend!Go, Backend!outcome
  <2>2. left # {} => Backend!First(left) \in left /\ left \subseteq {"cuda", "rocm"}
    BY DEF Backend!First, Backend!Families
  <2>3. /\ at' \in {"inventory", "driver", "topology"} /\ family' \in {"none", "cuda", "rocm"}
        /\ at' \in Trying => family' \in Backend!Families /\ family' \notin DOMAIN plugins
        /\ at' = "driver" => family' = "cuda"
        /\ at' = "topology" => family' = "rocm"
        /\ at' = "inventory" =>
             \A f \in Backend!Families : Backend!Wants(f) => f \in DOMAIN plugins
    <3>1. CASE left = {}
      <4>1. \A f \in Backend!Families : Backend!Wants(f) => f \in DOMAIN plugins
        BY <3>1
      <4> QED BY <2>1, <3>1, <4>1 DEF Trying, Searching
    <3>2. CASE left # {}
      <4>1. family' \in left /\ left \subseteq {"cuda", "rocm"}
        BY <2>1, <2>2, <3>2
      <4>2. at' = IF family' = "cuda" THEN "driver" ELSE "topology"
        BY <2>1, <3>2
      <4> QED BY <4>1, <4>2
    <3> QED BY <3>1, <3>2
  <2> HIDE DEF left
  <2>4. BackendTypes'
    <3>1. fd' \in BOOLEAN /\ driver' \in BOOLEAN
      BY <2>1
    <3> QED BY <2>1, <2>3, <3>1 DEF BackendInv, BackendTypes, BackendPlaces, Trying
  <2>5. TryingInv'
    BY <2>1, <2>3 DEF TryingInv, Searching
  <2>6. HeldInv'
    <3>1. Loaded' = Loaded /\ held = Loaded
      BY <2>1 DEF Loaded, Backend!Handles, BackendInv, HeldInv, Trying, Searching
    <3>2. InFlight' = {}
      BY <2>1 DEF InFlight
    <3> QED BY <2>1, <2>3, <3>1, <3>2 DEF HeldInv
  <2>7. ASSUME NEW f \in DOMAIN plugins PROVE PluginInv(f)'
    <3>1. at = "next"
      BY <2>1, <2>7 DEF BackendInv, ChoiceInv
    <3> QED BY <2>1, <2>7, <3>1 DEF BackendInv, PluginInv, Backend!Detected
  <2>8. ChoiceInv'
    BY <2>1, <2>3 DEF BackendInv, ChoiceInv, Backend!Wants
  <2>9. Backend!BackendChosen' /\ Backend!ModelFits'
    BY <2>1, <2>3 DEF BackendInv, Backend!BackendChosen, Backend!ModelFits
  <2> QED BY <2>1, <2>4, <2>5, <2>6, <2>7, <2>8, <2>9 DEF BackendInv
<1> QED BY <1>2, <1>3

\* The error is about a family that was detected, when there is one without a
\* usable plugin.
LEMMA InventoryInv ==
  ASSUME BackendInv, Backend!Inventory
  PROVE  BackendInv'
<1>1. PICK found \in [Backend!Families -> Sizes] :
        /\ \A f \in Backend!Families : found[f] # <<>> =>
             f \in DOMAIN plugins /\ plugins[f].registry
        /\ devices' = found
        /\ IF (\A f \in Backend!Families : found[f] = <<>>) /\ Backend!Culprits # {}
           THEN Backend!Throw(IF plugins[Backend!First(Backend!Culprits)].missing THEN "missing"
                              ELSE plugins[Backend!First(Backend!Culprits)].failure,
                              Backend!First(Backend!Culprits))
           ELSE Backend!Go("select") /\ UNCHANGED error
  BY DEF Backend!Inventory, Sizes
<1>2. /\ at = "inventory"
      /\ UNCHANGED <<request, hardware, family, fd, driver, plugins, selected, placement, held>>
  BY DEF Backend!Inventory, Backend!locals
<1>3. /\ hardware \in [Backend!Families ->
                       {"unknown", "absent", "unsure", "unsupported", "denied", "ready"}]
      /\ fd \in BOOLEAN /\ driver \in BOOLEAN /\ held = Loaded
      /\ DOMAIN plugins \subseteq Backend!Families
  BY <1>2 DEF BackendInv, BackendTypes, HeldInv, Trying, Searching
<1>4. CASE (\A f \in Backend!Families : found[f] = <<>>) /\ Backend!Culprits # {}
  <2>1. PICK culprit \in Backend!Culprits :
          culprit = Backend!First(Backend!Culprits) /\ culprit \in DOMAIN plugins
    <3>1. Backend!Culprits \subseteq DOMAIN plugins
      BY DEF Backend!Culprits
    <3> QED BY <1>3, <1>4, <3>1 DEF Backend!First, Backend!Families
  <2>2. ASSUME request.backend = "auto", NEW f \in Backend!Families,
               Backend!Detected(f)', ~Backend!Usable(f)
        PROVE  Backend!Detected(culprit)'
    <3>1. f \in DOMAIN plugins /\ ~plugins[f].registry /\ Backend!Detected(f)
      BY <1>2, <2>2 DEF BackendInv, ChoiceInv, Backend!Wants, Backend!Usable, Backend!Detected
    <3>2. plugins[f].missing \/ (plugins[f].detected /\ plugins[f].failure # "none")
      BY <1>2, <3>1 DEF BackendInv, PluginInv
    <3>3. CASE \E g \in DOMAIN plugins : plugins[g].missing
      <4>1. plugins[culprit].missing
        BY <2>1, <3>3 DEF Backend!Culprits
      <4> QED BY <1>2, <2>1, <4>1 DEF BackendInv, PluginInv, Backend!Detected
    <3>4. CASE ~\E g \in DOMAIN plugins : plugins[g].missing
      <4>1. Backend!Culprits =
              {g \in DOMAIN plugins : plugins[g].failure # "none" /\ plugins[g].detected}
        BY <3>1, <3>2, <3>4 DEF Backend!Culprits
      <4>2. f \in Backend!Culprits /\ plugins[culprit].detected
        BY <2>1, <3>1, <3>2, <3>4, <4>1
      <4>3. CASE culprit = "cuda"
        BY <1>2, <2>1, <4>2, <4>3 DEF BackendInv, PluginInv, Backend!Detected
      <4>4. CASE culprit # "cuda"
        <5>1. culprit = "rocm" /\ "cuda" \notin Backend!Culprits
          BY <2>1, <4>4 DEF Backend!First
        <5>2. f = "rocm"
          BY <4>2, <5>1 DEF Backend!Families
        <5> QED BY <1>2, <3>1, <5>1, <5>2 DEF Backend!Detected
      <4> QED BY <4>3, <4>4
    <3> QED BY <3>3, <3>4
  <2>3. \E what : Backend!Throw(what, culprit)
    BY <1>1, <1>4, <2>1
  <2> QED BY <1>1, <1>2, <1>3, <2>2, <2>3, ThrowInv
<1>5. CASE ~((\A f \in Backend!Families : found[f] = <<>>) /\ Backend!Culprits # {})
  <2>1. at' = "select" /\ error' = error
    BY <1>1, <1>5 DEF Backend!Go
  <2>2. BackendTypes' /\ TryingInv'
    BY <1>1, <1>2, <2>1 DEF BackendInv, BackendTypes, BackendPlaces, TryingInv, Trying, Searching
  <2>3. HeldInv'
    <3>1. Loaded' = Loaded
      BY <1>2 DEF Loaded, Backend!Handles
    <3> QED BY <1>2, <1>3, <2>1, <3>1 DEF HeldInv, Trying, Searching
  <2>4. ASSUME NEW f \in DOMAIN plugins PROVE PluginInv(f)'
    BY <1>2, <2>1, <2>4 DEF BackendInv, PluginInv, Trying, Searching
  <2>5. ChoiceInv'
    BY <1>1, <1>2, <2>1 DEF BackendInv, ChoiceInv, Backend!Usable
  <2>6. Backend!BackendChosen' /\ Backend!ModelFits'
    BY <1>2, <2>1 DEF BackendInv, Backend!BackendChosen, Backend!ModelFits
  <2> QED BY <1>2, <2>2, <2>3, <2>4, <2>5, <2>6 DEF BackendInv
<1> QED BY <1>4, <1>5
-----------------------------------------------------------------------------
-----------------------------------------------------------------------------
\* A sum of at most two sizes that stops at the limit is the sum, limited.
LEMMA FoldsOf ==
  ASSUME NEW d \in Sizes
  PROVE  /\ Len(d) = 0 => d = <<>>
         /\ Len(d) \in 0..2
         /\ DOMAIN d = 1..Len(d)
         /\ \A i \in DOMAIN d : d[i] \in 0..MaxMemory
<1>1. CASE d = <<>>
  BY <1>1
<1>2. ASSUME NEW m \in Amounts, d = <<m>>
      PROVE  Len(d) = 1 /\ DOMAIN d = 1..1 /\ d[1] \in 0..MaxMemory
  BY <1>2, MemoryAssumption
<1>3. CASE d \in Amounts \X Amounts
  <2>1. PICK a \in Amounts, b \in Amounts : d = <<a, b>>
    BY <1>3
  <2>2. Len(d) = 2 /\ DOMAIN d = 1..2 /\ d[1] = a /\ d[2] = b
    BY <2>1
  <2> QED BY <2>1, <2>2, MemoryAssumption
<1> QED BY <1>1, <1>2, <1>3 DEF Sizes

\* The largest index of a list of at most two.
LEMMA MaxIs ==
  /\ Backend!Max({1}) = 1 /\ Backend!Max({2}) = 2 /\ Backend!Max({1, 2}) = 2
BY DEF Backend!Max

LEMMA MemoryIs ==
  ASSUME NEW f \in Backend!Families, devices \in [Backend!Families -> Sizes]
  PROVE  /\ Backend!Memory(f) = Backend!AtMost(Backend!Total(devices[f]))
         /\ Backend!Memory(f) \in Nat
         /\ devices[f] = <<>> => Backend!Memory(f) = 0
<1> DEFINE d == devices[f]
           Capped == CHOOSE iter : iter = [s \in SUBSET (DOMAIN d) |->
             IF s = {} THEN 0 ELSE Backend!Added(iter[s \ {Backend!Max(s)}], d[Backend!Max(s)])]
           Uncapped == CHOOSE iter : iter = [s \in SUBSET (DOMAIN d) |->
             IF s = {} THEN 0 ELSE iter[s \ {Backend!Max(s)}] + d[Backend!Max(s)]]
<1>1. Backend!Memory(f) = Capped[DOMAIN d] /\ Backend!Total(d) = Uncapped[DOMAIN d]
  BY DEF Backend!Memory, Backend!Total, Backend!FoldLeft, Backend!MapThenFoldSet
<1>2. /\ Len(d) \in 0..2 /\ DOMAIN d = 1..Len(d)
      /\ \A i \in DOMAIN d : d[i] \in 0..MaxMemory
  BY FoldsOf
<1>3. DOMAIN d \in {{}, {1}, {1, 2}}
  <2>1. 1..0 = {} /\ 1..1 = {1} /\ 1..2 = {1, 2}
    OBVIOUS
  <2> QED BY <1>2, <2>1
<1>4. \A s \in SUBSET (DOMAIN d) : s \in {{}, {1}, {2}, {1, 2}}
  BY <1>3
<1>5. {1} \ {Backend!Max({1})} = {} /\ {2} \ {Backend!Max({2})} = {}
      /\ {1, 2} \ {Backend!Max({1, 2})} = {1}
  BY MaxIs
<1>6. Capped = [s \in SUBSET (DOMAIN d) |->
        IF s = {} THEN 0 ELSE Backend!Added(Capped[s \ {Backend!Max(s)}], d[Backend!Max(s)])]
  <2> DEFINE g == [s \in SUBSET (DOMAIN d) |->
        IF s = {} THEN 0 ELSE IF s = {1} THEN Backend!Added(0, d[1])
        ELSE IF s = {2} THEN Backend!Added(0, d[2])
        ELSE Backend!Added(Backend!Added(0, d[1]), d[2])]
  <2>1. ASSUME NEW s \in SUBSET (DOMAIN d), s # {}
        PROVE  g[s] = Backend!Added(g[s \ {Backend!Max(s)}], d[Backend!Max(s)])
    <3> HIDE DEF d
    <3>1. CASE s = {1}
      BY <1>4, <1>5, <2>1, <3>1, MaxIs
    <3>2. CASE s = {2}
      BY <1>4, <1>5, <2>1, <3>2, MaxIs
    <3>3. CASE s = {1, 2}
      <4>1. {1} \in SUBSET (DOMAIN d)
        BY <2>1, <3>3
      <4> QED BY <1>4, <1>5, <2>1, <3>3, <4>1, MaxIs
    <3> QED BY <1>4, <2>1, <3>1, <3>2, <3>3
  <2>2. g = [s \in SUBSET (DOMAIN d) |->
          IF s = {} THEN 0 ELSE Backend!Added(g[s \ {Backend!Max(s)}], d[Backend!Max(s)])]
    <3>1. \A s \in SUBSET (DOMAIN d) : g[s] =
            IF s = {} THEN 0 ELSE Backend!Added(g[s \ {Backend!Max(s)}], d[Backend!Max(s)])
      <4> HIDE DEF d
      <4>1. \A s \in SUBSET (DOMAIN d) : s = {} => g[s] = 0
        OBVIOUS
      <4> HIDE DEF g
      <4> QED BY <2>1, <4>1
    <3>2. g = [s \in SUBSET (DOMAIN d) |-> g[s]]
      OBVIOUS
    <3> HIDE DEF g, d
    <3> QED BY <3>1, <3>2
  <2>3. \E iter : iter = [s \in SUBSET (DOMAIN d) |->
          IF s = {} THEN 0 ELSE Backend!Added(iter[s \ {Backend!Max(s)}], d[Backend!Max(s)])]
    <3> HIDE DEF g, d
    <3> QED BY <2>2
  <2> HIDE DEF d
  <2> QED BY <2>3
<1>7. Uncapped = [s \in SUBSET (DOMAIN d) |->
        IF s = {} THEN 0 ELSE Uncapped[s \ {Backend!Max(s)}] + d[Backend!Max(s)]]
  <2> DEFINE g == [s \in SUBSET (DOMAIN d) |->
        IF s = {} THEN 0 ELSE IF s = {1} THEN 0 + d[1]
        ELSE IF s = {2} THEN 0 + d[2] ELSE (0 + d[1]) + d[2]]
  <2>1. ASSUME NEW s \in SUBSET (DOMAIN d), s # {}
        PROVE  g[s] = g[s \ {Backend!Max(s)}] + d[Backend!Max(s)]
    <3> HIDE DEF d
    <3>1. CASE s = {1}
      BY <1>4, <1>5, <2>1, <3>1, MaxIs
    <3>2. CASE s = {2}
      BY <1>4, <1>5, <2>1, <3>2, MaxIs
    <3>3. CASE s = {1, 2}
      <4>1. {1} \in SUBSET (DOMAIN d)
        BY <2>1, <3>3
      <4> QED BY <1>4, <1>5, <2>1, <3>3, <4>1, MaxIs
    <3> QED BY <1>4, <2>1, <3>1, <3>2, <3>3
  <2>2. g = [s \in SUBSET (DOMAIN d) |->
          IF s = {} THEN 0 ELSE g[s \ {Backend!Max(s)}] + d[Backend!Max(s)]]
    <3>1. \A s \in SUBSET (DOMAIN d) : g[s] =
            IF s = {} THEN 0 ELSE g[s \ {Backend!Max(s)}] + d[Backend!Max(s)]
      <4> HIDE DEF d
      <4>1. \A s \in SUBSET (DOMAIN d) : s = {} => g[s] = 0
        OBVIOUS
      <4> HIDE DEF g
      <4> QED BY <2>1, <4>1
    <3>2. g = [s \in SUBSET (DOMAIN d) |-> g[s]]
      OBVIOUS
    <3> HIDE DEF g, d
    <3> QED BY <3>1, <3>2
  <2>3. \E iter : iter = [s \in SUBSET (DOMAIN d) |->
          IF s = {} THEN 0 ELSE iter[s \ {Backend!Max(s)}] + d[Backend!Max(s)]]
    <3> HIDE DEF g, d
    <3> QED BY <2>2
  <2> HIDE DEF d
  <2> QED BY <2>3
<1> HIDE DEF Capped, Uncapped
<1>8. Capped[{}] = 0 /\ Uncapped[{}] = 0
  <2> HIDE DEF d
  <2>1. {} \in SUBSET (DOMAIN d)
    OBVIOUS
  <2> QED BY <1>6, <1>7, <2>1
<1>9. 1 \in DOMAIN d => Capped[{1}] = Backend!Added(0, d[1]) /\ Uncapped[{1}] = 0 + d[1]
  <2> HIDE DEF d
  <2> SUFFICES ASSUME 1 \in DOMAIN d
               PROVE  Capped[{1}] = Backend!Added(0, d[1]) /\ Uncapped[{1}] = 0 + d[1]
    OBVIOUS
  <2>1. {1} \in SUBSET (DOMAIN d) /\ {1} # {}
    OBVIOUS
  <2>2. Capped[{1}] = Backend!Added(Capped[{1} \ {Backend!Max({1})}], d[Backend!Max({1})])
    BY <1>6, <2>1
  <2>3. Uncapped[{1}] = Uncapped[{1} \ {Backend!Max({1})}] + d[Backend!Max({1})]
    BY <1>7, <2>1
  <2> QED BY <1>5, <1>8, <2>2, <2>3, MaxIs
<1>10. {1, 2} \subseteq DOMAIN d =>
         /\ Capped[{1, 2}] = Backend!Added(Backend!Added(0, d[1]), d[2])
         /\ Uncapped[{1, 2}] = (0 + d[1]) + d[2]
  <2> HIDE DEF d
  <2> SUFFICES ASSUME {1, 2} \subseteq DOMAIN d
               PROVE  /\ Capped[{1, 2}] = Backend!Added(Backend!Added(0, d[1]), d[2])
                      /\ Uncapped[{1, 2}] = (0 + d[1]) + d[2]
    OBVIOUS
  <2>1. {1, 2} \in SUBSET (DOMAIN d) /\ {1, 2} # {} /\ 1 \in DOMAIN d
    OBVIOUS
  <2>2. Capped[{1, 2}] = Backend!Added(Capped[{1, 2} \ {Backend!Max({1, 2})}], d[Backend!Max({1, 2})])
    BY <1>6, <2>1
  <2>3. Uncapped[{1, 2}] = Uncapped[{1, 2} \ {Backend!Max({1, 2})}] + d[Backend!Max({1, 2})]
    BY <1>7, <2>1
  <2> QED BY <1>5, <1>9, <2>1, <2>2, <2>3, MaxIs
<1>11. Capped[DOMAIN d] = Backend!AtMost(Uncapped[DOMAIN d]) /\ Capped[DOMAIN d] \in Nat
  <2> HIDE DEF d
  <2>1. CASE DOMAIN d = {}
    BY <1>8, <2>1, MemoryAssumption DEF Backend!AtMost
  <2>2. CASE DOMAIN d = {1}
    <3>1. d[1] \in 0..MaxMemory
      BY <1>2, <2>2
    <3> QED BY <1>9, <2>2, <3>1, MemoryAssumption DEF Backend!AtMost, Backend!Added
  <2>3. CASE DOMAIN d = {1, 2}
    <3>1. d[1] \in 0..MaxMemory /\ d[2] \in 0..MaxMemory
      BY <1>2, <2>3
    <3> QED BY <1>10, <2>3, <3>1, MemoryAssumption DEF Backend!AtMost, Backend!Added
  <2> QED BY <1>3, <2>1, <2>2, <2>3
<1>12. d = <<>> => Capped[DOMAIN d] = 0
  <2> HIDE DEF d
  <2>1. d = <<>> => DOMAIN d = {}
    OBVIOUS
  <2> QED BY <1>8, <2>1
<1> QED BY <1>1, <1>11, <1>12
-----------------------------------------------------------------------------

\* Of two families the one with more memory is taken.
LEMMA SelectInv ==
  ASSUME BackendInv, Backend!SelectBackend
  PROVE  BackendInv'
<1> DEFINE usable == {f \in Backend!Families : Backend!Wants(f) /\ devices[f] # <<>>}
<1>1. /\ at = "select"
      /\ UNCHANGED <<request, hardware, family, fd, driver, plugins, devices, placement, held>>
      /\ IF request.backend # "cpu" /\ usable = {}
         THEN Backend!Throw("nothing", request.backend) /\ UNCHANGED selected
         ELSE /\ selected' = IF usable = {} THEN "cpu"
                             ELSE IF /\ "cuda" \in usable
                                     /\ "rocm" \in usable =>
                                          Backend!Memory("cuda") >= Backend!Memory("rocm")
                                  THEN "cuda" ELSE "rocm"
              /\ at' = "selected" /\ error' = error
  BY DEF Backend!SelectBackend, Backend!locals, Backend!Go
<1>2. /\ hardware \in [Backend!Families ->
                       {"unknown", "absent", "unsure", "unsupported", "denied", "ready"}]
      /\ fd \in BOOLEAN /\ driver \in BOOLEAN /\ held = Loaded
      /\ devices \in [Backend!Families -> Sizes]
      /\ request.backend \in {"auto", "cpu", "cuda", "rocm"}
      /\ (request.backend = "cpu") = (request.layers = 0)
      /\ \A f \in Backend!Families : devices[f] # <<>> => Backend!Usable(f)
  BY <1>1 DEF BackendInv, BackendTypes, HeldInv, ChoiceInv, Trying, Searching
<1>3. CASE request.backend # "cpu" /\ usable = {}
  <2>1. Backend!Throw("nothing", request.backend) /\ UNCHANGED selected
    BY <1>1, <1>3
  <2>2. PICK whom : whom = request.backend
    OBVIOUS
  <2>3. "auto" \notin Backend!Families
    BY DEF Backend!Families
  <2> HIDE DEF usable
  <2> QED BY <1>1, <1>2, <2>1, <2>2, <2>3, ThrowInv
<1>4. CASE ~(request.backend # "cpu" /\ usable = {})
  <2>1. PICK chosen :
        /\ at' = "selected" /\ error' = error /\ selected' = chosen
        /\ chosen = IF usable = {} THEN "cpu"
                       ELSE IF /\ "cuda" \in usable
                               /\ "rocm" \in usable =>
                                    Backend!Memory("cuda") >= Backend!Memory("rocm")
                            THEN "cuda" ELSE "rocm"
    BY <1>1, <1>4
  <2>2. usable \subseteq {"cuda", "rocm"} /\ (request.backend = "cpu" => usable = {})
    BY DEF Backend!Families, Backend!Wants
  <2>3. /\ chosen \in {"cpu", "cuda", "rocm"}
        /\ (chosen = "cpu") = (usable = {})
        /\ chosen # "cpu" => chosen \in usable
    <3> HIDE DEF usable
    <3> QED BY <2>1, <2>2
  <2>4. (chosen = "cpu") = (request.layers = 0)
    BY <1>2, <1>4, <2>2, <2>3
  <2>5. ASSUME NEW f \in Backend!Families
        PROVE  /\ Backend!Memory(f) = Backend!AtMost(Backend!Total(devices[f]))
               /\ Backend!Memory(f) \in Nat
               /\ devices[f] = <<>> => Backend!Memory(f) = 0
    BY <1>2, <2>5, MemoryIs
  <2>6. ASSUME chosen # "cpu", NEW f \in Backend!Families, Backend!Wants(f)
        PROVE  Backend!Memory(f) <= Backend!Memory(chosen)
    <3>1. chosen \in Backend!Families
      BY <2>3, <2>6
    <3>2. Backend!Memory(f) \in Nat /\ Backend!Memory(chosen) \in Nat
      BY <2>5, <3>1
    <3>3. CASE f \notin usable
      BY <2>5, <2>6, <3>2, <3>3
    <3>4. CASE f \in usable /\ f # chosen
      <4> HIDE DEF usable
      <4>1. CASE chosen = "cuda" /\ f = "rocm"
        BY <2>1, <2>3, <2>6, <3>2, <3>4, <4>1
      <4>2. CASE chosen = "rocm" /\ f = "cuda"
        BY <2>1, <2>3, <2>6, <3>2, <3>4, <4>2
      <4> QED BY <2>2, <2>3, <2>6, <3>4, <4>1, <4>2
    <3> QED BY <3>2, <3>3, <3>4
  <2>7. BackendTypes'
    BY <1>1, <2>1, <2>3 DEF BackendInv, BackendTypes, BackendPlaces
  <2>8. TryingInv' /\ HeldInv'
    <3>1. Loaded' = Loaded
      BY <1>1 DEF Loaded, Backend!Handles
    <3> QED BY <1>1, <1>2, <2>1, <3>1 DEF TryingInv, HeldInv, Trying, Searching
  <2>9. ASSUME NEW f \in DOMAIN plugins PROVE PluginInv(f)'
    BY <1>1, <2>1, <2>9 DEF BackendInv, PluginInv, Trying, Searching
  <2>10. ChoiceInv'
    BY <1>1, <1>2, <2>1, <2>3 DEF BackendInv, ChoiceInv, Backend!Usable
  <2>11. Backend!BackendChosen'
    <3>1. ASSUME chosen # "cpu"
          PROVE  /\ Backend!Wants(chosen)' /\ Backend!Usable(chosen)'
                 /\ devices'[chosen] # <<>>
                 /\ \A f \in Backend!Families : Backend!Wants(f)' =>
                      Backend!AtMost(Backend!Total(devices'[f]))
                        <= Backend!AtMost(Backend!Total(devices'[chosen]))
      <4>1. chosen \in Backend!Families /\ Backend!Wants(chosen) /\ devices[chosen] # <<>>
        BY <2>3, <3>1
      <4>2. Backend!Wants(chosen)' /\ Backend!Usable(chosen)'
        BY <1>1, <1>2, <4>1 DEF Backend!Wants, Backend!Usable
      <4>3. ASSUME NEW f \in Backend!Families, Backend!Wants(f)
            PROVE  Backend!AtMost(Backend!Total(devices[f]))
                     <= Backend!AtMost(Backend!Total(devices[chosen]))
        BY <2>5, <2>6, <3>1, <4>1, <4>3
      <4> QED BY <1>1, <4>1, <4>2, <4>3 DEF Backend!Wants
    <3> QED BY <1>1, <2>1, <2>4, <3>1 DEF Backend!BackendChosen
  <2>12. Backend!ModelFits'
    BY <1>1 DEF BackendInv, Backend!ModelFits
  <2> QED BY <1>1, <2>7, <2>8, <2>9, <2>10, <2>11, <2>12 DEF BackendInv
<1> QED BY <1>3, <1>4
-----------------------------------------------------------------------------
\* The constructor gives up, or what it has built is destroyed.
LEMMA GiveUpInv ==
  ASSUME BackendInv, Backend!Unwind \/ Backend!NoDevice \/ Backend!Destroy
  PROVE  BackendInv'
<1>1. /\ at \in {"unwind", "selected", "running"} /\ at' \in {"failed", "destroyed"}
      /\ held' = held \ UNION {Backend!Handles(f) : f \in DOMAIN plugins}
      /\ UNCHANGED <<request, hardware, family, fd, driver, plugins, devices, selected,
                     placement>>
  BY DEF Backend!Unwind, Backend!NoDevice, Backend!Destroy, Backend!Unload, Backend!Go,
     Backend!locals, Backend!outcome
<1>2. held' = {}
  BY <1>1 DEF BackendInv, HeldInv, Loaded, Trying, Searching
<1>3. BackendTypes' /\ TryingInv' /\ HeldInv'
  BY <1>1, <1>2 DEF BackendInv, BackendTypes, BackendPlaces, TryingInv, HeldInv, Trying,
     Searching
<1>4. ASSUME NEW f \in DOMAIN plugins PROVE PluginInv(f)'
  BY <1>1, <1>4 DEF BackendInv, PluginInv, Trying, Searching
<1>5. ChoiceInv' /\ Backend!BackendChosen' /\ Backend!ModelFits'
  BY <1>1 DEF BackendInv, ChoiceInv, Backend!BackendChosen, Backend!ModelFits
<1> QED BY <1>1, <1>3, <1>4, <1>5 DEF BackendInv

LEMMA AdoptInv ==
  ASSUME BackendInv, Backend!Adopt
  PROVE  BackendInv'
<1>1. /\ at = "selected" /\ at' = "running"
      /\ held' = held \ UNION {Backend!Handles(f) : f \in DOMAIN plugins \ {selected}}
      /\ plugins' = [f \in DOMAIN plugins \cap {selected} |-> plugins[f]]
      /\ devices' = [f \in Backend!Families |-> <<>>]
      /\ hardware' = [f \in Backend!Families |-> "unknown"]
      /\ UNCHANGED <<request, family, fd, driver, selected, placement, error>>
  BY DEF Backend!Adopt, Backend!Unload, Backend!Go, Backend!locals
<1>2. /\ DOMAIN plugins \subseteq Backend!Families /\ plugins \in [DOMAIN plugins -> Plugins]
      /\ selected \in {"cpu", "cuda", "rocm"}
      /\ selected # "cpu" => selected \in DOMAIN plugins /\ plugins[selected].registry
      /\ held = Loaded
  BY <1>1 DEF BackendInv, BackendTypes, ChoiceInv, HeldInv, Backend!BackendChosen,
     Backend!Usable, Trying, Searching
<1>3. /\ DOMAIN plugins' = {selected} \ {"cpu"}
      /\ \A f \in DOMAIN plugins' : f \in DOMAIN plugins /\ plugins'[f] = plugins[f]
  BY <1>1, <1>2 DEF Backend!Families
<1>4. BackendTypes'
  <2>1. hardware' \in [Backend!Families ->
          {"unknown", "absent", "unsure", "unsupported", "denied", "ready"}]
    BY <1>1
  <2>2. devices' \in [Backend!Families -> Sizes]
    BY <1>1 DEF Sizes
  <2>3. DOMAIN plugins' \subseteq Backend!Families /\ plugins' \in [DOMAIN plugins' -> Plugins]
    BY <1>1, <1>2
  <2> QED BY <1>1, <2>1, <2>2, <2>3 DEF BackendInv, BackendTypes, BackendPlaces
<1>5. TryingInv'
  BY <1>1 DEF TryingInv, Trying, Searching
<1>6. HeldInv'
  <2>1. \A f \in DOMAIN plugins' : Backend!Handles(f)' = Backend!Handles(f)
    BY <1>3 DEF Backend!Handles
  <2>2. \A f \in DOMAIN plugins : \A h \in Backend!Handles(f) : h[2] = f
    BY DEF Backend!Handles
  <2>3. Loaded' = UNION {Backend!Handles(f) : f \in DOMAIN plugins \cap {selected}}
    BY <1>1, <1>3, <2>1 DEF Loaded
  <2>4. held' = Loaded'
    BY <1>1, <1>2, <2>2, <2>3 DEF Loaded
  <2> QED BY <1>1, <2>4 DEF HeldInv, Trying, Searching
<1>7. ASSUME NEW f \in DOMAIN plugins' PROVE PluginInv(f)'
  BY <1>1, <1>3, <1>7 DEF BackendInv, PluginInv, Trying, Searching
<1>8. ChoiceInv'
  BY <1>1, <1>2, <1>3 DEF BackendInv, ChoiceInv, Backend!Usable
<1>9. Backend!BackendChosen' /\ Backend!ModelFits'
  BY <1>1 DEF BackendInv, Backend!BackendChosen, Backend!ModelFits
<1> QED BY <1>4, <1>5, <1>6, <1>7, <1>8, <1>9 DEF BackendInv

\* The GPU that is picked has the memory asked for and, with all layers on it,
\* the model and a tenth more.
LEMMA PlacementInv ==
  ASSUME BackendInv, Backend!GpuPlacement
  PROVE  BackendInv'
<1>1. PICK o \in Backend!Selections, bytes \in Amounts, gpus \in Sizes :
        placement' = <<o, bytes, gpus, Backend!SelectGpuDevice(o, bytes, gpus)>>
  BY DEF Backend!GpuPlacement, Sizes
<1>2. UNCHANGED <<request, at, hardware, family, fd, driver, plugins, devices, selected,
                  error, held>> /\ at = "running"
  BY DEF Backend!GpuPlacement, Backend!locals
<1>3. PICK chosen : chosen = Backend!SelectGpuDevice(o, bytes, gpus)
  OBVIOUS
<1>4. /\ Len(gpus) \in 0..2 /\ DOMAIN gpus = 1..Len(gpus)
      /\ \A i \in DOMAIN gpus : gpus[i] \in 0..MaxMemory
  BY FoldsOf
<1>5. bytes \in Nat /\ bytes <= MaxMemory /\ o.min_free \in Nat /\ MaxMemory \in Nat
      /\ o.device \in {"any", "GPU1", "GPU2"} /\ o.policy \in {"preserve", "most-free"}
  <2>1. o.device \in {"any", "GPU1", "GPU2"} /\ o.policy \in {"preserve", "most-free"}
        /\ o.min_free \in Amounts \cup {0}
    BY DEF Backend!Selections
  <2>2. MaxMemory \in Nat /\ \A m \in Amounts : m \in 0..MaxMemory
    BY MemoryAssumption
  <2>3. bytes \in Nat /\ bytes <= MaxMemory
    BY <2>2
  <2>4. o.min_free \in Nat
    BY <2>1, <2>2
  <2> QED BY <2>1, <2>2, <2>3, <2>4
<1>6. ASSUME chosen \in {"GPU1", "GPU2"}
      PROVE  LET free == IF chosen = "GPU1" THEN gpus[1] ELSE gpus[2] IN
             /\ free >= o.min_free
             /\ request.layers = -1 => free = MaxMemory \/ 10 * free >= 11 * bytes
             /\ o.device = "any" => \A i \in DOMAIN gpus : gpus[i] <= free
  <2>1. PICK i : /\ i = CHOOSE pick \in Backend!Picks(o, gpus) : TRUE
                 /\ Backend!Picks(o, gpus) # {}
                 /\ ~(gpus[i] < Backend!GpuMemoryRequirement(o, bytes))
                 /\ chosen = Backend!Name(i)
    BY <1>3, <1>6 DEF Backend!SelectGpuDevice
  <2>2. i \in Backend!Picks(o, gpus)
    BY <2>1
  <2>3. i \in DOMAIN gpus /\ (o.device = "any" => \A j \in DOMAIN gpus : gpus[j] <= gpus[i])
    BY <2>2 DEF Backend!Picks
  <2>4. i \in {1, 2} /\ gpus[i] \in Nat /\ gpus[i] <= MaxMemory
    BY <1>4, <1>5, <2>3
  <2>5. gpus[i] = IF chosen = "GPU1" THEN gpus[1] ELSE gpus[2]
    <3>1. CASE i = 1
      BY <2>1, <3>1 DEF Backend!Name
    <3>2. CASE i = 2
      BY <2>1, <3>2 DEF Backend!Name
    <3> QED BY <2>4, <3>1, <3>2
  <2> DEFINE margin == bytes \div 10 + (IF bytes % 10 # 0 THEN 1 ELSE 0)
             full == IF request.layers = -1 THEN Backend!Added(margin, bytes) ELSE 0
  <2>6. margin \in Nat /\ 10 * margin >= bytes
    BY <1>5
  <2> HIDE DEF margin
  <2>7. /\ full \in Nat
        /\ request.layers = -1 => full = MaxMemory \/ full = margin + bytes
    BY <1>5, <2>6 DEF Backend!Added
  <2>8. Backend!GpuMemoryRequirement(o, bytes) = IF full > o.min_free THEN full ELSE o.min_free
    BY DEF Backend!GpuMemoryRequirement, margin
  <2> HIDE DEF full
  <2>9. gpus[i] >= full /\ gpus[i] >= o.min_free
    BY <1>5, <2>1, <2>4, <2>7, <2>8
  <2>10. request.layers = -1 => gpus[i] = MaxMemory \/ 10 * gpus[i] >= 11 * bytes
    BY <1>5, <2>4, <2>6, <2>7, <2>9
  <2> QED BY <2>3, <2>5, <2>9, <2>10
<1>7. Backend!ModelFits'
  <2>1. /\ placement'[1] = o /\ placement'[2] = bytes /\ placement'[3] = gpus
        /\ placement'[4] = chosen /\ request' = request
    BY <1>1, <1>2, <1>3
  <2> QED BY <1>6, <2>1 DEF Backend!ModelFits
<1>8. BackendTypes' /\ TryingInv' /\ HeldInv'
  BY <1>2 DEF BackendInv, BackendTypes, TryingInv, HeldInv, Trying, Searching, Loaded,
     Backend!Handles
<1>9. ASSUME NEW f \in DOMAIN plugins PROVE PluginInv(f)'
  BY <1>2, <1>9 DEF BackendInv, PluginInv, Trying, Searching
<1>10. ChoiceInv' /\ Backend!BackendChosen'
  BY <1>2 DEF BackendInv, ChoiceInv, Backend!BackendChosen, Backend!Usable
<1> QED BY <1>2, <1>7, <1>8, <1>9, <1>10 DEF BackendInv

-----------------------------------------------------------------------------
\* Whatever is found on the machine and wherever LoadPlugin ends, the process
\* has the handles of the plugins recorded and of the attempt in progress, and
\* no others (backend.cc:274-466, 687-837).
LEMMA BackendInvariance == MCSpec => []BackendAlways
<1>1. MCInit => BackendAlways
  BY BackendInit DEF MCInit, BackendAlways
<1>2. MCNext \/ UNCHANGED all =>
        group' = group /\ (group = "backend" => Backend!Run \/ UNCHANGED backendVars)
  BY DEF MCNext, all
<1>3. BackendInv /\ UNCHANGED backendVars => BackendInv'
  <2> SUFFICES ASSUME BackendInv, UNCHANGED backendVars PROVE BackendInv'
    OBVIOUS
  <2>1. UNCHANGED <<request, at, family, hardware, fd, driver, plugins, devices, selected,
                    placement, error, held>>
    BY DEF backendVars
  <2>2. BackendTypes' /\ TryingInv' /\ HeldInv'
    BY <2>1 DEF BackendInv, BackendTypes, TryingInv, HeldInv, InFlight, Loaded, Backend!Handles
  <2>3. ASSUME NEW f \in DOMAIN plugins PROVE PluginInv(f)'
    BY <2>1, <2>3 DEF BackendInv, PluginInv, Backend!Detected
  <2>4. ChoiceInv' /\ Backend!ModelFits'
    BY <2>1 DEF BackendInv, ChoiceInv, Backend!ModelFits, Backend!Usable, Backend!Wants
  <2>5. Backend!BackendChosen'
    BY <2>1 DEF BackendInv, Backend!BackendChosen, Backend!Usable, Backend!Wants,
       Backend!Detected
  <2> QED BY <2>1, <2>2, <2>3, <2>4, <2>5 DEF BackendInv
<1>4. BackendInv /\ Backend!Run => BackendInv'
  BY ConstructorBegins, LoadPluginMoves, LoadPluginEnds, InventoryInv, SelectInv, GiveUpInv,
     AdoptInv, PlacementInv DEF Backend!Run, Backend!LoadPlugin
<1>5. BackendAlways /\ [MCNext]_all => BackendAlways'
  BY <1>2, <1>3, <1>4 DEF BackendAlways
<1> QED BY <1>1, <1>5, PTL DEF MCSpec

\* Nothing stays open after a failure or the end, and a CUDA plugin never
\* outlives its driver; of two families the one with more memory is taken, for
\* any sizes of at most two devices each, and an error is about hardware that
\* was detected; a model is put on a GPU that can hold it
\* (backend.cc:274-483, 687-870, backend_policy.cc:78-127, 264-326).
THEOREM RuntimeAlwaysRight == MCSpec => []RuntimeRight
<1>1. BackendAlways => RuntimeRight
  <2> SUFFICES ASSUME BackendInv PROVE Backend!RuntimeRight
    BY DEF BackendAlways, RuntimeRight
  <2>1. /\ DOMAIN plugins \subseteq Backend!Families /\ plugins \in [DOMAIN plugins -> Plugins]
        /\ fd \in BOOLEAN /\ driver \in BOOLEAN
    BY DEF BackendInv, BackendTypes
  <2>2. at \in {"failed", "destroyed"} => held = {}
    BY DEF BackendInv, HeldInv
  <2>3. ASSUME at = "running"
        PROVE  /\ (<<"registry", selected>> \in held) = (selected # "cpu")
               /\ \A handle \in held : handle[2] = selected
               /\ held = UNION {Backend!Handles(f) : f \in DOMAIN plugins}
    <3>1. /\ held = Loaded /\ DOMAIN plugins = {selected} \ {"cpu"}
          /\ selected # "cpu" => plugins[selected].registry
      BY <2>3 DEF BackendInv, HeldInv, ChoiceInv, Backend!Usable, Trying, Searching
    <3>2. CASE selected = "cpu"
      BY <3>1, <3>2 DEF Loaded
    <3>3. CASE selected # "cpu"
      <4>1. held = Backend!Handles(selected) /\ plugins[selected] \in Plugins
        BY <2>1, <3>1, <3>3 DEF Loaded
      <4>2. <<"registry", selected>> \in held
        BY <3>1, <3>3, <4>1, HandlesOf
      <4>3. \A handle \in held : handle[2] = selected
        BY <4>1 DEF Backend!Handles
      <4> QED BY <3>1, <3>3, <4>2, <4>3 DEF Loaded
    <3> QED BY <3>2, <3>3
  <2>4. ASSUME <<"registry", "cuda">> \in held
        PROVE  <<"driver", "cuda">> \in held
    <3>1. held # {} /\ (held = Loaded \/ held = Loaded \cup InFlight)
      BY <2>4 DEF BackendInv, HeldInv
    <3>2. <<"registry", "cuda">> \notin InFlight
      BY DEF InFlight
    <3>3. PICK f \in DOMAIN plugins : <<"registry", "cuda">> \in Backend!Handles(f)
      BY <2>4, <3>1, <3>2 DEF Loaded
    <3>4. f = "cuda" /\ plugins[f].registry
      BY <3>3 DEF Backend!Handles
    <3>5. plugins[f].driver /\ plugins[f] \in Plugins
      BY <2>1, <3>4 DEF BackendInv, PluginInv
    <3>6. <<"driver", "cuda">> \in Backend!Handles(f)
      BY <3>4, <3>5, HandlesOf
    <3> QED BY <3>1, <3>6 DEF Loaded
  <2> QED BY <2>2, <2>3, <2>4 DEF BackendInv, Backend!RuntimeRight, Backend!HandlesReturned
<1> QED BY <1>1, BackendInvariance, PTL
-----------------------------------------------------------------------------
(* Scoring.                                                                *)

Tokens == [input : Nat, token : Nat]
Scored == [token : Nat, entropy : BOOLEAN, seen : Seq(Tokens)]
Windows == Scorer!WindowCount(input.tokens, settings.context)
InWindow == stage \in {"prepare", "decode", "reduce"}
WellEnded == stage = "idle" /\ ended = "scored"

ScoringTypes ==
  /\ settings \in [context : Nat \ {0}, batch : Nat \ {0}, gpu : BOOLEAN, bos : BOOLEAN]
  /\ input \in [number : Nat, tokens : Nat]
  /\ stage \in {"idle", "plan", "prepare", "decode", "reduce"}
  /\ window \in Nat /\ source \in Nat /\ capacity \in Nat
  /\ memory \in Seq(Tokens) /\ targets \in Seq(Nat) /\ records \in Seq(Scored)
  /\ ended \in {"none", "scored", "recoverable", "thrown"}

\* The first n tokens of the window, as they are in the context.
Held(n) == [i \in 1..n |-> Scorer!TokenAt(Scorer!Window.begin + i - 1)]

\* The context has the tokens of the window up to the source, and each token
\* before the one that is next has its record.
WindowInv ==
  InWindow =>
    /\ input.tokens >= 2 /\ settings.context >= 2 /\ window < Windows
    /\ source + 1 < Scorer!Required
    /\ stage = "prepare" => source = 0
    /\ stage \in {"decode", "reduce"} => capacity >= Scorer!Required
    /\ stage = "decode" => memory = Held(source)
    /\ stage = "reduce" =>
         /\ Scorer!Scoring /\ memory = Held(source + Scorer!BatchSize)
         /\ settings.gpu => targets = [i \in 1..Scorer!BatchSize |-> Scorer!Window.begin + source + i]
    /\ Len(records) = Scorer!Window.begin + Scorer!Most(source, Scorer!FirstScored) + 1 - Scorer!Bos

\* A record is of its token, and saw the tokens right before it.
Sees(r) ==
  r.entropy =>
    /\ Len(r.seen) >= Scorer!Least(r.token, settings.context \div 2)
    /\ r.seen = [i \in 1..Len(r.seen) |-> Scorer!TokenAt(r.token - Len(r.seen) + i - 1)]
Right(r, i) ==
  /\ r.token = i - 1 + Scorer!Bos
  /\ r.entropy = (settings.bos \/ i > 1)
  /\ Sees(r)
RecordsInv ==
  /\ stage # "idle" \/ WellEnded => Scorer!Bos <= input.tokens
  /\ InWindow \/ WellEnded =>
       \A i \in 1..Len(records) : Right(records[i], i)
  /\ WellEnded =>
       /\ Len(records) = input.tokens - Scorer!Bos
       /\ input.tokens >= 2 => settings.context >= 2

ScoringInv ==
  /\ ScoringTypes /\ Len(memory) <= capacity
  /\ WindowInv /\ RecordsInv

ScoringAlways == group = "scoring" => ScoringInv
-----------------------------------------------------------------------------
\* Half a context, and how often it goes into a number.
LEMMA Halves ==
  ASSUME NEW C \in Nat, C >= 2
  PROVE  /\ C \div 2 \in Nat /\ C \div 2 >= 1
         /\ 2 * (C \div 2) <= C /\ C <= 2 * (C \div 2) + 1
  OBVIOUS

LEMMA Quotient ==
  ASSUME NEW a \in Nat, NEW s \in Nat, s >= 1
  PROVE  /\ a \div s \in Nat
         /\ (a \div s) * s <= a /\ a < (a \div s) * s + s
         /\ (a + s) \div s = 1 + a \div s
  OBVIOUS

LEMMA Products ==
  ASSUME NEW w \in Nat, NEW q \in Nat, NEW s \in Nat, s >= 1
  PROVE  /\ w * s \in Nat /\ q * s \in Nat
         /\ (w + 1) * s = w * s + s
         /\ w <= q => w * s <= q * s
         /\ w >= 1 => w * s >= s
  OBVIOUS

\* The windows begin half a context apart, each but the last is a context
\* long, and each scores from where the one before it ends.
LEMMA WindowFacts ==
  ASSUME NEW C \in Nat, C >= 2, NEW T \in Nat, T >= 2,
         NEW w \in Nat, w < Scorer!WindowCount(T, C)
  PROVE  LET x == Scorer!ScoreWindowAt(T, C, w)
             y == Scorer!ScoreWindowAt(T, C, w + 1)
         IN  /\ x.begin \in Nat /\ x.end \in Nat /\ x.scored \in Nat
             /\ x.begin + 1 <= x.scored /\ x.scored < x.end /\ x.end <= T
             /\ x.end - x.begin <= C
             /\ w = 0 => x.begin = 0 /\ x.scored = 1
             /\ w > 0 => x.scored >= x.begin + C \div 2
             /\ w + 1 < Scorer!WindowCount(T, C) =>
                  y.scored = x.end /\ y.begin = x.begin + C \div 2
             /\ w + 1 >= Scorer!WindowCount(T, C) => x.end = T
<1> DEFINE s == C \div 2
           b == w * s
<1>1. s \in Nat /\ s >= 1 /\ 2 * s <= C
  BY Halves
<1>2. b \in Nat /\ (w + 1) * s = b + s /\ (w >= 1 => b >= s) /\ (w = 0 => b = 0)
  BY <1>1, Products
<1>3. ASSUME T <= C
      PROVE  /\ Scorer!WindowCount(T, C) = 1 /\ w = 0 /\ b = 0
             /\ Scorer!WindowEnd(T, C, b) = T
  BY <1>2, <1>3 DEF Scorer!WindowCount, Scorer!WindowEnd
<1>4. ASSUME T > C, NEW q \in Nat, q = (T - C - 1) \div s
      PROVE  /\ Scorer!WindowCount(T, C) = 2 + q
             /\ w <= q => b <= T - C - 1 /\ Scorer!WindowEnd(T, C, b) = b + C
             /\ w = q + 1 => b <= T - C - 1 + s /\ b > T - C - 1 /\ Scorer!WindowEnd(T, C, b) = T
             /\ w >= 1 => Scorer!WindowEnd(T, C, b - s) = b - s + C /\ b - s <= T - C - 1
  <2>1. T - C - 1 \in Nat
    BY <1>4
  <2>2. q * s <= T - C - 1 /\ T - C - 1 < q * s + s /\ q * s \in Nat
    BY <2>1, <1>1, <1>4, Quotient, Products
  <2>3. Scorer!WindowCount(T, C) = 2 + q
    BY <1>4 DEF Scorer!WindowCount
  <2>4. w <= q \/ w = q + 1
    BY <2>3
  <2>5. ASSUME w <= q
        PROVE  b <= T - C - 1
    BY <2>2, <2>5, <1>1, <1>2, Products
  <2>6. ASSUME w = q + 1
        PROVE  b = q * s + s
    BY <2>6, <1>1, Products
  <2>7. ASSUME NEW n \in Nat, n <= T - C - 1
        PROVE  Scorer!WindowEnd(T, C, n) = n + C
    BY <2>7, <1>4 DEF Scorer!WindowEnd
  <2>8. ASSUME w = q + 1
        PROVE  Scorer!WindowEnd(T, C, b) = T /\ b <= T - C - 1 + s /\ b > T - C - 1
    <3>1. b <= T - C - 1 + s /\ b > T - C - 1
      BY <2>2, <2>6, <2>8, <1>1
    <3> QED
      BY <3>1, <2>1, <1>2, <1>4 DEF Scorer!WindowEnd
  <2>9. ASSUME w >= 1
        PROVE  b - s \in Nat /\ b - s <= T - C - 1
    BY <2>2, <2>4, <2>5, <2>6, <2>9, <1>1, <1>2
  <2> HIDE DEF s, b
  <2> QED
    BY <2>1, <2>3, <2>5, <2>7, <2>8, <2>9, <1>1, <1>2
<1>5. CASE T <= C
  BY <1>1, <1>2, <1>3, <1>5 DEF Scorer!ScoreWindowAt
<1>6. CASE T > C
  <2>0. T - C - 1 \in Nat
    BY <1>6
  <2>1. PICK q \in Nat : q = (T - C - 1) \div s
    BY <1>1, <2>0, Quotient
  <2>2. w <= q \/ w = q + 1
    BY <1>4, <1>6, <2>1
  <2>3. (b + s) - s = b
    BY <1>1, <1>2
  <2> DEFINE x == Scorer!ScoreWindowAt(T, C, w)
             y == Scorer!ScoreWindowAt(T, C, w + 1)
  <2>4. /\ x.begin = b /\ x.end = Scorer!WindowEnd(T, C, b)
        /\ x.scored = IF w = 0 THEN 1 ELSE Scorer!WindowEnd(T, C, b - s)
        /\ y.begin = b + s /\ y.scored = Scorer!WindowEnd(T, C, b)
    BY <1>2, <2>3 DEF Scorer!ScoreWindowAt
  <2> HIDE DEF s, b, x, y
  <2>5. x.begin + 1 <= x.scored /\ x.scored < x.end /\ x.end <= T /\ x.end - x.begin <= C
    BY <1>1, <1>2, <1>4, <1>6, <2>1, <2>2, <2>4
  <2>6. /\ w > 0 => x.scored >= x.begin + s
        /\ x.begin \in Nat /\ x.end \in Nat /\ x.scored \in Nat
    BY <1>1, <1>2, <1>4, <1>6, <2>1, <2>2, <2>4
  <2>7. /\ w + 1 < Scorer!WindowCount(T, C) => y.scored = x.end /\ y.begin = x.begin + s
        /\ w + 1 >= Scorer!WindowCount(T, C) => x.end = T
    BY <1>4, <1>6, <2>1, <2>2, <2>4
  <2>8. w = 0 => x.begin = 0 /\ x.scored = 1
    BY <1>2, <2>4
  <2> QED
    BY <2>5, <2>6, <2>7, <2>8 DEF x, y, s
<1> QED
  BY <1>5, <1>6
-----------------------------------------------------------------------------
\* What a window is to the code that is in it.
LEMMA AtWindow ==
  ASSUME ScoringInv, InWindow
  PROVE  /\ Scorer!Bos \in {0, 1} /\ Scorer!Bos <= input.tokens
         /\ Scorer!Window.begin \in Nat /\ Scorer!Required \in Nat /\ Scorer!FirstScored \in Nat
         /\ Scorer!FirstScored + 1 < Scorer!Required
         /\ Scorer!Required <= settings.context
         /\ window = 0 => Scorer!Window.begin = 0 /\ Scorer!FirstScored = 0
         /\ window > 0 => Scorer!FirstScored + 1 >= settings.context \div 2
         /\ window + 1 >= Windows => Scorer!Window.begin + Scorer!Required = input.tokens
<1>1. /\ settings.context \in Nat /\ settings.context >= 2
      /\ input.tokens \in Nat /\ input.tokens >= 2
      /\ window \in Nat /\ window < Scorer!WindowCount(input.tokens, settings.context)
  BY DEF ScoringInv, ScoringTypes, WindowInv, Windows
<1>2. Scorer!Bos \in {0, 1} /\ Scorer!Bos <= input.tokens
  BY <1>1 DEF Scorer!Bos
<1> DEFINE x == Scorer!ScoreWindowAt(input.tokens, settings.context, window)
           half == settings.context \div 2
<1>3. /\ Scorer!Window = x
      /\ Scorer!Required = x.end - x.begin /\ Scorer!FirstScored = x.scored - x.begin - 1
      /\ Windows = Scorer!WindowCount(input.tokens, settings.context)
  BY DEF Scorer!Window, Scorer!Required, Scorer!FirstScored, Windows
<1>4. /\ x.begin \in Nat /\ x.end \in Nat /\ x.scored \in Nat
      /\ x.begin + 1 <= x.scored /\ x.scored < x.end /\ x.end <= input.tokens
      /\ x.end - x.begin <= settings.context
      /\ window = 0 => x.begin = 0 /\ x.scored = 1
      /\ window > 0 => x.scored >= x.begin + half
      /\ window + 1 >= Scorer!WindowCount(input.tokens, settings.context) => x.end = input.tokens
  BY <1>1, WindowFacts
<1>5. half \in Nat
  BY <1>1, Halves
<1> HIDE DEF x, half
<1>6. /\ Scorer!Window.begin \in Nat /\ Scorer!Required \in Nat /\ Scorer!FirstScored \in Nat
      /\ Scorer!FirstScored + 1 < Scorer!Required
      /\ Scorer!Required <= settings.context
      /\ window = 0 => Scorer!Window.begin = 0 /\ Scorer!FirstScored = 0
      /\ window > 0 => Scorer!FirstScored + 1 >= half
      /\ window + 1 >= Windows => Scorer!Window.begin + Scorer!Required = input.tokens
  BY <1>1, <1>3, <1>4, <1>5
<1> QED
  BY <1>2, <1>6 DEF half

\* The window after this one scores from where this one ends.
LEMMA AtNextWindow ==
  ASSUME ScoringInv, InWindow, UNCHANGED <<settings, input>>, window' = window + 1,
         window + 1 < Windows
  PROVE  /\ window' < Windows' /\ Scorer!FirstScored' \in Nat /\ Scorer!Required' > 1
         /\ Scorer!Window.begin' + Scorer!FirstScored' + 1 - Scorer!Bos'
              = Scorer!Window.begin + Scorer!Required - Scorer!Bos
<1>1. /\ settings.context \in Nat /\ settings.context >= 2
      /\ input.tokens \in Nat /\ input.tokens >= 2
      /\ window \in Nat /\ window < Scorer!WindowCount(input.tokens, settings.context)
      /\ window + 1 \in Nat /\ window + 1 < Scorer!WindowCount(input.tokens, settings.context)
  BY DEF ScoringInv, ScoringTypes, WindowInv, Windows
<1> DEFINE x == Scorer!ScoreWindowAt(input.tokens, settings.context, window)
           y == Scorer!ScoreWindowAt(input.tokens, settings.context, window + 1)
<1>2. /\ Scorer!Window = x /\ Scorer!Required = x.end - x.begin
      /\ Scorer!Window' = y /\ Scorer!Required' = y.end - y.begin
      /\ Scorer!FirstScored' = y.scored - y.begin - 1
      /\ window' < Windows' /\ Scorer!Bos' = Scorer!Bos
  BY DEF Scorer!Window, Scorer!Required, Scorer!FirstScored, Windows, Scorer!Bos
<1>3. /\ x.begin \in Nat /\ x.end \in Nat /\ y.scored = x.end
  BY <1>1, WindowFacts
<1>4. /\ y.begin \in Nat /\ y.end \in Nat /\ y.scored \in Nat
      /\ y.begin + 1 <= y.scored /\ y.scored < y.end
  BY <1>1, WindowFacts
<1>5. Scorer!Bos \in Nat
  BY DEF Scorer!Bos
<1> HIDE DEF x, y
<1> QED
  BY <1>2, <1>3, <1>4, <1>5

\* A batch stays in the window, and in the part of it that it began in.
LEMMA SizeOfBatch ==
  ASSUME ScoringInv, InWindow
  PROVE  /\ Scorer!BatchSize \in Nat
         /\ source + Scorer!BatchSize + 1 <= Scorer!Required
         /\ ~Scorer!Scoring => source + Scorer!BatchSize <= Scorer!FirstScored
<1>1. /\ settings.batch \in Nat /\ settings.batch >= 1 /\ source \in Nat
      /\ source + 1 < Scorer!Required
  BY DEF ScoringInv, ScoringTypes, WindowInv
<1>2. Scorer!Required \in Nat /\ Scorer!FirstScored \in Nat
  BY AtWindow
<1> QED
  BY <1>1, <1>2 DEF Scorer!BatchSize, Scorer!Scoring, Scorer!Least

\* Within a window, nothing but what was decoded changes.
LEMMA SameWindow ==
  ASSUME UNCHANGED <<settings, input, window>>
  PROVE  /\ Scorer!Window' = Scorer!Window /\ Scorer!Required' = Scorer!Required
         /\ Scorer!FirstScored' = Scorer!FirstScored /\ Scorer!Bos' = Scorer!Bos
         /\ Windows' = Windows
         /\ \A n \in Nat : Held(n)' = Held(n)
         /\ \A r, i : Right(r, i)' = Right(r, i)
  BY DEF Scorer!Window, Scorer!Required, Scorer!FirstScored, Scorer!Bos, Windows,
         Held, Right, Sees, Scorer!TokenAt

LEMMA AllOfAWindow ==
  ASSUME NEW begin \in Nat, NEW required \in Nat, NEW bos \in Nat
  PROVE  begin + (required - 1) + 1 - bos = begin + required - bos
OBVIOUS

\* Of the same input, a record stays right.
LEMMA SameInput ==
  ASSUME UNCHANGED <<settings, input>>
  PROVE  /\ Scorer!Bos' = Scorer!Bos
         /\ \A r, i : Right(r, i)' = Right(r, i)
  BY DEF Scorer!Bos, Right, Sees, Scorer!TokenAt
-----------------------------------------------------------------------------
LEMMA FirstWindow ==
  ASSUME UNCHANGED <<settings, input>>, window' = 0, input.tokens \in Nat, input.tokens >= 2,
         settings.context \in Nat, settings.context >= 2
  PROVE  /\ Scorer!Window.begin' = 0 /\ Scorer!FirstScored' = 0
         /\ Scorer!Required' \in Nat /\ Scorer!Required' > 1 /\ 0 < Windows'
<1> DEFINE y == Scorer!ScoreWindowAt(input.tokens, settings.context, 0)
<1>1. 0 < Scorer!WindowCount(input.tokens, settings.context)
  <2>1. settings.context \div 2 \in Nat /\ settings.context \div 2 >= 1
    BY Halves
  <2>2. ASSUME input.tokens > settings.context
        PROVE  (input.tokens - settings.context - 1) \div (settings.context \div 2) \in Nat
    <3>1. input.tokens - settings.context - 1 \in Nat
      BY <2>2
    <3> QED
      BY <3>1, <2>1, Quotient
  <2> QED
    BY <2>2 DEF Scorer!WindowCount
<1>2. y.begin = 0 /\ y.scored = 1 /\ y.end \in Nat /\ y.scored < y.end
  BY <1>1, WindowFacts
<1>3. /\ Scorer!Window' = y /\ Scorer!Required' = y.end - y.begin
      /\ Scorer!FirstScored' = y.scored - y.begin - 1
      /\ Windows' = Scorer!WindowCount(input.tokens, settings.context)
  BY DEF Scorer!Window, Scorer!Required, Scorer!FirstScored, Windows
<1> HIDE DEF y
<1> QED
  BY <1>1, <1>2, <1>3
-----------------------------------------------------------------------------
\* The loop's next round, the next window or the end of the input.
LEMMA AdvanceKeeps ==
  ASSUME ScoringInv, stage \in {"decode", "reduce"}, UNCHANGED <<settings, input, capacity>>,
         NEW n \in Nat, source + n + 1 <= Scorer!Required, Scorer!Advance(n),
         memory' = Held(source + n), memory' \in Seq(Tokens), Len(memory') <= capacity,
         targets' \in Seq(Nat), records' \in Seq(Scored),
         Len(records') = Scorer!Window.begin + Scorer!Most(source + n, Scorer!FirstScored)
                           + 1 - Scorer!Bos,
         \A i \in 1..Len(records') : Right(records'[i], i)
  PROVE  ScoringInv'
<1>1. InWindow
  BY DEF InWindow
<1>2. ScoringTypes /\ WindowInv /\ RecordsInv
  BY DEF ScoringInv
<1>3. ScoringTypes'
  <2>1. stage' \in {"idle", "plan", "prepare", "decode", "reduce"} /\ window' \in Nat /\ source' \in Nat
        /\ ended' \in {"none", "scored", "recoverable", "thrown"}
    <3>1. CASE source + n + 1 < Scorer!Required
      BY <1>2, <3>1 DEF Scorer!Advance, ScoringTypes
    <3>2. CASE ~(source + n + 1 < Scorer!Required)
      <4>1. source' = 0 /\ window' = window + 1
        BY <3>2 DEF Scorer!Advance
      <4>2. (stage' = "prepare" /\ ended' = ended) \/ (stage' = "idle" /\ ended' = "scored")
        BY <3>2 DEF Scorer!Advance, Scorer!Done
      <4> QED
        BY <1>2, <4>1, <4>2 DEF ScoringTypes
    <3> QED
      BY <3>1, <3>2
  <2> QED
    BY <2>1, <1>2 DEF ScoringTypes
<1>4. /\ Scorer!Bos \in {0, 1} /\ Scorer!Bos <= input.tokens
      /\ Scorer!Window.begin \in Nat /\ Scorer!Required \in Nat /\ Scorer!FirstScored \in Nat
      /\ Scorer!FirstScored + 1 < Scorer!Required
      /\ window + 1 >= Windows => Scorer!Window.begin + Scorer!Required = input.tokens
  BY <1>1, AtWindow
<1>5. /\ source \in Nat /\ window \in Nat /\ input.tokens \in Nat /\ input.tokens >= 2
      /\ settings.context \in Nat /\ settings.context >= 2 /\ window < Windows /\ Windows \in Nat
      /\ capacity >= Scorer!Required
  <2>1. Windows \in Nat
    <3>1. input.tokens \in Nat /\ settings.context \in Nat /\ settings.context >= 2
      BY <1>1, <1>2 DEF ScoringTypes, WindowInv
    <3>2. settings.context \div 2 \in Nat /\ settings.context \div 2 >= 1
      BY <3>1, Halves
    <3>3. ASSUME input.tokens > settings.context
          PROVE  (input.tokens - settings.context - 1) \div (settings.context \div 2) \in Nat
      <4>1. input.tokens - settings.context - 1 \in Nat
        BY <3>1, <3>3
      <4> QED
        BY <4>1, <3>2, Quotient
    <3> QED
      BY <3>1, <3>3 DEF Windows, Scorer!WindowCount
  <2> QED
    BY <1>1, <1>2, <2>1 DEF ScoringTypes, WindowInv
<1>6. Scorer!Bos' = Scorer!Bos
  BY SameInput
<1>7. (\A i \in 1..Len(records) : Right(records[i], i))'
  BY DEF Right, Sees, Scorer!TokenAt, Scorer!Bos
<1>m. Len(memory)' <= capacity'
  OBVIOUS
<1>8. CASE source + n + 1 < Scorer!Required
  <2>1. source' = source + n /\ stage' = "decode" /\ UNCHANGED <<window, ended>>
    BY <1>8 DEF Scorer!Advance
  <2>2. /\ Scorer!Window' = Scorer!Window /\ Scorer!Required' = Scorer!Required
        /\ Scorer!FirstScored' = Scorer!FirstScored /\ Windows' = Windows
    BY <2>1, SameWindow
  <2>3. memory' = Held(source)'
    <3>1. PICK k \in Nat : k = source + n
      BY <1>5
    <3>2. Held(k)' = Held(k)
      BY <2>1, SameWindow
    <3>3. Held(k)' = Held(source)'
      BY <2>1, <3>1 DEF Held
    <3> QED
      BY <3>1, <3>2, <3>3
  <2>4. WindowInv'
    BY <2>1, <2>2, <2>3, <1>5, <1>6, <1>8 DEF WindowInv, Scorer!Most
  <2>5. RecordsInv'
    BY <2>1, <1>4, <1>6, <1>7 DEF RecordsInv, WellEnded
  <2> QED
    BY <1>3, <1>m, <2>4, <2>5 DEF ScoringInv
<1>9. CASE ~(source + n + 1 < Scorer!Required)
  <2>1. Len(records') = Scorer!Window.begin + Scorer!Required - Scorer!Bos
    <3>1. source + n + 1 = Scorer!Required
      BY <1>4, <1>5, <1>9
    <3>2. Scorer!Most(source + n, Scorer!FirstScored) = Scorer!Required - 1
      BY <3>1, <1>4, <1>5 DEF Scorer!Most
    <3>3. Len(records') = Scorer!Window.begin + (Scorer!Required - 1) + 1 - Scorer!Bos
      BY <3>2
    <3>4. Scorer!Bos \in Nat /\ Scorer!Required \in Nat /\ Scorer!Window.begin \in Nat
      BY <1>4
    <3>5. Scorer!Window.begin + (Scorer!Required - 1) + 1 - Scorer!Bos
            = Scorer!Window.begin + Scorer!Required - Scorer!Bos
      BY <3>4, AllOfAWindow
    <3> QED
      BY <3>3, <3>5
  <2>2. source' = 0 /\ window' = window + 1
    BY <1>9 DEF Scorer!Advance
  <2>3. CASE window + 1 < Windows
    <3>1. stage' = "prepare" /\ ended' = ended
      BY <1>9, <2>3 DEF Scorer!Advance, Windows
    <3>2. /\ window' < Windows' /\ Scorer!FirstScored' \in Nat /\ Scorer!Required' > 1
          /\ Scorer!Window.begin' + Scorer!FirstScored' + 1 - Scorer!Bos'
               = Scorer!Window.begin + Scorer!Required - Scorer!Bos
      BY <1>1, <2>2, <2>3, AtNextWindow
    <3>4. WindowInv'
      <4>1. Scorer!Most(source, Scorer!FirstScored)' = Scorer!FirstScored'
        BY <2>2, <3>2 DEF Scorer!Most
      <4>2. Len(records') = Scorer!Window.begin' + Scorer!FirstScored' + 1 - Scorer!Bos'
        BY <2>1, <3>2
      <4> QED
        BY <2>2, <3>1, <3>2, <4>1, <4>2, <1>5 DEF WindowInv
    <3>5. RecordsInv'
      BY <3>1, <1>4, <1>6, <1>7 DEF RecordsInv, WellEnded
    <3> QED
      BY <1>3, <1>m, <3>4, <3>5 DEF ScoringInv
  <2>4. CASE ~(window + 1 < Windows)
    <3>1. stage' = "idle" /\ ended' = "scored"
      BY <1>9, <2>4 DEF Scorer!Advance, Scorer!Done, Windows
    <3>2. Len(records') = input.tokens - Scorer!Bos
      <4>1. Scorer!Bos \in Nat /\ window + 1 >= Windows
        BY <2>4, <1>4, <1>5
      <4> QED
        BY <2>1, <4>1, <1>4
    <3>3. WindowInv'
      BY <3>1 DEF WindowInv, InWindow
    <3>4. RecordsInv'
      BY <3>1, <3>2, <1>4, <1>5, <1>6, <1>7 DEF RecordsInv, WellEnded
    <3> QED
      BY <1>3, <1>m, <3>3, <3>4 DEF ScoringInv
  <2> QED
    BY <2>3, <2>4
<1> QED
  BY <1>8, <1>9
-----------------------------------------------------------------------------
LEMMA ScoringStarts == ASSUME Scorer!Init PROVE ScoringInv
<1>1. ScoringTypes
  BY ScoringAssumption DEF Scorer!Init, ScoringTypes
<1> QED
  BY <1>1 DEF Scorer!Init, ScoringInv, WindowInv, RecordsInv, InWindow, WellEnded

LEMMA StartKeeps == ASSUME ScoringInv, Scorer!Start PROVE ScoringInv'
<1>1. PICK words \in Nat : input' = [number |-> input.number + 1, tokens |-> words + Scorer!Bos]
  BY ScoringAssumption DEF Scorer!Start
<1>2. Scorer!Bos' = Scorer!Bos /\ Scorer!Bos \in {0, 1}
  BY DEF Scorer!Start, Scorer!Bos
<1>3. stage' = "plan" /\ records' = <<>> /\ UNCHANGED <<settings, window, source, capacity, memory, targets, ended>>
  BY DEF Scorer!Start
<1>4. ScoringTypes'
  BY <1>1, <1>2, <1>3 DEF ScoringInv, ScoringTypes
<1>5. Scorer!Bos' <= input'.tokens
  BY <1>1, <1>2
<1>6. WindowInv' /\ RecordsInv'
  BY <1>3, <1>5 DEF WindowInv, RecordsInv, InWindow, WellEnded
<1> QED
  BY <1>3, <1>4, <1>6 DEF ScoringInv

LEMMA PlanKeeps == ASSUME ScoringInv, Scorer!Plan PROVE ScoringInv'
<1>1. /\ ScoringTypes /\ Scorer!Bos <= input.tokens /\ stage = "plan"
      /\ UNCHANGED <<settings, input, capacity, memory, targets>>
      /\ Len(memory) <= capacity
  BY DEF ScoringInv, RecordsInv, Scorer!Plan
<1>2. Scorer!Bos' = Scorer!Bos /\ Scorer!Bos = (IF settings.bos THEN 1 ELSE 0)
  BY <1>1 DEF Scorer!Bos
<1>3. /\ input.tokens \in Nat /\ settings.context \in Nat /\ settings.bos \in BOOLEAN
  BY <1>1 DEF ScoringTypes
<1>4. CASE input.tokens > 0 /\ ~settings.bos
  <2>0. [token |-> 0, entropy |-> FALSE, seen |-> <<>>] \in Scored
    BY DEF Scored
  <2>1. PICK r \in Scored : r = [token |-> 0, entropy |-> FALSE, seen |-> <<>>]
    BY <2>0
  <2>2. records' = <<r>>
    BY <2>1, <1>4 DEF Scorer!Plan
  <2>3. Scorer!Bos = 0
    BY <1>2, <1>4
  <2>4. r.token = 0 /\ r.entropy = FALSE
    BY <2>1
  <2>5. records' \in Seq(Scored) /\ Len(records') = 1 /\ records'[1] = r
    BY <2>2
  <2>6. (\A i \in 1..Len(records) : Right(records[i], i))'
    <3>1. Right(r, 1)'
      <4>1. r.token = 1 - 1 + Scorer!Bos'
        BY <2>3, <2>4, <1>2
      <4>2. r.entropy = (settings'.bos \/ 1 > 1)
        <5>1. settings'.bos = FALSE
          BY <1>1, <1>3, <1>4
        <5>2. ~(1 > 1)
          OBVIOUS
        <5> QED
          BY <2>4, <5>1, <5>2, Zenon
      <4>3. Sees(r)'
        BY <2>4 DEF Sees
      <4> QED
        BY <4>1, <4>2, <4>3 DEF Right
    <3>2. \A i \in 1..Len(records') : i = 1
      BY <2>5
    <3>3. ASSUME NEW i \in 1..Len(records')
          PROVE  Right(records[i], i)'
      <4>1. i = 1 /\ records'[i] = r
        BY <3>2, <2>5
      <4> QED
        BY <3>1, <4>1 DEF Right, Sees
    <3> QED
      BY <3>3
  <2>7. CASE input.tokens < 2
    <3>1. stage' = "idle" /\ ended' = "scored" /\ UNCHANGED <<window, source>>
      BY <2>7 DEF Scorer!Plan, Scorer!Done
    <3>2. ScoringTypes'
      BY <3>1, <2>5, <1>1 DEF ScoringTypes
    <3>3. input.tokens = 1
      BY <2>7, <1>3, <1>4
    <3>4. WindowInv' /\ RecordsInv'
      BY <3>1, <3>3, <2>3, <2>5, <2>6, <1>1, <1>2 DEF WindowInv, RecordsInv, InWindow, WellEnded
    <3> QED
      BY <3>2, <3>4, <1>1 DEF ScoringInv
  <2>8. CASE input.tokens >= 2
    <3>1. stage' = "prepare" /\ window' = 0 /\ source' = 0 /\ ended' = ended /\ settings.context >= 2
      BY <2>8, <1>3 DEF Scorer!Plan
    <3>2. ScoringTypes'
      BY <3>1, <2>5, <1>1 DEF ScoringTypes
    <3>3. /\ Scorer!Window.begin' = 0 /\ Scorer!FirstScored' = 0
          /\ Scorer!Required' \in Nat /\ Scorer!Required' > 1 /\ 0 < Windows'
      BY <3>1, <2>8, <1>1, <1>3, FirstWindow
    <3>4. Len(records') = 1 - Scorer!Bos' /\ Scorer!Most(0, 0) = 0
      BY <2>3, <2>5, <1>2 DEF Scorer!Most
    <3>5. WindowInv' /\ RecordsInv'
      BY <3>1, <3>3, <3>4, <2>6, <2>8, <1>1, <1>2 DEF WindowInv, RecordsInv, InWindow, WellEnded
    <3> QED
      BY <3>2, <3>5, <1>1 DEF ScoringInv
  <2> QED
    BY <2>7, <2>8, <1>3
<1>5. CASE ~(input.tokens > 0 /\ ~settings.bos)
  <2>1. records' = <<>>
    BY <1>5 DEF Scorer!Plan
  <2>2. records' \in Seq(Scored) /\ Len(records') = 0
    BY <2>1
  <2>3. CASE input.tokens < 2
    <3>1. stage' = "idle" /\ ended' = "scored" /\ UNCHANGED <<window, source>>
      BY <2>3 DEF Scorer!Plan, Scorer!Done
    <3>2. ScoringTypes'
      BY <3>1, <2>2, <1>1 DEF ScoringTypes
    <3>3. input.tokens = Scorer!Bos
      BY <2>3, <1>1, <1>2, <1>3, <1>5
    <3>4. WindowInv' /\ RecordsInv'
      BY <3>1, <3>3, <2>2, <2>3, <1>1, <1>2, <1>3 DEF WindowInv, RecordsInv, InWindow, WellEnded
    <3> QED
      BY <3>2, <3>4, <1>1 DEF ScoringInv
  <2>4. CASE input.tokens >= 2
    <3>1. stage' = "prepare" /\ window' = 0 /\ source' = 0 /\ ended' = ended /\ settings.context >= 2
      BY <2>4, <1>3 DEF Scorer!Plan
    <3>2. ScoringTypes'
      BY <3>1, <2>2, <1>1 DEF ScoringTypes
    <3>3. /\ Scorer!Window.begin' = 0 /\ Scorer!FirstScored' = 0
          /\ Scorer!Required' \in Nat /\ Scorer!Required' > 1 /\ 0 < Windows'
      BY <3>1, <2>4, <1>1, <1>3, FirstWindow
    <3>4. Len(records') = 1 - Scorer!Bos' /\ Scorer!Most(0, 0) = 0
      BY <2>2, <2>4, <1>2, <1>3, <1>5 DEF Scorer!Most
    <3>5. WindowInv' /\ RecordsInv'
      BY <3>1, <3>3, <3>4, <2>2, <2>4, <1>1, <1>2 DEF WindowInv, RecordsInv, InWindow, WellEnded
    <3> QED
      BY <3>2, <3>5, <1>1 DEF ScoringInv
  <2> QED
    BY <2>3, <2>4, <1>3
<1> QED
  BY <1>4, <1>5

LEMMA ThrownKeeps ==
  ASSUME ScoringInv, stage # "idle", Scorer!Thrown(TRUE) \/ Scorer!Thrown(FALSE)
  PROVE  ScoringInv'
<1>1. /\ stage' = "idle" /\ ended' \in {"recoverable", "thrown"} /\ capacity' = 0 /\ memory' = <<>>
      /\ UNCHANGED <<settings, input, window, source, targets, records>>
  BY DEF Scorer!Thrown
<1>2. ScoringTypes'
  BY <1>1 DEF ScoringInv, ScoringTypes
<1>3. WindowInv' /\ RecordsInv' /\ Len(memory') = 0
  BY <1>1 DEF WindowInv, RecordsInv, InWindow, WellEnded
<1> QED
  BY <1>1, <1>2, <1>3 DEF ScoringInv

\* A context that holds the window, empty.
LEMMA PrepareKeeps ==
  ASSUME ScoringInv, stage = "prepare", stage' = "decode", memory' = <<>>,
         capacity' \in Nat, capacity' >= Scorer!Required,
         UNCHANGED <<settings, input, window, source, targets, records, ended>>
  PROVE  ScoringInv'
<1>1. InWindow /\ ScoringTypes /\ WindowInv /\ RecordsInv
  BY DEF ScoringInv, InWindow
<1>2. source = 0 /\ Scorer!Required \in Nat
  BY <1>1, AtWindow DEF WindowInv
<1>3. /\ Scorer!Window' = Scorer!Window /\ Scorer!Required' = Scorer!Required
      /\ Scorer!FirstScored' = Scorer!FirstScored /\ Scorer!Bos' = Scorer!Bos
      /\ Windows' = Windows
  BY SameWindow
<1>4. ScoringTypes' /\ Len(memory') = 0
  BY <1>1 DEF ScoringTypes
<1>5. memory' = Held(source)'
  BY <1>2 DEF Held
<1>6. WindowInv'
  BY <1>1, <1>2, <1>3, <1>5 DEF WindowInv, Scorer!Most
<1>7. (\A i \in 1..Len(records) : Right(records[i], i))'
  BY <1>1 DEF RecordsInv, Right, Sees, Scorer!TokenAt, Scorer!Bos
<1>8. RecordsInv'
  BY <1>1, <1>3, <1>7 DEF RecordsInv, InWindow, WellEnded
<1> QED
  BY <1>4, <1>6, <1>8 DEF ScoringInv
-----------------------------------------------------------------------------
LEMMA DecodeKeeps == ASSUME ScoringInv, Scorer!Decode PROVE ScoringInv'
<1>1. /\ stage = "decode" /\ InWindow /\ ScoringTypes /\ WindowInv /\ RecordsInv
      /\ memory = Held(source)
      /\ UNCHANGED <<settings, input, capacity, records>>
  BY DEF Scorer!Decode, ScoringInv, WindowInv, InWindow
<1>2. /\ Scorer!BatchSize \in Nat
      /\ source + Scorer!BatchSize + 1 <= Scorer!Required
      /\ ~Scorer!Scoring => source + Scorer!BatchSize <= Scorer!FirstScored
  BY <1>1, SizeOfBatch
<1>3. /\ Scorer!Window.begin \in Nat /\ Scorer!Required \in Nat /\ Scorer!FirstScored \in Nat
      /\ capacity >= Scorer!Required
  BY <1>1, AtWindow DEF WindowInv
<1>4. source \in Nat /\ capacity \in Nat
  BY <1>1 DEF ScoringTypes
<1>5. PICK n \in Nat : n = Scorer!BatchSize
  BY <1>2
<1>6. PICK b \in Nat : b = Scorer!Window.begin
  BY <1>3
<1>7. /\ memory' = Held(source + n) /\ memory' \in Seq(Tokens) /\ Len(memory') = source + n
  <2>1. \A m \in Nat : Held(m) = [i \in 1..m |-> Scorer!TokenAt(b + i - 1)]
    BY <1>6 DEF Held
  <2>2. memory' = Held(source) \o [i \in 1..n |-> Scorer!TokenAt(b + source + i - 1)]
    BY <1>1, <1>5, <1>6 DEF Scorer!Decode, Scorer!Batch
  <2>3. \A k \in Nat : Scorer!TokenAt(k) \in Tokens
    BY <1>1 DEF Scorer!TokenAt, Tokens, ScoringTypes
  <2>4. PICK s \in Nat : s = source
    BY <1>4
  <2> HIDE DEF Held
  <2>5. \A m \in Nat : Held(m) \in Seq(Tokens) /\ Len(Held(m)) = m
                       /\ \A i \in 1..m : Held(m)[i] = Scorer!TokenAt(b + i - 1)
    BY <2>1, <2>3
  <2>6. s + n \in Nat
    OBVIOUS
  <2> DEFINE added == [i \in 1..n |-> Scorer!TokenAt(b + s + i - 1)]
  <2>7. added \in Seq(Tokens) /\ Len(added) = n
        /\ \A i \in 1..n : added[i] = Scorer!TokenAt(b + s + i - 1)
    BY <2>3
  <2> HIDE DEF added
  <2>8. Held(s) \o added = Held(s + n)
    <3>1. /\ Held(s) \o added \in Seq(Tokens) /\ Len(Held(s) \o added) = s + n
          /\ \A i \in 1..(s + n) : (Held(s) \o added)[i]
                = IF i <= s THEN Held(s)[i] ELSE added[i - s]
      <4>1. PICK p \in Seq(Tokens) : p = Held(s)
        BY <2>5
      <4>2. PICK q \in Seq(Tokens) : q = added
        BY <2>7
      <4>3. Len(p) = s /\ Len(q) = n
        BY <2>5, <2>7, <4>1, <4>2
      <4>4. /\ p \o q \in Seq(Tokens) /\ Len(p \o q) = s + n
            /\ \A i \in 1..(s + n) : (p \o q)[i] = IF i <= s THEN p[i] ELSE q[i - s]
        BY <4>3, ConcatProperties
      <4> QED
        BY <4>1, <4>2, <4>4
    <3>2. Held(s + n) \in Seq(Tokens) /\ Len(Held(s + n)) = s + n
      BY <2>5, <2>6
    <3>3. ASSUME NEW i \in 1..(s + n)
          PROVE  (Held(s) \o added)[i] = Held(s + n)[i]
      <4>1. Held(s + n)[i] = Scorer!TokenAt(b + i - 1)
        BY <2>5, <2>6
      <4>2. CASE i <= s
        BY <4>1, <4>2, <3>1, <2>5
      <4>3. CASE i > s
        <5>1. i - s \in 1..n /\ b + s + (i - s) - 1 = b + i - 1
          BY <4>3
        <5>2. added[i - s] = Scorer!TokenAt(b + s + (i - s) - 1)
          BY <5>1, <2>7
        <5> QED
          BY <4>1, <4>3, <3>1, <5>1, <5>2
      <4>4. i <= s \/ i > s
        OBVIOUS
      <4> QED
        BY <4>2, <4>3, <4>4
    <3> QED
      BY <3>1, <3>2, <3>3, SeqEqual
  <2> QED
    BY <2>2, <2>4, <2>5, <2>6, <2>8 DEF added
<1>8. source + n + 1 <= Scorer!Required /\ Len(memory') <= capacity
  BY <1>2, <1>3, <1>4, <1>5, <1>7
<1>9. targets' \in Seq(Nat)
  <2>1. \A i \in 1..n : b + source + i \in Nat
    BY <1>4
  <2> QED
    BY <2>1, <1>5, <1>6 DEF Scorer!Decode
<1>10. CASE Scorer!Scoring
  <2>1. stage' = "reduce" /\ UNCHANGED <<window, source, ended>>
    BY <1>10 DEF Scorer!Decode
  <2>2. /\ Scorer!Window' = Scorer!Window /\ Scorer!Required' = Scorer!Required
        /\ Scorer!FirstScored' = Scorer!FirstScored /\ Scorer!Bos' = Scorer!Bos
        /\ Windows' = Windows
    BY <2>1, <1>1, SameWindow
  <2>3. Scorer!BatchSize' = n /\ Scorer!Scoring'
    BY <2>1, <2>2, <1>1, <1>5, <1>10 DEF Scorer!BatchSize, Scorer!Scoring
  <2>4. memory' = Held(source + Scorer!BatchSize)'
    <3>1. PICK k \in Nat : k = source + n
      BY <1>4
    <3>2. Held(k)' = Held(k)
      BY <2>1, <1>1, SameWindow
    <3>3. Held(k)' = Held(source + Scorer!BatchSize)'
      BY <2>1, <2>3, <3>1 DEF Held
    <3> QED
      BY <3>1, <3>2, <3>3, <1>7
  <2>5. settings'.gpu =>
          targets' = [i \in 1..Scorer!BatchSize' |-> Scorer!Window.begin' + source' + i]
    BY <2>1, <2>2, <2>3, <1>1, <1>5, <1>10 DEF Scorer!Decode
  <2>6. ScoringTypes'
    BY <2>1, <1>1, <1>7, <1>9 DEF ScoringTypes
  <2>7. WindowInv'
    BY <2>1, <2>2, <2>3, <2>4, <2>5, <1>1 DEF WindowInv
  <2>8. (\A i \in 1..Len(records) : Right(records[i], i))'
    BY <1>1 DEF RecordsInv, Right, Sees, Scorer!TokenAt, Scorer!Bos
  <2>9. RecordsInv'
    BY <2>1, <2>2, <2>8, <1>1 DEF RecordsInv, InWindow, WellEnded
  <2> QED
    BY <2>6, <2>7, <2>9, <1>1, <1>8 DEF ScoringInv
<1>11. CASE ~Scorer!Scoring
  <2>1. Scorer!Advance(n)
    BY <1>5, <1>11 DEF Scorer!Decode
  <2>2. Scorer!Most(source + n, Scorer!FirstScored) = Scorer!Most(source, Scorer!FirstScored)
    BY <1>2, <1>3, <1>4, <1>5, <1>11 DEF Scorer!Most, Scorer!Scoring
  <2>3. Len(records') = Scorer!Window.begin + Scorer!Most(source + n, Scorer!FirstScored)
                           + 1 - Scorer!Bos
    BY <2>2, <1>1 DEF WindowInv
  <2>4. records' \in Seq(Scored) /\ \A i \in 1..Len(records') : Right(records'[i], i)
    BY <1>1 DEF ScoringTypes, RecordsInv
  <2> QED
    BY <2>1, <2>3, <2>4, <1>1, <1>7, <1>8, <1>9, AdvanceKeeps
<1> QED
  BY <1>10, <1>11
-----------------------------------------------------------------------------
\* The scores of a batch are of its tokens, in order, each with what came
\* before it in the window.
LEMMA ScoresRight ==
  ASSUME ScoringInv, stage = "reduce", NEW i \in 1..Scorer!BatchSize
  PROVE  /\ Scorer!Score(i) \in Scored
         /\ Right(Scorer!Score(i), Len(records) + i)
<1>1. /\ InWindow /\ ScoringTypes /\ WindowInv /\ RecordsInv
      /\ memory = Held(source + Scorer!BatchSize) /\ Scorer!Scoring
      /\ settings.gpu => targets = [k \in 1..Scorer!BatchSize |-> Scorer!Window.begin + source + k]
      /\ Len(records) = Scorer!Window.begin + Scorer!Most(source, Scorer!FirstScored) + 1 - Scorer!Bos
  BY DEF ScoringInv, WindowInv, InWindow
<1>2. Scorer!BatchSize \in Nat /\ source \in Nat
  BY <1>1, SizeOfBatch DEF ScoringTypes
<1>3. /\ Scorer!Window.begin \in Nat /\ Scorer!Required \in Nat /\ Scorer!FirstScored \in Nat
      /\ window = 0 => Scorer!Window.begin = 0
      /\ window > 0 => Scorer!FirstScored + 1 >= settings.context \div 2
      /\ Scorer!Bos \in Nat /\ Scorer!Bos <= 1
  BY <1>1, AtWindow DEF Scorer!Bos
<1>4. PICK n \in Nat : n = Scorer!BatchSize
  BY <1>2
<1>5. PICK b \in Nat : b = Scorer!Window.begin
  BY <1>3
<1>6. PICK s \in Nat : s = source
  BY <1>2
<1>7. i \in Nat /\ i >= 1 /\ i <= n
  BY <1>4
<1>8. Len(records) + i = b + s + i + 1 - Scorer!Bos
  <2>1. Scorer!Most(source, Scorer!FirstScored) = s
    BY <1>1, <1>3, <1>6 DEF Scorer!Scoring, Scorer!Most
  <2> QED
    BY <2>1, <1>1, <1>3, <1>5, <1>7
<1>9. PICK seen \in Seq(Tokens) :
        /\ seen = SubSeq(memory, 1, s + i) /\ Len(seen) = s + i
        /\ seen = [k \in 1..(s + i) |-> Scorer!TokenAt(b + k - 1)]
  <2>1. memory \in Seq(Tokens) /\ memory = [k \in 1..(s + n) |-> Scorer!TokenAt(b + k - 1)]
    BY <1>1, <1>4, <1>5, <1>6 DEF ScoringTypes, Held
  <2>2. /\ Len(memory) = s + n
        /\ \A k \in 1..(s + n) : memory[k] = Scorer!TokenAt(b + k - 1)
    BY <2>1
  <2>3. s + i \in Nat /\ s + i <= s + n
    BY <1>7
  <2>4. /\ SubSeq(memory, 1, s + i) \in Seq(Tokens)
        /\ SubSeq(memory, 1, s + i) = [k \in 1..(s + i) |-> memory[k]]
    <3>1. s + i \in 1..Len(memory)
      BY <2>2, <2>3, <1>7
    <3>2. PICK t \in Nat : t = s + i
      BY <2>3
    <3>3. SubSeq(memory, 1, t) = [k \in 1..t |-> memory[k]]
      <4>1. SubSeq(memory, 1, t) = [k \in 1..(1 + t - 1) |-> memory[k + 1 - 1]]
        OBVIOUS
      <4>2. 1 + t - 1 = t /\ \A k \in 1..t : k + 1 - 1 = k
        OBVIOUS
      <4> QED
        BY <4>1, <4>2
    <3>4. \A k \in 1..t : memory[k] \in Tokens
      BY <2>1, <3>1, <3>2
    <3> QED
      BY <3>2, <3>3, <3>4
  <2>5. \A k \in 1..(s + i) : memory[k] = Scorer!TokenAt(b + k - 1)
    BY <2>2, <2>3
  <2>6. PICK t \in Seq(Tokens) : t = SubSeq(memory, 1, s + i)
    BY <2>4
  <2>7. t = [k \in 1..(s + i) |-> Scorer!TokenAt(b + k - 1)]
    BY <2>4, <2>5, <2>6
  <2>8. Len(t) = s + i
    BY <2>3, <2>7
  <2> QED
    BY <2>6, <2>7, <2>8
<1>10. Scorer!Score(i) = [token |-> b + s + i, entropy |-> TRUE, seen |-> seen]
  <2>1. settings.gpu => targets[i] = b + s + i
    BY <1>1, <1>4, <1>5, <1>6, <1>7
  <2> QED
    BY <2>1, <1>5, <1>6, <1>9 DEF Scorer!Score
<1>11. PICK r : r = Scorer!Score(i)
  OBVIOUS
<1>12. /\ r.token = b + s + i /\ r.entropy = TRUE /\ r.seen = seen /\ r \in Scored
  BY <1>7, <1>10, <1>11 DEF Scored
<1>13. r.token = Len(records) + i - 1 + Scorer!Bos
  <2>1. Len(records) \in Nat
    BY <1>1 DEF ScoringTypes
  <2> QED
    BY <2>1, <1>3, <1>7, <1>8, <1>12
<1>14. settings.bos \/ Len(records) + i > 1
  BY <1>3, <1>7, <1>8 DEF Scorer!Bos
<1>15. Sees(r)
  <2>1. Len(r.seen) = s + i /\ r.token - Len(r.seen) = b
    BY <1>7, <1>9, <1>12
  <2>2. PICK h \in Nat : h = settings.context \div 2
    BY <1>1, Halves DEF WindowInv, ScoringTypes
  <2>3. Len(r.seen) >= Scorer!Least(r.token, settings.context \div 2)
    <3>1. CASE window = 0
      <4>1. b = 0
        BY <3>1, <1>3, <1>5
      <4>2. r.token = s + i
        BY <4>1, <1>7, <1>12
      <4> QED
        BY <4>2, <2>1, <2>2, <1>7 DEF Scorer!Least
    <3>2. CASE window > 0
      <4>1. s + i >= h
        BY <3>2, <2>2, <1>1, <1>3, <1>6, <1>7 DEF Scorer!Scoring
      <4> QED
        BY <4>1, <2>1, <2>2, <1>7, <1>12 DEF Scorer!Least
    <3> QED
      BY <3>1, <3>2, <1>1 DEF ScoringTypes
  <2>4. r.seen = [k \in 1..Len(r.seen) |-> Scorer!TokenAt(r.token - Len(r.seen) + k - 1)]
    BY <2>1, <1>9, <1>12
  <2> QED
    BY <2>3, <2>4 DEF Sees
<1>16. r.entropy = (settings.bos \/ Len(records) + i > 1)
  BY <1>12, <1>14, Zenon
<1> QED
  BY <1>11, <1>12, <1>13, <1>15, <1>16 DEF Right

LEMMA ReduceKeeps == ASSUME ScoringInv, Scorer!Reduce PROVE ScoringInv'
<1>1. /\ stage = "reduce" /\ InWindow /\ ScoringTypes /\ WindowInv /\ RecordsInv
      /\ memory = Held(source + Scorer!BatchSize) /\ Len(memory) <= capacity
      /\ Scorer!Scoring /\ Scorer!Advance(Scorer!BatchSize)
      /\ UNCHANGED <<settings, input, capacity, memory, targets>>
  BY DEF Scorer!Reduce, ScoringInv, WindowInv, InWindow
<1>2. /\ Scorer!BatchSize \in Nat
      /\ source + Scorer!BatchSize + 1 <= Scorer!Required
  BY <1>1, SizeOfBatch
<1>3. /\ Scorer!Window.begin \in Nat /\ Scorer!FirstScored \in Nat /\ Scorer!Bos \in Nat
  BY <1>1, AtWindow
<1>4. PICK n \in Nat : n = Scorer!BatchSize
  BY <1>2
<1>5. \A i \in 1..n : Scorer!Score(i) \in Scored /\ Right(Scorer!Score(i), Len(records) + i)
  BY <1>1, <1>4, ScoresRight
<1>6. records \in Seq(Scored) /\ \A i \in 1..Len(records) : Right(records[i], i)
  BY <1>1 DEF ScoringTypes, RecordsInv
<1>7. PICK scores \in Seq(Scored) :
        /\ scores = [i \in 1..n |-> Scorer!Score(i)] /\ Len(scores) = n
        /\ \A i \in 1..n : scores[i] = Scorer!Score(i)
  <2> DEFINE s == [i \in 1..n |-> Scorer!Score(i)]
  <2>1. s \in Seq(Scored) /\ Len(s) = n
    BY <1>5
  <2>2. \A i \in 1..n : s[i] = Scorer!Score(i)
    OBVIOUS
  <2> QED
    BY <2>1, <2>2
<1>8. records' = records \o scores
  BY <1>4, <1>7 DEF Scorer!Reduce
<1>9. /\ records' \in Seq(Scored) /\ Len(records') = Len(records) + n
      /\ \A i \in 1..(Len(records) + n) :
           records'[i] = IF i <= Len(records) THEN records[i] ELSE scores[i - Len(records)]
  <2>1. PICK rs \in Seq(Scored) : rs = records
    BY <1>6
  <2>2. /\ rs \o scores \in Seq(Scored) /\ Len(rs \o scores) = Len(rs) + n
        /\ \A i \in 1..(Len(rs) + n) :
             (rs \o scores)[i] = IF i <= Len(rs) THEN rs[i] ELSE scores[i - Len(rs)]
    BY <1>7, ConcatProperties
  <2> QED
    BY <2>1, <2>2, <1>8
<1>10. PICK count0 \in Nat : count0 = Len(records)
  BY <1>6
<1>11. ASSUME NEW i \in 1..(count0 + n)
       PROVE  Right(records'[i], i)
  <2>1. CASE i <= count0
    BY <2>1, <1>6, <1>9, <1>10
  <2>2. CASE i > count0
    <3>1. i - count0 \in 1..n /\ count0 + (i - count0) = i
      BY <2>2
    <3>2. records'[i] = Scorer!Score(i - count0)
      BY <2>2, <3>1, <1>7, <1>9, <1>10
    <3>3. Right(Scorer!Score(i - count0), count0 + (i - count0))
      BY <3>1, <1>5, <1>10
    <3> QED
      BY <3>1, <3>2, <3>3
  <2>3. i <= count0 \/ i > count0
    OBVIOUS
  <2> QED
    BY <2>1, <2>2, <2>3
<1>12. Len(records') = Scorer!Window.begin + Scorer!Most(source + n, Scorer!FirstScored)
                           + 1 - Scorer!Bos
  <2>1. source \in Nat /\ source >= Scorer!FirstScored
    BY <1>1 DEF ScoringTypes, Scorer!Scoring
  <2>2. Scorer!Most(source, Scorer!FirstScored) = source
        /\ Scorer!Most(source + n, Scorer!FirstScored) = source + n
    BY <2>1, <1>3 DEF Scorer!Most
  <2>3. Len(records) = Scorer!Window.begin + source + 1 - Scorer!Bos
    BY <2>2, <1>1 DEF WindowInv
  <2> QED
    BY <2>1, <2>2, <2>3, <1>3, <1>9
<1>13. /\ memory' = Held(source + n) /\ memory' \in Seq(Tokens) /\ Len(memory') <= capacity
       /\ targets' \in Seq(Nat)
  BY <1>1, <1>4 DEF ScoringTypes
<1>14. \A i \in 1..Len(records') : Right(records'[i], i)
  BY <1>9, <1>10, <1>11
<1>15. Scorer!Advance(n) /\ source + n + 1 <= Scorer!Required
  BY <1>1, <1>2, <1>4
<1>16. stage \in {"decode", "reduce"} /\ UNCHANGED <<settings, input, capacity>>
  BY <1>1
<1> QED
  BY <1>9, <1>12, <1>13, <1>14, <1>15, <1>16, AdvanceKeeps

LEMMA ReuseContextKeeps == ASSUME ScoringInv, Scorer!ReuseContext PROVE ScoringInv'
BY PrepareKeeps DEF Scorer!ReuseContext, ScoringInv, ScoringTypes

LEMMA CreateContextKeeps == ASSUME ScoringInv, Scorer!CreateContext PROVE ScoringInv'
<1>1. /\ stage = "prepare" /\ stage' = "decode" /\ memory' = <<>>
      /\ UNCHANGED <<settings, input, window, source, targets, records, ended>>
      /\ InWindow /\ ScoringTypes
  BY DEF Scorer!CreateContext, ScoringInv, InWindow
<1>2. Scorer!Required \in Nat /\ Scorer!Required <= settings.context
      /\ settings.context \in Nat /\ settings.batch \in Nat
  BY <1>1, AtWindow DEF ScoringTypes
<1>3. PICK padding \in 0..1 :
        capacity' = padding + Scorer!ContextRequestCapacity(settings.context, settings.batch,
                                                            Scorer!Required)
  BY DEF Scorer!CreateContext
<1>4. capacity' \in Nat /\ capacity' >= Scorer!Required
  BY <1>2, <1>3 DEF Scorer!ContextRequestCapacity, Scorer!Least, Scorer!Most
<1> QED
  BY <1>1, <1>4, PrepareKeeps

LEMMA ScoringKeeps == ASSUME ScoringInv, Scorer!ScoreInput \/ UNCHANGED scorerVars PROVE ScoringInv'
<1>1. CASE Scorer!PlanFails \/ Scorer!CreateContextFails \/ Scorer!InferenceFails
  <2>1. stage # "idle" /\ (Scorer!Thrown(TRUE) \/ Scorer!Thrown(FALSE))
    BY <1>1 DEF Scorer!PlanFails, Scorer!CreateContextFails, Scorer!InferenceFails
  <2> QED
    BY <2>1, ThrownKeeps
<1>2. CASE UNCHANGED scorerVars
  <2>1. UNCHANGED <<settings, input, stage, window, source, capacity, memory, targets, records, ended>>
    BY <1>2 DEF scorerVars
  <2>2. ScoringTypes' /\ (Len(memory) <= capacity)'
    BY <2>1 DEF ScoringInv, ScoringTypes
  <2>3. WindowInv'
    BY <2>1 DEF ScoringInv, WindowInv, InWindow, Windows, Held, Scorer!Required, Scorer!Window,
                Scorer!FirstScored, Scorer!Bos, Scorer!BatchSize, Scorer!Scoring, Scorer!TokenAt
  <2>4. RecordsInv'
    BY <2>1 DEF ScoringInv, RecordsInv, InWindow, WellEnded, Right, Sees, Scorer!Bos, Scorer!TokenAt
  <2> QED
    BY <2>2, <2>3, <2>4 DEF ScoringInv
<1> QED
  BY <1>1, <1>2, StartKeeps, PlanKeeps, ReuseContextKeeps, CreateContextKeeps, DecodeKeeps,
     ReduceKeeps DEF Scorer!ScoreInput
-----------------------------------------------------------------------------
\* What the scorer keeps: the types, where a window stands, and the records.
LEMMA ScoringInvariance == MCSpec => []ScoringAlways
<1>1. MCInit => ScoringAlways
  BY ScoringStarts DEF MCInit, ScoringAlways
<1>2. MCNext \/ UNCHANGED all =>
        group' = group /\ (group = "scoring" => Scorer!ScoreInput \/ UNCHANGED scorerVars)
  BY DEF MCNext, all
<1>3. ScoringAlways /\ [MCNext]_all => ScoringAlways'
  BY <1>2, ScoringKeeps DEF ScoringAlways
<1> QED BY <1>1, <1>3, PTL DEF MCSpec

\* Rounding up the windows after the first, as it is done for a cached entry,
\* gives the number that PlanScoreWindows made.
LEMMA SameWindowCount ==
  ASSUME NEW C \in Nat, C >= 2, NEW T \in Nat, T > C
  PROVE  1 + (T - C + C \div 2 - 1) \div (C \div 2) = Scorer!WindowCount(T, C)
<1>1. PICK s \in Nat : s = C \div 2 /\ s >= 1
  BY Halves
<1>2. PICK a \in Nat : a = T - C - 1
  OBVIOUS
<1>3. T - C + s - 1 = a + s
  BY <1>2
<1>4. (a + s) \div s = 1 + a \div s /\ a \div s \in Nat
  BY <1>1, Quotient
<1>5. Scorer!WindowCount(T, C) = 2 + a \div s
  BY <1>1, <1>2 DEF Scorer!WindowCount
<1>6. 1 + (1 + a \div s) = 2 + a \div s
  BY <1>4
<1> QED
  BY <1>1, <1>3, <1>4, <1>5, <1>6

\* For every context, batch size and input, and after whatever was scored or
\* failed before: each token of an input that ends well has one record, in
\* order, that saw what comes right before the token, at least half a context
\* of it; and the metadata of a cached entry is that of the run that made it
\* (score_cmd.cc:1093-1399, 1637-1645, analyze.cc:186).
THEOREM EveryTokenAlwaysScored == MCSpec => []EveryTokenScored
<1>1. ScoringAlways => EveryTokenScored
  <2> SUFFICES ASSUME ScoringInv PROVE Scorer!EveryTokenScored
    BY DEF ScoringAlways, EveryTokenScored
  <2>1. Len(memory) <= capacity /\ ScoringTypes /\ RecordsInv
    BY DEF ScoringInv
  <2> SUFFICES ASSUME ended = "scored", stage = "idle"
      PROVE
       /\ [i \in DOMAIN records |-> records[i].token] =
            [i \in 1..(input.tokens - Scorer!Bos) |-> i - 1 + Scorer!Bos]
       /\ \A r \in {records[i] : i \in DOMAIN records} : r.entropy =>
            /\ Len(r.seen) >= Scorer!Least(r.token, settings.context \div 2)
            /\ r.seen = [i \in 1..Len(r.seen) |-> Scorer!TokenAt(r.token - Len(r.seen) + i - 1)]
       /\ Scorer!MetadataFromRecords(records, settings.context) =
            Scorer!ScoreMetadata(input.tokens, settings.context)
    BY <2>1 DEF Scorer!EveryTokenScored
  <2>2. /\ \A i \in 1..Len(records) : Right(records[i], i)
        /\ Len(records) = input.tokens - Scorer!Bos
        /\ input.tokens >= 2 => settings.context >= 2
    BY <2>1 DEF RecordsInv, WellEnded
  <2>3. records \in Seq(Scored) /\ DOMAIN records = 1..Len(records) /\ Len(records) \in Nat
    BY <2>1 DEF ScoringTypes
  <2>4. /\ input.tokens \in Nat /\ settings.context \in Nat /\ settings.context >= 1
        /\ settings.bos \in BOOLEAN /\ Scorer!Bos = IF settings.bos THEN 1 ELSE 0
    BY <2>1 DEF ScoringTypes, Scorer!Bos
  <2>5. [i \in DOMAIN records |-> records[i].token] =
          [i \in 1..(input.tokens - Scorer!Bos) |-> i - 1 + Scorer!Bos]
    BY <2>2, <2>3 DEF Right
  <2>6. \A i \in DOMAIN records : Sees(records[i])
    BY <2>2, <2>3 DEF Right
  <2>7. Scorer!MetadataFromRecords(records, settings.context) =
          Scorer!ScoreMetadata(input.tokens, settings.context)
    <3> DEFINE first == IF records # <<>> /\ records[1].entropy THEN 1 ELSE 0
               inferred == Len(records) + first
               half == settings.context \div 2
               total == IF settings.context < 2 \/ inferred < 2 THEN 0
                        ELSE IF inferred <= settings.context THEN 1
                        ELSE 1 + (inferred - settings.context + half - 1) \div half
    <3>1. (inferred < 2 /\ input.tokens < 2) \/ inferred = input.tokens
      <4>1. CASE records = <<>>
        <5>1. Len(records) = 0 /\ first = 0
          BY <4>1
        <5> QED
          BY <5>1, <2>2, <2>4
      <4>2. CASE records # <<>>
        <5>1. Len(records) >= 1
          BY <4>2, <2>3
        <5>2. records[1].entropy = (settings.bos \/ 1 > 1)
          BY <5>1, <2>2, <2>3 DEF Right
        <5>3. ~(1 > 1)
          OBVIOUS
        <5>4. records[1].entropy <=> settings.bos
          BY <5>2, <5>3, Zenon
        <5>5. first = Scorer!Bos
          BY <4>2, <5>4, <2>4
        <5> QED
          BY <5>5, <2>2, <2>3, <2>4
      <4> QED
        BY <4>1, <4>2
    <3>2. inferred \in Nat
      BY <2>3
    <3> HIDE DEF first, inferred
    <3>3. total = Scorer!WindowCount(input.tokens, settings.context)
      <4>1. CASE input.tokens < 2
        BY <4>1, <3>1, <3>2 DEF Scorer!WindowCount
      <4>2. CASE input.tokens >= 2 /\ input.tokens <= settings.context
        BY <4>2, <3>1, <2>2, <2>4 DEF Scorer!WindowCount
      <4>3. CASE input.tokens >= 2 /\ input.tokens > settings.context
        <5>1. settings.context >= 2 /\ inferred = input.tokens
          BY <4>3, <3>1, <3>2, <2>2, <2>4
        <5>2. total = 1 + (input.tokens - settings.context + half - 1) \div half
          BY <5>1, <4>3, <2>4
        <5> QED
          BY <5>1, <5>2, <4>3, <2>4, SameWindowCount
      <4> QED
        BY <4>1, <4>2, <4>3, <2>4
    <3> HIDE DEF total, half
    <3>4. Scorer!MetadataFromRecords(records, settings.context) = [stride |-> half, windows |-> total]
      BY DEF Scorer!MetadataFromRecords, first, inferred, half, total
    <3>5. Scorer!ScoreMetadata(input.tokens, settings.context)
            = [stride |-> half, windows |-> Scorer!WindowCount(input.tokens, settings.context)]
      BY DEF Scorer!ScoreMetadata, half
    <3> QED
      BY <3>3, <3>4, <3>5
  <2> QED
    BY <2>5, <2>6, <2>7 DEF Sees
<1> QED BY <1>1, ScoringInvariance, PTL
-----------------------------------------------------------------------------
(* CommandLine.                                                            *)

\* A set of numbers that has 0 and with each number the next has them all.
LEMMA CountUp ==
  ASSUME NEW T, 0 \in T, \A n \in Nat : n \in T => n + 1 \in T
  PROVE  \A n \in Nat : n \in T
<1> DEFINE Others == {n \in Nat : n \notin T}
<1>1. SUFFICES ASSUME Others # {} PROVE FALSE
  OBVIOUS
<1>2. \E n \in Others : \A x \in Others : ~(<<x, n>> \in OpToRel(<, Nat))
  BY <1>1, WFMin, NatLessThanWellFounded
<1>3. PICK n \in Others : \A x \in Others : ~(<<x, n>> \in OpToRel(<, Nat))
  BY <1>2
<1>4. \A x \in Others : ~(x < n)
  BY <1>3 DEF OpToRel
<1>5. n \in Nat /\ n # 0 /\ n - 1 \in Nat
  OBVIOUS
<1>6. n - 1 \in T
  BY <1>4, <1>5
<1>7. (n - 1) + 1 \in T
  BY <1>5, <1>6, Zenon
<1> QED
  BY <1>5, <1>7

\* What may be an argument.
Words == Typed \cup Given \cup {"--force-cpu"}

\* The functions that read a sequence of arguments exist: one argument more
\* extends such a function to the next index.
LEMMA ResponseExists ==
  ASSUME NEW p
  PROVE  \E f : f = [i \in 0..Len(ResponseFile) |-> IF i = 0 THEN p
                                                    ELSE Commands!Read(f[i - 1], ResponseFile[i])]
<1> DEFINE Fits(f, k) == \A i \in 0..k : f[i] = IF i = 0 THEN p
                                                ELSE Commands!Read(f[i - 1], ResponseFile[i])
<1> DEFINE T == {k \in Nat : k <= Len(ResponseFile) => \E f : Fits(f, k)}
<1>1. Len(ResponseFile) \in Nat
  BY CommandAssumption
<1>2. 0 \in T
  <2>1. Fits([i \in 0..0 |-> p], 0)
    OBVIOUS
  <2> QED
    BY <2>1
<1>3. ASSUME NEW k \in Nat, k \in T PROVE k + 1 \in T
  <2> SUFFICES ASSUME k + 1 <= Len(ResponseFile) PROVE \E f : Fits(f, k + 1)
    OBVIOUS
  <2>1. PICK g : Fits(g, k)
    BY <1>1, <1>3
  <2> DEFINE last == Commands!Read(g[k], ResponseFile[k + 1])
  <2> DEFINE f == [i \in 0..(k + 1) |-> IF i = k + 1 THEN last ELSE g[i]]
  <2>2. ASSUME NEW i \in 0..(k + 1)
        PROVE  f[i] = IF i = 0 THEN p ELSE Commands!Read(f[i - 1], ResponseFile[i])
    <3>1. CASE i = k + 1
      <4>1. f[k + 1] = last /\ f[k] = g[k] /\ i # 0 /\ i - 1 = k
        BY <3>1
      <4>2. f[i] = Commands!Read(f[i - 1], ResponseFile[i])
        BY <3>1, <4>1, Zenon
      <4> QED
        BY <4>1, <4>2, Zenon
    <3>2. CASE i # k + 1
      <4>1. i \in 0..k /\ f[i] = g[i] /\ (i # 0 => f[i - 1] = g[i - 1])
        BY <3>2
      <4>2. g[i] = IF i = 0 THEN p ELSE Commands!Read(g[i - 1], ResponseFile[i])
        BY <2>1, <4>1, Zenon
      <4> QED
        BY <4>1, <4>2, Zenon
    <3> QED
      BY <3>1, <3>2
  <2>3. Fits(f, k + 1)
    BY <2>2, Zenon
  <2> QED
    BY <2>3
<1>4. Len(ResponseFile) \in T
  BY <1>1, <1>2, <1>3, CountUp
<1>5. PICK f : Fits(f, Len(ResponseFile))
  BY <1>1, <1>4
<1> DEFINE g == [i \in 0..Len(ResponseFile) |-> f[i]]
<1>6. ASSUME NEW i \in 0..Len(ResponseFile)
      PROVE  g[i] = IF i = 0 THEN p ELSE Commands!Read(g[i - 1], ResponseFile[i])
  <2>1. g[i] = f[i] /\ (i # 0 => g[i - 1] = f[i - 1])
    BY <1>1
  <2>2. f[i] = IF i = 0 THEN p ELSE Commands!Read(f[i - 1], ResponseFile[i])
    BY <1>5, Zenon
  <2> QED
    BY <2>1, <2>2, Zenon
<1>7. g = [i \in 0..Len(ResponseFile) |-> g[i]]
  BY Zenon
<1>8. g = [i \in 0..Len(ResponseFile) |-> IF i = 0 THEN p ELSE Commands!Read(g[i - 1], ResponseFile[i])]
  <2> HIDE DEF g
  <2> QED
    BY <1>6, <1>7, Zenon
<1> QED
  BY <1>8, Zenon

LEMMA ParsingExists ==
  ASSUME NEW arguments \in Seq(Words)
  PROVE  \E f : f = [i \in 0..Len(arguments) |-> IF i = 0 THEN Commands!Empty
                                                 ELSE Commands!ReadArgument(f[i - 1], arguments[i])]
<1> DEFINE Fits(f, k) == \A i \in 0..k : f[i] = IF i = 0 THEN Commands!Empty
                                                ELSE Commands!ReadArgument(f[i - 1], arguments[i])
<1> DEFINE T == {k \in Nat : k <= Len(arguments) => \E f : Fits(f, k)}
<1>1. Len(arguments) \in Nat
  BY LenProperties
<1>2. 0 \in T
  <2>1. Fits([i \in 0..0 |-> Commands!Empty], 0)
    OBVIOUS
  <2> QED
    BY <2>1
<1>3. ASSUME NEW k \in Nat, k \in T PROVE k + 1 \in T
  <2> SUFFICES ASSUME k + 1 <= Len(arguments) PROVE \E f : Fits(f, k + 1)
    OBVIOUS
  <2>1. PICK g : Fits(g, k)
    BY <1>1, <1>3
  <2> DEFINE last == Commands!ReadArgument(g[k], arguments[k + 1])
  <2> DEFINE f == [i \in 0..(k + 1) |-> IF i = k + 1 THEN last ELSE g[i]]
  <2>2. ASSUME NEW i \in 0..(k + 1)
        PROVE  f[i] = IF i = 0 THEN Commands!Empty ELSE Commands!ReadArgument(f[i - 1], arguments[i])
    <3>1. CASE i = k + 1
      <4>1. f[k + 1] = last /\ f[k] = g[k] /\ i # 0 /\ i - 1 = k
        BY <3>1
      <4>2. f[i] = Commands!ReadArgument(f[i - 1], arguments[i])
        BY <3>1, <4>1, Zenon
      <4> QED
        BY <4>1, <4>2, Zenon
    <3>2. CASE i # k + 1
      <4>1. i \in 0..k /\ f[i] = g[i] /\ (i # 0 => f[i - 1] = g[i - 1])
        BY <3>2
      <4>2. g[i] = IF i = 0 THEN Commands!Empty ELSE Commands!ReadArgument(g[i - 1], arguments[i])
        BY <2>1, <4>1, Zenon
      <4> QED
        BY <4>1, <4>2, Zenon
    <3> QED
      BY <3>1, <3>2
  <2>3. Fits(f, k + 1)
    BY <2>2, Zenon
  <2> QED
    BY <2>3
<1>4. Len(arguments) \in T
  BY <1>1, <1>2, <1>3, CountUp
<1>5. PICK f : Fits(f, Len(arguments))
  BY <1>1, <1>4
<1> DEFINE g == [i \in 0..Len(arguments) |-> f[i]]
<1>6. ASSUME NEW i \in 0..Len(arguments)
      PROVE  g[i] = IF i = 0 THEN Commands!Empty ELSE Commands!ReadArgument(g[i - 1], arguments[i])
  <2>1. g[i] = f[i] /\ (i # 0 => g[i - 1] = f[i - 1])
    BY <1>1
  <2>2. f[i] = IF i = 0 THEN Commands!Empty ELSE Commands!ReadArgument(f[i - 1], arguments[i])
    BY <1>5, Zenon
  <2> QED
    BY <2>1, <2>2, Zenon
<1>7. g = [i \in 0..Len(arguments) |-> g[i]]
  BY Zenon
<1>8. g = [i \in 0..Len(arguments) |-> IF i = 0 THEN Commands!Empty
                                       ELSE Commands!ReadArgument(g[i - 1], arguments[i])]
  <2> HIDE DEF g
  <2> QED
    BY <1>6, <1>7, Zenon
<1> QED
  BY <1>8, Zenon

LEMMA RecoveringExists ==
  ASSUME NEW arguments \in Seq(Words)
  PROVE  \E f : f = [i \in 0..Len(arguments) |-> IF i = 0 THEN [skip |-> FALSE, copy |-> FALSE, command |-> <<>>]
                                                 ELSE Commands!Recover(f[i - 1], arguments[i])]
<1> DEFINE Fits(f, k) == \A i \in 0..k : f[i] = IF i = 0 THEN [skip |-> FALSE, copy |-> FALSE, command |-> <<>>]
                                                ELSE Commands!Recover(f[i - 1], arguments[i])
<1> DEFINE T == {k \in Nat : k <= Len(arguments) => \E f : Fits(f, k)}
<1>1. Len(arguments) \in Nat
  BY LenProperties
<1>2. 0 \in T
  <2>1. Fits([i \in 0..0 |-> [skip |-> FALSE, copy |-> FALSE, command |-> <<>>]], 0)
    OBVIOUS
  <2> QED
    BY <2>1
<1>3. ASSUME NEW k \in Nat, k \in T PROVE k + 1 \in T
  <2> SUFFICES ASSUME k + 1 <= Len(arguments) PROVE \E f : Fits(f, k + 1)
    OBVIOUS
  <2>1. PICK g : Fits(g, k)
    BY <1>1, <1>3
  <2> DEFINE last == Commands!Recover(g[k], arguments[k + 1])
  <2> DEFINE f == [i \in 0..(k + 1) |-> IF i = k + 1 THEN last ELSE g[i]]
  <2>2. ASSUME NEW i \in 0..(k + 1)
        PROVE  f[i] = IF i = 0 THEN [skip |-> FALSE, copy |-> FALSE, command |-> <<>>]
                      ELSE Commands!Recover(f[i - 1], arguments[i])
    <3>1. CASE i = k + 1
      <4>1. f[k + 1] = last /\ f[k] = g[k] /\ i # 0 /\ i - 1 = k
        BY <3>1
      <4>2. f[i] = Commands!Recover(f[i - 1], arguments[i])
        BY <3>1, <4>1, Zenon
      <4> QED
        BY <4>1, <4>2, Zenon
    <3>2. CASE i # k + 1
      <4>1. i \in 0..k /\ f[i] = g[i] /\ (i # 0 => f[i - 1] = g[i - 1])
        BY <3>2
      <4>2. g[i] = IF i = 0 THEN [skip |-> FALSE, copy |-> FALSE, command |-> <<>>]
                   ELSE Commands!Recover(g[i - 1], arguments[i])
        BY <2>1, <4>1, Zenon
      <4> QED
        BY <4>1, <4>2, Zenon
    <3> QED
      BY <3>1, <3>2
  <2>3. Fits(f, k + 1)
    BY <2>2, Zenon
  <2> QED
    BY <2>3
<1>4. Len(arguments) \in T
  BY <1>1, <1>2, <1>3, CountUp
<1>5. PICK f : Fits(f, Len(arguments))
  BY <1>1, <1>4
<1> DEFINE g == [i \in 0..Len(arguments) |-> f[i]]
<1>6. ASSUME NEW i \in 0..Len(arguments)
      PROVE  g[i] = IF i = 0 THEN [skip |-> FALSE, copy |-> FALSE, command |-> <<>>]
                    ELSE Commands!Recover(g[i - 1], arguments[i])
  <2>1. g[i] = f[i] /\ (i # 0 => g[i - 1] = f[i - 1])
    BY <1>1
  <2>2. f[i] = IF i = 0 THEN [skip |-> FALSE, copy |-> FALSE, command |-> <<>>]
               ELSE Commands!Recover(f[i - 1], arguments[i])
    BY <1>5, Zenon
  <2> QED
    BY <2>1, <2>2, Zenon
<1>7. g = [i \in 0..Len(arguments) |-> g[i]]
  BY Zenon
<1>8. g = [i \in 0..Len(arguments) |-> IF i = 0 THEN [skip |-> FALSE, copy |-> FALSE, command |-> <<>>]
                                       ELSE Commands!Recover(g[i - 1], arguments[i])]
  <2> HIDE DEF g
  <2> QED
    BY <1>6, <1>7, Zenon
<1> QED
  BY <1>8, Zenon

LEMMA ParsingIs ==
  ASSUME NEW arguments \in Seq(Words)
  PROVE  \E f : /\ Commands!ParseArguments(arguments) = f[Len(arguments)]
               /\ f[0] = Commands!Empty
               /\ \A i \in 1..Len(arguments) : f[i] = Commands!ReadArgument(f[i - 1], arguments[i])
<1>1. PICK f : f = [i \in 0..Len(arguments) |-> IF i = 0 THEN Commands!Empty
                                                ELSE Commands!ReadArgument(f[i - 1], arguments[i])]
             /\ Commands!ParseArguments(arguments) = f[Len(arguments)]
  BY ParsingExists DEF Commands!ParseArguments
<1>2. Len(arguments) \in Nat
  BY LenProperties
<1>3. \A i \in 0..Len(arguments) : f[i] = IF i = 0 THEN Commands!Empty
                                          ELSE Commands!ReadArgument(f[i - 1], arguments[i])
  BY <1>1, Zenon
<1>4. 0 \in 0..Len(arguments) /\ \A i \in 1..Len(arguments) : i \in 0..Len(arguments) /\ i # 0
  BY <1>2
<1> QED
  BY <1>1, <1>3, <1>4, Zenon

LEMMA ParsingNone == Commands!ParseArguments(<<>>) = Commands!Empty
<1>1. <<>> \in Seq(Words) /\ Len(<<>>) = 0
  OBVIOUS
<1> QED
  BY <1>1, ParsingIs, Zenon

\* An argument more is one more step of the parser.
LEMMA ParsingMore ==
  ASSUME NEW arguments \in Seq(Words), NEW word \in Words
  PROVE  Commands!ParseArguments(Append(arguments, word))
           = Commands!ReadArgument(Commands!ParseArguments(arguments), word)
<1> DEFINE more == Append(arguments, word)
<1> DEFINE n == Len(arguments)
<1>1. /\ more \in Seq(Words) /\ n \in Nat /\ Len(more) = n + 1 /\ more[n + 1] = word
      /\ \A i \in 1..n : more[i] = arguments[i]
  OBVIOUS
<1>2. PICK f : /\ Commands!ParseArguments(arguments) = f[n] /\ f[0] = Commands!Empty
               /\ \A i \in 1..n : f[i] = Commands!ReadArgument(f[i - 1], arguments[i])
  BY ParsingIs, Zenon
<1> HIDE DEF more
<1>3. PICK g : /\ Commands!ParseArguments(more) = g[Len(more)] /\ g[0] = Commands!Empty
               /\ \A i \in 1..Len(more) : g[i] = Commands!ReadArgument(g[i - 1], more[i])
  BY <1>1, ParsingIs, Zenon
<1> DEFINE T == {k \in Nat : k <= n => f[k] = g[k]}
<1>4. 0 \in T
  BY <1>2, <1>3
<1>5. ASSUME NEW k \in Nat, k \in T PROVE k + 1 \in T
  <2> SUFFICES ASSUME k + 1 <= n PROVE f[k + 1] = g[k + 1]
    OBVIOUS
  <2>1. k + 1 \in 1..n /\ k + 1 \in 1..Len(more) /\ (k + 1) - 1 = k /\ f[k] = g[k]
    BY <1>1, <1>5
  <2>2. f[k + 1] = Commands!ReadArgument(f[k], arguments[k + 1])
    BY <1>2, <2>1, Zenon
  <2>3. g[k + 1] = Commands!ReadArgument(g[k], more[k + 1])
    BY <1>3, <2>1, Zenon
  <2> QED
    BY <1>1, <2>1, <2>2, <2>3, Zenon
<1>6. n \in T
  BY <1>1, <1>4, <1>5, CountUp
<1>7. f[n] = g[n]
  BY <1>1, <1>6
<1>8. n + 1 \in 1..Len(more) /\ (n + 1) - 1 = n
  BY <1>1
<1>9. g[n + 1] = Commands!ReadArgument(g[n], more[n + 1])
  BY <1>3, <1>8, Zenon
<1>10. Commands!ParseArguments(more) = Commands!ReadArgument(Commands!ParseArguments(arguments), word)
  BY <1>1, <1>2, <1>3, <1>7, <1>9, Zenon
<1> QED
  BY <1>10 DEF more

LEMMA RecoveringIs ==
  ASSUME NEW arguments \in Seq(Words)
  PROVE  \E f : /\ Commands!Recovered(arguments) = f[Len(arguments)]
               /\ f[0] = [skip |-> FALSE, copy |-> FALSE, command |-> <<>>]
               /\ \A i \in 1..Len(arguments) : f[i] = Commands!Recover(f[i - 1], arguments[i])
<1>1. PICK f : f = [i \in 0..Len(arguments) |-> IF i = 0 THEN [skip |-> FALSE, copy |-> FALSE, command |-> <<>>]
                                                ELSE Commands!Recover(f[i - 1], arguments[i])]
             /\ Commands!Recovered(arguments) = f[Len(arguments)]
  BY RecoveringExists DEF Commands!Recovered
<1>2. Len(arguments) \in Nat
  BY LenProperties
<1>3. \A i \in 0..Len(arguments) : f[i] = IF i = 0 THEN [skip |-> FALSE, copy |-> FALSE, command |-> <<>>]
                                          ELSE Commands!Recover(f[i - 1], arguments[i])
  BY <1>1, Zenon
<1>4. 0 \in 0..Len(arguments) /\ \A i \in 1..Len(arguments) : i \in 0..Len(arguments) /\ i # 0
  BY <1>2
<1> QED
  BY <1>1, <1>3, <1>4, Zenon

LEMMA RecoveringNone == Commands!Recovered(<<>>) = [skip |-> FALSE, copy |-> FALSE, command |-> <<>>]
<1>1. <<>> \in Seq(Words) /\ Len(<<>>) = 0
  OBVIOUS
<1> QED
  BY <1>1, RecoveringIs, Zenon

\* So it is for the command recovered (backend_policy.cc:168).
LEMMA RecoveringMore ==
  ASSUME NEW arguments \in Seq(Words), NEW word \in Words
  PROVE  Commands!Recovered(Append(arguments, word))
           = Commands!Recover(Commands!Recovered(arguments), word)
<1> DEFINE more == Append(arguments, word)
<1> DEFINE n == Len(arguments)
<1>1. /\ more \in Seq(Words) /\ n \in Nat /\ Len(more) = n + 1 /\ more[n + 1] = word
      /\ \A i \in 1..n : more[i] = arguments[i]
  OBVIOUS
<1>2. PICK f : /\ Commands!Recovered(arguments) = f[n] /\ f[0] = [skip |-> FALSE, copy |-> FALSE, command |-> <<>>]
               /\ \A i \in 1..n : f[i] = Commands!Recover(f[i - 1], arguments[i])
  BY RecoveringIs, Zenon
<1> HIDE DEF more
<1>3. PICK g : /\ Commands!Recovered(more) = g[Len(more)] /\ g[0] = [skip |-> FALSE, copy |-> FALSE, command |-> <<>>]
               /\ \A i \in 1..Len(more) : g[i] = Commands!Recover(g[i - 1], more[i])
  BY <1>1, RecoveringIs, Zenon
<1> DEFINE T == {k \in Nat : k <= n => f[k] = g[k]}
<1>4. 0 \in T
  BY <1>2, <1>3
<1>5. ASSUME NEW k \in Nat, k \in T PROVE k + 1 \in T
  <2> SUFFICES ASSUME k + 1 <= n PROVE f[k + 1] = g[k + 1]
    OBVIOUS
  <2>1. k + 1 \in 1..n /\ k + 1 \in 1..Len(more) /\ (k + 1) - 1 = k /\ f[k] = g[k]
    BY <1>1, <1>5
  <2>2. f[k + 1] = Commands!Recover(f[k], arguments[k + 1])
    BY <1>2, <2>1, Zenon
  <2>3. g[k + 1] = Commands!Recover(g[k], more[k + 1])
    BY <1>3, <2>1, Zenon
  <2> QED
    BY <1>1, <2>1, <2>2, <2>3, Zenon
<1>6. n \in T
  BY <1>1, <1>4, <1>5, CountUp
<1>7. f[n] = g[n]
  BY <1>1, <1>6
<1>8. n + 1 \in 1..Len(more) /\ (n + 1) - 1 = n
  BY <1>1
<1>9. g[n + 1] = Commands!Recover(g[n], more[n + 1])
  BY <1>3, <1>8, Zenon
<1>10. Commands!Recovered(more) = Commands!Recover(Commands!Recovered(arguments), word)
  BY <1>1, <1>2, <1>3, <1>7, <1>9, Zenon
<1> QED
  BY <1>10 DEF more

\* What holds of the parser and is kept by every argument read holds when a
\* response file is read.
LEMMA ResponseIs ==
  ASSUME NEW p
  PROVE  \E f : /\ Commands!ReadResponse(p) = f[Len(ResponseFile)] /\ f[0] = p
               /\ \A i \in 1..Len(ResponseFile) : f[i] = Commands!Read(f[i - 1], ResponseFile[i])
<1>1. PICK f : f = [i \in 0..Len(ResponseFile) |-> IF i = 0 THEN p
                                                   ELSE Commands!Read(f[i - 1], ResponseFile[i])]
             /\ Commands!ReadResponse(p) = f[Len(ResponseFile)]
  BY ResponseExists DEF Commands!ReadResponse
<1>2. Len(ResponseFile) \in Nat
  BY CommandAssumption
<1>3. \A i \in 0..Len(ResponseFile) : f[i] = IF i = 0 THEN p
                                             ELSE Commands!Read(f[i - 1], ResponseFile[i])
  BY <1>1, Zenon
<1>4. 0 \in 0..Len(ResponseFile)
      /\ \A i \in 1..Len(ResponseFile) : i \in 0..Len(ResponseFile) /\ i # 0
  BY <1>2
<1> QED
  BY <1>1, <1>3, <1>4, Zenon

LEMMA OptionIs ==
  \A w : Commands!IsOption(w) <=>
    \/ w \in Commands!Scoring \/ w \in Commands!Planning
    \/ w \in {"--hotspots", "--score", "--format", "--progress", "--lang", "--model",
             "--model-name", "--context-size", "--threads", "--prompt", "--file", "--bos",
             "--entropy", "--force-cpu", "--assume-yes", "-y", "--no-download",
             "--include-headers", "--no-ignore", "--no-cache", "--override-memory-check",
             "--backend-diagnostics", "-1", "-h"}
BY Zenon DEF Commands!IsOption

\* The words that the programs which analyze and score know.
LEMMA Vocabulary ==
  ASSUME program \in {"analyze", "score"}
  PROVE  /\ \A w \in Commands!FlagsOf :
              /\ w \notin Commands!ValuedOptions /\ w \notin Commands!Placing
              /\ w = "--force-cpu" \/ w \in Commands!Flags
         /\ \A w \in Commands!ValuedOptions :
              /\ Commands!IsOption(w) /\ w \notin Commands!Flags
              /\ w # "--force-cpu" /\ w # "none"
         /\ Commands!Placing \subseteq Commands!ValuedOptions
         /\ "--force-cpu" \in Commands!FlagsOf
         /\ Commands!IsOption("--force-cpu")
<1>1. \A w \in Commands!Placing : w \in Commands!Scoring /\ w \in Commands!Executing
  BY DEF Commands!Placing, Commands!Selecting, Commands!Executing, Commands!Scoring
<1>2. \A w \in Commands!Scoring : Commands!IsOption(w) /\ w \notin Commands!Flags
                                   /\ w # "--force-cpu" /\ w # "none"
  <2>1. \A w \in Commands!Scoring : Commands!IsOption(w)
    BY OptionIs
  <2>2. \A w \in Commands!Scoring : w \notin Commands!Flags /\ w # "--force-cpu" /\ w # "none"
    BY DEF Commands!Scoring, Commands!Executing, Commands!Selecting, Commands!Flags
  <2> QED
    BY <2>1, <2>2
<1>3. Commands!Executing \subseteq Commands!Scoring
  BY DEF Commands!Scoring
<1>4. CASE program = "analyze"
  <2>1. Commands!FlagsOf = {"--force-cpu", "--assume-yes", "-y", "--no-download", "--include-headers",
          "--no-ignore", "--no-cache", "--backend-diagnostics"}
    BY <1>4 DEF Commands!FlagsOf, Commands!Comparisons
  <2>2. Commands!ValuedOptions
          = Commands!Scoring \cup {"--hotspots", "--score", "--format", "--progress",
                       "--lang", "--model", "--model-name"}
    BY <1>4 DEF Commands!ValuedOptions
  <2>3. \A w \in Commands!FlagsOf : w = "--force-cpu" \/ w \in Commands!Flags
    BY <2>1 DEF Commands!Flags
  <2>4. \A w \in Commands!ValuedOptions : Commands!IsOption(w)
    BY <1>2, <2>2, OptionIs
  <2>5. \A w \in Commands!ValuedOptions : w \notin Commands!Flags /\ w # "--force-cpu" /\ w # "none"
    BY <1>2, <2>2 DEF Commands!Flags
  <2>6. Commands!IsOption("--force-cpu")
    BY OptionIs
  <2> QED
    BY <1>1, <2>1, <2>2, <2>3, <2>4, <2>5, <2>6
<1>5. CASE program = "score"
  <2>1. Commands!FlagsOf = {"--entropy", "--force-cpu", "--assume-yes", "-y", "--no-download",
          "--override-memory-check", "--backend-diagnostics"}
    BY <1>5 DEF Commands!FlagsOf, Commands!Comparisons
  <2>2. Commands!ValuedOptions = Commands!Executing \cup {"--context-size", "--threads", "--model",
                         "--model-name", "--prompt", "--file", "--bos", "--progress"}
    BY <1>5 DEF Commands!ValuedOptions
  <2>3. \A w \in Commands!FlagsOf : w = "--force-cpu" \/ w \in Commands!Flags
    BY <2>1 DEF Commands!Flags
  <2>4. \A w \in Commands!ValuedOptions : Commands!IsOption(w)
    BY <1>2, <1>3, <2>2, OptionIs
  <2>5. \A w \in Commands!ValuedOptions : w \notin Commands!Flags /\ w # "--force-cpu" /\ w # "none"
    BY <1>2, <1>3, <2>2 DEF Commands!Flags
  <2>6. Commands!IsOption("--force-cpu")
    BY OptionIs
  <2> QED
    BY <1>1, <2>1, <2>2, <2>3, <2>4, <2>5, <2>6
<1> QED
  BY <1>4, <1>5

\* The state of a parser.
IsParser(p) ==
  p = [status |-> p.status, pending |-> p.pending, options |-> p.options,
       flags |-> p.flags, sources |-> p.sources]

LEMMA Fields ==
  ASSUME NEW a, NEW b, NEW c, NEW d, NEW e, NEW p,
         p = [status |-> a, pending |-> b, options |-> c, flags |-> d, sources |-> e]
  PROVE  p.status = a /\ p.pending = b /\ p.options = c /\ p.flags = d /\ p.sources = e
OBVIOUS

LEMMA EndedIs == Commands!Ended.status = "ended" /\ IsParser(Commands!Ended)
<1>1. \A e : IsParser(e) => LET f == [e EXCEPT !.status = "ended"]
                           IN  IsParser(f) /\ f.status = "ended"
  <2> SUFFICES ASSUME NEW e, IsParser(e), NEW f, f = [e EXCEPT !.status = "ended"]
               PROVE  IsParser(f) /\ f.status = "ended"
    BY Zenon
  <2>1. f = [status |-> "ended", pending |-> e.pending, options |-> e.options,
             flags |-> e.flags, sources |-> e.sources]
    BY DEF IsParser
  <2> QED
    BY <2>1 DEF IsParser
<1>2. IsParser(Commands!Empty)
  BY DEF IsParser, Commands!Empty
<1> QED
  BY <1>1, <1>2, Zenon DEF Commands!Ended

\* The value of an option.
LEMMA ReadValue ==
  ASSUME NEW p, IsParser(p), NEW word, p.status = "reading", p.pending # "none",
         NEW q, q = Commands!Read(p, word)
  PROVE  \/ q = Commands!Ended
         \/ /\ Commands!Takes(p.pending, word)
            /\ q.options = Commands!With(p.options, p.pending, Commands!Spelled(word))
            /\ ~Commands!Excluded(q.options)
            /\ q = [status |-> "reading", pending |-> "none", options |-> q.options,
                    flags |-> p.flags, sources |-> p.sources]
<1>1. q = Commands!SetOption(p, word)
  BY DEF Commands!Read
<1> DEFINE more == Commands!With(p.options, p.pending, Commands!Spelled(word))
<1>2. CASE ~Commands!Takes(p.pending, word) \/ Commands!Excluded(more)
  <2>1. q = Commands!Ended
    BY <1>1, <1>2 DEF Commands!SetOption
  <2> QED
    BY <2>1
<1>3. CASE Commands!Takes(p.pending, word) /\ ~Commands!Excluded(more)
  <2>1. q = [p EXCEPT !.pending = "none", !.options = more]
    BY <1>1, <1>3 DEF Commands!SetOption
  <2> HIDE DEF more
  <2>2. q = [status |-> "reading", pending |-> "none", options |-> more,
             flags |-> p.flags, sources |-> p.sources]
    BY <2>1 DEF IsParser
  <2>3. q.options = more
    BY <2>2, SMT
  <2> QED
    BY <1>3, <2>2, <2>3, Zenon DEF more
<1> QED
  BY <1>2, <1>3, Zenon

LEMMA ReadFlag ==
  ASSUME NEW p, IsParser(p), NEW word \in Commands!FlagsOf, p.status = "reading", p.pending = "none",
         NEW q, q = Commands!Read(p, word)
  PROVE  q = [status |-> "reading", pending |-> "none", options |-> p.options,
              flags |-> p.flags \cup Commands!Meaning(word), sources |-> p.sources]
<1>1. q = [p EXCEPT !.flags = p.flags \cup Commands!Meaning(word)]
  BY DEF Commands!Read
<1> QED
  BY <1>1 DEF IsParser

LEMMA ReadOption ==
  ASSUME NEW p, IsParser(p), NEW word \in Commands!ValuedOptions, word \notin Commands!FlagsOf,
         p.status = "reading", p.pending = "none",
         NEW q, q = Commands!Read(p, word)
  PROVE  q = [status |-> "reading", pending |-> word, options |-> p.options,
              flags |-> p.flags, sources |-> p.sources]
<1>1. q = [p EXCEPT !.pending = word]
  BY DEF Commands!Read
<1> QED
  BY <1>1 DEF IsParser

LEMMA ReadSource ==
  ASSUME NEW p, IsParser(p), NEW word, word \notin Commands!ValuedOptions, word \notin Commands!FlagsOf,
         p.status = "reading", p.pending = "none",
         NEW q, q = Commands!Read(p, word)
  PROVE  \/ q = Commands!Ended
         \/ /\ program = "analyze" /\ ~Commands!IsOption(word)
            /\ q = [status |-> "reading", pending |-> "none", options |-> p.options,
                    flags |-> p.flags, sources |-> Append(p.sources, word)]
<1>1. CASE program = "analyze" /\ ~Commands!IsOption(word)
  <2>1. q = [p EXCEPT !.sources = Append(p.sources, word)]
    BY <1>1 DEF Commands!Read
  <2>2. q = [status |-> "reading", pending |-> "none", options |-> p.options,
             flags |-> p.flags, sources |-> Append(p.sources, word)]
    BY <2>1 DEF IsParser
  <2> QED
    BY <1>1, <2>2
<1>2. CASE ~(program = "analyze" /\ ~Commands!IsOption(word))
  <2>1. q = Commands!Ended
    BY <1>2 DEF Commands!Read
  <2> QED
    BY <2>1
<1> QED
  BY <1>1, <1>2

\* A parser stays one.
LEMMA ReadIsParser ==
  ASSUME NEW p, IsParser(p), NEW word, NEW q, q = Commands!Read(p, word)
  PROVE  IsParser(q)
<1>1. CASE p.status # "reading"
  BY <1>1 DEF Commands!Read
<1>2. CASE p.status = "reading" /\ p.pending # "none"
  <2>1. q = Commands!Ended \/ q = [status |-> "reading", pending |-> "none", options |-> q.options,
                                   flags |-> p.flags, sources |-> p.sources]
    BY <1>2, ReadValue
  <2> QED
    BY <2>1, EndedIs DEF IsParser
<1>3. CASE p.status = "reading" /\ p.pending = "none" /\ word \in Commands!FlagsOf
  <2>1. q = [status |-> "reading", pending |-> "none", options |-> p.options,
             flags |-> p.flags \cup Commands!Meaning(word), sources |-> p.sources]
    BY <1>3, ReadFlag
  <2> QED
    BY <2>1 DEF IsParser
<1>4. CASE p.status = "reading" /\ p.pending = "none" /\ word \notin Commands!FlagsOf
           /\ word \in Commands!ValuedOptions
  <2>1. q = [status |-> "reading", pending |-> word, options |-> p.options,
             flags |-> p.flags, sources |-> p.sources]
    BY <1>4, ReadOption
  <2> QED
    BY <2>1 DEF IsParser
<1>5. CASE p.status = "reading" /\ p.pending = "none" /\ word \notin Commands!FlagsOf
           /\ word \notin Commands!ValuedOptions
  <2>1. q = Commands!Ended \/ q = [status |-> "reading", pending |-> "none", options |-> p.options,
                                   flags |-> p.flags, sources |-> Append(p.sources, word)]
    BY <1>5, ReadSource
  <2> QED
    BY <2>1, EndedIs DEF IsParser
<1> QED
  BY <1>1, <1>2, <1>3, <1>4, <1>5, Zenon

LEMMA WithIs ==
  ASSUME NEW options, NEW option, NEW value, NEW changed,
         changed = Commands!With(options, option, value)
  PROVE  /\ \A o : o \in DOMAIN changed <=> o \in DOMAIN options \/ o = option
         /\ changed[option] = value
         /\ \A o \in DOMAIN options : o # option => changed[o] = options[o]
BY DEF Commands!With

\* What the parser makes of an argument that is typed, and what it makes of the
\* command that is recovered from what was typed so far: an option for the
\* placement is skipped together with its value, the others are copied.
Related(p, r, q) ==
  /\ q.status = "reading"
  /\ p.pending = "none" \/ p.pending \in Commands!ValuedOptions
  /\ IF p.pending \in Commands!Placing
     THEN r.skip /\ ~r.copy /\ q.pending = "none"
     ELSE ~r.skip /\ (r.copy <=> p.pending # "none") /\ q.pending = p.pending
  /\ DOMAIN q.options = DOMAIN p.options \ Commands!Placing
  /\ \A o \in DOMAIN q.options : q.options[o] = p.options[o]
  /\ q.flags = p.flags \ {"--force-cpu"}
  /\ q.sources = p.sources

Recoveries == [skip : BOOLEAN, copy : BOOLEAN, command : Seq(Words)]

\* The options that are skipped are none of those that exclude one another.
LEMMA PlacingHasNoRivals ==
  ASSUME NEW options, NEW others, DOMAIN others = DOMAIN options \ Commands!Placing
  PROVE  Commands!Excluded(others) <=> Commands!Excluded(options)
<1>1. \A o \in {"--prompt", "--file", "--model", "--model-name"} : o \notin Commands!Placing
  BY DEF Commands!Placing, Commands!Selecting
<1>2. \A o \in {"--prompt", "--file", "--model", "--model-name"} :
        o \in DOMAIN others <=> o \in DOMAIN options
  BY <1>1
<1>3. \A f : Commands!Excluded(f) <=>
        \/ "--prompt" \in DOMAIN f /\ "--file" \in DOMAIN f
        \/ "--model" \in DOMAIN f /\ "--model-name" \in DOMAIN f
  BY DEF Commands!Excluded
<1> QED
  BY <1>2, <1>3

\* What the recovery makes of an argument.
LEMMA Recovering ==
  ASSUME NEW r \in Recoveries, NEW word \in Words
  PROVE  LET s == Commands!Recover(r, word)
         IN  /\ s \in Recoveries
             /\ r.skip => s.command = r.command /\ ~s.skip /\ s.copy = r.copy
             /\ ~r.skip /\ r.copy => s.command = Append(r.command, word) /\ ~s.skip /\ ~s.copy
             /\ ~r.skip /\ ~r.copy /\ word \in Commands!Placing =>
                  s.command = r.command /\ s.skip /\ ~s.copy
             /\ ~r.skip /\ ~r.copy /\ word \notin Commands!Placing /\ word = "--force-cpu" => s = r
             /\ ~r.skip /\ ~r.copy /\ word \notin Commands!Placing /\ word # "--force-cpu" =>
                  /\ s.command = Append(r.command, word) /\ ~s.skip
                  /\ s.copy <=> Commands!IsOption(word) /\ word \notin Commands!Flags
<1> DEFINE s == Commands!Recover(r, word)
<1>0. Append(r.command, word) \in Seq(Words) /\ r.command \in Seq(Words)
      /\ r.skip \in BOOLEAN /\ r.copy \in BOOLEAN
  BY DEF Recoveries
<1>1. CASE r.skip
  <2>1. s = [r EXCEPT !.skip = FALSE]
    BY <1>1 DEF Commands!Recover
  <2> QED
    BY <1>0, <1>1, <2>1 DEF Recoveries
<1>2. CASE ~r.skip /\ r.copy
  <2>1. s = [r EXCEPT !.copy = FALSE, !.command = Append(r.command, word)]
    BY <1>2 DEF Commands!Recover
  <2> QED
    BY <1>0, <1>2, <2>1 DEF Recoveries
<1>3. CASE ~r.skip /\ ~r.copy /\ word \in Commands!Placing
  <2>1. s = [r EXCEPT !.skip = TRUE]
    BY <1>3 DEF Commands!Recover
  <2> QED
    BY <1>0, <1>3, <2>1 DEF Recoveries
<1>4. CASE ~r.skip /\ ~r.copy /\ word \notin Commands!Placing /\ word = "--force-cpu"
  <2>1. s = r
    BY <1>4 DEF Commands!Recover
  <2> QED
    BY <1>4, <2>1
<1>5. CASE ~r.skip /\ ~r.copy /\ word \notin Commands!Placing /\ word # "--force-cpu"
  <2> DEFINE copy == Commands!IsOption(word) /\ word \notin Commands!Flags
  <2>1. s = [r EXCEPT !.copy = copy, !.command = Append(r.command, word)]
    BY <1>5, Zenon DEF Commands!Recover
  <2>2. copy \in BOOLEAN
    BY Zenon DEF Commands!IsOption
  <2> HIDE DEF s, copy
  <2>3. s \in Recoveries /\ s.copy = copy /\ s.command = Append(r.command, word) /\ s.skip = r.skip
    BY <1>0, <2>1, <2>2 DEF Recoveries
  <2> QED
    BY <1>5, <2>3 DEF s, copy
<1> QED
  BY <1>1, <1>2, <1>3, <1>4, <1>5

\* The value of an option.
LEMMA ValueStep ==
  ASSUME program \in {"analyze", "score"},
         NEW p, IsParser(p), NEW q, IsParser(q), NEW r \in Recoveries, Related(p, r, q),
         NEW word \in Words, p.status = "reading", p.pending # "none",
         Commands!Read(p, word).status = "reading"
  PROVE  LET next_r == Commands!Recover(r, word)
         IN  \/ /\ next_r.command = r.command
                /\ Related(Commands!Read(p, word), next_r, q)
             \/ /\ next_r.command = Append(r.command, word)
                /\ Related(Commands!Read(p, word), next_r, Commands!Read(q, word))
<1> DEFINE p2 == Commands!Read(p, word)
<1> DEFINE q2 == Commands!Read(q, word)
<1> DEFINE r2 == Commands!Recover(r, word)
<1> DEFINE value == Commands!Spelled(word)
<1>1. /\ Commands!Takes(p.pending, word) /\ p2.options = Commands!With(p.options, p.pending, value)
      /\ ~Commands!Excluded(p2.options)
      /\ p2.pending = "none" /\ p2.flags = p.flags /\ p2.sources = p.sources
  <2> HIDE DEF p2
  <2>1. p2 = Commands!Read(p, word) /\ p2.status = "reading"
    BY Zenon DEF p2
  <2>2. p2 # Commands!Ended
    BY <2>1, EndedIs
  <2>3. /\ Commands!Takes(p.pending, word) /\ p2.options = Commands!With(p.options, p.pending, value)
        /\ ~Commands!Excluded(p2.options)
        /\ p2 = [status |-> "reading", pending |-> "none", options |-> p2.options,
                 flags |-> p.flags, sources |-> p.sources]
    BY <2>1, <2>2, ReadValue, Zenon
  <2> QED
    BY <2>3
<1>2. /\ DOMAIN p2.options = DOMAIN p.options \cup {p.pending}
      /\ p2.options[p.pending] = value
      /\ \A o \in DOMAIN p.options : o # p.pending => p2.options[o] = p.options[o]
  <2> HIDE DEF p2, value
  <2> DEFINE before == p.options
  <2> DEFINE after == p2.options
  <2>1. after = Commands!With(before, p.pending, value)
    BY <1>1, Zenon
  <2> HIDE DEF before, after
  <2>2. /\ \A o : o \in DOMAIN after <=> o \in DOMAIN before \/ o = p.pending
        /\ after[p.pending] = value
        /\ \A o \in DOMAIN before : o # p.pending => after[o] = before[o]
    BY <2>1, WithIs
  <2> QED
    BY <2>2 DEF before, after
<1>3. "none" \notin Commands!Placing
  BY Vocabulary
<1> HIDE DEF p2, q2, r2, value
<1>4. CASE p.pending \in Commands!Placing
  <2>1. r2.command = r.command /\ ~r2.skip /\ ~r2.copy
    BY <1>4, Recovering DEF Related, r2
  <2>2. Related(p2, r2, q)
    BY <1>1, <1>2, <1>3, <1>4, <2>1 DEF Related
  <2> QED
    BY <2>1, <2>2 DEF p2, r2
<1>5. CASE p.pending \notin Commands!Placing
  <2>1. r2.command = Append(r.command, word) /\ ~r2.skip /\ ~r2.copy
    BY <1>5, Recovering DEF Related, r2
  <2>2. q.pending = p.pending /\ q.status = "reading"
    BY <1>5 DEF Related
  <2> DEFINE options == Commands!With(q.options, q.pending, value)
  <2>3. /\ DOMAIN options = DOMAIN q.options \cup {p.pending}
        /\ options[p.pending] = value
        /\ \A o \in DOMAIN q.options : o # p.pending => options[o] = q.options[o]
    <3> DEFINE before == q.options
    <3>1. options = Commands!With(before, p.pending, value)
      BY <2>2, Zenon
    <3> HIDE DEF before, options
    <3>2. /\ \A o : o \in DOMAIN options <=> o \in DOMAIN before \/ o = p.pending
          /\ options[p.pending] = value
          /\ \A o \in DOMAIN before : o # p.pending => options[o] = before[o]
      BY <3>1, WithIs
    <3> QED
      BY <3>2 DEF before
  <2> HIDE DEF options
  <2>4. DOMAIN options = DOMAIN p2.options \ Commands!Placing
    BY <1>2, <1>5, <2>3 DEF Related
  <2>5. ~Commands!Excluded(options)
    BY <1>1, <2>4, PlacingHasNoRivals
  <2>6. q2 = [q EXCEPT !.pending = "none", !.options = options]
    BY <1>1, <2>2, <2>5, Zenon DEF options, value, q2, Commands!Read, Commands!SetOption
  <2>7. q2 = [status |-> q.status, pending |-> "none", options |-> options,
              flags |-> q.flags, sources |-> q.sources]
    BY <2>6 DEF IsParser
  <2>8. \A o \in DOMAIN options : options[o] = p2.options[o]
    BY <1>2, <2>3 DEF Related
  <2>9. Related(p2, r2, q2)
    BY <1>1, <1>3, <2>1, <2>2, <2>4, <2>7, <2>8 DEF Related
  <2> QED
    BY <2>1, <2>9 DEF p2, q2, r2
<1> QED
  BY <1>4, <1>5

\* An option, a flag or a source.
LEMMA WordStep ==
  ASSUME program \in {"analyze", "score"},
         NEW p, IsParser(p), NEW q, IsParser(q), NEW r \in Recoveries, Related(p, r, q),
         NEW word \in Words, p.status = "reading", p.pending = "none",
         Commands!Read(p, word).status = "reading"
  PROVE  LET next_r == Commands!Recover(r, word)
         IN  \/ /\ next_r.command = r.command
                /\ Related(Commands!Read(p, word), next_r, q)
             \/ /\ next_r.command = Append(r.command, word)
                /\ Related(Commands!Read(p, word), next_r, Commands!Read(q, word))
<1> DEFINE p2 == Commands!Read(p, word)
<1> DEFINE q2 == Commands!Read(q, word)
<1> DEFINE r2 == Commands!Recover(r, word)
<1>1. "none" \notin Commands!Placing
  BY Vocabulary
<1>2. ~r.skip /\ ~r.copy /\ q.pending = "none" /\ q.status = "reading"
  BY <1>1 DEF Related
<1>3. CASE word \in Commands!FlagsOf /\ word = "--force-cpu"
  <2>1. r2 = r
    BY <1>2, <1>3, Vocabulary, Recovering
  <2>2. Commands!Meaning(word) = {"--force-cpu"}
    BY <1>3 DEF Commands!Meaning
  <2>3. p2.flags = p.flags \cup {"--force-cpu"} /\ p2.pending = "none" /\ p2.options = p.options
        /\ p2.sources = p.sources
    BY <1>3, <2>2, ReadFlag
  <2>4. q.flags = p2.flags \ {"--force-cpu"}
    BY <2>3 DEF Related
  <2> HIDE DEF p2, r2
  <2>5. Related(p2, r2, q)
    BY <1>1, <1>2, <2>1, <2>3, <2>4 DEF Related
  <2> QED
    BY <2>1, <2>5 DEF p2, r2
<1>4. CASE word \in Commands!FlagsOf /\ word # "--force-cpu"
  <2>1. r2.command = Append(r.command, word) /\ ~r2.skip /\ ~r2.copy
    BY <1>2, <1>4, Vocabulary, Recovering
  <2>2. "--force-cpu" \notin Commands!Meaning(word)
    BY <1>4 DEF Commands!Meaning
  <2>3. p2.flags = p.flags \cup Commands!Meaning(word) /\ p2.pending = "none" /\ p2.options = p.options
        /\ p2.sources = p.sources
    BY <1>4, ReadFlag
  <2>4. q2.flags = q.flags \cup Commands!Meaning(word) /\ q2.pending = "none" /\ q2.options = q.options
        /\ q2.sources = q.sources /\ q2.status = "reading"
    BY <1>2, <1>4, ReadFlag
  <2>5. q2.flags = p2.flags \ {"--force-cpu"}
    BY <2>2, <2>3, <2>4 DEF Related
  <2> HIDE DEF p2, q2, r2
  <2>6. Related(p2, r2, q2)
    BY <1>1, <2>1, <2>3, <2>4, <2>5 DEF Related
  <2> QED
    BY <2>1, <2>6 DEF p2, q2, r2
<1>5. CASE word \notin Commands!FlagsOf /\ word \in Commands!ValuedOptions
  <2>1. p2.flags = p.flags /\ p2.pending = word /\ p2.options = p.options /\ p2.sources = p.sources
    BY <1>5, ReadOption
  <2>2. Commands!IsOption(word) /\ word \notin Commands!Flags /\ word # "--force-cpu" /\ word # "none"
    BY <1>5, Vocabulary
  <2>3. CASE word \in Commands!Placing
    <3>1. r2.command = r.command /\ r2.skip /\ ~r2.copy
      BY <1>2, <2>3, Recovering
    <3> HIDE DEF p2, r2
    <3>2. Related(p2, r2, q)
      BY <1>2, <1>5, <2>1, <2>3, <3>1 DEF Related
    <3> QED
      BY <3>1, <3>2 DEF p2, r2
  <2>4. CASE word \notin Commands!Placing
    <3>1. r2.command = Append(r.command, word) /\ ~r2.skip /\ r2.copy
      BY <1>2, <2>2, <2>4, Recovering
    <3>2. q2.flags = q.flags /\ q2.pending = word /\ q2.options = q.options
          /\ q2.sources = q.sources /\ q2.status = "reading"
      BY <1>2, <1>5, ReadOption
    <3> HIDE DEF p2, q2, r2
    <3>3. Related(p2, r2, q2)
      BY <1>5, <2>1, <2>2, <2>4, <3>1, <3>2 DEF Related
    <3> QED
      BY <3>1, <3>3 DEF p2, q2, r2
  <2> QED
    BY <2>3, <2>4
<1>6. CASE word \notin Commands!FlagsOf /\ word \notin Commands!ValuedOptions
  <2>1. ~Commands!IsOption(word) /\ p2.sources = Append(p.sources, word) /\ program = "analyze"
        /\ p2.pending = "none" /\ p2.flags = p.flags /\ p2.options = p.options
    BY <1>6, ReadSource, EndedIs
  <2>2. word \notin Commands!Placing /\ word # "--force-cpu"
    BY <2>1, Vocabulary
  <2>3. r2.command = Append(r.command, word) /\ ~r2.skip /\ ~r2.copy
    BY <1>2, <2>1, <2>2, Recovering
  <2>4. q2 = [q EXCEPT !.sources = Append(q.sources, word)]
    BY <1>2, <1>6, <2>1 DEF Commands!Read
  <2> HIDE DEF p2, q2, r2
  <2>5. q2 = [status |-> q.status, pending |-> q.pending, options |-> q.options,
              flags |-> q.flags, sources |-> Append(q.sources, word)]
    BY <2>4 DEF IsParser
  <2>6. Related(p2, r2, q2)
    BY <1>1, <1>2, <2>1, <2>3, <2>5 DEF Related
  <2> QED
    BY <2>3, <2>6 DEF p2, q2, r2
<1> QED
  BY <1>3, <1>4, <1>5, <1>6

FivePrograms == {"analyze", "score", "identity", "prepare", "run"}

LEMMA EmptyIs == Commands!Empty = [status |-> "reading", pending |-> "none", options |-> <<>>,
                                   flags |-> {}, sources |-> <<>>]
BY DEF Commands!Empty

\* The parser after an argument, outside of comparisons.
LEMMA ArgumentIs ==
  ASSUME program \in {"analyze", "score"}, NEW p, NEW word
  PROVE  Commands!ReadArgument(p, word) = Commands!Read(p, word)
BY Zenon DEF Commands!ReadArgument, Commands!Comparisons

\* What the recovered command means to the parser follows what was typed.
Followed(p, arguments) ==
  /\ Commands!Recovered(arguments) \in Recoveries
  /\ IsParser(Commands!ParseArguments(Commands!Recovered(arguments).command))
  /\ Related(p, Commands!Recovered(arguments),
             Commands!ParseArguments(Commands!Recovered(arguments).command))

LEMMA NothingFollowed == Followed(Commands!Empty, <<>>)
<1> DEFINE r == Commands!Recovered(<<>>)
<1> DEFINE q == Commands!ParseArguments(r.command)
<1>1. r = [skip |-> FALSE, copy |-> FALSE, command |-> <<>>]
  BY RecoveringNone, Zenon
<1> HIDE DEF r
<1>2. r \in Recoveries /\ r.command = <<>> /\ ~r.skip /\ ~r.copy
  BY <1>1 DEF Recoveries
<1>3. q = Commands!Empty
  BY <1>2, ParsingNone, Zenon
<1> HIDE DEF q
<1>4. IsParser(q)
  BY <1>3, EmptyIs DEF IsParser
<1> DEFINE p == Commands!Empty
<1>5. p = [status |-> "reading", pending |-> "none", options |-> <<>>, flags |-> {}, sources |-> <<>>]
  BY EmptyIs, Zenon
<1>6. q = p
  BY <1>3, Zenon
<1> HIDE DEF p
<1>7. "none" \notin Commands!Placing
  BY DEF Commands!Placing, Commands!Selecting
<1>8. Related(p, r, q)
  BY <1>2, <1>5, <1>6, <1>7 DEF Related
<1> QED
  BY <1>2, <1>4, <1>8, Zenon DEF Followed, p, q, r

\* Whatever argument comes next, the recovered command still follows.
LEMMA FollowedStep ==
  ASSUME program \in {"analyze", "score"},
         NEW p, IsParser(p), p.status = "reading",
         NEW arguments \in Seq(Words), NEW word \in Words, Followed(p, arguments),
         Commands!Read(p, word).status = "reading"
  PROVE  Followed(Commands!Read(p, word), Append(arguments, word))
<1> DEFINE r == Commands!Recovered(arguments)
<1> DEFINE r2 == Commands!Recovered(Append(arguments, word))
<1> DEFINE q == Commands!ParseArguments(r.command)
<1> DEFINE p2 == Commands!Read(p, word)
<1>1. r \in Recoveries /\ IsParser(q) /\ Related(p, r, q)
  BY Zenon DEF Followed
<1>2. r2 = Commands!Recover(r, word)
  BY RecoveringMore, Zenon
<1>3. r2 \in Recoveries
  <2> HIDE DEF r, r2
  <2> QED
    BY <1>1, <1>2, Recovering, Zenon
<1>4. \/ r2.command = r.command /\ Related(p2, r2, q)
      \/ r2.command = Append(r.command, word) /\ Related(p2, r2, Commands!Read(q, word))
  <2> HIDE DEF r, r2, q
  <2>1. CASE p.pending # "none"
    BY <1>1, <1>2, <2>1, ValueStep
  <2>2. CASE p.pending = "none"
    BY <1>1, <1>2, <2>2, WordStep, Zenon
  <2> QED
    BY <2>1, <2>2
<1>5. CASE r2.command = r.command /\ Related(p2, r2, q)
  BY <1>1, <1>3, <1>5, Zenon DEF Followed
<1>6. CASE r2.command = Append(r.command, word) /\ Related(p2, r2, Commands!Read(q, word))
  <2> HIDE DEF r, r2
  <2>1. r.command \in Seq(Words)
    BY <1>1 DEF Recoveries
  <2>2. Commands!ParseArguments(r2.command) = Commands!ReadArgument(q, word)
    BY <1>6, <2>1, ParsingMore, Zenon
  <2>3. Commands!ParseArguments(r2.command) = Commands!Read(q, word)
    BY <2>2, ArgumentIs, Zenon
  <2>4. IsParser(Commands!Read(q, word))
    BY <1>1, ReadIsParser, Zenon
  <2> QED
    BY <1>3, <1>6, <2>3, <2>4, Zenon DEF Followed, r2
<1> QED
  BY <1>4, <1>5, <1>6, Zenon

\* How a command line that is accepted is taken.
Layers(options) == Commands!Value(options, "--gpu-layers", "none")
Backing(options) == Commands!Value(options, "--backend", "auto")
Execution(p) ==
  Commands!ResolveExecution(Backing(p.options), Layers(p.options), "--force-cpu" \in p.flags)

Acceptable(p, environment) ==
  /\ p.status = "reading" /\ p.pending = "none" /\ Commands!Requires(p) /\ Commands!KnownModel(p)
  /\ ~Commands!Contradictory(Backing(p.options), Layers(p.options), "--force-cpu" \in p.flags)
  /\ ~Commands!BadScoring(p.options, Execution(p), environment)

LEMMA RefusedIs == Commands!Refused.accepted = FALSE
<1> DEFINE e == Commands!Empty
<1>1. Commands!Refused = [accepted |-> FALSE, execution |-> <<"none", "none">>, directory |-> "unset",
                          options |-> e.options, flags |-> e.flags, sources |-> e.sources]
  BY Zenon DEF Commands!Refused, Commands!Answer
<1> HIDE DEF e
<1> QED
  BY <1>1

LEMMA ValidateIs ==
  ASSUME NEW p, NEW e
  PROVE  Commands!Validate(p, e) =
           IF \/ Commands!Contradictory(Backing(p.options), Layers(p.options), "--force-cpu" \in p.flags)
              \/ Commands!BadScoring(p.options, Execution(p), e)
           THEN Commands!Refused
           ELSE Commands!Answer(p, TRUE, Execution(p), Commands!Directory(p.options, Execution(p), e))
BY Zenon DEF Commands!Validate, Backing, Layers, Execution

LEMMA AcceptIs ==
  ASSUME NEW p, NEW e
  PROVE  Commands!Accept(p, e) =
           IF Acceptable(p, e)
           THEN [accepted |-> TRUE, execution |-> Execution(p),
                 directory |-> Commands!Directory(p.options, Execution(p), e),
                 options |-> p.options, flags |-> p.flags, sources |-> p.sources]
           ELSE Commands!Refused
<1>1. CASE Acceptable(p, e)
  <2>1. Commands!Accept(p, e) = Commands!Validate(p, e)
    BY <1>1, Zenon DEF Acceptable, Commands!Accept
  <2>2. Commands!Validate(p, e)
          = Commands!Answer(p, TRUE, Execution(p), Commands!Directory(p.options, Execution(p), e))
    BY <1>1, ValidateIs, Zenon DEF Acceptable
  <2> QED
    BY <1>1, <2>1, <2>2, Zenon DEF Commands!Answer
<1>2. CASE ~Acceptable(p, e)
  <2>1. Commands!Accept(p, e) = Commands!Refused
    BY <1>2, ValidateIs, Zenon DEF Acceptable, Commands!Accept
  <2> QED
    BY <1>2, <2>1, Zenon
<1> QED
  BY <1>1, <1>2, Zenon

LEMMA Accepting ==
  ASSUME NEW p, NEW e, NEW a, a = Commands!Accept(p, e)
  PROVE  /\ a.accepted <=> Acceptable(p, e)
         /\ a = Commands!Refused \/ Acceptable(p, e)
         /\ Acceptable(p, e) =>
              /\ a.accepted /\ a.execution = Execution(p)
              /\ a.directory = Commands!Directory(p.options, Execution(p), e)
              /\ a.options = p.options /\ a.flags = p.flags /\ a.sources = p.sources
<1>1. CASE Acceptable(p, e)
  <2> DEFINE x == Execution(p)
  <2> DEFINE d == Commands!Directory(p.options, x, e)
  <2>1. a = [accepted |-> TRUE, execution |-> x, directory |-> d,
             options |-> p.options, flags |-> p.flags, sources |-> p.sources]
    BY <1>1, AcceptIs, Zenon
  <2> HIDE DEF x, d
  <2>2. /\ a.accepted /\ a.execution = x /\ a.directory = d
        /\ a.options = p.options /\ a.flags = p.flags /\ a.sources = p.sources
    BY <2>1
  <2> QED
    BY <1>1, <2>2, Zenon DEF x, d
<1>2. CASE ~Acceptable(p, e)
  <2>1. a = Commands!Refused
    BY <1>2, AcceptIs, Zenon
  <2> QED
    BY <1>2, <2>1, RefusedIs, Zenon
<1> QED
  BY <1>1, <1>2, Zenon

\* What was typed is accepted for the CPU, too.
LEMMA CpuIsAcceptable ==
  ASSUME program \in {"analyze", "score"},
         NEW p, NEW before, Acceptable(p, before),
         NEW t, t.status = "reading", t.pending = "none", "--force-cpu" \in t.flags,
         t.sources = p.sources,
         \A o : o \in DOMAIN t.options <=> o \in DOMAIN p.options /\ o \notin Commands!Placing,
         \A o \in DOMAIN t.options : t.options[o] = p.options[o], NEW after
  PROVE  /\ Acceptable(t, after) /\ Execution(t) = <<"cpu", "0">>
         /\ Commands!Directory(t.options, Execution(t), after) = "unset"
<1> DEFINE options == p.options
<1> DEFINE others == t.options
<1>0. /\ \A o : o \in DOMAIN others <=> o \in DOMAIN options /\ o \notin Commands!Placing
      /\ \A o \in DOMAIN others : others[o] = options[o]
  OBVIOUS
<1> HIDE DEF options, others
<1>1. \A o \in Commands!Placing : o \notin DOMAIN others
  BY <1>0
<1>2. ASSUME NEW o, o \notin Commands!Placing, NEW default
      PROVE  Commands!Value(others, o, default) = Commands!Value(options, o, default)
  <2>1. o \in DOMAIN others <=> o \in DOMAIN options
    BY <1>0, <1>2
  <2>2. o \in DOMAIN others => others[o] = options[o]
    BY <1>0
  <2> QED
    BY <2>1, <2>2, Zenon DEF Commands!Value
<1>3. /\ "--gpu-layers" \in Commands!Placing /\ "--backend" \in Commands!Placing
      /\ "--device" \in Commands!Placing /\ "--gpu-policy" \in Commands!Placing
      /\ "--gpu-min-free" \in Commands!Placing /\ "--backend-dir" \in Commands!Placing
      /\ "--entropy-reduction" \in Commands!Placing
  BY DEF Commands!Placing, Commands!Selecting
<1>4. /\ "--tau" \notin Commands!Placing /\ "--tau-percentile" \notin Commands!Placing
      /\ "--alpha" \notin Commands!Placing /\ "--kv-cache-type" \notin Commands!Placing
      /\ "--flash-attn" \notin Commands!Placing /\ "--model" \notin Commands!Placing
      /\ "--model-name" \notin Commands!Placing
  BY DEF Commands!Placing, Commands!Selecting
<1>5. Backing(others) = "auto" /\ Layers(others) = "none"
  BY <1>1, <1>3, Zenon DEF Backing, Layers, Commands!Value
<1>6. Execution(t) = <<"cpu", "0">>
  BY Zenon DEF Execution, Commands!ResolveExecution
<1>7. ~Commands!Contradictory(Backing(others), Layers(others), "--force-cpu" \in t.flags)
  BY <1>5 DEF Commands!Contradictory
<1>8. Commands!Directory(others, <<"cpu", "0">>, after) = "unset"
  BY <1>1, <1>3 DEF Commands!Directory, Commands!ShouldFetchBackend
<1>9. ~Commands!Unsound(others, "0")
  <2>1. Commands!Value(others, "--gpu-policy", "preserve") = "preserve"
        /\ Commands!Value(others, "--gpu-min-free", "0") = "0" /\ "--device" \notin DOMAIN others
    BY <1>1, <1>3, Zenon DEF Commands!Value
  <2> QED
    BY <2>1, Zenon DEF Commands!Unsound
<1>10. ~Commands!BadScoring(options, Execution(p), before)
  BY Zenon DEF Acceptable, options
<1>11. ~({"--tau", "--tau-percentile"} \subseteq DOMAIN others)
  <2>1. ~({"--tau", "--tau-percentile"} \subseteq DOMAIN options)
    BY <1>10, Zenon DEF Commands!BadScoring
  <2> QED
    BY <1>0, <2>1
<1>12. ~(/\ Commands!Value(others, "--kv-cache-type", "q8_0") # "f16"
         /\ Commands!Value(others, "--flash-attn", "on") = "off")
  <2>1. ~(/\ Commands!Value(options, "--kv-cache-type", "q8_0") # "f16"
          /\ Commands!Value(options, "--flash-attn", "on") = "off")
    BY <1>10, Zenon DEF Commands!BadScoring
  <2> QED
    BY <1>2, <1>4, <2>1, Zenon
<1>13. ASSUME NEW o \in {"--tau", "--tau-percentile", "--alpha"}
       PROVE  Commands!Value(others, o, "0") # "-1"
  <2>1. Commands!Value(options, o, "0") # "-1"
    BY <1>10, Zenon DEF Commands!BadScoring
  <2>2. o \notin Commands!Placing
    BY <1>4
  <2> QED
    BY <1>2, <2>1, <2>2, Zenon
<1>14. Commands!Value(others, "--entropy-reduction", "auto") # "device"
  <2>1. Commands!Value(others, "--entropy-reduction", "auto") = "auto"
    BY <1>1, <1>3, Zenon DEF Commands!Value
  <2> QED
    BY <2>1
<1>15. ~Commands!BadScoring(others, <<"cpu", "0">>, after)
  <2>1. <<"cpu", "0">>[2] = "0" /\ "unset" # "missing"
    OBVIOUS
  <2> QED
    BY <1>8, <1>9, <1>11, <1>12, <1>13, <1>14, <2>1, Zenon DEF Commands!BadScoring
<1>16. Commands!KnownModel(t)
  <2>1. Commands!KnownModel(p)
    BY Zenon DEF Acceptable
  <2> QED
    BY <1>2, <1>4, <2>1, Zenon DEF Commands!KnownModel, options, others
<1>17. Commands!Requires(t)
  <2>1. Commands!Requires(p)
    BY Zenon DEF Acceptable
  <2>2. CASE program = "analyze"
    BY <2>1, <2>2 DEF Commands!Requires
  <2>3. CASE program = "score"
    <3>1. \A r : Commands!Requires(r) <=> \E o \in {"--model", "--model-name"} : o \in DOMAIN r.options
      BY <2>3 DEF Commands!Requires
    <3>2. PICK o \in {"--model", "--model-name"} : o \in DOMAIN options
      BY <2>1, <3>1, Zenon DEF options
    <3>3. o \in DOMAIN others
      BY <1>0, <1>4, <3>2
    <3> QED
      BY <3>1, <3>3, Zenon DEF others
  <2> QED
    BY <2>2, <2>3
<1> QED
  BY <1>6, <1>7, <1>8, <1>15, <1>16, <1>17, Zenon DEF Acceptable, others

\* The recovered command with --force-cpu is taken as OnCpu says.
LEMMA RerunIsOnCpu ==
  ASSUME program \in {"analyze", "score"}, argv \in Seq(Words), Followed(parsed, argv),
         NEW before, answer = Commands!Accept(parsed, before), answer.accepted,
         NEW after, NEW rerun,
         rerun = Commands!Accept(Commands!ParseArguments(Commands!CpuRecoveryCommand(argv)), after)
  PROVE  Commands!OnCpu(after, rerun)
<1> DEFINE r == Commands!Recovered(argv)
<1> DEFINE q == Commands!ParseArguments(r.command)
<1> DEFINE t == Commands!ParseArguments(Commands!CpuRecoveryCommand(argv))
<1> DEFINE p == parsed
<1>1. r \in Recoveries /\ IsParser(q) /\ Related(p, r, q)
  BY Zenon DEF Followed
<1>2. Commands!CpuRecoveryCommand(argv) = Append(r.command, "--force-cpu")
  BY Zenon DEF Commands!CpuRecoveryCommand
<1>3. Acceptable(p, before) /\ answer.options = p.options /\ answer.flags = p.flags
      /\ answer.sources = p.sources
  BY Accepting, Zenon
<1>4. p.status = "reading" /\ p.pending = "none"
  BY <1>3, Zenon DEF Acceptable
<1> HIDE DEF r, q, p
<1>5. r.command \in Seq(Words) /\ "--force-cpu" \in Words
  <2>1. r.command \in Seq(Words)
    BY <1>1 DEF Recoveries
  <2>2. "--force-cpu" \in Words
    BY DEF Words
  <2> QED
    BY <2>1, <2>2
<1>6. t = Commands!Read(q, "--force-cpu")
  <2>1. t = Commands!ReadArgument(q, "--force-cpu")
    BY <1>2, <1>5, ParsingMore, Zenon DEF q
  <2> QED
    BY <2>1, ArgumentIs, Zenon
<1> HIDE DEF t
<1>7. /\ q.status = "reading" /\ q.pending = "none"
      /\ DOMAIN q.options = DOMAIN p.options \ Commands!Placing
      /\ \A o \in DOMAIN q.options : q.options[o] = p.options[o]
      /\ q.flags = p.flags \ {"--force-cpu"} /\ q.sources = p.sources
  <2>1. "none" \notin Commands!Placing
    BY DEF Commands!Placing, Commands!Selecting
  <2> QED
    BY <1>1, <1>4, <2>1 DEF Related
<1>8. t = [status |-> "reading", pending |-> "none", options |-> q.options,
           flags |-> q.flags \cup Commands!Meaning("--force-cpu"), sources |-> q.sources]
  <2>1. "--force-cpu" \in Commands!FlagsOf
    BY Vocabulary
  <2> QED
    BY <1>1, <1>6, <1>7, <2>1, ReadFlag, Zenon
<1>9. Commands!Meaning("--force-cpu") = {"--force-cpu"}
  BY DEF Commands!Meaning
<1>10. t.status = "reading" /\ t.pending = "none" /\ t.options = q.options
       /\ t.flags = q.flags \cup {"--force-cpu"} /\ t.sources = q.sources
  BY <1>8, <1>9
<1>11. t.flags = p.flags \cup {"--force-cpu"} /\ "--force-cpu" \in t.flags
  BY <1>7, <1>10
<1>12. DOMAIN t.options = DOMAIN p.options \ Commands!Placing
       /\ \A o \in DOMAIN t.options : t.options[o] = p.options[o]
  BY <1>7, <1>10, Zenon
<1>13. t.sources = p.sources
  BY <1>7, <1>10, Zenon
<1>14. /\ Acceptable(t, after) /\ Execution(t) = <<"cpu", "0">>
       /\ Commands!Directory(t.options, Execution(t), after) = "unset"
  <2>1. \A o : o \in DOMAIN t.options <=> o \in DOMAIN p.options /\ o \notin Commands!Placing
    BY <1>12
  <2> QED
    <3>1. \A o \in DOMAIN t.options : t.options[o] = p.options[o]
      BY <1>12, Zenon
    <3>2. t.status = "reading" /\ t.pending = "none"
      BY <1>10, Zenon
    <3>3. "--force-cpu" \in t.flags
      BY <1>11, Zenon
    <3>4. Acceptable(p, before)
      BY <1>3, Zenon
    <3> QED
      BY <3>1, <3>2, <3>3, <3>4, <1>13, <2>1, CpuIsAcceptable
<1>15. /\ rerun.accepted /\ rerun.execution = <<"cpu", "0">> /\ rerun.directory = "unset"
       /\ rerun.options = t.options /\ rerun.flags = t.flags /\ rerun.sources = t.sources
  BY <1>14, Accepting, Zenon DEF t
<1>16. rerun.sources = answer.sources /\ rerun.flags = answer.flags \cup {"--force-cpu"}
  BY <1>3, <1>11, <1>13, <1>15, Zenon
<1>17. DOMAIN rerun.options = DOMAIN answer.options \ Commands!Placing
       /\ \A o \in DOMAIN rerun.options : rerun.options[o] = answer.options[o]
  BY <1>3, <1>12, <1>15, Zenon
<1> QED
  BY <1>15, <1>16, <1>17, Zenon DEF Commands!OnCpu

\* The values that stand for a missing one in a plan are not given.
Stated(options) ==
  \A o \in {"--tau", "--tau-percentile"} : o \in DOMAIN options => options[o] # "null"
StatedBy(p) == Stated(p.options)

LEMMA PlainRead ==
  ASSUME NEW p, IsParser(p), StatedBy(p), NEW word, NEW q, q = Commands!Read(p, word)
  PROVE  StatedBy(q)
<1>0. q = Commands!Ended => StatedBy(q)
  <2>1. \A e : e = Commands!Empty => LET f == [e EXCEPT !.status = "ended"] IN f.options = <<>>
    <3> SUFFICES ASSUME NEW e, e = Commands!Empty, NEW f, f = [e EXCEPT !.status = "ended"]
                 PROVE  f.options = <<>>
      BY Zenon
    <3>1. e
            = [status |-> "reading", pending |-> "none", options |-> <<>>, flags |-> {}, sources |-> <<>>]
      BY EmptyIs, Zenon
    <3> QED
      BY <3>1
  <2>2. Commands!Ended.options = <<>>
    BY <2>1, Zenon DEF Commands!Ended
  <2> QED
    BY <2>2 DEF StatedBy, Stated
<1>1. CASE p.status # "reading"
  BY <1>1 DEF Commands!Read
<1>2. CASE p.status = "reading" /\ p.pending # "none" /\ q # Commands!Ended
  <2> DEFINE before == p.options
  <2> DEFINE after == q.options
  <2> DEFINE value == Commands!Spelled(word)
  <2>1. Commands!Takes(p.pending, word) /\ after = Commands!With(before, p.pending, value)
    BY <1>2, ReadValue
  <2> HIDE DEF before, after, value
  <2>2. /\ \A o : o \in DOMAIN after <=> o \in DOMAIN before \/ o = p.pending
        /\ after[p.pending] = value
        /\ \A o \in DOMAIN before : o # p.pending => after[o] = before[o]
    BY <2>1, WithIs
  <2>3. ASSUME NEW o \in {"--tau", "--tau-percentile"}, o \in DOMAIN after PROVE after[o] # "null"
    <3>1. CASE o = p.pending
      <4>1. word \in Commands!Numbers
        BY <2>1, <2>3, <3>1 DEF Commands!Takes
      <4>2. value # "null"
        BY <4>1 DEF Commands!Numbers, Commands!Spelled, value
      <4> QED
        BY <2>2, <3>1, <4>2
    <3>2. CASE o # p.pending
      <4>1. o \in DOMAIN before /\ after[o] = before[o]
        BY <2>2, <2>3, <3>2
      <4>2. before[o] # "null"
        BY <4>1 DEF StatedBy, Stated, before
      <4> QED
        BY <4>1, <4>2
    <3> QED
      BY <3>1, <3>2
  <2> QED
    BY <2>3 DEF StatedBy, Stated, after
<1>3. CASE p.status = "reading" /\ p.pending = "none" /\ q # Commands!Ended
  <2>1. q.options = p.options
    <3>1. CASE word \in Commands!FlagsOf
      BY <1>3, <3>1, ReadFlag
    <3>2. CASE word \notin Commands!FlagsOf /\ word \in Commands!ValuedOptions
      BY <1>3, <3>2, ReadOption
    <3>3. CASE word \notin Commands!FlagsOf /\ word \notin Commands!ValuedOptions
      BY <1>3, <3>3, ReadSource
    <3> QED
      BY <3>1, <3>2, <3>3
  <2> QED
    BY <2>1, Zenon DEF StatedBy
<1> QED
  BY <1>0, <1>1, <1>2, <1>3, Zenon

LEMMA PlainArgument ==
  ASSUME NEW p, IsParser(p), StatedBy(p), NEW word
  PROVE  IsParser(Commands!ReadArgument(p, word)) /\ StatedBy(Commands!ReadArgument(p, word))
<1>1. CASE Commands!ReadArgument(p, word) = Commands!Read(p, word)
  BY <1>1, ReadIsParser, PlainRead, Zenon
<1>2. CASE Commands!ReadArgument(p, word) = Commands!ReadResponse(p)
  <2>1. PICK f : /\ Commands!ReadResponse(p) = f[Len(ResponseFile)] /\ f[0] = p
                 /\ \A i \in 1..Len(ResponseFile) : f[i] = Commands!Read(f[i - 1], ResponseFile[i])
    BY ResponseIs, Zenon
  <2> DEFINE T == {k \in Nat : k <= Len(ResponseFile) => IsParser(f[k]) /\ StatedBy(f[k])}
  <2>2. 0 \in T
    BY <2>1
  <2>3. ASSUME NEW k \in Nat, k \in T PROVE k + 1 \in T
    <3> SUFFICES ASSUME k + 1 <= Len(ResponseFile)
                 PROVE  IsParser(f[k + 1]) /\ StatedBy(f[k + 1])
      OBVIOUS
    <3>0. Len(ResponseFile) \in Nat
      BY CommandAssumption
    <3>1. k + 1 \in 1..Len(ResponseFile) /\ (k + 1) - 1 = k /\ k <= Len(ResponseFile)
      BY <3>0
    <3>2. f[k + 1] = Commands!Read(f[k], ResponseFile[k + 1])
      BY <2>1, <3>1, Zenon
    <3>3. IsParser(f[k]) /\ StatedBy(f[k])
      BY <2>3, <3>1
    <3> QED
      BY <3>2, <3>3, ReadIsParser, PlainRead, Zenon
  <2>4. Len(ResponseFile) \in Nat
    BY CommandAssumption
  <2>5. Len(ResponseFile) \in T
    BY <2>2, <2>3, <2>4, CountUp
  <2>6. IsParser(f[Len(ResponseFile)]) /\ StatedBy(f[Len(ResponseFile)])
    BY <2>4, <2>5
  <2> QED
    BY <1>2, <2>1, <2>6, Zenon
<1> QED
  BY <1>1, <1>2, Zenon DEF Commands!ReadArgument

\* A place that is not to be chosen any more.
Definite(x) ==
  \/ x = <<"cpu", "0">>
  \/ \E b, l : x = <<b, l>> /\ b # "cpu" /\ l # "0" /\ l # "none"

LEMMA ResolveIs ==
  ASSUME NEW b, NEW l, NEW forced, NEW x, x = Commands!ResolveExecution(b, l, forced)
  PROVE  \/ x = <<"cpu", "0">>
         \/ /\ ~forced /\ b # "cpu" /\ l # "0"
            /\ \E m : m = (IF l = "none" THEN "-1" ELSE l) /\ x = <<b, m>>
                      /\ m # "0" /\ m # "none"
<1> DEFINE m == IF l = "none" THEN "-1" ELSE l
<1>1. CASE forced \/ b = "cpu" \/ l = "0"
  BY <1>1 DEF Commands!ResolveExecution
<1>2. CASE ~(forced \/ b = "cpu" \/ l = "0")
  <2>1. x = <<b, m>>
    BY <1>2, Zenon DEF Commands!ResolveExecution
  <2>2. m # "0" /\ m # "none"
    BY <1>2
  <2> QED
    BY <1>2, <2>1, <2>2, Zenon
<1> QED
  BY <1>1, <1>2, Zenon

LEMMA DefiniteAgain ==
  ASSUME NEW x, Definite(x), x[1] # "auto", NEW backend, NEW layers,
         x = <<"cpu", "0">> => backend = "cpu" /\ layers = "0",
         x # <<"cpu", "0">> => backend = x[1] /\ layers = x[2]
  PROVE  /\ Commands!ResolveExecution(backend, layers, FALSE) = x
         /\ ~Commands!Contradictory(backend, layers, FALSE)
<1>1. CASE x = <<"cpu", "0">>
  <2>1. backend = "cpu" /\ layers = "0"
    BY <1>1, Zenon
  <2> QED
    BY <1>1, <2>1 DEF Commands!ResolveExecution, Commands!Contradictory
<1>2. CASE x # <<"cpu", "0">>
  <2>1. PICK b, l : x = <<b, l>> /\ b # "cpu" /\ l # "0" /\ l # "none"
    BY <1>2 DEF Definite
  <2>2. backend = b /\ layers = l
    BY <1>2, <2>1
  <2>3. Commands!ResolveExecution(backend, layers, FALSE) = x
    BY <2>1, <2>2, Zenon DEF Commands!ResolveExecution
  <2>4. ~Commands!Contradictory(backend, layers, FALSE)
    BY <2>1, <2>2, Zenon DEF Commands!Contradictory
  <2> QED
    BY <2>3, <2>4
<1> QED
  BY <1>1, <1>2

\* What is in the plan is what was answered, but for what was left open.
Planned(s, x, options) ==
  /\ s = Commands!ScoringJson(options, x) /\ Commands!Explicit(options, x) /\ Definite(x)
  /\ x[2] = answer.execution[2] /\ answer.execution[1] \in {"auto", x[1]}
  /\ \A o : o # "--backend" /\ o # "--entropy-reduction" =>
       /\ o \in DOMAIN options <=> o \in DOMAIN answer.options
       /\ o \in DOMAIN answer.options => options[o] = answer.options[o]
  /\ "--entropy-reduction" \in DOMAIN options
  /\ "--entropy-reduction" \in DOMAIN answer.options =>
       answer.options["--entropy-reduction"] \in {"auto", options["--entropy-reduction"]}

LEMMA ScoringIs ==
  ASSUME NEW options, NEW x, NEW s, s = Commands!ScoringJson(options, x)
  PROVE  /\ s.backend = IF x = <<"cpu", "0">> THEN <<"cpu">> ELSE x
         /\ s.context = Commands!Value(options, "--context", "default")
         /\ s.batch_size = Commands!Value(options, "--batch-size", "default")
         /\ s.entropy_reduction = Commands!Reduction(options)
         /\ s.flash_attn = Commands!Value(options, "--flash-attn", "on")
         /\ s.kv_cache_type = Commands!Value(options, "--kv-cache-type", "q8_0")
         /\ s.kv_offload = Commands!Value(options, "--kv-offload", "on")
         /\ s.hierarchy = Commands!Value(options, "--hierarchy", "structural")
         /\ s.tau = IF "--tau-percentile" \in DOMAIN options THEN "null"
                    ELSE Commands!Value(options, "--tau", "default")
         /\ s.tau_percentile = Commands!Value(options, "--tau-percentile", "null")
         /\ s.alpha = Commands!Value(options, "--alpha", "default")
BY DEF Commands!ScoringJson, Commands!Absent

LEMMA SameScoring ==
  ASSUME NEW options, NEW others, NEW x,
         Commands!Reduction(options) = Commands!Reduction(others),
         Commands!Value(options, "--context", "default")
           = Commands!Value(others, "--context", "default"),
         Commands!Value(options, "--batch-size", "default")
           = Commands!Value(others, "--batch-size", "default"),
         Commands!Value(options, "--flash-attn", "on") = Commands!Value(others, "--flash-attn", "on"),
         Commands!Value(options, "--kv-cache-type", "q8_0")
           = Commands!Value(others, "--kv-cache-type", "q8_0"),
         Commands!Value(options, "--kv-offload", "on") = Commands!Value(others, "--kv-offload", "on"),
         Commands!Value(options, "--hierarchy", "structural")
           = Commands!Value(others, "--hierarchy", "structural"),
         (IF "--tau-percentile" \in DOMAIN options THEN "null"
          ELSE Commands!Value(options, "--tau", "default"))
           = (IF "--tau-percentile" \in DOMAIN others THEN "null"
              ELSE Commands!Value(others, "--tau", "default")),
         Commands!Value(options, "--tau-percentile", "null")
           = Commands!Value(others, "--tau-percentile", "null"),
         Commands!Value(options, "--alpha", "default") = Commands!Value(others, "--alpha", "default")
  PROVE  Commands!ScoringJson(options, x) = Commands!ScoringJson(others, x)
BY Zenon DEF Commands!ScoringJson, Commands!Absent

LEMMA ReadBackIs ==
  ASSUME NEW s, NEW back, back = Commands!ReadBack(s)
  PROVE  /\ \A o : o \in DOMAIN back <=>
              \/ o \in {"--backend", "--gpu-layers", "--context", "--batch-size",
                       "--entropy-reduction", "--flash-attn", "--kv-cache-type",
                       "--kv-offload", "--hierarchy", "--alpha"}
              \/ o = "--tau" /\ s.tau # "null"
              \/ o = "--tau-percentile" /\ s.tau_percentile # "null"
         /\ back["--backend"] = s.backend[1]
         /\ back["--gpu-layers"] = IF s.backend = <<"cpu">> THEN "0" ELSE s.backend[2]
         /\ back["--context"] = s.context
         /\ back["--batch-size"] = s.batch_size
         /\ back["--entropy-reduction"] = s.entropy_reduction
         /\ back["--flash-attn"] = s.flash_attn
         /\ back["--kv-cache-type"] = s.kv_cache_type
         /\ back["--kv-offload"] = s.kv_offload
         /\ back["--hierarchy"] = s.hierarchy
         /\ s.tau # "null" => back["--tau"] = s.tau
         /\ s.tau_percentile # "null" => back["--tau-percentile"] = s.tau_percentile
         /\ back["--alpha"] = s.alpha
BY DEF Commands!ReadBack, Commands!Absent

\* The options that are read from the plan.
LEMMA BackIs ==
  ASSUME NEW s, NEW x, NEW options, Planned(s, x, options), NEW back, back = Commands!ReadBack(s),
         Stated(options)
  PROVE  /\ Commands!Reduction(back) = Commands!Reduction(options)
         /\ \A o \in {"--flash-attn", "--kv-cache-type", "--kv-offload", "--hierarchy",
                      "--context", "--batch-size", "--alpha"} :
              /\ o \in DOMAIN back
              /\ o \in DOMAIN options => back[o] = options[o]
         /\ back["--flash-attn"] = Commands!Value(options, "--flash-attn", "on")
         /\ back["--kv-cache-type"] = Commands!Value(options, "--kv-cache-type", "q8_0")
         /\ back["--kv-offload"] = Commands!Value(options, "--kv-offload", "on")
         /\ back["--hierarchy"] = Commands!Value(options, "--hierarchy", "structural")
         /\ back["--context"] = Commands!Value(options, "--context", "default")
         /\ back["--batch-size"] = Commands!Value(options, "--batch-size", "default")
         /\ back["--alpha"] = Commands!Value(options, "--alpha", "default")
         /\ "--tau-percentile" \in DOMAIN options =>
              /\ "--tau-percentile" \in DOMAIN back /\ "--tau" \notin DOMAIN back
              /\ back["--tau-percentile"] = options["--tau-percentile"]
         /\ "--tau-percentile" \notin DOMAIN options =>
              /\ "--tau-percentile" \notin DOMAIN back /\ "--tau" \in DOMAIN back
              /\ back["--tau"] = Commands!Value(options, "--tau", "default")
<1>0. s = Commands!ScoringJson(options, x)
  BY Zenon DEF Planned
<1>1. /\ s.context = Commands!Value(options, "--context", "default")
      /\ s.batch_size = Commands!Value(options, "--batch-size", "default")
      /\ s.entropy_reduction = Commands!Reduction(options)
      /\ s.flash_attn = Commands!Value(options, "--flash-attn", "on")
      /\ s.kv_cache_type = Commands!Value(options, "--kv-cache-type", "q8_0")
      /\ s.kv_offload = Commands!Value(options, "--kv-offload", "on")
      /\ s.hierarchy = Commands!Value(options, "--hierarchy", "structural")
      /\ s.tau = IF "--tau-percentile" \in DOMAIN options THEN "null"
                 ELSE Commands!Value(options, "--tau", "default")
      /\ s.tau_percentile = Commands!Value(options, "--tau-percentile", "null")
      /\ s.alpha = Commands!Value(options, "--alpha", "default")
  BY <1>0, ScoringIs
<1>2. /\ \A o : o \in DOMAIN back <=>
           \/ o \in {"--backend", "--gpu-layers", "--context", "--batch-size",
                    "--entropy-reduction", "--flash-attn", "--kv-cache-type",
                    "--kv-offload", "--hierarchy", "--alpha"}
           \/ o = "--tau" /\ s.tau # "null"
           \/ o = "--tau-percentile" /\ s.tau_percentile # "null"
      /\ back["--context"] = s.context
      /\ back["--batch-size"] = s.batch_size
      /\ back["--entropy-reduction"] = s.entropy_reduction
      /\ back["--flash-attn"] = s.flash_attn
      /\ back["--kv-cache-type"] = s.kv_cache_type
      /\ back["--kv-offload"] = s.kv_offload
      /\ back["--hierarchy"] = s.hierarchy
      /\ s.tau # "null" => back["--tau"] = s.tau
      /\ s.tau_percentile # "null" => back["--tau-percentile"] = s.tau_percentile
      /\ back["--alpha"] = s.alpha
  BY ReadBackIs, Zenon
<1>3. Commands!Reduction(back) = Commands!Reduction(options)
  <2>1. "--entropy-reduction" \in DOMAIN back
    BY <1>2
  <2>2. Commands!Reduction(back) = back["--entropy-reduction"]
    BY <2>1, Zenon DEF Commands!Reduction, Commands!Value
  <2> QED
    BY <1>1, <1>2, <2>2, Zenon
<1>4. /\ back["--flash-attn"] = Commands!Value(options, "--flash-attn", "on")
      /\ back["--kv-cache-type"] = Commands!Value(options, "--kv-cache-type", "q8_0")
      /\ back["--kv-offload"] = Commands!Value(options, "--kv-offload", "on")
      /\ back["--hierarchy"] = Commands!Value(options, "--hierarchy", "structural")
      /\ back["--context"] = Commands!Value(options, "--context", "default")
      /\ back["--batch-size"] = Commands!Value(options, "--batch-size", "default")
      /\ back["--alpha"] = Commands!Value(options, "--alpha", "default")
  BY <1>1, <1>2, Zenon
<1>5. \A o \in {"--flash-attn", "--kv-cache-type", "--kv-offload", "--hierarchy",
                "--context", "--batch-size", "--alpha"} :
        /\ o \in DOMAIN back
        /\ o \in DOMAIN options => back[o] = options[o]
  <2>1. \A o \in {"--flash-attn", "--kv-cache-type", "--kv-offload", "--hierarchy",
                  "--context", "--batch-size", "--alpha"} : o \in DOMAIN back
    BY <1>2
  <2>2. \A o, default : o \in DOMAIN options => Commands!Value(options, o, default) = options[o]
    BY Zenon DEF Commands!Value
  <2> QED
    BY <1>4, <2>1, <2>2, Zenon
<1>6. ASSUME "--tau-percentile" \in DOMAIN options
      PROVE  /\ "--tau-percentile" \in DOMAIN back /\ "--tau" \notin DOMAIN back
             /\ back["--tau-percentile"] = options["--tau-percentile"]
  <2>1. s.tau = "null" /\ s.tau_percentile = options["--tau-percentile"]
    BY <1>1, <1>6, Zenon DEF Commands!Value
  <2>2. s.tau_percentile # "null"
    BY <1>6, <2>1 DEF Stated
  <2> QED
    BY <1>2, <2>1, <2>2
<1>7. ASSUME "--tau-percentile" \notin DOMAIN options
      PROVE  /\ "--tau-percentile" \notin DOMAIN back /\ "--tau" \in DOMAIN back
             /\ back["--tau"] = Commands!Value(options, "--tau", "default")
  <2>1. s.tau = Commands!Value(options, "--tau", "default") /\ s.tau_percentile = "null"
    BY <1>1, <1>7, Zenon DEF Commands!Value
  <2>2. s.tau # "null"
    <3>1. CASE "--tau" \in DOMAIN options
      <4>1. s.tau = options["--tau"]
        BY <2>1, <3>1, Zenon DEF Commands!Value
      <4> QED
        BY <3>1, <4>1 DEF Stated
    <3>2. CASE "--tau" \notin DOMAIN options
      <4>1. s.tau = "default"
        BY <2>1, <3>2, Zenon DEF Commands!Value
      <4> QED
        BY <4>1
    <3> QED
      BY <3>1, <3>2
  <2> QED
    BY <1>2, <2>1, <2>2
<1> QED
  BY <1>3, <1>4, <1>5, <1>6, <1>7, Zenon

\* The plan says again what it was made of.
LEMMA BackScoring ==
  ASSUME NEW s, NEW x, NEW options, Planned(s, x, options), NEW back, back = Commands!ReadBack(s),
         Stated(options)
  PROVE  Commands!ScoringJson(back, x) = s
<1>1. \A o \in DOMAIN back : \A default : Commands!Value(back, o, default) = back[o]
  BY Zenon DEF Commands!Value
<1>2. \A o : o \notin DOMAIN back => \A default : Commands!Value(back, o, default) = default
  BY Zenon DEF Commands!Value
<1>3. Commands!Reduction(back) = Commands!Reduction(options)
  BY BackIs, Zenon
<1>4. /\ "--flash-attn" \in DOMAIN back /\ "--kv-cache-type" \in DOMAIN back
      /\ "--kv-offload" \in DOMAIN back /\ "--hierarchy" \in DOMAIN back
      /\ "--context" \in DOMAIN back /\ "--batch-size" \in DOMAIN back
      /\ "--alpha" \in DOMAIN back
  BY ReadBackIs
<1>5. /\ Commands!Value(back, "--flash-attn", "on") = Commands!Value(options, "--flash-attn", "on")
      /\ Commands!Value(back, "--kv-cache-type", "q8_0")
           = Commands!Value(options, "--kv-cache-type", "q8_0")
      /\ Commands!Value(back, "--kv-offload", "on") = Commands!Value(options, "--kv-offload", "on")
      /\ Commands!Value(back, "--hierarchy", "structural")
           = Commands!Value(options, "--hierarchy", "structural")
      /\ Commands!Value(back, "--context", "default") = Commands!Value(options, "--context", "default")
      /\ Commands!Value(back, "--batch-size", "default")
           = Commands!Value(options, "--batch-size", "default")
      /\ Commands!Value(back, "--alpha", "default") = Commands!Value(options, "--alpha", "default")
  <2>1. /\ back["--flash-attn"] = Commands!Value(options, "--flash-attn", "on")
        /\ back["--kv-cache-type"] = Commands!Value(options, "--kv-cache-type", "q8_0")
        /\ back["--kv-offload"] = Commands!Value(options, "--kv-offload", "on")
        /\ back["--hierarchy"] = Commands!Value(options, "--hierarchy", "structural")
        /\ back["--context"] = Commands!Value(options, "--context", "default")
        /\ back["--batch-size"] = Commands!Value(options, "--batch-size", "default")
        /\ back["--alpha"] = Commands!Value(options, "--alpha", "default")
    BY BackIs
  <2> QED
    BY <1>1, <1>4, <2>1, Zenon
<1>6. (IF "--tau-percentile" \in DOMAIN back THEN "null" ELSE Commands!Value(back, "--tau", "default"))
        = (IF "--tau-percentile" \in DOMAIN options THEN "null"
           ELSE Commands!Value(options, "--tau", "default"))
      /\ Commands!Value(back, "--tau-percentile", "null")
           = Commands!Value(options, "--tau-percentile", "null")
  <2>1. CASE "--tau-percentile" \in DOMAIN options
    <3>1. "--tau-percentile" \in DOMAIN back /\ back["--tau-percentile"] = options["--tau-percentile"]
      BY <2>1, BackIs
    <3> QED
      BY <2>1, <3>1, Zenon DEF Commands!Value
  <2>2. CASE "--tau-percentile" \notin DOMAIN options
    <3>1. /\ "--tau-percentile" \notin DOMAIN back /\ "--tau" \in DOMAIN back
          /\ back["--tau"] = Commands!Value(options, "--tau", "default")
      BY <2>2, BackIs, Zenon
    <3>2. Commands!Value(back, "--tau", "default") = back["--tau"]
      BY <1>1, <3>1, Zenon
    <3>3. Commands!Value(back, "--tau-percentile", "null") = "null"
          /\ Commands!Value(options, "--tau-percentile", "null") = "null"
      BY <2>2, <3>1, Zenon DEF Commands!Value
    <3> QED
      BY <2>2, <3>1, <3>2, <3>3, Zenon
  <2> QED
    BY <2>1, <2>2, Zenon
<1>7. Commands!ScoringJson(back, x) = Commands!ScoringJson(options, x)
  BY <1>3, <1>5, <1>6, SameScoring, Zenon
<1> QED
  BY <1>7, Zenon DEF Planned

\* What a worker makes of a plan.
LEMMA BackExecution ==
  ASSUME NEW s, NEW x, NEW options, Planned(s, x, options), NEW back, back = Commands!ReadBack(s)
  PROVE  /\ Commands!ResolveExecution(Backing(back), Layers(back), FALSE) = x
         /\ ~Commands!Contradictory(Backing(back), Layers(back), FALSE)
<1>1. s.backend = IF x = <<"cpu", "0">> THEN <<"cpu">> ELSE x
  <2>1. s = Commands!ScoringJson(options, x)
    BY Zenon DEF Planned
  <2> QED
    BY <2>1, ScoringIs
<1>2. Definite(x) /\ x[1] # "auto"
  BY Zenon DEF Planned, Commands!Explicit
<1>3. "--backend" \in DOMAIN back /\ "--gpu-layers" \in DOMAIN back
      /\ back["--backend"] = s.backend[1]
      /\ back["--gpu-layers"] = IF s.backend = <<"cpu">> THEN "0" ELSE s.backend[2]
  BY ReadBackIs
<1>4. Backing(back) = s.backend[1]
      /\ Layers(back) = IF s.backend = <<"cpu">> THEN "0" ELSE s.backend[2]
  BY <1>3, Zenon DEF Backing, Layers, Commands!Value
<1>5. CASE x = <<"cpu", "0">>
  <2>1. s.backend = <<"cpu">>
    BY <1>1, <1>5
  <2>2. Backing(back) = "cpu" /\ Layers(back) = "0"
    BY <1>4, <2>1
  <2> QED
    BY <1>2, <1>5, <2>2, DefiniteAgain, Zenon
<1>6. CASE x # <<"cpu", "0">>
  <2>1. s.backend = x
    BY <1>1, <1>6
  <2>2. x # <<"cpu">>
    <3>1. PICK b, l : x = <<b, l>> /\ b # "cpu" /\ l # "0" /\ l # "none"
      BY <1>2, <1>6 DEF Definite
    <3> QED
      BY <3>1
  <2>3. Backing(back) = x[1] /\ Layers(back) = x[2]
    BY <1>4, <2>1, <2>2
  <2> QED
    BY <1>2, <1>6, <2>3, DefiniteAgain, Zenon
<1> QED
  BY <1>5, <1>6, Zenon

\* The checks find fault only with a directory that is missing.
LEMMA BackIsSound ==
  ASSUME program \in Commands!Comparisons,
         NEW before, Acceptable(parsed, before), answer.options = parsed.options,
         NEW s, NEW x, NEW options, Planned(s, x, options), Stated(options),
         NEW back, back = Commands!ReadBack(s), NEW after,
         Commands!Directory(back, x, after) # "missing"
  PROVE  ~Commands!BadScoring(back, x, after)
<1>1. ~Commands!BadScoring(answer.options, Execution(parsed), before)
  BY Zenon DEF Acceptable
<1>2. \A o : o # "--backend" /\ o # "--entropy-reduction" =>
        /\ o \in DOMAIN options <=> o \in DOMAIN answer.options
        /\ o \in DOMAIN answer.options => options[o] = answer.options[o]
  BY Zenon DEF Planned
<1> DEFINE given == answer.options
<1> HIDE DEF given
<1>3. \A o : o # "--backend" /\ o # "--entropy-reduction" =>
        \A default : Commands!Value(options, o, default) = Commands!Value(given, o, default)
  BY <1>2, Zenon DEF Commands!Value, given
<1>4. ~Commands!Unsound(back, x[2])
  <2>1. "--device" \notin DOMAIN back /\ "--gpu-policy" \notin DOMAIN back
        /\ "--gpu-min-free" \notin DOMAIN back
    <3>1. \A o : o \in DOMAIN back <=>
            \/ o \in {"--backend", "--gpu-layers", "--context", "--batch-size",
                     "--entropy-reduction", "--flash-attn", "--kv-cache-type",
                     "--kv-offload", "--hierarchy", "--alpha"}
            \/ o = "--tau" /\ s.tau # "null"
            \/ o = "--tau-percentile" /\ s.tau_percentile # "null"
      BY ReadBackIs, Zenon
    <3> QED
      BY <3>1
  <2>2. Commands!Value(back, "--gpu-policy", "preserve") = "preserve"
        /\ Commands!Value(back, "--gpu-min-free", "0") = "0"
    BY <2>1, Zenon DEF Commands!Value
  <2> QED
    BY <2>1, <2>2, Zenon DEF Commands!Unsound
<1>5. ~({"--tau", "--tau-percentile"} \subseteq DOMAIN back)
  <2>1. "--tau" \notin DOMAIN back \/ "--tau-percentile" \notin DOMAIN back
    BY BackIs
  <2> QED
    BY <2>1
<1>6. ~(/\ Commands!Value(back, "--kv-cache-type", "q8_0") # "f16"
        /\ Commands!Value(back, "--flash-attn", "on") = "off")
  <2>1. /\ "--kv-cache-type" \in DOMAIN back /\ "--flash-attn" \in DOMAIN back
        /\ back["--kv-cache-type"] = Commands!Value(options, "--kv-cache-type", "q8_0")
        /\ back["--flash-attn"] = Commands!Value(options, "--flash-attn", "on")
    BY BackIs
  <2>2. Commands!Value(back, "--kv-cache-type", "q8_0")
          = Commands!Value(given, "--kv-cache-type", "q8_0")
        /\ Commands!Value(back, "--flash-attn", "on") = Commands!Value(given, "--flash-attn", "on")
    BY <1>3, <2>1, Zenon DEF Commands!Value
  <2>3. ~(/\ Commands!Value(given, "--kv-cache-type", "q8_0") # "f16"
          /\ Commands!Value(given, "--flash-attn", "on") = "off")
    BY <1>1, Zenon DEF Commands!BadScoring, given
  <2> QED
    BY <2>2, <2>3, Zenon
<1>7. ASSUME NEW o \in {"--tau", "--tau-percentile", "--alpha"}
      PROVE  Commands!Value(back, o, "0") # "-1"
  <2>0. Commands!Value(given, o, "0") # "-1"
    BY <1>1, Zenon DEF Commands!BadScoring, given
  <2>1. CASE o \notin DOMAIN back
    BY <2>1 DEF Commands!Value
  <2>2. CASE o \in DOMAIN back /\ o \in DOMAIN options
    <3>1. back[o] = options[o]
      <4>1. CASE o = "--alpha"
        BY <2>2, <4>1, BackIs
      <4>2. CASE o = "--tau-percentile"
        BY <2>2, <4>2, BackIs
      <4>3. CASE o = "--tau"
        <5>1. "--tau-percentile" \notin DOMAIN options
          BY <2>2, <4>3, BackIs
        <5>2. back["--tau"] = Commands!Value(options, "--tau", "default")
          BY <5>1, BackIs
        <5> QED
          BY <2>2, <4>3, <5>2, Zenon DEF Commands!Value
      <4> QED
        BY <4>1, <4>2, <4>3
    <3>2. Commands!Value(back, o, "0") = options[o] /\ Commands!Value(options, o, "0") = options[o]
      BY <2>2, <3>1, Zenon DEF Commands!Value
    <3>3. o # "--backend" /\ o # "--entropy-reduction"
      OBVIOUS
    <3> QED
      BY <1>3, <2>0, <3>2, <3>3, Zenon
  <2>3. CASE o \in DOMAIN back /\ o \notin DOMAIN options
    <3>1. back[o] = "default"
      <4>1. CASE o = "--alpha"
        <5>1. back["--alpha"] = Commands!Value(options, "--alpha", "default")
          BY BackIs
        <5> QED
          BY <2>3, <4>1, <5>1, Zenon DEF Commands!Value
      <4>2. CASE o = "--tau-percentile"
        BY <2>3, <4>2, BackIs
      <4>3. CASE o = "--tau"
        <5>1. "--tau-percentile" \notin DOMAIN options
          BY <2>3, <4>3, BackIs
        <5>2. back["--tau"] = Commands!Value(options, "--tau", "default")
          BY <5>1, BackIs
        <5> QED
          BY <2>3, <4>3, <5>2, Zenon DEF Commands!Value
      <4> QED
        BY <4>1, <4>2, <4>3
    <3>2. Commands!Value(back, o, "0") = "default"
      BY <2>3, <3>1, Zenon DEF Commands!Value
    <3> QED
      BY <3>2
  <2> QED
    BY <2>1, <2>2, <2>3, Zenon
<1>8. program # "score"
  BY DEF Commands!Comparisons
<1> QED
  BY <1>4, <1>5, <1>6, <1>7, <1>8, Zenon DEF Commands!BadScoring

\* A worker that is given a plan.
LEMMA Reread ==
  ASSUME program \in Commands!Comparisons,
         NEW before, Acceptable(parsed, before), answer.options = parsed.options,
         NEW s, NEW x, NEW options, Planned(s, x, options), Stated(options),
         NEW back, back = Commands!ReadBack(s), NEW after,
         NEW outset, outset = Commands!SettingsFromScoring(s, after)
  PROVE  \/ outset = Commands!Refused /\ Commands!Directory(back, x, after) = "missing"
         \/ /\ outset.accepted /\ outset.execution = x /\ outset.options = back
            /\ outset.directory = Commands!Directory(back, x, after)
<1> DEFINE p == [Commands!Empty EXCEPT !.options = back]
<1> DEFINE read == Commands!Validate(p, after)
<1>1. p = [status |-> "reading", pending |-> "none", options |-> back, flags |-> {}, sources |-> <<>>]
  <2>1. \A e : IsParser(e) => LET f == [e EXCEPT !.options = back] IN
          f = [status |-> e.status, pending |-> e.pending, options |-> back,
               flags |-> e.flags, sources |-> e.sources]
    <3> SUFFICES ASSUME NEW e, IsParser(e), NEW f, f = [e EXCEPT !.options = back]
                 PROVE  f = [status |-> e.status, pending |-> e.pending, options |-> back,
                             flags |-> e.flags, sources |-> e.sources]
      BY Zenon
    <3> QED
      BY DEF IsParser
  <2>2. IsParser(Commands!Empty)
    BY EmptyIs DEF IsParser
  <2> DEFINE e == Commands!Empty
  <2>3. e.status = "reading" /\ e.pending = "none" /\ e.flags = {} /\ e.sources = <<>>
    BY EmptyIs
  <2>4. p = [status |-> e.status, pending |-> e.pending, options |-> back,
             flags |-> e.flags, sources |-> e.sources]
    BY <2>1, <2>2, Zenon
  <2> QED
    BY <2>3, <2>4, Zenon
<1>2. read = Commands!Validate([Commands!Empty EXCEPT !.options = Commands!ReadBack(s)], after)
  BY Zenon
<1> HIDE DEF p
<1>3. p.options = back /\ p.flags = {} /\ p.sources = <<>>
  BY <1>1
<1>4. "--force-cpu" \notin p.flags
  BY <1>3
<1>5. Execution(p) = x
      /\ ~Commands!Contradictory(Backing(back), Layers(back), "--force-cpu" \in p.flags)
  <2>1. ("--force-cpu" \in p.flags) = FALSE
    BY <1>4
  <2> QED
    BY <1>3, <2>1, BackExecution, Zenon DEF Execution
<1>6. CASE Commands!Directory(back, x, after) = "missing"
  <2>1. Commands!BadScoring(back, x, after)
    BY <1>6, Zenon DEF Commands!BadScoring
  <2>2. read = Commands!Refused
    BY <1>3, <1>5, <2>1, ValidateIs, Zenon
  <2>3. ~read.accepted
    BY <2>2, RefusedIs, Zenon
  <2> HIDE DEF read
  <2>4. outset = Commands!Refused
    BY <1>2, <2>3, Zenon DEF Commands!SettingsFromScoring
  <2> QED
    BY <1>6, <2>4
<1>7. CASE Commands!Directory(back, x, after) # "missing"
  <2>1. ~Commands!BadScoring(back, x, after)
    BY <1>7, BackIsSound, Zenon
  <2>2. read = Commands!Answer(p, TRUE, x, Commands!Directory(back, x, after))
    BY <1>3, <1>5, <2>1, ValidateIs, Zenon
  <2>3. read = [accepted |-> TRUE, execution |-> x, directory |-> Commands!Directory(back, x, after),
                options |-> back, flags |-> p.flags, sources |-> p.sources]
    BY <1>3, <2>2, Zenon DEF Commands!Answer
  <2> HIDE DEF read
  <2>4. read.accepted /\ read.execution = x /\ read.options = back
        /\ read.directory = Commands!Directory(back, x, after)
    BY <2>3
  <2>5. Commands!ScoringJson(back, x) = s
    BY BackScoring, Zenon
  <2>6. Commands!Explicit(back, x)
    <3>1. Commands!Explicit(options, x)
      BY Zenon DEF Planned
    <3>2. Commands!Reduction(back) = Commands!Reduction(options)
      BY BackIs, Zenon
    <3>3. Commands!Value(back, "--flash-attn", "on") = Commands!Value(options, "--flash-attn", "on")
      <4>1. "--flash-attn" \in DOMAIN back
            /\ back["--flash-attn"] = Commands!Value(options, "--flash-attn", "on")
        BY BackIs
      <4> QED
        BY <4>1, Zenon DEF Commands!Value
    <3> QED
      BY <3>1, <3>2, <3>3, Zenon DEF Commands!Explicit
  <2>7. outset = read
    BY <1>2, <2>4, <2>5, <2>6, Zenon DEF Commands!SettingsFromScoring
  <2> QED
    BY <2>4, <2>7, Zenon
<1> QED
  BY <1>6, <1>7, Zenon

LEMMA BackKeeps ==
  ASSUME NEW s, NEW x, NEW options, Planned(s, x, options), Stated(options),
         ~({"--tau", "--tau-percentile"} \subseteq DOMAIN answer.options),
         NEW back, back = Commands!ReadBack(s),
         NEW o \in (DOMAIN answer.options \cap Commands!Scoring)
                     \ (Commands!Selecting \cup {"--backend-dir", "--backend", "--gpu-layers"})
  PROVE  answer.options[o] \in {"auto", back[o]}
<1> DEFINE given == answer.options
<1>1. o \in DOMAIN given /\ o # "--backend"
  OBVIOUS
<1>2. o \in {"--batch-size", "--entropy-reduction", "--flash-attn", "--kv-cache-type",
             "--kv-offload", "--context", "--hierarchy", "--tau-percentile", "--tau", "--alpha"}
  BY DEF Commands!Scoring, Commands!Executing
<1>3. \A n : n # "--backend" /\ n # "--entropy-reduction" =>
        /\ n \in DOMAIN options <=> n \in DOMAIN given
        /\ n \in DOMAIN given => options[n] = given[n]
  BY Zenon DEF Planned
<1>4. ~({"--tau", "--tau-percentile"} \subseteq DOMAIN given)
  OBVIOUS
<1>5. /\ "--entropy-reduction" \in DOMAIN options
      /\ "--entropy-reduction" \in DOMAIN given =>
           given["--entropy-reduction"] \in {"auto", options["--entropy-reduction"]}
  BY Zenon DEF Planned
<1> HIDE DEF given
<1>6. CASE o = "--entropy-reduction"
  <2>1. Commands!Reduction(back) = Commands!Reduction(options)
    BY BackIs, Zenon
  <2>2. "--entropy-reduction" \in DOMAIN back
    BY ReadBackIs
  <2>3. back["--entropy-reduction"] = options["--entropy-reduction"]
    BY <1>5, <2>1, <2>2, Zenon DEF Commands!Reduction, Commands!Value
  <2>4. given[o] \in {"auto", back[o]}
    BY <1>1, <1>5, <1>6, <2>3
  <2> QED
    BY <2>4 DEF given
<1>7. CASE o # "--entropy-reduction"
  <2>1. o \in DOMAIN options /\ options[o] = given[o]
    BY <1>1, <1>3, <1>7
  <2>2. back[o] = options[o]
    <3>1. CASE o \in {"--flash-attn", "--kv-cache-type", "--kv-offload", "--hierarchy",
                      "--context", "--batch-size", "--alpha"}
      BY <2>1, <3>1, BackIs
    <3>2. CASE o = "--tau-percentile"
      BY <2>1, <3>2, BackIs
    <3>3. CASE o = "--tau"
      <4>1. "--tau-percentile" \notin DOMAIN options
        BY <1>1, <1>3, <1>4, <3>3
      <4>2. back["--tau"] = Commands!Value(options, "--tau", "default")
        BY <4>1, BackIs
      <4> QED
        BY <2>1, <3>3, <4>2, Zenon DEF Commands!Value
    <3> QED
      BY <1>2, <1>7, <3>1, <3>2, <3>3
  <2>3. given[o] = back[o]
    BY <2>1, <2>2
  <2> QED
    BY <2>3 DEF given
<1> QED
  BY <1>6, <1>7

\* What a worker makes of a plan is what AsPlanned says.
LEMMA WorkIsAsPlanned ==
  ASSUME program \in Commands!Comparisons,
         NEW before, answer = Commands!Accept(parsed, before), answer.accepted,
         NEW s, NEW x, NEW options, Planned(s, x, options), Stated(options),
         NEW after, NEW worker,
         worker = LET outset == Commands!SettingsFromScoring(s, after)
                  IN  IF outset.directory = "unset" THEN outset ELSE Commands!Refused
  PROVE  Commands!AsPlanned(after, worker)
<1> DEFINE outset == Commands!SettingsFromScoring(s, after)
<1> DEFINE back == Commands!ReadBack(s)
<1>1. Acceptable(parsed, before) /\ answer.options = parsed.options
  BY Accepting, Zenon
<1>2. worker = IF outset.directory = "unset" THEN outset ELSE Commands!Refused
  OBVIOUS
<1> HIDE DEF outset, back
<1>3. \/ outset = Commands!Refused /\ Commands!Directory(back, x, after) = "missing"
      \/ /\ outset.accepted /\ outset.execution = x /\ outset.options = back
         /\ outset.directory = Commands!Directory(back, x, after)
  <2>1. outset = Commands!SettingsFromScoring(s, after) /\ back = Commands!ReadBack(s)
    BY Zenon DEF outset, back
  <2> QED
    BY <1>1, <2>1, Reread
<1>4. x[2] = answer.execution[2] /\ answer.execution[1] \in {"auto", x[1]} /\ Definite(x)
  BY Zenon DEF Planned
<1>5. "--backend-dir" \notin DOMAIN back
  <2>1. \A o : o \in DOMAIN back <=>
          \/ o \in {"--backend", "--gpu-layers", "--context", "--batch-size",
                   "--entropy-reduction", "--flash-attn", "--kv-cache-type",
                   "--kv-offload", "--hierarchy", "--alpha"}
          \/ o = "--tau" /\ s.tau # "null"
          \/ o = "--tau-percentile" /\ s.tau_percentile # "null"
    BY ReadBackIs, Zenon DEF back
  <2> QED
    BY <2>1
<1>6. ASSUME after = "unset" \/ answer.execution[1] = "cpu" PROVE worker.accepted
  <2>1. Commands!Directory(back, x, after) = "unset"
    <3>1. CASE after = "unset"
      BY <1>5, <3>1, Zenon DEF Commands!Directory
    <3>2. CASE answer.execution[1] = "cpu"
      <4>1. x[1] = "cpu"
        BY <1>4, <3>2
      <4>2. ~Commands!ShouldFetchBackend(x)
        BY <4>1 DEF Commands!ShouldFetchBackend
      <4> QED
        BY <1>5, <4>2, Zenon DEF Commands!Directory
    <3> QED
      BY <1>6, <3>1, <3>2
  <2>2. outset.accepted /\ outset.directory = "unset"
    BY <1>3, <2>1
  <2> QED
    BY <1>2, <2>2, Zenon
<1>7. ASSUME worker.accepted
      PROVE  /\ worker.directory = "unset" /\ worker.execution = x /\ worker.options = back
  <2>1. worker # Commands!Refused
    BY <1>7, RefusedIs, Zenon
  <2>2. worker = outset /\ outset.directory = "unset" /\ outset # Commands!Refused
    BY <1>2, <2>1, Zenon
  <2> QED
    BY <1>3, <2>2, Zenon
<1>8. ~({"--tau", "--tau-percentile"} \subseteq DOMAIN answer.options)
  <2>1. ~Commands!BadScoring(answer.options, Execution(parsed), before)
    BY <1>1, Zenon DEF Acceptable
  <2> QED
    BY <2>1, Zenon DEF Commands!BadScoring
<1>9. \A o \in (DOMAIN answer.options \cap Commands!Scoring)
                 \ (Commands!Selecting \cup {"--backend-dir", "--backend", "--gpu-layers"}) :
        answer.options[o] \in {"auto", back[o]}
  BY <1>8, BackKeeps, Zenon DEF back
<1>10. worker.accepted =>
         /\ worker.directory = "unset" /\ worker.execution[2] = answer.execution[2]
         /\ answer.execution[1] \in {"auto", worker.execution[1]}
         /\ \A o \in (DOMAIN answer.options \cap Commands!Scoring)
                      \ (Commands!Selecting \cup {"--backend-dir", "--backend", "--gpu-layers"}) :
              answer.options[o] \in {"auto", worker.options[o]}
  <2> SUFFICES ASSUME worker.accepted
               PROVE  /\ worker.directory = "unset" /\ worker.execution[2] = answer.execution[2]
                      /\ answer.execution[1] \in {"auto", worker.execution[1]}
                      /\ \A o \in (DOMAIN answer.options \cap Commands!Scoring)
                                   \ (Commands!Selecting \cup {"--backend-dir", "--backend", "--gpu-layers"}) :
                           answer.options[o] \in {"auto", worker.options[o]}
    OBVIOUS
  <2>1. worker.directory = "unset" /\ worker.execution = x /\ worker.options = back
    BY <1>7
  <2> QED
    BY <1>4, <1>9, <2>1, Zenon
<1> QED
  BY <1>6, <1>10, Zenon DEF Commands!AsPlanned

\* What a comparison resolves is a plan.
LEMMA ResolvedIsPlanned ==
  ASSUME NEW before, answer = Commands!Accept(parsed, before), StatedBy(parsed),
         Commands!ResolveScoring
  PROVE  \E x, options : Planned(scoring', x, options) /\ Stated(options)
<1> DEFINE given == answer.options
<1> DEFINE forced == "--force-cpu" \in answer.flags
<1> DEFINE place == answer.execution
<1> DEFINE layers == Commands!Value(given, "--gpu-layers", "none")
<1> DEFINE Settled(f) == Commands!Settled(given, place, f)
<1> DEFINE Options(f) == Commands!With(Commands!With(given, "--backend", Settled(f).backend),
                                       "--entropy-reduction", Settled(f).reduction)
<1> DEFINE Place(f) == IF place[1] = "auto"
                       THEN Commands!ResolveExecution(Settled(f).backend, layers, forced) ELSE place
<1>1. PICK f \in {"cuda", "rocm"} : /\ Commands!Explicit(Options(f), Place(f))
                                    /\ scoring' = Commands!ScoringJson(Options(f), Place(f))
  BY Zenon DEF Commands!ResolveScoring
<1>2. answer.accepted
  BY Zenon DEF Commands!ResolveScoring
<1>3. Acceptable(parsed, before) /\ given = parsed.options /\ answer.flags = parsed.flags
      /\ place = Execution(parsed)
  BY <1>2, Accepting, Zenon
<1>4. place = Commands!ResolveExecution(Backing(given), layers, forced)
  BY <1>3, Zenon DEF Execution, Layers
<1> DEFINE backend == Settled(f).backend
<1> DEFINE reduction == Settled(f).reduction
<1> DEFINE first == Commands!With(given, "--backend", backend)
<1> DEFINE options == Options(f)
<1> DEFINE x == Place(f)
<1>5. backend = (IF place[1] = "auto" THEN f ELSE place[1])
      /\ reduction = (IF Commands!Reduction(given) # "auto" THEN Commands!Reduction(given)
                      ELSE IF place[2] = "-1" THEN "device" ELSE "host")
  BY DEF Commands!Settled
<1>6. x = IF place[1] = "auto" THEN Commands!ResolveExecution(backend, layers, forced) ELSE place
  BY Zenon
<1>7. options = Commands!With(first, "--entropy-reduction", reduction)
  BY Zenon
<1>8. scoring' = Commands!ScoringJson(options, x) /\ Commands!Explicit(options, x)
  BY <1>1, Zenon
<1>9. Stated(given)
  BY <1>3, Zenon DEF StatedBy
<1> HIDE DEF given, forced, place, layers, Settled, Options, Place, backend, reduction, options, x
<1>10. /\ \A o : o \in DOMAIN first <=> o \in DOMAIN given \/ o = "--backend"
       /\ \A o \in DOMAIN given : o # "--backend" => first[o] = given[o]
  BY WithIs
<1> HIDE DEF first
<1>11. /\ \A o : o \in DOMAIN options <=> o \in DOMAIN first \/ o = "--entropy-reduction"
       /\ options["--entropy-reduction"] = reduction
       /\ \A o \in DOMAIN first : o # "--entropy-reduction" => options[o] = first[o]
  BY <1>7, WithIs
<1>12. \A o : o # "--backend" /\ o # "--entropy-reduction" =>
         /\ o \in DOMAIN options <=> o \in DOMAIN given
         /\ o \in DOMAIN given => options[o] = given[o]
  BY <1>10, <1>11
<1>13. "--entropy-reduction" \in DOMAIN options
       /\ ("--entropy-reduction" \in DOMAIN given =>
             given["--entropy-reduction"] \in {"auto", options["--entropy-reduction"]})
  <2>1. "--entropy-reduction" \in DOMAIN given => Commands!Reduction(given) = given["--entropy-reduction"]
    BY Zenon DEF Commands!Reduction, Commands!Value
  <2> QED
    BY <1>5, <1>11, <2>1
<1>14. Stated(options)
  BY <1>9, <1>12 DEF Stated
<1>15. Definite(x) /\ x[2] = place[2] /\ place[1] \in {"auto", x[1]}
  <2>1. CASE place[1] = "auto"
    <3>1. backend = f /\ x = Commands!ResolveExecution(f, layers, forced)
      BY <1>5, <1>6, <2>1
    <3>2. place # <<"cpu", "0">>
      BY <2>1
    <3>3. /\ ~forced /\ layers # "0"
          /\ \E m : m = (IF layers = "none" THEN "-1" ELSE layers) /\ place = <<Backing(given), m>>
                    /\ m # "0" /\ m # "none"
      BY <1>4, <3>2, ResolveIs
    <3>4. PICK m : m = (IF layers = "none" THEN "-1" ELSE layers) /\ place = <<Backing(given), m>>
                   /\ m # "0" /\ m # "none"
      BY <3>3
    <3>5. f # "cpu"
      OBVIOUS
    <3>6. x = <<f, m>>
      BY <3>1, <3>3, <3>4, <3>5, Zenon DEF Commands!ResolveExecution
    <3>7. Definite(x)
      BY <3>4, <3>5, <3>6, Zenon DEF Definite
    <3>8. x[2] = place[2]
      BY <3>4, <3>6
    <3> QED
      BY <2>1, <3>7, <3>8
  <2>2. CASE place[1] # "auto"
    <3>1. x = place
      BY <1>6, <2>2
    <3>2. Definite(place)
      BY <1>4, ResolveIs DEF Definite
    <3> QED
      BY <3>1, <3>2
  <2> QED
    BY <2>1, <2>2
<1>16. Planned(scoring', x, options)
  BY <1>8, <1>12, <1>13, <1>15, Zenon DEF Planned, given, place
<1> QED
  BY <1>14, <1>16, Zenon

\* What is read depends on the command alone.
LEMMA Steady ==
  ASSUME program' = program
  PROVE  /\ \A a : Commands!ParseArguments(a)' = Commands!ParseArguments(a)
         /\ Commands!ValuedOptions' = Commands!ValuedOptions
<1>1. ASSUME NEW a PROVE Commands!ParseArguments(a)' = Commands!ParseArguments(a)
  BY DEF Commands!ParseArguments, Commands!ReadArgument, Commands!ReadResponse, Commands!Read,
     Commands!ValuedOptions, Commands!FlagsOf
<1>2. Commands!ValuedOptions' = Commands!ValuedOptions
  BY DEF Commands!ValuedOptions
<1> QED
  BY <1>1, <1>2

LEMMA FollowedSteady ==
  ASSUME program' = program, NEW p, NEW a, Followed(p, a), parsed' = p, argv' = a
  PROVE  Followed(parsed, argv)'
<1>1. (Commands!ParseArguments(Commands!Recovered(argv).command))'
        = Commands!ParseArguments(Commands!Recovered(a).command)
  BY Steady
<1>2. Commands!Recovered(argv)' = Commands!Recovered(a)
  OBVIOUS
<1> QED
  BY <1>1, <1>2, Steady DEF Followed, Related, IsParser

LEMMA AcceptSteady ==
  ASSUME program' = program, NEW p, NEW e
  PROVE  Commands!Accept(p, e)' = Commands!Accept(p, e)
BY DEF Commands!Accept, Commands!Validate, Commands!Requires, Commands!BadScoring

\* The recovered command follows the arguments as long as the parser reads; the
\* answer is one to what was parsed; a plan was written from the answer's options.
CommandInv ==
  /\ program \in FivePrograms
  /\ argv \in Seq(Words) /\ IsParser(parsed) /\ StatedBy(parsed)
  /\ program \in {"analyze", "score"} /\ parsed.status = "reading" => Followed(parsed, argv)
  /\ answer = Commands!Refused \/ \E environment : answer = Commands!Accept(parsed, environment)
  /\ scoring # <<>> =>
       /\ program \in Commands!Comparisons /\ answer.accepted
       /\ \E x, options : Planned(scoring, x, options) /\ Stated(options)
  /\ again # <<>> => answer.accepted
  /\ Commands!PassedOn

CommandAlways == group = "commands" => CommandInv

LEMMA CommandBegins == ASSUME Commands!Init PROVE CommandInv
<1>1. /\ program \in Programs /\ argv = <<>> /\ parsed = Commands!Empty
      /\ answer = Commands!Refused /\ scoring = <<>> /\ again = <<>>
  BY DEF Commands!Init
<1>2. program \in FivePrograms
  BY <1>1, CommandAssumption DEF FivePrograms
<1>3. argv \in Seq(Words)
  BY <1>1
<1>4. IsParser(parsed) /\ StatedBy(parsed)
  <2>1. parsed
          = [status |-> "reading", pending |-> "none", options |-> <<>>, flags |-> {}, sources |-> <<>>]
    BY <1>1, EmptyIs, Zenon
  <2> QED
    BY <2>1 DEF IsParser, StatedBy, Stated
<1>5. Followed(parsed, argv)
  BY <1>1, NothingFollowed, Zenon
<1>6. Commands!PassedOn
  BY <1>1 DEF Commands!PassedOn
<1> QED
  BY <1>1, <1>2, <1>3, <1>4, <1>5, <1>6, Zenon DEF CommandInv

\* As long as nothing is accepted there is nothing to pass on.
LEMMA NothingPassed ==
  ASSUME CommandInv, answer = Commands!Refused
  PROVE  scoring = <<>> /\ again = <<>>
BY RefusedIs, Zenon DEF CommandInv

LEMMA TypeKeeps ==
  ASSUME CommandInv, NEW argument \in Typed \cup Given, Commands!Type(argument)
  PROVE  CommandInv'
<1>1. /\ parsed.status = "reading" /\ answer = Commands!Refused
      /\ parsed' = Commands!ReadArgument(parsed, argument)
      /\ argv' = IF parsed'.status = "reading" THEN Append(argv, argument) ELSE <<>>
      /\ program' = program /\ answer' = answer /\ scoring' = scoring /\ again' = again
  BY DEF Commands!Type
<1>2. scoring = <<>> /\ again = <<>>
  BY <1>1, NothingPassed
<1>3. argument \in Words
  BY DEF Words
<1>4. program \in FivePrograms /\ argv \in Seq(Words) /\ IsParser(parsed) /\ StatedBy(parsed)
  BY Zenon DEF CommandInv
<1>5. argv' \in Seq(Words)
  <2>1. Append(argv, argument) \in Seq(Words) /\ <<>> \in Seq(Words)
    BY <1>3, <1>4
  <2> QED
    BY <1>1, <2>1, Zenon
<1>6. IsParser(parsed') /\ StatedBy(parsed')
  BY <1>1, <1>4, PlainArgument, Zenon
<1>7. ASSUME program \in {"analyze", "score"}, parsed'.status = "reading"
      PROVE  Followed(parsed, argv)'
  <2>1. Followed(parsed, argv)
    BY <1>1, <1>7, Zenon DEF CommandInv
  <2>2. parsed' = Commands!Read(parsed, argument)
    BY <1>1, <1>7, ArgumentIs, Zenon
  <2>3. argv' = Append(argv, argument)
    BY <1>1, <1>7, Zenon
  <2>4. Followed(Commands!Read(parsed, argument), Append(argv, argument))
    BY <1>1, <1>3, <1>4, <1>7, <2>1, <2>2, FollowedStep, Zenon
  <2>5. Followed(parsed', argv')
    BY <2>2, <2>3, <2>4, Zenon
  <2> QED
    BY <1>1, <2>2, <2>3, <2>4, FollowedSteady
<1>8. Commands!PassedOn'
  BY <1>1, <1>2 DEF Commands!PassedOn
<1>9. answer' = Commands!Refused'
  BY <1>1 DEF Commands!Refused, Commands!Answer, Commands!Empty
<1>10. (program \in {"analyze", "score"})' => program \in {"analyze", "score"}
  BY <1>1
<1>11. IsParser(parsed)' /\ StatedBy(parsed)'
  BY <1>6
<1> QED
  BY <1>1, <1>2, <1>4, <1>5, <1>7, <1>8, <1>9, <1>10, <1>11, Zenon DEF CommandInv

\* The parser and the command are left alone.
LEMMA ParserKept ==
  ASSUME CommandInv, UNCHANGED <<program, argv, parsed>>
  PROVE  /\ (program \in FivePrograms)' /\ (argv \in Seq(Words))' /\ IsParser(parsed)' /\ StatedBy(parsed)'
         /\ (program \in {"analyze", "score"} /\ parsed.status = "reading" => Followed(parsed, argv))'
<1>1. /\ program \in FivePrograms /\ argv \in Seq(Words) /\ IsParser(parsed) /\ StatedBy(parsed)
      /\ program \in {"analyze", "score"} /\ parsed.status = "reading" => Followed(parsed, argv)
  BY Zenon DEF CommandInv
<1>2. program' = program /\ argv' = argv /\ parsed' = parsed
  OBVIOUS
<1>3. Followed(parsed, argv) => Followed(parsed, argv)'
  BY <1>2, FollowedSteady
<1>4. (program \in FivePrograms)' /\ (argv \in Seq(Words))' /\ IsParser(parsed)' /\ StatedBy(parsed)'
  BY <1>1, <1>2, Zenon
<1>5. (program \in {"analyze", "score"} /\ parsed.status = "reading" => Followed(parsed, argv))'
  BY <1>1, <1>2, <1>3, Zenon
<1> QED
  BY <1>4, <1>5

LEMMA RefusedSteady == Commands!Refused' = Commands!Refused
BY DEF Commands!Refused, Commands!Answer, Commands!Empty

LEMMA AnswerKept ==
  ASSUME CommandInv, UNCHANGED <<program, parsed, answer>>
  PROVE  (answer = Commands!Refused \/ \E environment : answer = Commands!Accept(parsed, environment))'
<1>1. answer' = answer /\ parsed' = parsed /\ program' = program
  OBVIOUS
<1>2. CASE answer = Commands!Refused
  BY <1>1, <1>2, RefusedSteady, Zenon
<1>3. CASE \E environment : answer = Commands!Accept(parsed, environment)
  <2>1. PICK e : answer = Commands!Accept(parsed, e)
    BY <1>3
  <2>2. (Commands!Accept(parsed, e))' = Commands!Accept(parsed, e)
    BY <1>1, AcceptSteady
  <2>3. (answer = Commands!Accept(parsed, e))'
    BY <1>1, <2>1, <2>2, Zenon
  <2> QED
    BY <2>3, Zenon
<1> QED
  BY <1>2, <1>3, Zenon DEF CommandInv

LEMMA PlannedSteady ==
  ASSUME answer' = answer, NEW s, NEW x, NEW options, Planned(s, x, options), scoring' = s
  PROVE  Planned(scoring, x, options)'
BY DEF Planned

LEMMA ScoringKept ==
  ASSUME CommandInv, UNCHANGED <<program, answer, scoring>>
  PROVE  (scoring # <<>> =>
            /\ program \in Commands!Comparisons /\ answer.accepted
            /\ \E x, options : Planned(scoring, x, options) /\ Stated(options))'
<1>1. answer' = answer /\ scoring' = scoring /\ program' = program
  OBVIOUS
<1>2. CASE scoring = <<>>
  BY <1>1, <1>2, Zenon
<1>3. CASE scoring # <<>>
  <2>1. /\ program \in Commands!Comparisons /\ answer.accepted
        /\ \E x, options : Planned(scoring, x, options) /\ Stated(options)
    BY <1>3, Zenon DEF CommandInv
  <2>2. PICK x, options : Planned(scoring, x, options) /\ Stated(options)
    BY <2>1
  <2>3. Planned(scoring, x, options)'
    BY <1>1, <2>2, PlannedSteady, Zenon
  <2>4. (program \in Commands!Comparisons /\ answer.accepted)'
    BY <1>1, <2>1 DEF Commands!Comparisons
  <2> QED
    BY <2>2, <2>3, <2>4, Zenon
<1> QED
  BY <1>2, <1>3

LEMMA EnterKeeps == ASSUME CommandInv, Commands!Enter PROVE CommandInv'
<1>1. /\ answer = Commands!Refused
      /\ program' = program /\ argv' = argv /\ parsed' = parsed /\ scoring' = scoring /\ again' = again
  BY DEF Commands!Enter
<1>2. PICK e : answer' = Commands!Accept(parsed, e)
  BY Zenon DEF Commands!Enter
<1>3. scoring = <<>> /\ again = <<>>
  BY <1>1, NothingPassed
<1>4. (answer = Commands!Accept(parsed, e))'
  <2>1. (Commands!Accept(parsed, e))' = Commands!Accept(parsed, e)
    BY <1>1, AcceptSteady
  <2> QED
    BY <1>2, <2>1, Zenon
<1>5. scoring' = <<>> /\ again' = <<>>
  BY <1>1, <1>3, Zenon
<1>6. Commands!PassedOn'
  BY <1>5 DEF Commands!PassedOn
<1> QED
  BY <1>1, <1>4, <1>5, <1>6, ParserKept, Zenon DEF CommandInv

LEMMA RerunKeeps == ASSUME CommandInv, Commands!Rerun PROVE CommandInv'
<1>1. /\ program \notin Commands!Comparisons /\ answer.accepted
      /\ program' = program /\ argv' = argv /\ parsed' = parsed /\ answer' = answer
      /\ scoring' = scoring
  BY DEF Commands!Rerun
<1>2. PICK after : again' = <<after,
        Commands!Accept(Commands!ParseArguments(Commands!CpuRecoveryCommand(argv)), after)>>
  BY Zenon DEF Commands!Rerun
<1>3. program \in {"analyze", "score"}
  <2>1. program \in FivePrograms
    BY Zenon DEF CommandInv
  <2> QED
    BY <1>1, <2>1 DEF FivePrograms, Commands!Comparisons
<1>4. answer # Commands!Refused
  BY <1>1, RefusedIs, Zenon
<1>5. PICK before : answer = Commands!Accept(parsed, before)
  BY <1>4, Zenon DEF CommandInv
<1>6. parsed.status = "reading"
  BY <1>1, <1>5, Accepting, Zenon DEF Acceptable
<1>7. Followed(parsed, argv) /\ argv \in Seq(Words)
  BY <1>3, <1>6, Zenon DEF CommandInv
<1> DEFINE rerun == Commands!Accept(Commands!ParseArguments(Commands!CpuRecoveryCommand(argv)), after)
<1>8. Commands!OnCpu(after, rerun)
  BY <1>1, <1>3, <1>5, <1>7, RerunIsOnCpu, Zenon
<1>9. again' = <<after, rerun>>
  BY <1>2, Zenon
<1> HIDE DEF rerun
<1>10. again'[1] = after /\ again'[2] = rerun
  BY <1>9
<1>11. (program \in Commands!Comparisons)' => program \in Commands!Comparisons
  BY <1>1 DEF Commands!Comparisons
<1>12. Commands!OnCpu(again[1], again[2])'
  BY <1>1, <1>8, <1>10, Zenon DEF Commands!OnCpu, Commands!Placing, Commands!Selecting
<1>13. Commands!PassedOn'
  BY <1>1, <1>11, <1>12, Zenon DEF Commands!PassedOn
<1>14. (answer.accepted)'
  BY <1>1, Zenon
<1> QED
  BY <1>1, <1>13, <1>14, ParserKept, AnswerKept, ScoringKept, Zenon DEF CommandInv

LEMMA ResolveKeeps == ASSUME CommandInv, Commands!ResolveScoring PROVE CommandInv'
<1>1. /\ program \in Commands!Comparisons /\ answer.accepted
      /\ program' = program /\ argv' = argv /\ parsed' = parsed /\ answer' = answer
      /\ again' = again
  BY DEF Commands!ResolveScoring
<1>2. answer # Commands!Refused
  BY <1>1, RefusedIs, Zenon
<1>3. PICK before : answer = Commands!Accept(parsed, before)
  BY <1>2, Zenon DEF CommandInv
<1>4. StatedBy(parsed)
  BY Zenon DEF CommandInv
<1>5. PICK x, options : Planned(scoring', x, options) /\ Stated(options)
  BY <1>3, <1>4, ResolvedIsPlanned, Zenon
<1>6. Planned(scoring, x, options)'
  BY <1>1, <1>5 DEF Planned
<1>7. (program \in Commands!Comparisons /\ answer.accepted)'
  BY <1>1 DEF Commands!Comparisons
<1>8. (/\ program \in Commands!Comparisons /\ answer.accepted
       /\ \E y, o : Planned(scoring, y, o) /\ Stated(o))'
  BY <1>5, <1>6, <1>7, Zenon
<1>9. Commands!PassedOn
  BY Zenon DEF CommandInv
<1>10. Commands!PassedOn'
  BY <1>1, <1>9 DEF Commands!PassedOn, Commands!OnCpu, Commands!AsPlanned
<1>11. (again # <<>> => answer.accepted)'
  BY <1>1, Zenon
<1> QED
  BY <1>1, <1>8, <1>10, <1>11, ParserKept, AnswerKept, Zenon DEF CommandInv

LEMMA WorkKeeps == ASSUME CommandInv, Commands!Work PROVE CommandInv'
<1>1. /\ scoring # <<>>
      /\ program' = program /\ argv' = argv /\ parsed' = parsed /\ answer' = answer
      /\ scoring' = scoring
  BY DEF Commands!Work
<1> DEFINE Worker(e) == LET outset == Commands!SettingsFromScoring(scoring, e)
                        IN  IF outset.directory = "unset" THEN outset ELSE Commands!Refused
<1>2. PICK after : again' = <<after, Worker(after)>>
  BY Zenon DEF Commands!Work
<1>3. program \in Commands!Comparisons /\ answer.accepted
  BY <1>1, Zenon DEF CommandInv
<1>4. PICK x, options : Planned(scoring, x, options) /\ Stated(options)
  BY <1>1, Zenon DEF CommandInv
<1>5. answer # Commands!Refused
  BY <1>3, RefusedIs, Zenon
<1>6. PICK before : answer = Commands!Accept(parsed, before)
  BY <1>5, Zenon DEF CommandInv
<1> DEFINE worker == Worker(after)
<1>7. Commands!AsPlanned(after, worker)
  BY <1>3, <1>4, <1>6, WorkIsAsPlanned, Zenon
<1>8. again' = <<after, worker>>
  BY <1>2, Zenon
<1> HIDE DEF worker
<1>9. again'[1] = after /\ again'[2] = worker
  BY <1>8
<1>10. Commands!AsPlanned(again[1], again[2])'
  BY <1>1, <1>7, <1>9, Zenon DEF Commands!AsPlanned, Commands!Scoring, Commands!Executing, Commands!Selecting
<1>11. (program \in Commands!Comparisons)'
  BY <1>1, <1>3 DEF Commands!Comparisons
<1>12. Commands!PassedOn'
  BY <1>10, <1>11, Zenon DEF Commands!PassedOn
<1>13. (answer.accepted)'
  BY <1>1, <1>3, Zenon
<1> QED
  BY <1>1, <1>12, <1>13, ParserKept, AnswerKept, ScoringKept, Zenon DEF CommandInv

LEMMA CommandKept == ASSUME CommandInv, UNCHANGED commandVars PROVE CommandInv'
<1>1. program' = program /\ argv' = argv /\ parsed' = parsed /\ answer' = answer
      /\ scoring' = scoring /\ again' = again
  BY DEF commandVars
<1>2. Commands!PassedOn
  BY Zenon DEF CommandInv
<1>3. Commands!PassedOn'
  BY <1>1, <1>2 DEF Commands!PassedOn, Commands!OnCpu, Commands!AsPlanned
<1>4. (again # <<>> => answer.accepted)'
  BY <1>1, Zenon DEF CommandInv
<1> QED
  BY <1>1, <1>3, <1>4, ParserKept, AnswerKept, ScoringKept, Zenon DEF CommandInv

LEMMA CommandInvariance == MCSpec => []CommandAlways
<1>1. MCInit => CommandAlways
  BY CommandBegins DEF MCInit, CommandAlways
<1>2. MCNext \/ UNCHANGED all =>
        group' = group /\ (group = "commands" => Commands!Command \/ UNCHANGED commandVars)
  BY DEF MCNext, all
<1>3. CommandInv /\ Commands!Command => CommandInv'
  BY TypeKeeps, EnterKeeps, RerunKeeps, ResolveKeeps, WorkKeeps DEF Commands!Command
<1>4. CommandAlways /\ [MCNext]_all => CommandAlways'
  BY <1>2, <1>3, CommandKept DEF CommandAlways
<1> QED
  BY <1>1, <1>4, PTL DEF MCSpec

\* Whatever is typed, the CPU command that is proposed after a GPU failed is
\* accepted and means the same on the CPU (CpuRecoveryCommand,
\* backend_policy.cc:129), and a worker takes from a plan the scoring it was made
\* with or refuses it for a backend directory (SettingsFromScoring,
\* compare/identity.cc:233).
THEOREM AlwaysPassedOn == MCSpec => []PassedOn
<1>1. CommandAlways => PassedOn
  BY DEF CommandAlways, CommandInv, PassedOn
<1> QED
  BY <1>1, CommandInvariance, PTL
=============================================================================
