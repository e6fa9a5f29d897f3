------------------------------- MODULE Payload -------------------------------
(***************************************************************************)
(* How a backend is found in the executable or in a bundle, and what its   *)
(* archive says of its files (payload.cc).  Every number comes from the    *)
(* file; sizes and offsets are unsigned and wrap at Wide.  What becomes of *)
(* the files is in BackendFetch.                                           *)
(***************************************************************************)
EXTENDS Naturals, Sequences, FiniteSets

CONSTANTS
  Wide,         \* 2^64, scaled down like all that follow
  MaxFile,      \* bound: the size of the file
  Magic,        \* the first bytes of an archive
  Footer,       \* the footer of an executable or a bundle
  Header,       \* the header of an archive
  EntryHeader,  \* that of an entry
  MaxPath,      \* the longest path
  MaxEntries    \* bound: entries of an archive

VARIABLES
  holder,    \* "executable" or "bundle"
  size,      \* its size
  location,  \* where the payload is, from its footer
  count,     \* entries that the archive claims
  cursor,    \* the next byte of the archive to read
  entries,   \* entries read
  outcome    \* "finding", "reading", "found", "none" or "thrown"

payloadVars == <<holder, size, location, count, cursor, entries, outcome>>

Numbers == 0..Wide - 1
Plus(a, b) == (a + b) % Wide
Minus(a, b) == (a + Wide - b) % Wide

\* A slip that the checks notice: the sum may wrap.
BeyondSum(offset, n, end) == Plus(offset, n) > end

\* n bytes from an offset are not all before the end.
Beyond(offset, n, end) == offset > end \/ n > Minus(end, offset)

\* The names in a path, as they are between its slashes.
Paths == UNION {[1..n -> {"a", "", ".", ".."}] : n \in 1..2}
SafeRelativePath(path) == \A i \in DOMAIN path : path[i] \notin {"", ".", ".."}

Init ==
  /\ holder \in {"executable", "bundle"}
  /\ size \in 0..MaxFile
  /\ location = [offset |-> 0, length |-> 0]
  /\ count = 0 /\ cursor = 0 /\ entries = <<>> /\ outcome = "finding"

End(how) == outcome' = how /\ UNCHANGED <<holder, size, location, count, cursor, entries>>

Found(offset, length) ==
  /\ location' = [offset |-> offset, length |-> length]
  /\ cursor' = Header
  /\ outcome' = "reading"
  /\ UNCHANGED <<holder, size, entries>>

\* An executable without the mark of a footer has no payload.
FindPayload ==
  /\ holder = "executable" /\ outcome = "finding"
  /\ IF size < Footer THEN End("none")
     ELSE \/ End("none")
          \/ End("thrown")  \* version, count or name
          \/ \E offset, length \in Numbers, claimed \in 0..MaxEntries + 1 :
               IF Beyond(offset, length, size - Footer) THEN End("thrown")
               ELSE Found(offset, length) /\ count' = claimed

\* A bundle is all payload, but for its footer.
FindStandalonePayload ==
  /\ holder = "bundle" /\ outcome = "finding"
  /\ IF size < Magic THEN End("none")
     ELSE IF size < Footer + Magic THEN End("none") \/ End("thrown")
     ELSE \/ End("none")
          \/ End("thrown")  \* name or SHA-256
          \/ \E offset, length \in Numbers, claimed \in 0..MaxEntries + 1 :
               IF offset # 0 \/ length # size - Footer THEN End("thrown")
               ELSE Found(offset, length) /\ count' = claimed

\* ReadArchiveEntries

Length == location.length
Malformed == Length < Header \/ count = 0 \/ count > MaxEntries

ReadHeader ==
  /\ outcome = "reading" /\ Malformed
  /\ End("thrown")

Entry(path_size, file_size, path) ==
  LET start == Plus(cursor, EntryHeader)
      data == Plus(start, path_size)
  IN  IF \/ path_size = 0 \/ path_size > MaxPath \/ file_size = 0
         \/ Beyond(start, path_size, Length)
         \/ ~SafeRelativePath(path)
         \/ Beyond(data, file_size, Length)
      THEN End("thrown")
      ELSE /\ entries' = Append(entries,
                [path |-> path, size |-> file_size, path_size |-> path_size,
                 data_offset |-> Plus(location.offset, data)])
           /\ cursor' = Plus(data, file_size)
           /\ UNCHANGED <<holder, size, location, count, outcome>>

ReadEntry ==
  /\ outcome = "reading" /\ ~Malformed /\ Len(entries) < count
  /\ IF Beyond(cursor, EntryHeader, Length) THEN End("thrown")
     ELSE \E path_size \in 0..MaxPath + 1, file_size \in Numbers, path \in Paths :
            Entry(path_size, file_size, path)

Finish ==
  /\ outcome = "reading" /\ ~Malformed /\ Len(entries) = count
  /\ End(IF cursor # Length THEN "thrown" ELSE "found")

ReadArchiveEntries == ReadHeader \/ ReadEntry \/ Finish

PreparePayload == FindPayload \/ FindStandalonePayload \/ ReadArchiveEntries

PayloadSpec == Init /\ [][PreparePayload]_payloadVars

-----------------------------------------------------------------------------
EndOf(entry) == entry.data_offset + entry.size

\* Where the header of an entry must be: behind the entry before it.
StartOf(i) == IF i = 1 THEN location.offset + Header ELSE EndOf(entries[i - 1])

\* The path leads to a name below where it begins, and never up to there.
Below(path) ==
  /\ path[Len(path)] = "a"
  /\ \A n \in DOMAIN path :
       Cardinality({i \in 1..n : path[i] = ".."}) <
         Cardinality({i \in 1..n : path[i] = "a"})

(***************************************************************************)
(* Whatever numbers a file contains, the entries that were read so far     *)
(* follow one another inside of the payload, and the payload inside of the *)
(* file before its footer; an archive that is accepted has nothing else in *)
(* it, and all its files a place below the directory where it is unpacked  *)
(* (payload.cc:263-305, 317-360, 371-431).                                 *)
(***************************************************************************)
EntriesWithin ==
  /\ outcome \in {"reading", "found"} =>
       location.offset + Length <= size - Footer
  /\ \A i \in DOMAIN entries :
       LET entry == entries[i] IN
       /\ entry.data_offset = StartOf(i) + EntryHeader + entry.path_size
       /\ entry.size > 0 /\ EndOf(entry) <= location.offset + Length
       /\ Below(entry.path)
  /\ outcome = "found" =>
       /\ Len(entries) = count
       /\ EndOf(entries[Len(entries)]) = location.offset + Length
=============================================================================
