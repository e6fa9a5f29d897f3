-------------------------------- MODULE Report --------------------------------
(***************************************************************************)
(* The figures of a comparison's report (compare/report_model.cc): the     *)
(* inventories of two commits under the rules of one of them               *)
(* (compare/inventory.cc), the changes that Git lists between them         *)
(* (git.cc, compare/prepare.cc), the results by key, and what BuildReport  *)
(* makes of them.  A path is its escaped spelling, of which there is one   *)
(* for each path, as a number in their order.  What may be null in the     *)
(* report is a set of at most one member here.                             *)
(***************************************************************************)
EXTENDS Integers, Sequences, FiniteSetsExt, SequencesExt

CONSTANTS
  Paths,        \* numbers, in the order of the paths
  Entries,      \* what a tree may have at a path: mode, blob and size
  Rules,        \* what rules may say of the paths: category, language, excluded
  Measure(_),   \* key -> llm_cc and token_count of its result
  MaxFileBytes,
  Top,          \* length of the leading lists, 10 in the code
  MaxFiles,     \* bound: files of a commit
  MaxMissing    \* bound: keys without a result

VARIABLES
  rules,    \* of the target commit
  commits,  \* "base" and "head" -> path -> entry
  changes,  \* of the plan
  results,  \* key -> result
  errors,   \* TRUE when there are some
  reached,  \* "commits", "plan", "results" or "report"
  report

reportVars == <<rules, commits, changes, results, errors, reached, report>>

Sides == {"base", "head"}
Categories == {"runtime", "tests", "tooling"}

Trees == UNION {[paths -> Entries] :
                  paths \in {p \in SUBSET Paths : Cardinality(p) <= MaxFiles}}

Init ==
  /\ rules \in Rules
  /\ commits \in [Sides -> Trees]
  /\ changes = {} /\ results = <<>> /\ errors = FALSE
  /\ reached = "commits" /\ report = {}

-----------------------------------------------------------------------------
\* BuildInventory.
Reason(path, entry) ==
  CASE entry.mode = "160000" -> "submodule"
    [] entry.mode = "120000" -> "symlink"
    [] OTHER -> IF rules[path].excluded THEN "excluded"
                ELSE IF rules[path].language = "none" THEN "unsupported"
                ELSE IF entry.size > MaxFileBytes THEN "oversized"
                ELSE "none"

File(path, entry) ==
  LET reason == Reason(path, entry)
      language == IF entry.mode = "160000" THEN "none" ELSE rules[path].language
  IN  [path |-> path, category |-> rules[path].category, language |-> language,
       size |-> entry.size, reason |-> reason,
       key |-> IF reason = "none" THEN {<<entry.blob, language>>} ELSE {}]

Inventory(side) ==
  {File(path, commits[side][path]) : path \in DOMAIN commits[side]}

Scorable(file) == file.reason = "none"
Items == UNION {file.key : file \in Inventory("base") \cup Inventory("head")}

-----------------------------------------------------------------------------
\* What `git diff --name-status --find-renames` lists: a file that is gone and
\* one that is new may be given as a rename.
Gone == DOMAIN commits["base"] \ DOMAIN commits["head"]
New == DOMAIN commits["head"] \ DOMAIN commits["base"]
Renames ==
  {pairs \in SUBSET (Gone \X New) :
     /\ \A a, b \in pairs : a[1] = b[1] <=> a[2] = b[2]
     /\ \A a \in pairs : commits["base"][a[1]].mode = commits["head"][a[2]].mode}

NameStatus(renamed) ==
  {<<"R", pair[1], pair[2]>> : pair \in renamed} \cup
  {<<"D", path>> : path \in {p \in Gone : \A pair \in renamed : pair[1] # p}} \cup
  {<<"A", path>> : path \in {p \in New : \A pair \in renamed : pair[2] # p}} \cup
  {<<IF commits["base"][path].mode = commits["head"][path].mode THEN "M" ELSE "T", path>> :
     path \in {p \in DOMAIN commits["base"] \cap DOMAIN commits["head"] :
                 commits["base"][p] # commits["head"][p]}}

\* Repository::Diff and Changes: each change with its old and its new path.
Diff(listed) ==
  {[status |-> fields[1],
    old_path |-> IF fields[1] = "A" THEN {} ELSE {fields[2]},
    new_path |-> IF fields[1] = "D" THEN {} ELSE {fields[Len(fields)]}] :
     fields \in listed}

Prepare ==
  /\ reached = "commits" /\ reached' = "plan"
  /\ \E renamed \in Renames : changes' = Diff(NameStatus(renamed))
  /\ UNCHANGED <<rules, commits, results, errors, report>>

\* Aggregate: what workers failed to measure has no result and is an error;
\* there may be others.
Collect ==
  /\ reached = "plan" /\ reached' = "results"
  /\ \E missing \in SUBSET Items :
       /\ Cardinality(missing) <= MaxMissing
       /\ results' = [key \in Items \ missing |-> Measure(key)]
       /\ errors' \in IF missing = {} THEN BOOLEAN ELSE {TRUE}
  /\ UNCHANGED <<rules, commits, changes, report>>

-----------------------------------------------------------------------------
\* report_model.cc

ResultFor(file) == {results[key] : key \in file.key \cap DOMAIN results}
Measured(file) == ResultFor(file) # {}
Result(file) == CHOOSE result \in ResultFor(file) : TRUE
Supported(file) ==
  Scorable(file) \/ (file.language # "none" /\ file.reason = "oversized")

\* A ratio is its numerator and denominator.
PerToken(result) ==
  IF result.token_count = 0 THEN {} ELSE {<<result.llm_cc, result.token_count>>}

LlmCc(files) == MapThenSumSet(LAMBDA f : Result(f).llm_cc, files)
Tokens(files) == MapThenSumSet(LAMBDA f : Result(f).token_count, files)
Bytes(files) == MapThenSumSet(LAMBDA f : f.size, files)

\* A total is defined when every supported file was measured.
Figures(files) ==
  LET supported == {file \in files : Supported(file)}
      measured == {file \in files : Measured(file)}
      complete == Cardinality(measured) = Cardinality(supported)
      Defined(value) == IF complete THEN {value} ELSE {}
      tokens == Tokens(measured)
  IN  [paths |-> Cardinality(files), supported_paths |-> Cardinality(supported),
       measured_paths |-> Cardinality(measured), bytes |-> Bytes(files),
       supported_bytes |-> Bytes(supported), measured_bytes |-> Bytes(measured),
       llm_cc |-> Defined(LlmCc(measured)), token_count |-> Defined(tokens),
       lmcc_per_token |-> IF complete THEN PerToken([llm_cc |-> LlmCc(measured),
                                                     token_count |-> tokens]) ELSE {}]

\* Coverage and percentages are left out: they are quotients of these.
\* Side: the categories and the totals of an inventory.
Side(files) ==
  [category \in Categories |-> Figures({file \in files : file.category = category})]
    @@ [totals |-> Figures(files)]

Delta(base, head) == {h - b : b \in base, h \in head}
DeltaOfRatios(base, head) ==
  {<<h[1] * b[2] - b[1] * h[2], h[2] * b[2]>> : b \in base, h \in head}

Comparison(base, head) ==
  [lmcc_per_token |-> DeltaOfRatios(base.lmcc_per_token, head.lmcc_per_token),
   raw_llm_cc |-> Delta(base.llm_cc, head.llm_cc),
   tokens |-> Delta(base.token_count, head.token_count)]

\* Measured files by descending llm_cc, then by path.
Rankings(files, changed) ==
  LET entry(file) ==
        [path |-> file.path, category |-> file.category,
         llm_cc |-> Result(file).llm_cc,
         changed |-> file.path \in changed]
      Before(a, b) == a.llm_cc > b.llm_cc \/ (a.llm_cc = b.llm_cc /\ a.path < b.path)
      ranked == SetToSortSeq({entry(file) : file \in {f \in files : Measured(f)}}, Before)
      Alike(rank) == {i \in 1..rank : ranked[i].category = ranked[rank].category}
  IN  [rank \in DOMAIN ranked |->
         [category_rank |-> Cardinality(Alike(rank))] @@ ranked[rank]]

\* IndexPaths and Lookup.
Lookup(files, path) == {file \in files : file.path \in path}
Raw(file) == UNION {{r.llm_cc : r \in ResultFor(f)} : f \in file}
Score(file) == UNION {UNION {PerToken(r) : r \in ResultFor(f)} : f \in file}
RankOf(file, ranked) ==
  {rank \in DOMAIN ranked : \E f \in file : ranked[rank].path = f.path}

\* A slip that the checks notice: a row needs a score on both sides.
UnscoredOnOne(base, head) == Raw(base) = {} \/ Raw(head) = {}

Unscored(base, head) == Raw(base) = {} /\ Raw(head) = {}

\* ChangedFiles: a row for each change that has a score on either side.
Row(change, base, head, ranked) ==
  [old_path |-> change.old_path, new_path |-> change.new_path,
   path |-> IF change.new_path = {} THEN change.old_path ELSE change.new_path,
   base |-> {[category |-> f.category, llm_cc |-> Raw(base)] : f \in base},
   head |-> {[category |-> f.category, llm_cc |-> Raw(head),
              rank |-> RankOf(head, ranked)] : f \in head},
   delta |-> DeltaOfRatios(Score(base), Score(head)),
   raw_delta |-> Delta(Raw(base), Raw(head))]

ChangedFiles(base, head, ranked) ==
  {Row(change, Lookup(base, change.old_path), Lookup(head, change.new_path), ranked) :
     change \in {c \in changes : ~Unscored(Lookup(base, c.old_path),
                                           Lookup(head, c.new_path))}}

\* A side that does not exist contributes nothing; one that exists but was not
\* measured leaves the change undefined.
RawOrNothing(files, path) == IF path = {} THEN {0} ELSE Raw(Lookup(files, path))

PathDeltas(base, head, rows) ==
  UNION {{[path |-> IF change.new_path = {} THEN change.old_path ELSE change.new_path,
           change |-> UNION {row.delta : row \in {r \in rows :
                        r.old_path = change.old_path /\ r.new_path = change.new_path}},
           raw_change |-> raw] :
            raw \in Delta(RawOrNothing(base, change.old_path),
                          RawOrNothing(head, change.new_path))} : change \in changes}

Leading(deltas, sign) ==
  LET selected == {delta \in deltas : sign * delta.raw_change > 0}
      Before(a, b) ==
        \/ sign * a.raw_change > sign * b.raw_change
        \/ a.raw_change = b.raw_change /\ \A p \in a.path, q \in b.path : p < q
      sorted == SetToSortSeq(selected, Before)
  IN  SubSeq(sorted, 1, IF Len(sorted) > Top THEN Top ELSE Len(sorted))

Counts(base, head) ==
  [additions |-> Cardinality({c \in changes : c.status = "A"}),
   deletions |-> Cardinality({c \in changes : c.status = "D"}),
   renames |-> Cardinality({c \in changes : c.status = "R"}),
   category_moves |-> Cardinality({c \in changes :
     \E old \in Lookup(base, c.old_path), new \in Lookup(head, c.new_path) :
       old.category # new.category})]

Status(base, head) ==
  IF errors THEN "failed"
  ELSE IF \E side \in {base, head} :
            side.totals.measured_paths < side.totals.supported_paths
       THEN "incomplete" ELSE "complete"

BuildReport ==
  LET base == Inventory("base")
      head == Inventory("head")
      sides == [base |-> Side(base), head |-> Side(head)]
      ranked == [base |-> Rankings(base, UNION {c.old_path : c \in changes}),
                 head |-> Rankings(head, UNION {c.new_path : c \in changes})]
      rows == ChangedFiles(base, head, ranked["head"])
      deltas == PathDeltas(base, head, rows)
  IN  /\ reached = "results" /\ reached' = "report"
      /\ report' =
           {[sides |-> sides,
             comparisons |-> [part \in Categories \cup {"totals"} |->
                                Comparison(sides["base"][part], sides["head"][part])],
             change_counts |-> Counts(base, head),
             rankings |-> ranked,
             changed_files |-> rows,
             leading_regressions |-> Leading(deltas, 1),
             leading_improvements |-> Leading(deltas, -1),
             status |-> Status(sides["base"], sides["head"])]}
      /\ UNCHANGED <<rules, commits, changes, results, errors>>

Next == Prepare \/ Collect \/ BuildReport

ReportSpec == Init /\ [][Next]_reportVars

-----------------------------------------------------------------------------
\* What one side of a row is worth to a category, or to all of them.
Worth(side, part) ==
  MapThenSumSet(LAMBDA s : IF part \in {"totals", s.category}
                             THEN MapThenSumSet(LAMBDA value : value, s.llm_cc) ELSE 0, side)

\* The difference of two totals is what the rows of its changes make up, and
\* nothing else changes it.
RowsAddUp(r) ==
  \A part \in DOMAIN r.comparisons : \A total \in r.comparisons[part].raw_llm_cc :
    total = MapThenSumSet(LAMBDA row : Worth(row.head, part) - Worth(row.base, part),
                          r.changed_files)

\* The leading lists have the greatest changes, and all of them if they are
\* not full: then they make up the difference, unless a file became supported
\* or ceased to be.
Listed(r) == ToSet(r.leading_regressions) \cup ToSet(r.leading_improvements)
Explained(r) ==
  /\ Len(r.leading_regressions) < Top /\ Len(r.leading_improvements) < Top
  /\ \A row \in r.changed_files : \A side \in row.base \cup row.head : side.llm_cc # {}
LeadingExplain(r) ==
  /\ Explained(r) => \A total \in r.comparisons["totals"].raw_llm_cc :
       total = MapThenSumSet(LAMBDA delta : delta.raw_change, Listed(r))
  /\ \A row \in r.changed_files : \A raw \in row.raw_delta :
       \/ raw = 0
       \/ \E delta \in Listed(r) : /\ delta.path = row.path
                                   /\ delta.raw_change = raw /\ delta.change = row.delta
       \/ LET list == IF raw > 0 THEN r.leading_regressions ELSE r.leading_improvements
          IN  Len(list) = Top /\ \A i \in DOMAIN list :
                IF raw > 0 THEN list[i].raw_change >= raw ELSE list[i].raw_change <= raw

\* A file that is not marked as changed has the same figures on both sides,
\* the ranks of a category are in the order of all ranks, and a row has the
\* rank of its file.
RanksTrue(r) ==
  /\ \A side \in Sides : \A i \in DOMAIN r.rankings[side] :
       LET entry == r.rankings[side][i]
           other == r.rankings[IF side = "base" THEN "head" ELSE "base"]
       IN  /\ ~entry.changed =>
                \E j \in DOMAIN other :
                  other[j] = [entry EXCEPT !.category_rank = other[j].category_rank]
           /\ \A j \in DOMAIN r.rankings[side] :
                i < j => /\ entry.llm_cc >= r.rankings[side][j].llm_cc
                         /\ entry.category = r.rankings[side][j].category =>
                              entry.category_rank < r.rankings[side][j].category_rank
  /\ \A row \in r.changed_files : \A head \in row.head :
       IF head.llm_cc = {} THEN head.rank = {}
       ELSE \E rank \in head.rank : r.rankings["head"][rank].llm_cc \in head.llm_cc

\* "A category or side has an LM-CC total only when every supported path was
\* measured", and only with totals on both sides is a report complete.
CompleteTrue(r) ==
  /\ \A side \in Sides : \A part \in DOMAIN r.comparisons :
       r.sides[side][part].llm_cc # {} <=>
         \A path \in DOMAIN commits[side] :
           /\ part \in {"totals", rules[path].category}
           /\ commits[side][path].mode = "100644"
           /\ ~rules[path].excluded /\ rules[path].language # "none"
           => <<commits[side][path].blob, rules[path].language>> \in DOMAIN results
  /\ r.status = "complete" =>
       \A part \in DOMAIN r.comparisons : r.comparisons[part].raw_llm_cc # {}

\* Only a rename moves a file to another category, since both commits have
\* the rules of one.
CountsTrue(r) ==
  LET counts == r.change_counts
  IN  /\ counts.additions - counts.deletions =
           r.sides["head"].totals.paths - r.sides["base"].totals.paths
      /\ counts.category_moves <= counts.renames

(***************************************************************************)
(* The parts of a report agree with one another and with the two commits,  *)
(* whichever files are unsupported, oversized, shared by several paths or  *)
(* without a result, and whatever Git takes for a rename                   *)
(* (report_model.cc:348-521, report_model.h:21-35).                        *)
(***************************************************************************)
ReportAddsUp ==
  \A r \in report :
    RowsAddUp(r) /\ LeadingExplain(r) /\ RanksTrue(r) /\ CompleteTrue(r) /\ CountsTrue(r)
=============================================================================
