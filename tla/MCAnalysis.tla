----------------------------- MODULE MCAnalysis -----------------------------
(***************************************************************************)
(* The sequential parts of the program: the command line, the archive of a *)
(* backend and its choice, the analysis of a file from its syntax tree to  *)
(* the tree of units, and the report of a comparison.  Each is given every *)
(* input of the bounds, and a behaviour belongs to one of them.            *)
(***************************************************************************)
EXTENDS Naturals, Sequences

CONSTANTS MaxContext, MaxBatch, MaxTokens, MaxInputs,
          Limit, MaxSource, MaxRemovals,
          MaxNodes, SyntaxDepths,
          Layouts, MaxEvents, Depths, Letters, MaxText,
          MaxMemory, Amounts,
          Programs, Typed, Given, ResponseFile, MaxArguments,
          Wide, MaxFile, Magic, Footer, Header, EntryHeader, MaxPath, MaxEntries,
          MaxFileBytes, Top, MaxFiles, MaxMissing

\* Tokens, batches and inputs are counted.
ASSUME ScoringAssumption ==
  MaxContext \in Nat /\ MaxBatch \in Nat /\ MaxTokens \in Nat /\ MaxInputs \in Nat
\* Memory is counted in 64 bits.
ASSUME MemoryAssumption == MaxMemory \in Nat /\ Amounts \subseteq 0..MaxMemory
\* A file is smaller than the numbers that are written in it can be.
ASSUME ArchiveAssumption ==
  /\ Wide \in Nat /\ MaxFile \in Nat /\ MaxFile < Wide
  /\ Magic \in Nat /\ Footer \in Nat /\ Header \in Nat /\ EntryHeader \in Nat
  /\ MaxPath \in Nat /\ MaxEntries \in Nat
\* Tokens have bytes, one after the other, and a depth is a number.
ASSUME HierarchyAssumption ==
  /\ \A layout \in Layouts :
       /\ layout \in Seq(Nat) /\ Len(layout) > 0 /\ layout[1] > 0
       /\ \A i, j \in 1..Len(layout) : i < j => layout[i] < layout[j]
  /\ Depths \subseteq Nat /\ MaxEvents \in Nat

\* A source is no longer than an offset can say (lang.cc:442).
ASSUME PreprocessAssumption ==
  MaxSource \in Nat /\ MaxRemovals \in Nat /\ Limit \in Nat /\ MaxSource <= Limit

\* The programs whose command lines are modelled.
ASSUME CommandAssumption ==
  /\ Programs \subseteq {"analyze", "score", "identity", "prepare", "run"}
  /\ ResponseFile \in Seq(STRING)

VARIABLES settings, input, stage, window, source, capacity, memory, targets,
          records, ended

Scorer == INSTANCE Scoring

VARIABLES nodes, max_depth, frames, leaving, scopes, functions, removed, phase

Syntax == INSTANCE SyntaxTree WITH tree <- nodes, events <- scopes, stage <- phase

VARIABLES original, removals, round, cursor, cleaned, map, refused, dense

Language == INSTANCE Preprocess WITH source <- original

VARIABLES ends, entropy, lines, events, ranges, mode, span_starts_source, step,
          indices, interval, eventIndex, rangeIndex, ending, active, units, arena,
          stack

\* Tokens of one byte, and a first or a second one of two.
MCLayouts == {<<1, 2, 3, 4>>, <<2, 3, 4>>, <<1, 3, 4>>}
Core == INSTANCE Hierarchy WITH stage <- step

VARIABLES text, dummy, pieces, next, offset, tokens, verdict

Records == INSTANCE Alignment

VARIABLES request, at, family, hardware, fd, driver, plugins, devices,
          selected, placement, error, held

Backend == INSTANCE BackendRuntime WITH Limit <- MaxMemory

VARIABLES program, argv, parsed, answer, scoring, again

MCResponse == <<"--target", "main", "--output-dir", "out", "--entropy-reduction">>
Commands == INSTANCE CommandLine

VARIABLES holder, size, location, count, position, entries, outcome

Archive == INSTANCE Payload WITH cursor <- position

VARIABLES rules, commits, changes, results, errors, reached, report

\* A file, an empty one, an oversized one and a link.
Plain(blob, bytes) == [mode |-> "100644", blob |-> blob, size |-> bytes]
MCEntries == {Plain(1, 2), Plain(2, 0), Plain(3, 3),
              [mode |-> "120000", blob |-> 1, size |-> 2]}
\* Two paths of a category, and one of each, the last excluded.
Rule(category, language, excluded) ==
  [category |-> category, language |-> language, excluded |-> excluded]
MCRules ==
  {<<Rule("runtime", "c", FALSE), Rule("runtime", "c", FALSE), Rule("tests", "python", FALSE)>>,
   <<Rule("runtime", "c", FALSE), Rule("tests", "c", FALSE), Rule("tooling", "c", TRUE)>>}
\* The empty file has no tokens, and the languages measure the other differently.
MCMeasure(key) ==
  IF key[1] = 2 THEN [llm_cc |-> 0, token_count |-> 0]
  ELSE [llm_cc |-> IF key[2] = "c" THEN 3 ELSE 2, token_count |-> 2]

Comparisons == INSTANCE Report WITH Paths <- 1..3, Entries <- MCEntries,
                                    Rules <- MCRules, Measure <- MCMeasure

VARIABLE group

scorerVars == <<settings, input, stage, window, source, capacity, memory,
                targets, records, ended>>
syntaxVars == <<nodes, max_depth, frames, leaving, scopes, functions, removed, phase>>
preprocessVars == <<original, removals, round, cursor, cleaned, map, refused, dense>>
hierarchyVars == <<ends, entropy, lines, events, ranges, mode, span_starts_source,
                   step, indices, interval, eventIndex, rangeIndex, ending, active, units,
                   arena, stack>>
alignmentVars == <<text, dummy, pieces, next, offset, tokens, verdict>>
backendVars == <<request, at, family, hardware, fd, driver, plugins, devices,
                 selected, placement, error, held>>
commandVars == <<program, argv, parsed, answer, scoring, again>>
payloadVars == <<holder, size, location, count, position, entries, outcome>>
reportVars == <<rules, commits, changes, results, errors, reached, report>>
all == <<scorerVars, syntaxVars, preprocessVars, hierarchyVars,
         alignmentVars, backendVars, commandVars, payloadVars, reportVars, group>>

NoScorer ==
  /\ settings = 0 /\ input = 0 /\ stage = 0 /\ window = 0 /\ source = 0
  /\ capacity = 0 /\ memory = 0 /\ targets = 0 /\ records = 0 /\ ended = 0
NoSyntax ==
  /\ nodes = 0 /\ max_depth = 0 /\ frames = 0 /\ leaving = 0 /\ scopes = 0
  /\ functions = 0 /\ removed = 0 /\ phase = 0
NoLanguage ==
  /\ original = 0 /\ removals = 0 /\ round = 0 /\ cursor = 0 /\ cleaned = 0
  /\ map = 0 /\ refused = 0 /\ dense = 0
NoCore ==
  /\ ends = 0 /\ entropy = 0 /\ lines = 0 /\ events = 0 /\ ranges = 0 /\ mode = 0
  /\ span_starts_source = 0
  /\ step = 0 /\ indices = 0 /\ interval = 0 /\ eventIndex = 0 /\ rangeIndex = 0
  /\ ending = 0 /\ active = 0 /\ units = 0 /\ arena = 0 /\ stack = 0
NoRecords ==
  /\ text = 0 /\ dummy = 0 /\ pieces = 0 /\ next = 0 /\ offset = 0 /\ tokens = 0
  /\ verdict = 0
NoBackend ==
  /\ request = 0 /\ at = 0 /\ family = 0 /\ hardware = 0 /\ fd = 0 /\ driver = 0
  /\ plugins = 0 /\ devices = 0 /\ selected = 0 /\ placement = 0 /\ error = 0
  /\ held = 0
NoCommand ==
  /\ program = 0 /\ argv = 0 /\ parsed = 0 /\ answer = 0 /\ scoring = 0 /\ again = 0
NoArchive ==
  /\ holder = 0 /\ size = 0 /\ location = 0 /\ count = 0 /\ position = 0
  /\ entries = 0 /\ outcome = 0
NoReport ==
  /\ rules = 0 /\ commits = 0 /\ changes = 0 /\ results = 0 /\ errors = 0
  /\ reached = 0 /\ report = 0

\* The variables of the other groups are idle.
Idle ==
  /\ group # "scoring" => NoScorer
  /\ group # "syntax" => NoSyntax
  /\ group # "preprocess" => NoLanguage
  /\ group # "hierarchy" => NoCore
  /\ group # "alignment" => NoRecords
  /\ group # "backend" => NoBackend
  /\ group # "commands" => NoCommand
  /\ group # "payload" => NoArchive
  /\ group # "report" => NoReport

MCInit ==
  \/ group = "scoring" /\ Scorer!Init /\ Idle
  \/ group = "syntax" /\ Syntax!Init /\ Idle
  \/ group = "preprocess" /\ Language!Init /\ Idle
  \/ group = "hierarchy" /\ Core!Init /\ Idle
  \/ group = "alignment" /\ Records!Init /\ Idle
  \/ group = "backend" /\ Backend!Init /\ Idle
  \/ group = "commands" /\ Commands!Init /\ Idle
  \/ group = "payload" /\ Archive!Init /\ Idle
  \/ group = "report" /\ Comparisons!Init /\ Idle

MCNext ==
  \/ /\ group = "scoring" /\ Scorer!ScoreInput
     /\ UNCHANGED <<syntaxVars, preprocessVars, hierarchyVars,
                    alignmentVars, backendVars, commandVars, payloadVars, reportVars,
                    group>>
  \/ /\ group = "syntax" /\ Syntax!CollectStructuralEvents
     /\ UNCHANGED <<scorerVars, preprocessVars, hierarchyVars,
                    alignmentVars, backendVars, commandVars, payloadVars, reportVars,
                    group>>
  \/ /\ group = "preprocess" /\ Language!RemoveRanges
     /\ UNCHANGED <<scorerVars, syntaxVars, hierarchyVars, alignmentVars,
                    backendVars, commandVars, payloadVars, reportVars,
                    group>>
  \/ /\ group = "hierarchy" /\ Core!Analyze
     /\ UNCHANGED <<scorerVars, syntaxVars, preprocessVars, alignmentVars,
                    backendVars, commandVars, payloadVars, reportVars,
                    group>>
  \/ /\ group = "alignment" /\ Records!AlignTokens
     /\ UNCHANGED <<scorerVars, syntaxVars, preprocessVars, hierarchyVars,
                    backendVars, commandVars, payloadVars, reportVars,
                    group>>
  \/ /\ group = "backend" /\ Backend!Run
     /\ UNCHANGED <<scorerVars, syntaxVars, preprocessVars, hierarchyVars,
                    alignmentVars, commandVars, payloadVars, reportVars,
                    group>>
  \/ /\ group = "commands" /\ Commands!Command
     /\ UNCHANGED <<scorerVars, syntaxVars, preprocessVars, hierarchyVars,
                    alignmentVars, backendVars, payloadVars, reportVars,
                    group>>
  \/ /\ group = "payload" /\ Archive!PreparePayload
     /\ UNCHANGED <<scorerVars, syntaxVars, preprocessVars, hierarchyVars,
                    alignmentVars, backendVars, commandVars, reportVars, group>>
  \/ /\ group = "report" /\ Comparisons!Next
     /\ UNCHANGED <<scorerVars, syntaxVars, preprocessVars, hierarchyVars,
                    alignmentVars, backendVars, commandVars, payloadVars, group>>

MCSpec == MCInit /\ [][MCNext]_all

-----------------------------------------------------------------------------
\* score_cmd.cc, EntropyScorer: see Scoring.
EveryTokenScored == group = "scoring" => Scorer!EveryTokenScored

\* lang.cc: see SyntaxTree.
ScopesTrue == group = "syntax" => Syntax!ScopesTrue

\* lang.cc, offset_map.h: see Preprocess.
PreparedTrue == group = "preprocess" => Language!PreparedTrue

\* core.cc: see Hierarchy.
HierarchyTrue == group = "hierarchy" => Core!HierarchyTrue

\* jsonl.cc: see Alignment.
AlignedTrue == group = "alignment" => Records!AlignedTrue

\* backend.cc, score_cmd.cc: see BackendRuntime.
RuntimeRight == group = "backend" => Backend!RuntimeRight

\* backend_policy.cc, compare/identity.cc: see CommandLine.
PassedOn == group = "commands" => Commands!PassedOn

\* payload.cc: see Payload.
EntriesWithin == group = "payload" => Archive!EntriesWithin

\* compare/report_model.cc: see Report.
ReportAddsUp == group = "report" => Comparisons!ReportAddsUp
=============================================================================
