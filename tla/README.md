# A verification project for llm-cc

llm-cc computes LM-CC, a complexity measure of source code, from the token
entropies of a local language model.  A run selects files, prepares their
source, takes each file's entropies from a cache or from the model, builds a
hierarchy of units and reports it; a second executable compares two commits in
CI, with workers that share an object store.  The arithmetic is sequential.
What is hard to test is what surrounds it: processes that share cache
directories without a daemon, downloads that resume, files that change under
the program, pools of workers that fail half way.  This project models those
parts first, and then the steps of the analysis itself, whose arithmetic on
offsets, windows and depths is easy to get wrong by one.

Paths below are relative to the repository's root; the C++ code is in
`src/src/`.

## Inventory

| Component | State | Operations | Interacts with |
|---|---|---|---|
| Entropy cache (`entropy_cache.cc`) | entry files and their mtimes, `accounting.json`, `.last-sweep`, `.lock`, temporaries | read, write, prune, clear, status | other processes through the file system; analyzer; model identity (key) |
| Private files, locks (`cache_io.h`) | advisory `flock`, staged temporaries | lock, unlock, atomic write | all caches |
| Model cache, downloads (`cache.cc`, `download.cc`, `models.cc`) | `MODEL`, `MODEL.partial`, `models.json`, two kinds of lock | resolve, acquire, download, remove, mark, list | HTTP server through libcurl; other processes |
| Model identity (`model_identity.cc`) | a digest memo per shard | inspect a model | whoever writes the model; entropy cache key |
| Bounded pool (`compare/parallel.h`) | counter, flag, kept exception, slots | map a function over indices | compare stores and result cache |
| Backend bundles (`backend_fetch.cc`) | bundle, checksum, manifest, lock, extracted files | fetch, verify, extract, remove | downloads; plugin loader |
| Compare planning (`compare/plan.cc`, `prepare.cc`, `inventory.cc`, `identity.cc`) | a plan: cache hits, misses and the partition of the misses | prepare, plan, validate | git, result cache, workers |
| Compare workers, aggregation (`compare/worker.cc`, `aggregate.cc`) | a result per worker, a deadline | score assignments, merge | plan, stores, analyzer |
| Compare stores (`compare/store.cc`, `s3.cc`, `result_cache.cc`) | objects by key | get, put, list, refresh | HTTP, workers |
| GPU lease, inference guard (`compare/execution_host.cc`, `inference_guard.cc`) | lock files with a deadline | acquire, release | workers, analyzer |
| Analyzer (`analyze.cc`, `analysis_session.cc`, `analysis_totals.cc`) | a lazily created scorer, cache tiers, totals | analyze a file, totals | entropy cache, scoring, core |
| Scoring (`score_cmd.cc`, `scoring.cc`) | windows over tokens, llama.cpp context, a pool of helpers | score | backends |
| LM-CC (`core.cc`, `jsonl.cc`, `offset_map.h`, `lang.cc`) | none: pure | align, detect units, build the hierarchy, map offsets | tree-sitter |
| Backends (`backend.cc`, `backend_policy.cc`, `payload.cc`, `rocm_topology.cc`) | loaded plugins | choose a device, resolve a plugin | bundles, dynamic loader |
| Project (`git.cc`, `glob.cc`, `rules.cc`, `project.cc`) | none kept | discover, classify, list | git through subprocess |
| Subprocess (`subprocess.cc`) | a child, three pipes | run | git |
| Progress (`progress.cc`) | current phase, heartbeat thread | report, pause | everything |
| Reports, command lines, hashes | none kept | format, parse options, hash | everything |

How they interact.  Caches are shared only through the file system: no process
tells another one anything, and each may be killed between any two system
calls.  Mutations hold a `flock`, which the kernel drops with the process;
most look-ups do not take it.  Inside a process, threads exist in the bounded
pool, in the helpers that reduce rows of logits, in the subprocess pipes and in
the progress heartbeat.  A GPU is shared through two locks, the inference guard
of interactive runs and the lease of compare workers.  Compare workers run on
different machines and meet in the object store and in the aggregation.  One
analysis is a chain of pure steps: discovery, the syntax tree, the removal of
comments with its map of offsets, tokens and their entropies from the cache or
the scorer, their alignment, units, the tree.

The behaviours that are hard, and the properties that make each part correct,
are listed as hazards in `PROJECT.json`, each at its line and with the
properties that would notice it going wrong.

## Plan

| | Modules | Contents | State |
|---|---|---|---|
| 1 | `EntryBytes`, `EntropyDirectory`, `EntropyCache` | the shared entropy cache, implementing an abstract directory | done, proved |
| 2 | `ModelCache` | models, resumable downloads, `models.json` | done, proved |
| 3 | `BoundedMap` | the thread pool of the compare stores | done, proved |
| 4 | `ModelIdentity` | digests of a model that keeps changing | done, proved |
| 5 | `CompareStore`, `ComparePlan`, `CompareWorker`, `Comparison` | the whole comparison in CI: plans and workers that meet in the object store, and the aggregation | done, proved |
| 6 | `BackendFetch`, `Payload`, `BackendRuntime` | bundles fetched, verified, unpacked, removed; what archives may claim; the choice of a backend with its handles | done, proved |
| 7 | `Analyzer`, `ObjectStore`, `CommandLine` | runs that share a cache and a GPU; a store's entry in detail; options that are passed on | done, proved |
| 8 | `Sources`, `SyntaxTree`, `OffsetMap`, `Preprocess`, `Scoring`, `Alignment`, `Hierarchy` | one analysis, step by step, against reference definitions | done; `OffsetMap`, `Preprocess`, `Scoring`, `Alignment` and `Hierarchy` proved |
| 9 | `Report` | the figures of a comparison's report | done |
| 10 | `HostReduction`, `Subprocess`, `Progress` | threads inside a process | done, proved |

What could follow: proofs for `Report`, `Sources` and `SyntaxTree`, each of which
needs an induction of its own over what it reads, as `CommandLine`, `Preprocess`,
`Alignment` and `Hierarchy` have theirs; `ObjectStore` as a
refinement of `CompareStore`, for which the latter would have to show calls in progress.

## Modules

### EntropyCache

A process is its `pc` and the locals of the running operation (`op`, `key`,
`need`, `mem`, `tried`).  Disk: `size` and `used` (length and mtime of each
entry), `acct`, `lastSweep`; `lock`; `temps`/`staged` for the temporaries of
`AtomicWriteFile`, which any sweep may delete.  Each action is the code between
two points at which another process, a crash or a failing call can come in:
a look-up reads without the lock (`StartRead`, `CheckExpiry`), waits for it
and only then touches the entry (`Touch`); a write marks the accounting dirty
(`Mark`), sweeps if due, takes the replaced entry out of the account
(`Subtract`), evicts by last use (`EvictNext`, `EvictDone`), renames
(`Commit`) and saves (`Save`).  `Throw` is any failing system call, `Crash` a
killed process.  The abstract cache is `EntropyDirectory`: entries vanish, or
one is installed whole and within the budget; `ImplementsDirectory` is the
refinement, under the identity as mapping, since the entries are the whole of
the abstract state.

Bytes are counted as the cardinality of the set of pairs <<key, byte>>
(`EntryBytes`), a sum that needs no recursion and that the prover can reason
about with the library's facts on cardinality.

### ModelCache

Files are sequences of chunks; the server's is 1..Size.  `Resolve`, `Inspect`,
`Accepted`/`RangeIgnored`/`RangeUnsatisfiable` (206, 200 and 416),
`Receive`, `FinishOutput`, `Install`, `Recheck`, `RemoveTarget`,
`RemovePartial` and the three steps of a manifest update follow the code
between its system calls.  `RequestFails`, `Die`, `UpdateFails` and
`ReadManifestFails` are the failures, at most `MaxFaults` of them.

### ModelIdentity

`InspectFile` takes a signature, tries the memo, hashes chunk by chunk and
compares signatures, retrying once; `InspectModel` does so for every shard and
then compares all signatures, retrying once.  The writer rewrites a chunk in
place or replaces a file by rename, up to `MaxChanges` times.  `Resolution` is
the number of consecutive changes of a file that can share a timestamp.
`since` and `seen` are auxiliary: what the properties need to remember.

### CompareStore, ComparePlan, CompareWorker, Comparison

Four modules that extend one another; `Comparison` has the specification of
the whole.

`CompareStore` is the bucket: `objects` (results, by item and fingerprint) and
`entries` (native entropies, by engine and content).  What is stored is a
measurement, a record of the bytes it was computed from and of the scorer and
model that computed it.  The code never sees that record; it is what lets
`ResultsTrue` say that the checks made along the way (digests of blobs, the
scorer's description, the model's digest, the names of objects) suffice.
`PutObjectFails` is a request whose last attempt failed, applied or not;
`Disturb` is everything else that happens to a bucket.

`ComparePlan` is `Prepare`: `Lookup` is one thread of the pool taking one item
through `ResultCache::Get`, `Refresh` its rewriting of an old result, which
another plan's or worker's requests may overtake; `WriteBlobs`, one `Assign`
for each turn of `Partition`'s loop, and `Publish`, which is `ValidatePlan`
and the writing of `plan.json`.

`CompareWorker` is `RunWorker` for a seat, that is a worker number of a plan,
on a machine with some build and model.  `pc` follows `Score`: "deadline",
"lease", "open", "file", then for each file "fetch", "share" and "put", and
"write" for the artifact.  `Leave` is every way out of `Score` and lets the
lease go; `NextFile` ends one file.  `Expire` passes the deadline, `Kill` and
`Hang` stop a process with and without the kernel dropping its lock, `Damage`
spoils a blob on its way to the worker.  A seat that failed or was killed may
be started again, as a CI system does, also on the wrong machine.

`Comparison` is `CollectWorkers`, `Aggregate` and the status of the report.
Artifacts are handed in any order, any number of times, to any plan.  `clean`
is auxiliary.

### ObjectStore

One entry of a store, below the level of `CompareStore`.  `kind` says which of
the two stores it is.  A directory: `OpenParent`, `Look`, `CreateTemporary`,
`Write` (any number of bytes at a time), `Sync`, `Rename`, `SyncParent` for
`Put`; `Open`, `Size`, `Read` for `Get`, which goes on reading the file it has
opened whatever is renamed over it.  `shown` is the history of the entry, of
which a power loss may bring back anything since `kept`; what was never synced
may be empty afterwards.  A bucket: `Arrives`, `Acknowledged`, `NoAnswer`,
`Retry`, `LateArrival` for the attempts of `Send`.  `Meddle` is another user
of the directory who appends to the file or plants a link.

### BackendFetch

A bundle is three parts; each part remembers the publication (URL) it is from,
so that a partial file resumed from another URL is a mixture.
`ReadBundleFooter`, `HashBundle`, `ReadRecordedHash` and `VerifyManifest` look
at the cache file by file, without the lock and again after
`BackendCacheLock`; `Receive`, `InstallBundle`, `FetchChecksum` and
`DownloadManifest` are the three downloads, with what a failure leaves behind;
then `Open`, the extraction cache with a lock for each bundle's digest
(`extracting`), and `Load`.
`StartRemoval` and `RemoveBackend` are `backends remove`, which takes no lock.
`Decline` is the user's no, `Crash` a killed process.

### Payload

`FindPayload` and `FindStandalonePayload` read a footer, `ReadArchiveEntries`
the archive; every number in the file is any number below `Wide`, and sums and
differences wrap there as they do in 64 bits.

### BackendRuntime

The constructor: `family` by family it probes the hardware, searches a plugin
in six places, loads it (`LoadPlugin`, with one action or disjunct for each of
its ends) and compares the memory of the devices; `Unload` and `Unwind` are the
two ways to give handles back.  `GpuPlacement` is the choice of a GPU for a
model.  The sum of memories wraps in `Total` no more than it does in the code.

### Analyzer

A process is its `pc` in `RunAnalyze`, its `provider` (no scorer yet, one, or an
error that is kept), and what became of each file so far.  `ReadRecords`,
`CreateBackendRuntime`, `TryLock` and `WaitForLock`, `Load`, `Score`, `Totals`
and `Unload` follow `cli/main.cc`, `analyze.cc` and the scorer's members; the entropy cache is a set of entries,
since `EntropyCache` has its details.  `holder` and `device` are the inference
lock and the GPU: the guard is older than the model in the scorer, so it is
given back later (`Unload`, then `Release`).

### CommandLine

An argument is a string of a small set; `ReadArgument` types one after the
other and `ParseArguments`, `Validate` and `ResolveExecution` do what the three
programs do with them, errors included.  `Recover` is the CPU command that is
proposed after a GPU failed, read again by the same parser; `Settled` and
`ReadBack` are the scoring settings of a plan, written and read again.

### Sources

`Matches` is the loop of `glob.cc`, with its backtracking; `DiscoverSources`
the two walks; the inventory of a commit is what they are compared with.  A
path is a sequence of names, a name one of characters, as far as globs look at
them.

### SyntaxTree, OffsetMap, Preprocess, Scoring, Alignment, Hierarchy

`SyntaxTree` is the walk with its stack of frames over every tree of a bounded
number of nodes, labelled with the node types that the Python tables tell
apart.  `OffsetMap` has the spans of `offset_map.h` as pure operators, and
`Preprocess` builds the map while it cuts out the ranges, one range at a time.
`Scoring` is `EntropyScorer`: `PrepareContext`, `ScoreWindowAt` and the batches
of a window, with failures anywhere and a second input after them; the memory
of the context is the sequence of tokens decoded so far, which lets
`EveryTokenScored` say with what each token was scored.  `Alignment` lays the
pieces of a tokenizer over the source.  `Hierarchy` is the scan with its three
cursors and the tree built from the units.  It is given a whole file or, as
`ScoreFunctions` does, the span of one function with its bytes counted from its
start; `span_starts_source` tells which, since the first token of a file, or of
the function a file begins with, never opens a block, and that of a later
function may.  (Where it never opens one its entropy is not looked at, and is
"none".)  Each compares with a reference definition of a line or two: a unit's
depth is the deepest scope around its beginning, a scope's depth the number of
scopes around it, and the bytes without a unit are, in the reference mode, those
before the line of the first token that opens a block.

### Report

`Prepare` lists the changes between two commits as Git and `Changes` do,
`Collect` leaves some keys without a result, and `BuildReport` computes sides,
comparisons, rankings, rows, leading lists, counts and the status, one operator
for each function of `report_model.cc`.  A value that may be null is a set of
at most one member, so that a difference is null when one of its sides is.

### BoundedMap, HostReduction, Subprocess, Progress

The accesses of each thread to what it shares, one action each, with condition
variables as sets of sleepers and wake-ups that may be spurious.  `Join` is the
caller of `BoundedMap`.  `Subprocess` has a child that reads and writes in any
order and may leave a process behind that keeps its output open.  `Progress`
counts time in ticks.

### MC modules

`MCThreads` has the four modules of threads and `Analyzer` as five groups of
variables, `MCFiles` has `Sources`, `ModelIdentity` and `ObjectStore`, and
`MCAnalysis` nine groups, the other sequential parts; a behaviour belongs to
one group, the others stand still.  `MCComparison` and `MCComparePlan` name the
functions that a `.cfg` cannot write.

## Runs

| Run | Instance | Shows |
|---|---|---|
| `entropy_cache` | 2 processes, 2 keys, entries of 1 or 2 units, budget 3, 3 clock values | live temporaries kept, accounting exact, next expiry conservative, no revival, refinement of `EntropyDirectory`, the lock always given back |
| `model_cache` | 2 processes, 2 models of 2 chunks, 2 faults | files intact, downloads undisturbed, no record lost, an operation ends once its competitors are idle |
| `model_cache_resume` | 1 process, 1 model of 2 chunks, 2 faults | **violated**: an interrupted download is resumed |
| `files` | 1 process, 1 model of 2 shards of 2 chunks, 3 changes; stores with 2 processes, 2 values and 2 faults; worktrees of 2 files 3 directories deep, patterns of 3 segments | a memo is true, a digest is that of one model, one change is tolerated; an entry is whole for every reader; discovery finds what a commit's inventory scores |
| `model_identity_coarse` | 1 process, 1 shard, ticks of 2 changes | **violated**: a memo is true |
| `comparison` | 2 plans of the same file with the same or different settings, 2 builds, 2 models, 1 fault | no result is untrue, a report that is not failed is complete |
| `comparison_hosted` | 1 plan of 3 files, two of them empty; results of one, two or none of them from an earlier comparison; 2 workers that share a GPU; 1 fault | each file is a hit or has one worker, the shares are even, no false alarm, workers end although one hangs with the GPU |
| `compare_plan` | 1 plan of 3 files, two of them empty; 3 workers | **violated**: a plan that was prepared is valid |
| `backends` | 2 processes, 2 publications, one of them of the own commit, 2 faults | what is loaded is whole, what is fetched is what was asked for, what was verified stays, locks are returned |
| `backends_commit` | 1 process, 2 publications, 2 faults | **violated**: only the own commit's bundle is loaded |
| `threads` | 3 threads for 4 indices; 2 helpers, 2 batches of 2 rows; 2 chunks in and out through pipes of 1; heartbeats every 2 of 7 ticks; 2 processes, 2 files, 1 kill | slots and rows have one owner, output is whole, heartbeats are regular, a run reports what happened, one process on the GPU, every call ends |
| `analysis` | see `Analysis.cfg`: contexts of 4 tokens and inputs of 6, sources of 6 bytes, trees of 6 nodes, 5 arguments, archives of 2 entries in files of 9 bytes, commits of 2 files at 3 paths with 1 missing result | the nine properties of its groups, one each |

Why these bounds are enough.  Two processes suffice for every race on a lock
that has one holder, and every pair of operations occurs.  A budget of 3 with
entries of 1 and 2 makes a write evict none, one or all other entries, and fail
to; three clock values let an entry expire, be touched in its last moment and a
sweep be due or not.  Two chunks make a partial file that is neither empty nor
complete; two faults allow a crash of each process, or a failing request
after one.  Four indices for three threads make some thread take a second index
while the others run.  Three changes are one more than the retries of a file
and of the whole model tolerate.  Two plans are what a race in the store takes, and
with two engines each a wrong result has somewhere to come from; `comparison`
keeps one file for each, since files meet only in the partition.  That is what
`comparison_hosted` is for: three files for two workers, and any of an empty
file and the other one a hit that an earlier comparison left (`Earlier`), so
that the loop deals out three, two or one.  One fault reaches every failing branch
once, a fault after which all goes on (a damaged blob, a foreign machine, a
killed worker started again) included.  The theorems remove all of these bounds but
the number of faults and changes, which they take as an arbitrary constant.

For the parts without theorems: two publications and two faults are the least
that mix a partial file and leave the mixture behind.  Two batches let a helper
be late for one of them; a second row lets it own nothing, one or both.  A pipe
of one chunk is full after half of the output.  Seven ticks are three
heartbeats and a question between any two.  An input of six tokens in a context
of four has two windows and a partial last batch of three, and the second input
may be shorter or longer than the context that is left.  Six bytes hold a
comment between two words, with and without its newline; two removed ranges may
touch.  Six nodes hold a function in a class, a comprehension with its body
and a clause, and a docstring.  Two structural events of two depths nest, touch
or are apart.  With `Wide` = 16 and files of up to 9 bytes every sum of two
fields of an archive can wrap.  Two values put by two processes overtake one
another in every way, and with two faults a writer dies after another one
failed, or a power loss follows a failing fsync.  Two commits of two files at
three paths share blobs, rename across categories and between a supported and
an unsupported path; leading lists of one entry (ten in the code) overflow.

Fairness.  Everywhere a thread or process that is inside an operation takes its
next step if it can: these are ordinary sequential programs under a scheduler,
and no error is assumed to happen.  `entropy_cache` and `backends` assume
nothing about who gets a lock: a process may wait for ever while others come
and go, so only the release is claimed.  `model_cache_resume` adds a user who
asks again.  `threads`: each group has weak fairness of its own threads; the
child program reads, writes and ends, and the process it left behind ends (the
strong fairness of `DecidesToLeave` says that a program which again and again
could end does so in the end; without it a program may run for ever and
`RunProcess`, which has no timeout, waits for it); the runs of the analysis
take their steps, so whoever has the GPU ends and gives it back.
`comparison_hosted`: a worker takes its next step unless it is killed or hangs,
and time passes (`Run` and `Expire` are weakly fair); nobody has to start a
worker.  Runs of parts that really end (calls, comparisons, analyses) do not
check for deadlock.

Each property of a passing run has a mutant in `PROJECT.json`: a definition
replaced by a plausible slip that makes TLC find the property violated.

## What the violated runs say

`model_cache_resume`.  A process killed after the last byte reached
`MODEL.partial` and before the rename leaves a complete partial file.  The next
download asks for the range behind its end, the server answers 416, which
libcurl tolerates for a resumed request, and `DownloadFile` throws "unexpected
HTTP status" (`download.cc:367`).  It leaves the file as it is, so every retry
ends the same way until the model is removed by hand.

`model_identity_coarse`.  "A missing, unreadable or stale memo only costs a
hash" (`model_identity.h:34`) needs timestamps that advance with every change.
Where two changes share a tick, a rewrite during hashing is not seen, and the
wrong digest is recorded and believed.

`compare_plan`.  `Prepare` "writes plan.json last. Returns the plan."
(`prepare.h:48`): but `Partition` gives the next file to the worker with
the fewest bytes (`plan.cc:264`), and an empty file does not add any.  With
several empty files among the misses one worker takes all of them; if the other
files are too few to go round, another has none, and `ValidatePlan` rejects the plan: "invalid worker assignment"
(`plan.cc:357`).  Two empty files are two items only if their languages differ,
since they have one blob.

`backends_commit`.  "Fetching and cache reuse require a manifest and reject the
bundle unless the manifest's `git_sha` equals the binary's Git SHA"
(`DESIGN.md:159`): but the manifest is not tied to the bundle next to it, and a
failed verification after a download removes the bundle alone
(`backend_fetch.cc:657`).  An interrupted download of another commit's bundle,
resumed from the right URL, is rejected and leaves the right manifest; the
other bundle, downloaded again by a process that is killed after its checksum
and before its manifest, then verifies and is loaded.

## Where behaviour may surprise

Not claimed by any property, and found while modelling:

- A file given inside a directory that discovery from above would skip (a
  virtual environment, `.llm-cc-cache`) is analyzed when Git lists nothing
  there and the directories are walked instead; with Git's list it is not.
  `SelectionAsCommitted` leaves such inputs out (`InsideSkipped`).
- A source that begins with a space, tokenized by SentencePiece without a dummy
  prefix, looks like one with it; `AlignedTrue` allows the tokens of such a
  source to be refused.
- `store.cc:443` says that a crash "must not lose the name".  Only the entry's
  own directory is synced and a failure is ignored; directories just created
  above it are not.  `ObjectsWhole` promises the name only for a directory that
  has lasted, and after a sync that did not fail.
- A `pyvenv.cfg` that one commit adds takes unchanged files around it out of
  the totals, and no change of the report accounts for the difference.
  `ReportAddsUp` is about commits that agree on what is excluded.
- Temporaries of killed writers are never swept from a directory store.
- A request to a bucket that was given up may arrive after later ones and bring
  back an older value.

## Proofs

| Module | About | Theorems that a run checks on an instance |
|---|---|---|
| `EntropyCacheProofs` | EntropyCache | `LiveTemporariesKept`, `AccountingExact`, `NextExpiryConservative`, `ExpiredNotRevived`, the refinement |
| `ModelCacheProofs` | ModelCache | `FilesIntact`, `Undisturbed`, `NoRecordLost` |
| `ComparisonProofs` | Comparison and all it extends | `Partitioned`, `Balanced`, `ResultsTrue`, `NothingUnmeasured`, `NoFalseAlarm` |
| `BackendFetchProofs` | BackendFetch | `LoadedWhole`, `FetchedAsAsked`, `VerifiedStays` |
| `FilesProofs` | ObjectStore, ModelIdentity | `ObjectsWhole`; `MemoTrue`, `OneModel`, `OneChangeTolerated` |
| `ThreadsProofs` | BoundedMap, HostReduction, Subprocess, Progress, Analyzer | `EverySlotFilled`, `RowsScored`, `OutputWhole`, `HeartbeatRegular`, `RunsRight` |
| `AnalysisProofs` | Payload, BackendRuntime, Scoring, CommandLine | `EntriesWithin`, `RuntimeRight`, `EveryTokenScored`, `PassedOn` |
| `HierarchyProofs` | OffsetMap, Preprocess, Alignment, Hierarchy | `PreparedTrue`, `AlignedTrue`, `HierarchyTrue` |

The constants are arbitrary but for the named assumptions of the modules, which
TLC evaluates on each instance: finitely many keys, a positive largest entry,
any budget (EntropyCache); any processes, models and size (ModelCache); any
processes, shards and chunks, and `Resolution = 1` as a hypothesis of each
theorem (ModelIdentity); finitely many items, any sizes, plans, machines and
faults, at most four workers as in the code (Comparison); any processes,
publications and faults (BackendFetch); any users, sizes and limits
(ObjectStore); any count and a positive concurrency, finitely many helpers, any
interval, processes and files (threads); natural sizes of headers and footers,
a file smaller than the numbers written in it can be, amounts of memory that fit
in 64 bits, any context, batch and inputs (analysis);
any arguments, however many, and any response file (command lines); any alphabet
and texts, and any layouts of a source, where a layout is the increasing ends of
tokens that have bytes and a depth is a natural number (alignment and hierarchy);
any source that is no longer than an offset can say, which is checked before it
is parsed (lang.cc:442), and any ranges that are apart or one inside another,
as the nodes of a tree are (preparation).

Where a process model has per-process state, the inductive invariant is the
type invariant, a statement about the shared state, and one about every
process.  The properties alone are not inductive:

- `AccountingExact` says nothing while the record is dirty.  `ProcInv` says
  what the account in memory of the lock holder is at each `pc`: that of the
  directory, that of the directory without the entry to be replaced, or
  nothing yet.  `Blocks`-lemmas turn a change of one file into a change of a
  cardinality.
- `FilesIntact` needs that whoever is at a downloading point holds the model's
  lock, that its partial file is First(at), and at "rename" that at = Size.
  `Frame`: a step that spares the files of q's lock keeps q's invariant.
- `OneModel` needs, for every signature a process remembers, that it is either
  no longer the file's or that the digest is that of the file's present
  content.  A change ages all signatures of its shard at once, because a
  signature contains the time of the change and times only grow.
- `EverySlotFilled` needs that every index below the counter is filled, still
  owned by a running thread, or was given up by one that recorded a failure;
  the counter's bound is a count of the threads that have run past the end.
- `LoadedWhole` follows from what is opened: every part of it is some
  publication's, and both the table and the files in a runtime come from the
  same opened bundle (`CodeWhole`, `RuntimeWhole`).  `FetchedAsAsked` needs that
  what a download has left behind so far came from the URL of the process that
  has the lock (`Downloads`); `VerifiedStays` that a bundle nobody else fetched
  or removed is the one that was hashed (`Untouched`), for which a process under
  the lock must download only what is not valid (`SeesTrue`).
- `ObjectsWhole`: what the entry has ever been is missing, planted, or a value
  with all its bytes, and on a disk synced (`ShownInv`), so that no power loss
  can empty it.  A directory that may still vanish has nothing promised, and
  one that is missing shows nothing a power loss can bring back (`ParentInv`).
  What a reader has opened has been the entry since it began (`GetInv`); a
  writer past its rename has been shown (`PutInv`).  `Grows` sums up what a
  step may do to the past of the entry, and `CallKept` shows once that a call
  which does nothing keeps its invariant under any such step.  Late requests
  exist for a bucket only (`SentInv`).

The comparison's invariant comes in five parts, each proved with the help of
those before it:

- `TypeInv`: types, and `Equipped`, that a worker has at hand what its place in
  `Score` uses.
- `PlanInv`: `Disjoint` and `Even` are the properties; `LookedUp` says that
  nothing is looked up or refreshed any more once partitioning begins, and
  `Dealt` that files still to be assigned are no larger than those assigned.
  `Balanced` follows from that order: the file just given is the worker's
  smallest, and the worker had the fewest bytes.
- `TrueInv`: `Checked` says what a worker has verified by each place (its
  scorer from the start, its model once the session is open, the blob's bytes
  once they are read), so that what it puts under a key was measured as the
  key says.
- `WorkInv`: an artifact belongs to a published plan and a worker of its pool,
  and its results are among the assigned keys.  The worker only counts them;
  `CompleteIsSound` turns the count into equality.
- `ReportInv`: for every worker seen by a report without errors an artifact
  that witnesses what was merged.  `PlansFreeze` lets it persist: a published
  plan does not change and artifacts only become more.

The invariants of `ThreadsProofs`:

- `PoolInv` rests on what `workersPending` means: it is the number of the
  helpers that have begun the batch and not finished it, or have not seen its
  generation yet (`Owes`).  When it is zero no helper holds a row, so that
  Reduce may return and the spans may go.  `RowsInv` follows the rows: each
  that was taken is held by one thread, has its score, or a row threw.
- `ProcessInv`: what was written to an output is what was collected followed by
  what is in the pipe (`Carried`); a pipe at whose end the reader stopped has no
  writer left and is empty (`Drained`), because whoever may still write holds
  it open (`Held`).
- `ReporterInv`: while the thread waits, its deadline is at most an interval
  after the last line or the last activity (`WakesInTime`).
- `RunInv`: what was told of the files so far, that a file being scored was not
  in the cache the run began with, what the exit status says of the outcomes,
  and that who is on the device has the lock.

Those of `AnalysisProofs`:

- `ArchiveInv` keeps the cursor: it is the end of the last entry, inside of the
  payload, which is inside of the file.  Because each bound is compared by a
  difference that cannot wrap, no sum behind it wraps either (`NotBeyond`).
- `BackendInv`: what is open are the handles of the recorded plugins and of the
  attempt in progress (`HeldInv`); a plugin without a registry has nothing open
  and tells of the hardware what the probe found (`PluginInv`); a choice is made
  among families that were all tried (`ChoiceInv`).  The saturating sums of
  memory are compared with unbounded ones for at most two devices each, as in
  the model.
- `ScoringInv`: the context holds the tokens of the window up to the source and
  nothing else, and the number of records is what the window and the source say
  (`WindowInv`); a record is of its token and saw what comes right before it
  (`RecordsInv`).  `WindowFacts` and `AtNextWindow` are the arithmetic: windows
  begin half a context apart, each scores from where the one before ended, with
  at least half a context before it, and the last one ends with the input.  That
  the metadata reconstructed from records counts as many windows as were scored
  is a rounding up, computed in two ways.
- `CommandInv`: reading the command that is recovered from the arguments so far
  leaves the parser where the arguments themselves do, but for the options that
  place the model and whatever is pending (`Followed`).  The parser is a fold
  over the arguments, so the proof is an induction over them: `ParsingMore` and
  `RecoveringMore` take one argument off, `FollowedStep` is the step.  It rests
  on the options that are skipped never being those that exclude one another
  (`PlacingHasNoRivals`).  The answer is one that `Accept` gives the parser's
  state, and a plan's scoring was written from the answer's options with a place
  that is not "auto" any more (`Planned`, `Definite`); read back it resolves to
  the same place (`DefiniteAgain`), and written again it is the same document
  (`BackScoring`).

Those of `HierarchyProofs`.  Each compares what a loop leaves behind with a
definition over the whole input, so both need inductions over data, which the
library's theorems cannot give here.  `Counting` gets one from the
well-foundedness of < (a set of numbers that has 0 and with each number the next
has them all), and is then used for joined texts, for the order of the
boundaries, for levels and for ancestors.

- `AlignmentInv`: the pieces joined so far, without the tokenizer's space, are
  the source up to `offset`, and so are the tokens joined; each piece but a
  lone space has its token, as long as the piece.  A piece that does not match
  means that no continuation can be the source.
- `HierarchyInv` comes in three parts.  `SourceInv` is what the tokenizer and the
  parser hand over.  `ScanInv` is about the scan and its three cursors: what was
  passed ends behind the scan and the queue holds the scopes that cover it, with
  the active depths counting them (`PassedInv`); every unit is inside of its
  interval, they are in order and cover all code up to the scan from the first
  interval on, which begins with the first marker where the reference mode skips
  what comes before it (`OpenedFrom`), and each is as
  deep as the deepest of all scopes around it, although the scan looks at those
  in the queue only (`UnitsInv`).  `TreeInv` is about the tree: a node's parent is
  the nearest less deep unit before it (`NodesInv`), because the stack holds
  each unit that may still have children, ever deeper (`StackInv`).  The
  descendants of a unit are the run of deeper units behind it
  (`AncestorsSpan`), from which follow the levels and that trees nest.
- `LanguageInv` has two halves.  The spans stand for the list of boundaries they
  were made from (`Stands`): they adjoin, and each boundary of a span is its first
  and so many strides.  The boundaries rise, so that each is at least as large as
  those before it are many (`RisingBeyond`), and therefore no offset of a source
  that fits is refused.  What `OriginalOffset` and `CleanedOffset` find by
  searching the spans is then what the list says (`OffsetsRight`).  The other half
  is that what was copied is a piece of the cleaned source (`Part`): where each of
  its bytes comes from, that none outside of the ranges is left out, and that two
  bytes which a range parted are parted still, also where one piece ends and the
  next begins (`Joint`).  Every range that was passed ends at or before the cursor.
  That as many lines are left is shown with a bijection between the ends of lines
  of both sources, not by counting.

A lemma treats one action; an `Invariance` lemma combines them with `PTL`.  The
action properties (`RecordsKept`, `NoRevival`, `EvictionJustified`) and
`Refinement` follow from the invariant and a case distinction on the step.
The theorems about a group of an MC module are about that module's own
specification: in the other groups there is nothing to show.

Proved and not in any run: `TypeCorrect` of six modules, that running threads
own distinct, empty slots (`SlotsOwnedAlways`), and that an entry is only
evicted when the budget asks for it (`EvictionJustified`).

Only model-checked:

- The liveness properties `LockReleased`, `EndsWhenAlone`, `CallsEnd`,
  `LocksReturned` and `WorkersEnd`: liveness is out of the prover's reach.
- What happens with a coarse clock (`model_identity_coarse`), which is a
  violation.
- `SelectionAsCommitted`, `ScopesTrue` and `ReportAddsUp`.  Each compares a
  recursive function or a fold over a tree, a text or a list with a reference
  definition that quantifies over the whole input.  The library's induction
  theorems take an operator as parameter, which the installed provers cannot
  instantiate, so every such comparison needs an induction spelled out for its
  own data, as for `AlignedTrue`, `PreparedTrue`, `HierarchyTrue` and `PassedOn`.

## Assumptions

- The server's file never changes (URLs are pinned to a commit), its length is
  stated, libcurl reports a transfer that ends early and lets a resumed
  request get 416.
- The kernel releases a `flock` when its holder dies; a rename is atomic; what
  was synced survives a power loss.
- SHA-256 is injective; a signature's size field adds nothing, since all
  versions of a model are taken to have one size.
- The wall clock of the entropy cache does not step back; the time of
  `Progress` passes no moment at which the thread wakes up.
- A URL of a backend is identified with what is published there.
- An item of a comparison is a pair of a blob and a language, written as the
  number of its key; a measurement of its blob's bytes stands for the pair.
  Whether a stored result is old enough to be refreshed, and whether a file
  has anything to score, is chosen freely.
- The results that earlier comparisons left in the store (`Earlier`) are true,
  as `NoWrongResult` says of those that comparisons store.
- In `CompareStore` a request is one step, whatever its attempts, and a reader
  either gets a whole object or none; `ObjectStore` shows of one entry that
  readers and writers may rely on that.  Documents that describe an error of
  S3 are smaller than the limit of a reader.
- The deadline of a worker is looked at only where the code does; a comparison
  is aggregated when its workers have ended or hang.
- In a proposed CPU command control characters are printed as "?", so such an
  argument means something else; the arguments of `CommandLine` have none.

## Not modelled

Of the modelled components: the read-only fall-back to the legacy cache
layout, the encoding of entries, symlink and permission checks of the caches,
Windows, listing models and backends; the contents of inventories, plans
without a result cache (every file is then a miss), keys, options and
signatures of S3 requests, the verification of an execution host; the entropy
of a row of logits, the percentile that gives tau, the sums of figures over
files outside a report; the node tables of languages other than Python; `StripComments`,
`Functions` and `StructuralEvents` of `lang.cc`, which only tests call; the
form of `--model-sha256`; the parsing of rules files and of the kernel's
topology.  Of a report, coverage and percentages, which are
quotients of figures that are modelled, the rounding of sums of doubles, the
escaping of paths, and the pages rendered from it.
Out of reach or without state of interest: llama.cpp and its plugins,
tree-sitter, libcurl, formatting, `doctor`, the rules command, hashes, the
build, `tools/`, `dist/` and `experiments/`.  The failure to create a thread
(`parallel.h:58`), which ends the process, and a holder of the inference guard
that hangs, behind which everybody waits (`inference_guard.cc:49`), are not
covered by a property.
