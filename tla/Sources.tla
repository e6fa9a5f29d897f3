------------------------------- MODULE Sources -------------------------------
(***************************************************************************)
(* Which files of a worktree are analyzed: the globs of src/src/glob.cc,   *)
(* the rules of src/src/rules.cc, the walks of src/src/project.cc, which   *)
(* ask Git for a list or go through the directories themselves, and the    *)
(* inventory of a commit of src/src/compare/inventory.cc.  A path is a     *)
(* sequence of names and a name a sequence of characters, as far as globs  *)
(* tell them apart.                                                        *)
(***************************************************************************)
EXTENDS Naturals, Sequences, FiniteSets

CONSTANTS
  Directories,  \* names of directories
  Leaves,       \* names of files
  Segments,     \* segments of the patterns of rules
  MaxDepth,     \* bound: names of a path
  MaxPattern,   \* bound: segments of a pattern
  MaxTree       \* bound: files of the worktree

Metadata == <<".llm-cc-cache">>
Marker == <<"pyvenv.cfg">>
Globstar == <<"*", "*">>

VARIABLES
  tree,     \* the files: path -> "file" or "link"
  nested,   \* the directories below that are roots of other worktrees
  exclude,  \* root -> the patterns of "exclude" in its rules
  input,    \* the directory on the command line
  ignored,  \* --no-ignore
  work,     \* the walks that remain: whose, of which directory
  found     \* context.files

sourcesVars == <<tree, nested, exclude, input, ignored, work, found>>

Prefix(path, n) == SubSeq(path, 1, n)
Within(path, directory) ==
  Len(directory) <= Len(path) /\ Prefix(path, Len(directory)) = directory
Relative(path, root) == SubSeq(path, Len(root) + 1, Len(path))
Last(path) == path[Len(path)]
\* The directories that contain a path, from a root on.
Above(path, root) == {Prefix(path, n) : n \in Len(root)..(Len(path) - 1)}

-----------------------------------------------------------------------------
\* Globs.

\* MatchSegment and MatchSegments are this loop, over the characters of a name
\* and over the names of a path: a mismatch goes back to the last star, which
\* then absorbs one more.
Wildcard(pattern, text, star, One(_, _)) ==
  LET match[p \in Nat, t \in Nat, starPattern \in Nat, starText \in Nat] ==
        IF t > Len(text) THEN \A i \in p..Len(pattern) : pattern[i] = star
        ELSE IF p <= Len(pattern) /\ pattern[p] = star
               THEN match[p + 1, t, p + 1, t]
        ELSE IF p <= Len(pattern) /\ One(pattern[p], text[t])
               THEN match[p + 1, t + 1, starPattern, starText]
        ELSE starPattern # 0 /\ match[starPattern, starText + 1, starPattern, starText + 1]
  IN  match[1, 1, 0, 0]

MatchOne(token, character) == token = "?" \/ token = character
MatchSegment(pattern, name) == Wildcard(pattern, name, "*", MatchOne)
MatchSegments(pattern, path) == Wildcard(pattern, path, Globstar, MatchSegment)

\* A trailing "**" names the contents of a directory.
Contents(pattern) == Last(pattern) = Globstar
Directory(pattern) == Prefix(pattern, Len(pattern) - 1)

\* Glob::Compile and Matches.
Matches(pattern, path) ==
  MatchSegments(IF Contents(pattern)
                  THEN Directory(pattern) \o <<<<"*">>, Globstar>> ELSE pattern, path)

\* A slip that the checks notice: what contains an excluded file is pruned.
PrunesAbove(pattern, directory) ==
  \E n \in 0..Len(directory) :
    MatchSegments(Directory(pattern), Prefix(directory, n))

PrunesDirectory(pattern, directory) ==
  Contents(pattern) /\
  \E n \in 0..Len(directory) :
    MatchSegments(Directory(pattern), Prefix(directory, n))

\* What a pattern means: a place of the pattern for each name of the path, in
\* order, where "**" may have any number of names and the others one.
Denotes(pattern, text, star, One(_, _)) ==
  \E place \in [DOMAIN text -> DOMAIN pattern] :
    /\ \A i, j \in DOMAIN text : i < j => place[i] <= place[j]
    /\ \A k \in DOMAIN pattern :
         pattern[k] # star =>
           /\ Cardinality({i \in DOMAIN text : place[i] = k}) = 1
           /\ \A i \in DOMAIN text : place[i] = k => One(pattern[k], text[i])

MeantSegment(segment, name) == Denotes(segment, name, "*", MatchOne)

Meant(pattern, path) ==
  IF Contents(pattern)
    THEN \E n \in 0..(Len(path) - 1) :
           Denotes(Directory(pattern), Prefix(path, n), Globstar, MeantSegment)
    ELSE Denotes(pattern, path, Globstar, MeantSegment)

-----------------------------------------------------------------------------
\* Rules.  The language of a name without an entry in "paths" is that of its
\* extension, its last character here.
PathRule == <<<<"a">>, Globstar>>
TestsRule == <<Globstar, <<"*", "b">>>>

ResolveLanguage(path) ==
  IF Matches(PathRule, path) THEN "c"
  ELSE IF Last(Last(path)) = "b" THEN "cpp" ELSE "none"

Classify(path) == IF Matches(TestsRule, path) THEN "tests" ELSE "runtime"

Excluded(root, relative) ==
  \E pattern \in exclude[root] : Matches(pattern, relative)

Prunes(root, relative) ==
  \E pattern \in exclude[root] : PrunesDirectory(pattern, relative)

AlwaysExcluded(relative) == \E i \in DOMAIN relative : relative[i] = Metadata

\* PythonVirtualEnvironment, PythonVirtualEnvironmentPath.
Environment(directory) ==
  LET marker == Append(directory, Marker)
  IN  marker \in DOMAIN tree /\ tree[marker] = "file"

EnvironmentPath(path, root) ==
  \E directory \in Above(path, root) \cup {path} : Environment(directory)

-----------------------------------------------------------------------------
\* The worktree, of which Git tracks every file.
Paths == {<<>>} \cup UNION {[1..n -> Directories] : n \in 1..(MaxDepth - 1)}
Files == {Append(directory, leaf) : directory \in Paths, leaf \in Leaves}
Patterns == UNION {[1..n -> Segments] : n \in 1..MaxPattern}

Roots == {<<>>} \cup nested
\* git::FindRepositoryRoot.
RootOf(path) ==
  CHOOSE root \in Roots :
    /\ Within(path, root)
    /\ \A other \in Roots : Within(path, other) => Len(other) <= Len(root)
Holder(root) == RootOf(Prefix(root, Len(root) - 1))

DirectoriesOf(files) == UNION {Above(file, <<>>) : file \in files}

Init ==
  /\ \E files \in SUBSET Files :
       /\ Cardinality(files) \in 1..MaxTree
       /\ \A file, other \in files : Within(file, other) => file = other
       /\ tree \in [files -> {"file", "link"}]
       /\ Cardinality({file \in files : tree[file] = "link"}) <= 1
       /\ nested \in {{}} \cup {{root} : root \in DirectoriesOf(files) \ {<<>>}}
       /\ input \in {path \in DirectoriesOf(files) : Len(path) <= 1}
  /\ exclude \in [Roots -> {{pattern} : pattern \in Patterns}]
  /\ nested # {} =>
       /\ \A pattern \in exclude[<<>>] : Len(pattern) = 2 /\ Contents(pattern)
       /\ \A root \in nested : exclude[root] = {PathRule}
  /\ ignored \in BOOLEAN
  /\ work = {[walk |-> "git", root |-> RootOf(input), at |-> input]}
  /\ found = {}

\* AddFile, for a file that was not named itself.
Source(file, root) ==
  LET relative == Relative(file, root)
  IN  [path |-> file, language |-> ResolveLanguage(relative),
       category |-> Classify(relative)]

Added(files, root) ==
  {source \in {Source(file, root) :
                 file \in {f \in files : ~AlwaysExcluded(Relative(f, root))}} :
     source.language # "none"}

\* The entries of `git ls-files` that are in the input, files and worktrees.
Listed(task) ==
  {path \in DOMAIN tree \cup nested :
     /\ IF path \in nested THEN Holder(path) = task.root
                           ELSE RootOf(path) = task.root
     /\ ~AlwaysExcluded(Relative(path, task.root))
     /\ Within(path, task.at)}

Regular(path) == path \in DOMAIN tree /\ tree[path] = "file"

\* A slip that the checks notice: the markers above a file are not looked for.
MarkedItself(path, root) == Environment(path)

Marked(path, root) == EnvironmentPath(path, root)

GitWalk(task) ==
  LET files == {path \in Listed(task) : Regular(path) /\
                  (ignored \/ (~Excluded(task.root, Relative(path, task.root))
                               /\ ~Marked(path, task.root)))}
      roots == {path \in Listed(task) \cap nested : path # task.root /\
                  (ignored \/ (~Prunes(task.root, Relative(path, task.root))
                               /\ ~Marked(path, task.root)))}
  IN  /\ task.walk = "git"
      /\ found' = found \cup Added(files, task.root)
      /\ work' = (work \ {task}) \cup
                   {[walk |-> "git", root |-> root, at |-> root] : root \in roots}
      /\ UNCHANGED <<tree, nested, exclude, input, ignored>>

\* git::ListFiles returns nothing.
GitFails(task) ==
  /\ task.walk = "git"
  /\ work' = (work \ {task}) \cup {[task EXCEPT !.walk = "directory"]}
  /\ UNCHANGED <<tree, nested, exclude, input, ignored, found>>

Entries(directory) ==
  {Prefix(file, Len(directory) + 1) :
     file \in {f \in DOMAIN tree : Within(f, directory)}}

SkipDirectory(directory, root) ==
  \/ Last(directory) = Metadata
  \/ ~ignored /\ (Prunes(root, Relative(directory, root)) \/ Environment(directory))

\* FilesystemWalk, one directory at a time.
FilesystemWalk(task) ==
  LET files == {entry \in Entries(task.at) : Regular(entry) /\
                  (ignored \/ ~Excluded(task.root, Relative(entry, task.root)))}
      below == {entry \in Entries(task.at) \ DOMAIN tree :
                  ~SkipDirectory(entry, task.root)}
      skipped == ~ignored /\ Environment(task.at)
  IN  /\ task.walk = "directory"
      /\ found' = found \cup (IF skipped THEN {} ELSE Added(files, task.root))
      /\ work' = (work \ {task}) \cup
           (IF skipped THEN {} ELSE
            {IF entry \in nested
               THEN [walk |-> "git", root |-> entry, at |-> entry]
               ELSE [task EXCEPT !.at = entry] : entry \in below})
      /\ UNCHANGED <<tree, nested, exclude, input, ignored>>

DiscoverSources ==
  \E task \in work : GitWalk(task) \/ GitFails(task) \/ FilesystemWalk(task)

SourcesSpec == Init /\ [][DiscoverSources]_sourcesVars

-----------------------------------------------------------------------------
\* BuildInventory: why an entry of the tree of a commit is not scored.
Reason(path, root) ==
  LET relative == Relative(path, root)
  IN  CASE path \in nested -> "submodule"
        [] path \notin nested /\ tree[path] = "link" -> "symlink"
        [] OTHER ->
             IF \/ AlwaysExcluded(relative)
                \/ \E directory \in Above(path, root) : Environment(directory)
                \/ Excluded(root, relative) THEN "excluded"
             ELSE IF ResolveLanguage(relative) = "none" THEN "unsupported"
             ELSE "none"

Inventory(root) ==
  {[path |-> path, reason |-> Reason(path, root),
    language |-> ResolveLanguage(Relative(path, root)),
    category |-> Classify(Relative(path, root))] :
     path \in {file \in DOMAIN tree : RootOf(file) = root}}

\* The worktrees below the input whose rules apply: those the worktree around
\* them does not leave out.
Admitted(root) ==
  \/ root = RootOf(input)
  \/ /\ root # <<>> /\ Within(root, input) /\ Holder(root) = RootOf(input)
     /\ LET relative == Relative(root, Holder(root))
        IN  /\ ~AlwaysExcluded(relative)
            /\ ~ignored => /\ ~Prunes(Holder(root), relative)
                           /\ ~EnvironmentPath(root, Holder(root))

Scorable(root) ==
  {[path |-> entry.path, language |-> entry.language, category |-> entry.category] :
     entry \in {e \in Inventory(root) : e.reason = "none" /\ Within(e.path, input)}}

\* With --no-ignore: what has a language and is not metadata.
Everything(root) ==
  Added({file \in DOMAIN tree : /\ Regular(file) /\ RootOf(file) = root
                                /\ Within(file, input)}, root)

\* The input is itself in a directory that discovery from above would skip.
InsideSkipped ==
  \/ AlwaysExcluded(Relative(input, RootOf(input)))
  \/ \E directory \in Above(input, RootOf(input)) : Environment(directory)

(***************************************************************************)
(* A glob matches the paths it denotes: "*" and "?" stay in a name, "**"   *)
(* is any number of names, at least one at the end, whatever the loop goes *)
(* back to (glob.cc:111-177, 231-262; USAGE.md:381).                       *)
(***************************************************************************)
GlobsMatch ==
  \A root \in Roots : \A pattern \in exclude[root] : \A file \in DOMAIN tree :
    Within(file, root) =>
      (Matches(pattern, Relative(file, root)) <=> Meant(pattern, Relative(file, root)))

(***************************************************************************)
(* Discovery in a clean worktree finds what comparisons score in the       *)
(* commit, with the same language and category, whether Git lists the      *)
(* files or the directories are walked, in each worktree by its own rules, *)
(* whose globs mean what they say; no directory is pruned that contains a  *)
(* file to analyze.  The input is not itself in a directory that discovery *)
(* from above would skip (project.cc:164-342, glob.cc:269,                 *)
(* compare/inventory.cc:119).                                              *)
(***************************************************************************)
SelectionAsCommitted ==
  /\ GlobsMatch
  /\ work = {} /\ ~InsideSkipped =>
       found = UNION {IF ignored THEN Everything(root) ELSE Scorable(root) :
                        root \in {r \in Roots : Admitted(r)}}
=============================================================================
