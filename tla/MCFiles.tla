------------------------------ MODULE MCFiles ------------------------------
(***************************************************************************)
(* What is read from a file system: which sources of a worktree (Sources), *)
(* the shards of a model whose digests are remembered (ModelIdentity), and *)
(* the entry of a store that comparisons share (ObjectStore), the last two *)
(* while others change them.  A behaviour belongs to one of the three.     *)
(***************************************************************************)
EXTENDS ModelIdentity, TLC

CONSTANTS Users, MaxPuts, Sizes, Limit, NameAttempts, Attempts, MaxFaults,
          MaxDepth, MaxPattern, MaxTree

\* Values are numbered in the order in which they are put.
ASSUME StoreAssumption == MaxPuts \in Nat /\ Sizes \subseteq Nat /\ Limit \in Nat

VARIABLES kind, parent, values, shown, kept, named, late, calls, promised,
          survived, faults

Objects == INSTANCE ObjectStore WITH Procs <- Users

VARIABLES tree, nested, exclude, input, ignored, work, selected

MCDirectories == {<<"a">>, <<".llm-cc-cache">>}
MCLeaves == {<<"a", "b">>, <<"pyvenv.cfg">>}
MCSegments == {<<"a">>, <<"*", "b">>, <<"*", "*">>}
Project == INSTANCE Sources WITH found <- selected, Directories <- MCDirectories,
                                 Leaves <- MCLeaves, Segments <- MCSegments

VARIABLE group

storeVars == <<kind, parent, values, shown, kept, named, late, calls, promised,
               survived, faults>>
sourcesVars == <<tree, nested, exclude, input, ignored, work, selected>>

NoObjects ==
  /\ kind = 0 /\ parent = 0 /\ values = 0 /\ shown = 0 /\ kept = 0 /\ named = 0
  /\ late = 0 /\ calls = 0 /\ promised = 0 /\ survived = 0 /\ faults = 0
NoProject ==
  /\ tree = 0 /\ nested = 0 /\ exclude = 0 /\ input = 0 /\ ignored = 0
  /\ work = 0 /\ selected = 0

\* In the other groups the model stays as it is.
MCInit ==
  /\ Init
  /\ \/ group = "model" /\ NoObjects /\ NoProject
     \/ group = "store" /\ Objects!Init /\ NoProject
     \/ group = "sources" /\ NoObjects /\ Project!Init

MCNext ==
  \/ group = "model" /\ Next /\ UNCHANGED <<storeVars, sourcesVars, group>>
  \/ group = "store" /\ Objects!Next /\ UNCHANGED <<vars, sourcesVars, group>>
  \/ group = "sources" /\ Project!DiscoverSources /\ UNCHANGED <<vars, storeVars, group>>

MCSpec == MCInit /\ [][MCNext]_<<vars, storeVars, sourcesVars, group>>

MCSymmetry == Permutations(Users)

-----------------------------------------------------------------------------
\* compare/store.cc, compare/s3.cc: see ObjectStore.
ObjectsWhole == group = "store" => Objects!ObjectsWhole

\* project.cc, glob.cc, compare/inventory.cc: see Sources.
SelectionAsCommitted == group = "sources" => Project!SelectionAsCommitted
=============================================================================
