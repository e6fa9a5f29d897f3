----------------------------- MODULE SyntaxTree -----------------------------
(***************************************************************************)
(* CollectStructuralEvents of src/src/lang.cc: one walk over the syntax    *)
(* tree collects the scopes with their depths, the functions, and the      *)
(* comments and docstrings to remove.  The language is Python, which has   *)
(* all the rules; the others have fewer.                                   *)
(***************************************************************************)
EXTENDS Integers, Sequences, FiniteSets

CONSTANTS
  MaxNodes,     \* bound: nodes of a tree
  SyntaxDepths  \* bound: the limits that are tried

VARIABLES
  tree,       \* nodes in the order of the source: kind, parent and field
  max_depth,  \* PreprocessOptions::max_syntax_depth
  frames,     \* the path from the root to the cursor
  leaving,    \* the last frame's node is done
  events,     \* the scopes found
  functions,  \* the functions found
  removed,    \* the comments and docstrings found
  stage       \* "parse", "walk", "done", or why the source is refused

syntaxVars == <<tree, max_depth, frames, leaving, events, functions, removed, stage>>

-----------------------------------------------------------------------------
\* The metadata of Python.  A "suite" is a block, "missing" one of no bytes; a
\* "statement" is an expression statement, and "plain" is any other node.
Comments == {"comment"}
Structural == {"function", "class", "lambda", "suite", "missing", "loop", "for", "if"}
Functions == {"function"}
Callables == {"function", "lambda"}
Comprehensions == {"comprehension"}
Clauses == {"for", "if"}

\* What the grammar has in the place of an expression and of a statement.
Expressions == {"plain", "lambda", "comprehension"}
Strings == {"string", "bytes", "parentheses"}
Statements == {"plain", "comment", "statement", "function", "decorated", "class", "loop"}

\* The children that a node may have next, after those it has.
Children(kind, earlier) ==
  CASE kind \in {"module", "suite"} -> Statements \X {""}
    [] kind \in {"function", "class"} /\ earlier = <<>> -> {"suite", "missing"} \X {"body"}
    [] kind = "decorated" /\ earlier = <<>> -> {"function", "class"} \X {""}
    [] kind = "statement" /\ earlier = <<>> -> Strings \X {""}
    [] kind = "parentheses" -> (Strings \cup {"comment"}) \X {""}
    [] kind \in {"plain", "lambda", "if", "loop"} /\ earlier = <<>> -> Expressions \X {""}
    [] kind = "comprehension" /\ earlier = <<>> -> Expressions \X {"body"}
    [] kind = "comprehension" /\ Len(earlier) = 1 -> {"for"} \X {""}
    [] kind = "comprehension" -> Clauses \X {""}
    [] kind = "for" /\ earlier = <<>> -> {<<"plain", "left">>} \cup (Expressions \X {"right"})
    [] kind = "for" /\ earlier = <<"left">> -> Expressions \X {"right"}
    [] OTHER -> {}

Path(t, node) ==
  LET up[n \in 0..Len(t)] == IF n = 0 THEN {} ELSE {n} \cup up[t[n].parent]
  IN  up[node]

Fields(t, node) ==
  LET own == SelectSeq(t, LAMBDA child : child.parent = node)
  IN  [i \in DOMAIN own |-> own[i].field]

\* A tree with one more node, below a node on the path to its last one.
Grown(t) ==
  UNION {{Append(t, [kind |-> child[1], field |-> child[2], parent |-> node]) :
            child \in Children(t[node].kind, Fields(t, node))} : node \in Path(t, Len(t))}

\* TreeCursor.
FirstChild(node) == {n \in DOMAIN tree : n = node + 1 /\ tree[n].parent = node}
Siblings(node) == {n \in DOMAIN tree : n > node /\ tree[n].parent = tree[node].parent}
NextSibling(node) == {n \in Siblings(node) : \A m \in Siblings(node) : n <= m}
ChildrenOf(node) == {n \in DOMAIN tree : tree[n].parent = node}
Cursor == frames[Len(frames)].node

-----------------------------------------------------------------------------
\* IsPythonLiteralString: strings, also in parentheses, that are not bytes.
IsPythonLiteralString(node) ==
  LET literal[n \in DOMAIN tree] ==
        \/ tree[n].kind = "string"
        \/ /\ tree[n].kind = "parentheses"
           /\ LET named == {c \in ChildrenOf(n) : tree[c].kind # "comment"}
              IN  Cardinality(named) = 1 /\ \A c \in named : literal[c]
  IN  literal[node]

\* CollectPythonSuiteDocstring: the first statement, if it is a string.
CollectPythonSuiteDocstring(suite) ==
  LET statements == {n \in ChildrenOf(suite) : tree[n].kind # "comment"}
  IN  {n \in statements :
         /\ \A m \in statements : n <= m
         /\ tree[n].kind = "statement"
         /\ \E c \in ChildrenOf(n) : ChildrenOf(n) = {c} /\ IsPythonLiteralString(c)}

\* CallableSpan: with its decorators.
CallableSpan(function) ==
  IF tree[tree[function].parent].kind = "decorated" THEN tree[function].parent ELSE function

IsDefinition(function) == \E n \in ChildrenOf(function) : tree[n].field = "body"

-----------------------------------------------------------------------------
Frame(node, depth, inside) ==
  LET below == depth + (IF tree[node].kind \in Structural THEN 1 ELSE 0)
  IN  [node |-> node, structural_depth |-> depth, child_depth |-> below,
       comprehension_depth |-> below,
       child_inside_function |-> inside \/ tree[node].kind \in Callables]

\* What Enter finds at a node.
Docstrings(node) ==
  IF tree[node].kind \in {"function", "class"}
    THEN UNION {CollectPythonSuiteDocstring(body) :
                  body \in {n \in ChildrenOf(node) : tree[n].field = "body"}}
    ELSE {}

Init ==
  /\ tree = <<[kind |-> "module", field |-> "", parent |-> 0]>>
  /\ max_depth \in SyntaxDepths
  /\ frames = <<>> /\ leaving = FALSE
  /\ events = <<>> /\ functions = <<>>
  /\ removed = {} /\ stage = "parse"

\* An exception takes with it what was found.
Refuse(why) ==
  /\ stage' = why
  /\ frames' = <<>> /\ leaving' = FALSE
  /\ events' = <<>> /\ functions' = <<>> /\ removed' = {}
  /\ UNCHANGED <<tree, max_depth>>

\* Any source is parsed to some tree.
Parse ==
  /\ stage = "parse" /\ Len(tree) < MaxNodes
  /\ tree' \in Grown(tree)
  /\ UNCHANGED <<max_depth, frames, leaving, events, functions, removed, stage>>

Parsed ==
  /\ stage = "parse" /\ stage' = "walk"
  /\ frames' = <<Frame(1, 0, FALSE)>>
  /\ removed' = CollectPythonSuiteDocstring(1)
  /\ UNCHANGED <<tree, max_depth, leaving, events, functions>>

\* A node is entered from its parent's frame, the last of path.
Enter(path, node, depth) ==
  LET kind == tree[node].kind
      inside == path[Len(path)].child_inside_function
  IN  IF depth > max_depth THEN Refuse("structural depth")
      ELSE
        /\ removed' = removed \cup Docstrings(node)
                              \cup (IF kind \in Comments THEN {node} ELSE {})
        /\ functions' =
             IF kind \in Functions /\ ~inside /\ IsDefinition(node)
               THEN Append(functions, CallableSpan(node)) ELSE functions
        /\ events' =
             IF kind \in Structural /\ kind # "missing"
               THEN Append(events, [node |-> node, depth |-> depth]) ELSE events
        /\ frames' = Append(path, Frame(node, depth, inside))
        /\ leaving' = FALSE
        /\ UNCHANGED <<tree, max_depth, stage>>

ClauseCount(node) == Cardinality({n \in ChildrenOf(node) : tree[n].kind \in Clauses})

\* A slip that the checks notice: what a clause iterates over is inside its
\* loop.
ChildDepthBelow(parent, child) == parent.comprehension_depth

\* The result of a comprehension is inside all its clauses, a clause inside
\* those before it; what it iterates over or asks comes before its own scope.
ChildDepth(parent, child) ==
  CASE tree[parent.node].kind = "if" -> parent.structural_depth
    [] tree[parent.node].kind = "for" /\ tree[child].field = "right" -> parent.structural_depth
    [] tree[parent.node].kind \in Comprehensions /\ tree[child].field = "body" ->
         parent.child_depth + ClauseCount(parent.node)
    [] OTHER -> parent.comprehension_depth

Descend ==
  /\ stage = "walk" /\ ~leaving /\ tree[Cursor].kind \notin Comments
  /\ \E child \in FirstChild(Cursor) :
       IF Len(frames) > max_depth THEN Refuse("syntax tree")
       ELSE Enter(frames, child, ChildDepth(frames[Len(frames)], child))

\* The frames without the last; a clause that is done is around what follows.
Popped ==
  LET parent == Len(frames) - 1
  IN  IF /\ tree[frames[parent].node].kind \in Comprehensions
         /\ tree[Cursor].kind \in Clauses
        THEN [SubSeq(frames, 1, parent) EXCEPT ![parent].comprehension_depth = @ + 1]
        ELSE SubSeq(frames, 1, parent)

Leave ==
  /\ stage = "walk"
  /\ leaving \/ tree[Cursor].kind \in Comments \/ FirstChild(Cursor) = {}
  /\ IF Len(frames) = 1
       THEN /\ frames' = <<>> /\ stage' = "done"
            /\ UNCHANGED <<tree, max_depth, leaving, events, functions, removed>>
     ELSE IF NextSibling(Cursor) = {}
       THEN /\ frames' = Popped /\ leaving' = TRUE
            /\ UNCHANGED <<tree, max_depth, events, functions, removed, stage>>
     ELSE \E sibling \in NextSibling(Cursor) :
            Enter(Popped, sibling, ChildDepth(Popped[Len(Popped)], sibling))

\* Deadline::Tick and Check.
TimesOut == stage \in {"parse", "walk"} /\ Refuse("time budget")

CollectStructuralEvents == Parse \/ Parsed \/ Descend \/ Leave \/ TimesOut

SyntaxSpec == Init /\ [][CollectStructuralEvents]_syntaxVars

-----------------------------------------------------------------------------
\* The scopes a node is in, read off the tree: the structural nodes above it,
\* but not a clause that it comes before; and the clauses of a comprehension
\* that run before it.
Above(node) == Path(tree, tree[node].parent)

Before(clause, node) ==
  \E n \in Path(tree, node) :
    /\ tree[n].parent = tree[clause].parent /\ n # clause
    /\ tree[n].field = "body" \/ clause < n

Around(node) ==
  {n \in Above(node) : tree[n].kind \in Structural \ Clauses}
  \cup {n \in Above(node) : tree[n].kind = "for"
          /\ \E c \in ChildrenOf(n) \cap Path(tree, node) : tree[c].field # "right"}
  \cup {n \in DOMAIN tree : tree[n].kind \in Clauses /\ Before(n, node)}

\* In the order of the source: the nodes of a set.
Listed(nodes) ==
  CHOOSE s \in [1..Cardinality(nodes) -> nodes] :
    \A i, j \in DOMAIN s : i < j => s[i] < s[j]

(***************************************************************************)
(* Each scope is found once, in the order of the source, at the number of  *)
(* scopes it is in; a function is found unless it is inside a callable;    *)
(* comments and the first strings of suites are removed; and only a source *)
(* too deep, or out of time, is refused (lang.cc:621-769; lang_test.cc:    *)
(* 235-325 has examples of the depths).                                    *)
(***************************************************************************)
ScopesTrue ==
  /\ stage = "done" =>
       LET scopes == {n \in DOMAIN tree : tree[n].kind \in Structural \ {"missing"}}
           outer == {n \in DOMAIN tree :
                       /\ tree[n].kind = "function" /\ ChildrenOf(n) # {}
                       /\ \A a \in Above(n) : tree[a].kind \notin Callables}
       IN  /\ events = [i \in 1..Cardinality(scopes) |->
                          [node |-> Listed(scopes)[i],
                           depth |-> Cardinality(Around(Listed(scopes)[i]))]]
           /\ functions = [i \in 1..Cardinality(outer) |-> CallableSpan(Listed(outer)[i])]
           /\ \A n \in DOMAIN tree :
                /\ tree[n].kind = "comment" => n \in removed
                /\ n \in removed /\ tree[n].kind # "comment" =>
                     /\ tree[n].kind = "statement" /\ ChildrenOf(n) # {}
                     /\ \A m \in ChildrenOf(tree[n].parent) : m < n => tree[m].kind = "comment"
  /\ stage = "structural depth" =>
       \E n \in DOMAIN tree : Cardinality(Around(n)) > max_depth
  /\ stage = "syntax tree" =>
       \E n \in DOMAIN tree : Cardinality(Above(n)) > max_depth
=============================================================================
