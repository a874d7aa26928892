------------------------------- MODULE Routes -------------------------------
(***************************************************************************)
(* The route tree of AddRoute and matchRoutes (route.go).                  *)
(*                                                                         *)
(* A tree is a function from its nodes to [callback, key]; a node is the   *)
(* sequence of the map keys that lead to it, so that its children are the  *)
(* nodes one longer.  A pattern is a sequence of parts [name, var]: "{x}"  *)
(* has the name "*", an empty part the name "".  The pattern "/" is <<>>.  *)
(***************************************************************************)
EXTENDS SequencesExt

CONSTANT None  \* no callback

NoName == ""

EmptyTree == [node \in {} |-> None]

IsEmpty(part) == part.name = NoName

\* The parts that are not empty.
Named(pattern) ==
  LET first[n \in 0 .. Len(pattern)] ==  \* of the first n parts
        IF n = 0 THEN <<>>
        ELSE IF IsEmpty(pattern[n]) THEN first[n - 1] ELSE Append(first[n - 1], pattern[n])
  IN  first[Len(pattern)]

NodeOf(parts)  == [i \in DOMAIN parts |-> parts[i].name]
PathTo(node)   == Prefixes(node) \ {<<>>}

\* The last part gets the callback, unless it is empty: "a/" makes a node without.
EndsAtNode(pattern) == ~IsEmpty(Last(pattern))

\* Fault: what is under it stays.
AddRootKeeps(tree, callback) ==
  [node \in DOMAIN tree \cup {<<"*">>} |->
     IF node = <<"*">> THEN [callback |-> callback, key |-> NoName] ELSE tree[node]]

\* "/" stands for one part of any name. What was under it is gone.
AddRoot(tree, callback) ==
  LET kept == {node \in DOMAIN tree : node[1] # "*"} IN
  [node \in kept \cup {<<"*">>} |->
     IF node \in kept THEN tree[node] ELSE [callback |-> callback, key |-> NoName]]

\* Fault: a route ends where another one goes on.
AddPathCut(tree, pattern, callback) ==
  LET parts == Named(pattern)
      end   == NodeOf(parts)
      kept  == {node \in DOMAIN tree : ~IsStrictPrefix(end, node)}
  IN
  [node \in kept \cup PathTo(end) |->
     LET old == IF node \in DOMAIN tree THEN tree[node]
                ELSE [callback |-> None, key |-> parts[Len(node)].var]
     IN  IF node = end /\ EndsAtNode(pattern) THEN [old EXCEPT !.callback = callback] ELSE old]

\* Missing nodes are made; one that is there keeps its key, and its callback but for
\* the last.
AddPath(tree, pattern, callback) ==
  LET parts == Named(pattern)
      end   == NodeOf(parts)
  IN
  [node \in DOMAIN tree \cup PathTo(end) |->
     LET old == IF node \in DOMAIN tree THEN tree[node]
                ELSE [callback |-> None, key |-> parts[Len(node)].var]
     IN  IF node = end /\ EndsAtNode(pattern) THEN [old EXCEPT !.callback = callback] ELSE old]

AddRoute(tree, pattern, callback) ==
  IF pattern = <<>> THEN AddRoot(tree, callback) ELSE AddPath(tree, pattern, callback)

\* One part of a path: the child of that name, else "*". There is no way back.
Step(tree, node, name) ==
  IF Append(node, name) \in DOMAIN tree THEN Append(node, name)
  ELSE IF Append(node, "*") \in DOMAIN tree THEN Append(node, "*") ELSE None

\* The node reached with the first k parts of a path, None when there is none.
Walk(tree, path) ==
  LET at[k \in 0 .. Len(path)] ==
        IF k = 0 THEN <<>>
        ELSE IF at[k - 1] = None THEN None ELSE Step(tree, at[k - 1], path[k])
  IN  at

\* matchRoutes and getSpecialRoute: what the last node reached has, even nothing.
Match(tree, path) ==
  LET at   == Walk(tree, path)
      deep == {k \in 1 .. Len(path) : at[k] # None}
  IN  IF deep = {} THEN None ELSE tree[at[Max(deep)]].callback
=============================================================================
