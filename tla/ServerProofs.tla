---------------------------- MODULE ServerProofs ----------------------------
(***************************************************************************)
(* Proofs about the server and its routes: for all patterns and paths, any *)
(* number of calls of AddRoute and of requests, and any number of failed   *)
(* reads.                                                                  *)
(***************************************************************************)
EXTENDS Server, WellFoundedInduction, TLAPS

-----------------------------------------------------------------------------
(* What the safety properties rest on: with them, an invariant that every step *)
(* preserves.                                                                   *)

RequestStates ==
  [at : {"none"}] \cup [at : {"read"}, on : Listeners, path : Paths]
    \cup [at : Handled, on : Listeners, path : Paths, callback : Nat \cup {None}, known : Nat]

Nodes == [callback : Nat \cup {None}, key : Names]

TypeOK ==
  /\ DOMAIN tree \subseteq Seq(Names) \ {<<>>}
  /\ \A node \in DOMAIN tree : tree[node] \in Nodes
  /\ added \in Seq(Patterns)
  /\ socket \in [Listeners -> {"none", "open", "closed"}]
  /\ shutdown \in [Listeners -> BOOLEAN]
  /\ readers \in [Listeners -> [Stages -> Nat]]
  /\ late \in [Listeners -> Nat]
  /\ request \in [Requests -> RequestStates]

\* Every part of the way to a node has a node.
PrefixClosed == \A node \in DOMAIN tree : \A n \in 1 .. Len(node) : SubSeq(node, 1, n) \in DOMAIN tree

NamesFromPatterns == \A node \in DOMAIN tree : \A k \in DOMAIN node : node[k] # Elsewhere

\* A callback in the tree is that of a route that counts, and at its node ...
CallbacksLive ==
  \A node \in DOMAIN tree :
    tree[node].callback # None =>
      /\ tree[node].callback \in DOMAIN added
      /\ Shape(added[tree[node].callback]) = node
      /\ Live(added, tree[node].callback, Len(added))

\* ... and every route that counts has its callback there.
RoutesKept ==
  \A i \in DOMAIN added :
    Live(added, i, Len(added)) =>
      Shape(added[i]) \in DOMAIN tree /\ tree[Shape(added[i])].callback = i

\* What a handler has found was there at the time.
FoundInTime ==
  \A r \in Requests :
    request[r].at \in Handled =>
      /\ request[r].known <= Len(added)
      /\ request[r].callback # None => request[r].callback \in 1 .. request[r].known

\* The reader that may still start another after Close is the one that looked at the
\* flag before it was set, and its successor finds it set; Close sets it before it closes
\* the socket.
CloseInOrder ==
  \A l \in Listeners :
    /\ socket[l] = "none" => Reading(l) = 0
    /\ socket[l] = "closed" => shutdown[l]
    /\ shutdown[l] => socket[l] # "none"
    /\ ~shutdown[l] => late[l] = 0
    /\ readers[l]["unshut"] > 0 => late[l] = 0
    /\ setup = "new" => socket[l] = "none"

Inductive ==
  /\ TypeOK /\ OneReader /\ CloseInOrder
  /\ PrefixClosed /\ NamesFromPatterns /\ CallbacksLive /\ RoutesKept
  /\ FoundInTime /\ GivenToItsRoute

-----------------------------------------------------------------------------
Parts == [name : Names, var : Names]

-----------------------------------------------------------------------------
(* Induction: a set of numbers that is not empty has a least one *)

LEMMA LeastNumber ==
  ASSUME NEW T \in SUBSET Nat, T # {}
  PROVE  \E n \in T : \A m \in T : n <= m
<1> DEFINE Less == {x \in Nat \X Nat : x[1] < x[2]}
<1>1. IsWellFoundedOn(Less, Nat)
  <2>1. IsWellFoundedOn(OpToRel(<, Nat), Nat)
    BY NatLessThanWellFounded
  <2> QED  BY <2>1 DEF OpToRel
<1> HIDE DEF Less
<1>2. PICK n \in T : \A m \in T : ~ (<<m, n>> \in Less)
  BY <1>1, WFMin
<1>3. ASSUME NEW m \in T PROVE n <= m
  <2>1. ~ (<<m, n>> \in Less)
    BY <1>2
  <2>2. <<m, n>> \in Nat \X Nat
    OBVIOUS
  <2>3. <<m, n>>[1] = m /\ <<m, n>>[2] = n
    OBVIOUS
  <2>4. ~ (m < n)
    BY <2>1, <2>2, <2>3, Zenon DEF Less
  <2> QED  BY <2>4
<1> QED  BY <1>3

\* What holds for 0 and goes over from each number to the next holds up to n.
LEMMA BoundedInduction ==
  ASSUME NEW n \in Nat, NEW Holds \in SUBSET (0 .. n),
         0 \in Holds, \A k \in 1 .. n : k - 1 \in Holds => k \in Holds
  PROVE  Holds = 0 .. n
<1> SUFFICES ASSUME (0 .. n) \ Holds # {} PROVE FALSE
  OBVIOUS
<1> DEFINE T == (0 .. n) \ Holds
<1>1. T \in SUBSET Nat /\ T # {}
  OBVIOUS
<1> HIDE DEF T
<1>2. PICK k \in T : \A m \in T : k <= m
  BY <1>1, LeastNumber
<1>3. k \in 1 .. n /\ k \notin Holds
  BY DEF T
<1>4. k - 1 \in 0 .. n /\ k - 1 \notin T
  BY <1>2, <1>3
<1> QED  BY <1>3, <1>4 DEF T

\* A function may be defined from 0 upwards, each value with the one before.
Recursion(n, V, base, next) ==
  \E f \in [0 .. n -> V] : f[0] = base /\ \A k \in 1 .. n : f[k] = next[k][f[k - 1]]

LEMMA RecursionExists ==
  ASSUME NEW n \in Nat, NEW V, NEW base \in V, NEW next \in [1 .. n -> [V -> V]]
  PROVE  Recursion(n, V, base, next)
<1> DEFINE Upto(m, f) == f[0] = base /\ \A k \in 1 .. m : f[k] = next[k][f[k - 1]]
           Exists(m)  == \E f \in [0 .. m -> V] : Upto(m, f)
           Holds      == {m \in 0 .. n : Exists(m)}
<1>1. Exists(0)
  <2> DEFINE f == [k \in 0 .. 0 |-> base]
  <2>1. f \in [0 .. 0 -> V] /\ Upto(0, f)
    OBVIOUS
  <2> QED  BY <2>1
<1>2. ASSUME NEW m \in 1 .. n, Exists(m - 1) PROVE Exists(m)
  <2>1. PICK f \in [0 .. m - 1 -> V] : Upto(m - 1, f)
    BY <1>2
  <2> DEFINE h == [k \in 0 .. m |-> IF k = m THEN next[m][f[m - 1]] ELSE f[k]]
  <2>2. next[m][f[m - 1]] \in V
    <3>1. f[m - 1] \in V
      OBVIOUS
    <3> QED  BY <3>1
  <2>3. h \in [0 .. m -> V] /\ h[0] = base
    BY <2>1, <2>2
  <2>4. ASSUME NEW k \in 1 .. m PROVE h[k] = next[k][h[k - 1]]
    <3>1. CASE k = m
      <4>1. h[k] = next[m][f[m - 1]] /\ h[k - 1] = f[m - 1]
        BY <3>1
      <4> QED  BY <3>1, <4>1
    <3>2. CASE k # m
      <4>1. k \in 1 .. m - 1 /\ h[k] = f[k] /\ h[k - 1] = f[k - 1]
        BY <3>2
      <4> QED  BY <2>1, <4>1
    <3> QED  BY <3>1, <3>2
  <2>5. Upto(m, h)
    BY <2>3, <2>4
  <2> HIDE DEF h, Upto
  <2> QED  BY <2>3, <2>5
<1>3. Exists(n)
  <2> HIDE DEF Exists
  <2>1. Holds \in SUBSET (0 .. n) /\ 0 \in Holds
    BY <1>1
  <2>2. \A m \in 1 .. n : m - 1 \in Holds => m \in Holds
    BY <1>2
  <2>3. Holds = 0 .. n
    <3> HIDE DEF Holds
    <3> QED  BY <2>1, <2>2, BoundedInduction
  <2> QED  BY <2>3
<1> QED  BY <1>3 DEF Recursion

-----------------------------------------------------------------------------
(* Patterns *)

LEMMA StarIsName == "*" \in Names
BY ServerAssumption DEF ServerAssumption

LEMMA NamedForm ==
  ASSUME NEW pattern \in Seq(Parts)
  PROVE  /\ Named(pattern) \in Seq(Parts)
         /\ \A k \in DOMAIN Named(pattern) : \E j \in DOMAIN pattern : Named(pattern)[k] = pattern[j]
         /\ pattern # <<>> /\ EndsAtNode(pattern) => Named(pattern) # <<>>
<1> DEFINE n == Len(pattern)
           V == Seq(Parts)
           next == [k \in 1 .. n |-> [s \in V |->
                      IF IsEmpty(pattern[k]) THEN s ELSE Append(s, pattern[k])]]
           first == CHOOSE f : f = [k \in 0 .. n |->
                      IF k = 0 THEN <<>>
                      ELSE IF IsEmpty(pattern[k]) THEN f[k - 1] ELSE Append(f[k - 1], pattern[k])]
<1>1. DOMAIN pattern = 1 .. n /\ \A k \in 1 .. n : pattern[k] \in Parts
  OBVIOUS
<1>2. Named(pattern) = first[n]
  BY DEF Named
<1>n. n \in Nat
  OBVIOUS
<1> HIDE DEF n
<1>3. next \in [1 .. n -> [V -> V]]
  <2>1. ASSUME NEW k \in 1 .. n, NEW s \in V
        PROVE  (IF IsEmpty(pattern[k]) THEN s ELSE Append(s, pattern[k])) \in V
    <3>1. pattern[k] \in Parts
      BY <1>1
    <3>2. Append(s, pattern[k]) \in V
      BY <3>1
    <3> QED  BY <3>2
  <2> HIDE DEF V
  <2> QED  BY <2>1
<1>4. Recursion(n, V, <<>>, next)
  <2>1. <<>> \in V
    OBVIOUS
  <2> HIDE DEF next, V
  <2> QED  BY <1>n, <1>3, <2>1, RecursionExists
<1>5. PICK f \in [0 .. n -> V] : f[0] = <<>> /\ \A k \in 1 .. n : f[k] = next[k][f[k - 1]]
  <2> HIDE DEF next, V
  <2> QED  BY <1>4 DEF Recursion
<1>6. f = [k \in 0 .. n |->
             IF k = 0 THEN <<>>
             ELSE IF IsEmpty(pattern[k]) THEN f[k - 1] ELSE Append(f[k - 1], pattern[k])]
  <2>1. ASSUME NEW k \in 0 .. n
        PROVE  f[k] = IF k = 0 THEN <<>>
                      ELSE IF IsEmpty(pattern[k]) THEN f[k - 1] ELSE Append(f[k - 1], pattern[k])
    <3>1. CASE k = 0
      BY <1>5, <3>1
    <3>2. CASE k # 0
      <4>1. k \in 1 .. n /\ k - 1 \in 0 .. n
        BY <1>n, <3>2
      <4>2. f[k - 1] \in V /\ f[k] = next[k][f[k - 1]]
        <5> HIDE DEF V, next
        <5> QED  BY <1>5, <4>1
      <4>3. next[k][f[k - 1]] = IF IsEmpty(pattern[k]) THEN f[k - 1] ELSE Append(f[k - 1], pattern[k])
        <5> HIDE DEF V
        <5> QED  BY <4>1, <4>2
      <4> HIDE DEF V, next
      <4> QED  BY <3>2, <4>2, <4>3
    <3> QED  BY <3>1, <3>2
  <2>2. f = [k \in 0 .. n |-> f[k]]
    <3> HIDE DEF V, next
    <3> QED  OBVIOUS
  <2> HIDE DEF V, next
  <2> QED  BY <2>1, <2>2, Zenon
<1>7. first = [k \in 0 .. n |->
             IF k = 0 THEN <<>>
             ELSE IF IsEmpty(pattern[k]) THEN first[k - 1] ELSE Append(first[k - 1], pattern[k])]
  BY <1>6, Zenon
<1> HIDE DEF first
<1>8. \A k \in 0 .. n :
        first[k] = IF k = 0 THEN <<>>
                   ELSE IF IsEmpty(pattern[k]) THEN first[k - 1] ELSE Append(first[k - 1], pattern[k])
  BY <1>7, Zenon
<1> DEFINE From(s) == s \in V /\ \A k \in DOMAIN s : \E j \in DOMAIN pattern : s[k] = pattern[j]
           Good    == {k \in 0 .. n : From(first[k])}
<1>9. From(<<>>)
  OBVIOUS
<1>10. ASSUME NEW k \in 1 .. n, NEW s, From(s) PROVE From(Append(s, pattern[k]))
  <2>1. pattern[k] \in Parts /\ k \in DOMAIN pattern
    BY <1>1
  <2> QED  BY <1>10, <2>1
<1> HIDE DEF From
<1>11. Good = 0 .. n
  <2>1. 0 \in Good
    BY <1>n, <1>8, <1>9
  <2>2. ASSUME NEW k \in 1 .. n, k - 1 \in Good PROVE k \in Good
    <3>1. From(first[k - 1]) /\ From(Append(first[k - 1], pattern[k]))
      BY <1>10, <2>2
    <3>2. k \in 0 .. n /\ k # 0
      BY <1>n
    <3>3. From(first[k])
      BY <1>8, <3>1, <3>2, Zenon
    <3> QED  BY <3>2, <3>3
  <2>3. Good \in SUBSET (0 .. n)
    OBVIOUS
  <2> HIDE DEF Good
  <2> QED  BY <1>n, <2>1, <2>2, <2>3, BoundedInduction
<1>12. From(first[n])
  <2>1. n \in 0 .. n
    BY <1>n
  <2>2. n \in Good
    BY <1>11, <2>1, Zenon
  <2> QED  BY <2>2, Zenon DEF Good
<1>13. ASSUME pattern # <<>>, EndsAtNode(pattern) PROVE first[n] # <<>>
  <2>1. n # 0 /\ n \in 0 .. n /\ n - 1 \in 0 .. n
    BY <1>n, <1>13 DEF n
  <2>2. ~IsEmpty(pattern[n])
    BY <1>13 DEF n, EndsAtNode, Last
  <2>3. first[n] = Append(first[n - 1], pattern[n])
    BY <1>8, <2>1, <2>2, Zenon
  <2>4. first[n - 1] \in V
    BY <1>11, <2>1 DEF From
  <2>5. \A s \in V : Append(s, pattern[n]) # <<>>
    OBVIOUS
  <2> QED  BY <2>3, <2>4, <2>5
<1> QED  BY <1>2, <1>12, <1>13 DEF From

\* The node of a pattern: a sequence of names, none of them the one elsewhere.
LEMMA ShapeForm ==
  ASSUME NEW pattern \in Patterns
  PROVE  /\ Shape(pattern) \in Seq(Names)
         /\ \A k \in DOMAIN Shape(pattern) : Shape(pattern)[k] # Elsewhere
         /\ pattern = <<>> \/ EndsAtNode(pattern) => Shape(pattern) # <<>>
<1>1. /\ pattern \in Seq(Parts)
      /\ Elsewhere \in Names \ {"*"}
      /\ \A k \in DOMAIN pattern : pattern[k].name # Elsewhere
  BY ServerAssumption DEF ServerAssumption, Parts
<1>2. CASE pattern = <<>>
  <2>1. Shape(pattern) = <<"*">>
    BY <1>2 DEF Shape
  <2> DEFINE root == <<"*">>
  <2>2. root \in Seq(Names) /\ DOMAIN root = 1 .. Len(root) /\ Len(root) = 1 /\ root[1] = "*" /\ root # <<>>
    <3>1. Len(root) = 1 /\ root[1] = "*"
      OBVIOUS
    <3>2. root \in Seq(Names)
      BY StarIsName
    <3>3. root # <<>>
      OBVIOUS
    <3> HIDE DEF root
    <3>4. DOMAIN root = 1 .. Len(root)
      BY <3>2
    <3> QED  BY <3>1, <3>2, <3>3, <3>4
  <2> HIDE DEF root
  <2>3. Elsewhere # "*"
    BY <1>1
  <2>4. \A k \in DOMAIN root : root[k] # Elsewhere
    BY <2>2, <2>3
  <2> QED  BY <2>1, <2>2, <2>4 DEF root
<1>3. CASE pattern # <<>>
  <2> DEFINE parts == Named(pattern)
  <2>1. /\ parts \in Seq(Parts)
        /\ \A k \in DOMAIN parts : \E j \in DOMAIN pattern : parts[k] = pattern[j]
        /\ EndsAtNode(pattern) => parts # <<>>
    BY <1>1, <1>3, NamedForm
  <2>2. Shape(pattern) = [k \in DOMAIN parts |-> parts[k].name]
    BY <1>3 DEF Shape, NodeOf
  <2> HIDE DEF parts
  <2>3. \A k \in DOMAIN parts : parts[k].name \in Names /\ parts[k].name # Elsewhere
    <3> SUFFICES ASSUME NEW k \in DOMAIN parts
                 PROVE  parts[k].name \in Names /\ parts[k].name # Elsewhere
      OBVIOUS
    <3>1. parts[k] \in Parts
      BY <2>1
    <3>2. parts[k].name # Elsewhere
      BY <1>1, <2>1
    <3> QED  BY <3>1, <3>2 DEF Parts
  <2>4. Shape(pattern) \in Seq(Names)
    BY <2>1, <2>2, <2>3
  <2>5. \A k \in DOMAIN Shape(pattern) : Shape(pattern)[k] # Elsewhere
    BY <2>2, <2>3
  <2>6. EndsAtNode(pattern) => Shape(pattern) # <<>>
    <3> SUFFICES ASSUME EndsAtNode(pattern), Shape(pattern) = <<>> PROVE FALSE
      OBVIOUS
    <3>1. 1 \in DOMAIN parts
      BY <2>1
    <3> QED  BY <2>2, <3>1
  <2> QED  BY <1>3, <2>4, <2>5, <2>6
<1> QED  BY <1>2, <1>3

\* The nodes on the way to a node.
LEMMA PathToForm ==
  ASSUME NEW node \in Seq(Names)
  PROVE  PathTo(node) = {SubSeq(node, 1, n) : n \in 1 .. Len(node)}
<1>1. \A n \in 0 .. Len(node) : SubSeq(node, 1, n) = <<>> <=> n = 0
  OBVIOUS
<1> QED  BY <1>1 DEF PathTo, Prefixes

LEMMA PrefixForm ==
  ASSUME NEW node \in Seq(Names), NEW n \in 1 .. Len(node)
  PROVE  /\ SubSeq(node, 1, n) \in Seq(Names) \ {<<>>}
         /\ Len(SubSeq(node, 1, n)) = n
         /\ \A k \in 1 .. n : SubSeq(node, 1, n)[k] = node[k]
         /\ \A k \in 1 .. n : SubSeq(SubSeq(node, 1, n), 1, k) = SubSeq(node, 1, k)
         /\ SubSeq(node, 1, Len(node)) = node
OBVIOUS

-----------------------------------------------------------------------------
(* The walk along a path *)

LEMMA MaxForm ==
  ASSUME NEW n \in Nat, NEW S \in SUBSET (1 .. n), S # {}
  PROVE  Max(S) \in S /\ \A k \in S : Max(S) >= k
<1> DEFINE T == {m \in 0 .. n : n - m \in S}
<1>1. PICK s \in S : TRUE
  OBVIOUS
<1>2. s \in 1 .. n /\ n - s \in 0 .. n /\ n - (n - s) = s
  OBVIOUS
<1>3. T \in SUBSET Nat /\ T # {}
  <2>1. n - s \in T
    BY <1>2
  <2>2. T \in SUBSET Nat
    OBVIOUS
  <2> HIDE DEF T
  <2> QED  BY <2>1, <2>2
<1> HIDE DEF T
<1>4. PICK m \in T : \A k \in T : m <= k
  BY <1>3, LeastNumber
<1>5. m \in 0 .. n /\ n - m \in S
  BY DEF T
<1>6. ASSUME NEW k \in S PROVE n - m >= k
  <2>1. k \in 1 .. n /\ n - k \in 0 .. n /\ n - (n - k) = k
    OBVIOUS
  <2>2. n - k \in T
    BY <2>1 DEF T
  <2>3. m <= n - k
    BY <1>4, <2>2
  <2> QED  BY <1>5, <2>1, <2>3
<1>7. \E x \in S : \A k \in S : x >= k
  BY <1>5, <1>6
<1> QED  BY <1>7, Zenon DEF Max

\* The walk starts at the root and takes one step to a part.
LEMMA WalkForm ==
  ASSUME NEW t, DOMAIN t \subseteq Seq(Names) \ {<<>>}, NEW path \in Seq(Names)
  PROVE  /\ Walk(t, path)[0] = <<>>
         /\ \A k \in 1 .. Len(path) :
              Walk(t, path)[k] =
                IF Walk(t, path)[k - 1] = None THEN None ELSE Step(t, Walk(t, path)[k - 1], path[k])
<1> DEFINE n == Len(path)
           V == Seq(Names) \cup {None}
           next == [k \in 1 .. n |-> [node \in V |->
                      IF node = None THEN None ELSE Step(t, node, path[k])]]
           at == CHOOSE f : f = [k \in 0 .. n |->
                      IF k = 0 THEN <<>>
                      ELSE IF f[k - 1] = None THEN None ELSE Step(t, f[k - 1], path[k])]
<1>1. Walk(t, path) = at
  BY DEF Walk
<1>2. n \in Nat
  OBVIOUS
<1> HIDE DEF n
<1>3. next \in [1 .. n -> [V -> V]]
  <2>1. ASSUME NEW k \in 1 .. n, NEW node \in V
        PROVE  (IF node = None THEN None ELSE Step(t, node, path[k])) \in V
    BY DEF Step
  <2> HIDE DEF V
  <2> QED  BY <2>1
<1>4. Recursion(n, V, <<>>, next)
  <2>1. <<>> \in V
    OBVIOUS
  <2> HIDE DEF next, V
  <2> QED  BY <1>2, <1>3, <2>1, RecursionExists
<1>5. PICK f \in [0 .. n -> V] : f[0] = <<>> /\ \A k \in 1 .. n : f[k] = next[k][f[k - 1]]
  <2> HIDE DEF next, V
  <2> QED  BY <1>4 DEF Recursion
<1>6. f = [k \in 0 .. n |->
             IF k = 0 THEN <<>>
             ELSE IF f[k - 1] = None THEN None ELSE Step(t, f[k - 1], path[k])]
  <2>1. ASSUME NEW k \in 0 .. n
        PROVE  f[k] = IF k = 0 THEN <<>>
                      ELSE IF f[k - 1] = None THEN None ELSE Step(t, f[k - 1], path[k])
    <3>1. CASE k = 0
      BY <1>5, <3>1
    <3>2. CASE k # 0
      <4>1. k \in 1 .. n /\ k - 1 \in 0 .. n
        BY <1>2, <3>2
      <4>2. f[k - 1] \in V /\ f[k] = next[k][f[k - 1]]
        <5> HIDE DEF V, next
        <5> QED  BY <1>5, <4>1
      <4>3. next[k][f[k - 1]] = IF f[k - 1] = None THEN None ELSE Step(t, f[k - 1], path[k])
        <5> HIDE DEF V
        <5> QED  BY <4>1, <4>2
      <4> HIDE DEF V, next
      <4> QED  BY <3>2, <4>2, <4>3
    <3> QED  BY <3>1, <3>2
  <2>2. f = [k \in 0 .. n |-> f[k]]
    <3> HIDE DEF V, next
    <3> QED  OBVIOUS
  <2> HIDE DEF V, next
  <2> QED  BY <2>1, <2>2, Zenon
<1>7. at = [k \in 0 .. n |->
              IF k = 0 THEN <<>>
              ELSE IF at[k - 1] = None THEN None ELSE Step(t, at[k - 1], path[k])]
  BY <1>6, Zenon
<1> HIDE DEF at
<1>8. \A k \in 0 .. n :
        at[k] = IF k = 0 THEN <<>>
                ELSE IF at[k - 1] = None THEN None ELSE Step(t, at[k - 1], path[k])
  BY <1>7, Zenon
<1>9. 0 \in 0 .. n /\ \A k \in 1 .. n : k \in 0 .. n /\ k # 0
  BY <1>2
<1>10. at[0] = <<>>
  BY <1>8, <1>9, Zenon
<1>11. \A k \in 1 .. n : at[k] = IF at[k - 1] = None THEN None ELSE Step(t, at[k - 1], path[k])
  BY <1>8, <1>9, Zenon
<1> QED  BY <1>1, <1>10, <1>11, Zenon DEF n

\* Where it gets to after k parts fits these.
LEMMA WalkFits ==
  ASSUME NEW t, DOMAIN t \subseteq Seq(Names) \ {<<>>}, NEW path \in Seq(Names),
         NEW k \in 1 .. Len(path), Walk(t, path)[k] # None
  PROVE  Walk(t, path)[k] \in DOMAIN t /\ Fits(Walk(t, path)[k], path)
<1> DEFINE n == Len(path)
           at == Walk(t, path)
           Fit(node, m) == /\ node \in Seq(Names) /\ Len(node) = m
                           /\ m # 0 => node \in DOMAIN t
                           /\ \A j \in 1 .. m : node[j] \in {"*", path[j]}
           Good == {m \in 0 .. n : at[m] = None \/ Fit(at[m], m)}
<1>1. /\ n \in Nat
      /\ at[0] = <<>>
      /\ \A m \in 1 .. n : at[m] = IF at[m - 1] = None THEN None ELSE Step(t, at[m - 1], path[m])
      /\ \A m \in 1 .. n : path[m] \in Names
  BY WalkForm
<1> HIDE DEF at, n
<1>2. Fit(<<>>, 0)
  OBVIOUS
<1>3. ASSUME NEW m \in 1 .. n, NEW node, Fit(node, m - 1), NEW name \in {"*", path[m]},
             Append(node, name) \in DOMAIN t
      PROVE  Fit(Append(node, name), m)
  <2>1. node \in Seq(Names) /\ Len(node) = m - 1 /\ name \in Names /\ m \in Nat \ {0}
    <3>1. node \in Seq(Names) /\ Len(node) = m - 1
      BY <1>3
    <3>2. path[m] \in Names /\ m \in Nat \ {0}
      BY <1>1
    <3>3. name \in Names
      BY <3>2, StarIsName
    <3> QED  BY <3>1, <3>2, <3>3
  <2>2. Append(node, name) \in Seq(Names) /\ Len(Append(node, name)) = m
    BY <2>1
  <2>3. \A j \in 1 .. m : Append(node, name)[j] = IF j = m THEN name ELSE node[j]
    BY <2>1
  <2>4. ASSUME NEW j \in 1 .. m PROVE Append(node, name)[j] \in {"*", path[j]}
    <3>1. CASE j = m
      BY <2>3, <3>1
    <3>2. CASE j # m
      <4>1. j \in 1 .. m - 1
        BY <2>1, <3>2
      <4> QED  BY <1>3, <2>3, <3>2, <4>1
    <3> QED  BY <3>1, <3>2
  <2> QED  BY <1>3, <2>1, <2>2, <2>4
<1> HIDE DEF Fit
<1>4. Good = 0 .. n
  <2>1. Good \in SUBSET (0 .. n) /\ 0 \in Good
    BY <1>1, <1>2
  <2>2. ASSUME NEW m \in 1 .. n, m - 1 \in Good PROVE m \in Good
    <3>1. at[m - 1] = None \/ Fit(at[m - 1], m - 1)
      BY <2>2
    <3>2. at[m] = IF at[m - 1] = None THEN None ELSE Step(t, at[m - 1], path[m])
      BY <1>1
    <3>3. at[m] = None \/ \E name \in {"*", path[m]} :
             at[m] = Append(at[m - 1], name) /\ at[m] \in DOMAIN t /\ at[m - 1] # None
      BY <3>2, Zenon DEF Step
    <3>4. at[m] = None \/ Fit(at[m], m)
      BY <1>3, <3>1, <3>3, Zenon
    <3>5. m \in 0 .. n
      BY <1>1
    <3> QED  BY <3>4, <3>5
  <2> HIDE DEF Good
  <2> QED  BY <1>1, <2>1, <2>2, BoundedInduction
<1>5. k \in 1 .. n /\ k \in 0 .. n /\ k # 0 /\ at[k] # None
  BY <1>1 DEF n, at
<1>6. Fit(at[k], k)
  BY <1>4, <1>5
<1> DEFINE node == at[k]
<1>7. /\ node \in Seq(Names) /\ Len(node) = k /\ node \in DOMAIN t
      /\ \A j \in 1 .. k : node[j] \in {"*", path[j]}
  BY <1>5, <1>6, Zenon DEF Fit
<1> HIDE DEF node
<1>8. Fits(node, path)
  BY <1>1, <1>5, <1>7 DEF Fits, n
<1> QED  BY <1>7, <1>8 DEF node, at

\* What a path is given to has its node there, and fits the path.
LEMMA MatchFits ==
  ASSUME NEW t, DOMAIN t \subseteq Seq(Names) \ {<<>>}, NEW path \in Seq(Names),
         Match(t, path) # None
  PROVE  \E node \in DOMAIN t : t[node].callback = Match(t, path) /\ Fits(node, path)
<1> DEFINE n == Len(path)
           at == Walk(t, path)
           deep == {k \in 1 .. n : at[k] # None}
<1>1. Match(t, path) = IF deep = {} THEN None ELSE t[at[Max(deep)]].callback
  BY DEF Match
<1>2. n \in Nat /\ deep \in SUBSET (1 .. n)
  OBVIOUS
<1>3. deep # {}
  BY <1>1
<1> HIDE DEF deep
<1>4. Max(deep) \in deep
  BY <1>2, <1>3, MaxForm
<1>5. Max(deep) \in 1 .. n /\ at[Max(deep)] # None
  BY <1>4 DEF deep
<1>6. at[Max(deep)] \in DOMAIN t /\ Fits(at[Max(deep)], path)
  BY <1>5, WalkFits
<1> QED  BY <1>1, <1>3, <1>6

\* Where all nodes on the way are there, and no node has the name elsewhere, a path
\* with that name for each "*" leads to the node.
LEMMA MatchReaches ==
  ASSUME NEW t, DOMAIN t \subseteq Seq(Names) \ {<<>>},
         \A other \in DOMAIN t : \A k \in DOMAIN other : other[k] # Elsewhere,
         NEW node \in DOMAIN t, \A k \in 1 .. Len(node) : SubSeq(node, 1, k) \in DOMAIN t,
         NEW path \in Seq(Names), Len(path) = Len(node),
         \A k \in 1 .. Len(node) : path[k] = IF node[k] = "*" THEN Elsewhere ELSE node[k]
  PROVE  Match(t, path) = t[node].callback
<1> DEFINE n == Len(path)
           at == Walk(t, path)
           way(k) == SubSeq(node, 1, k)
           Good == {k \in 0 .. n : at[k] = way(k)}
<1>1. /\ at[0] = <<>>
      /\ \A k \in 1 .. n : at[k] = IF at[k - 1] = None THEN None ELSE Step(t, at[k - 1], path[k])
  BY WalkForm
<1>2. n \in Nat /\ n = Len(node) /\ node \in Seq(Names) /\ n # 0
  OBVIOUS
<1>3. None \notin Seq(Names)
  BY ServerAssumption DEF ServerAssumption
<1>4. way(0) = <<>> /\ way(n) = node
  BY <1>2
<1>5. \A k \in 1 .. n : way(k) = Append(way(k - 1), node[k]) /\ way(k) \in DOMAIN t /\ way(k) \in Seq(Names)
  BY <1>2
<1>6. \A k \in 0 .. n : way(k) \in Seq(Names) /\ Len(way(k)) = k
  BY <1>2
<1>7. \A k \in 1 .. n : Append(way(k - 1), Elsewhere) \notin DOMAIN t
  <2> SUFFICES ASSUME NEW k \in 1 .. n, Append(way(k - 1), Elsewhere) \in DOMAIN t PROVE FALSE
    OBVIOUS
  <2>1. k - 1 \in 0 .. n
    BY <1>2
  <2>2. way(k - 1) \in Seq(Names) /\ Len(way(k - 1)) = k - 1
    BY <1>6, <2>1
  <2> DEFINE w == way(k - 1)
             other == Append(w, Elsewhere)
  <2> HIDE DEF w, way
  <2>3. other \in Seq(Names) /\ k \in DOMAIN other /\ other[k] = Elsewhere
    <3>1. Elsewhere \in Names
      BY ServerAssumption DEF ServerAssumption
    <3> QED  BY <2>2, <3>1 DEF w
  <2>4. other \in DOMAIN t
    BY DEF w
  <2> HIDE DEF other
  <2> QED  BY <2>3, <2>4
<1> HIDE DEF at, n, way
<1>8. \A k \in 1 .. n : k - 1 \in 0 .. n /\ k \in 0 .. n
  BY <1>2
<1>9. \A k \in 1 .. n : at[k - 1] = way(k - 1) => at[k] = way(k)
  <2> SUFFICES ASSUME NEW k \in 1 .. n, at[k - 1] = way(k - 1) PROVE at[k] = way(k)
    OBVIOUS
  <2>1. way(k - 1) # None
    BY <1>3, <1>6, <1>8
  <2>2. at[k] = Step(t, way(k - 1), path[k])
    BY <1>1, <2>1
  <2>3. path[k] = IF node[k] = "*" THEN Elsewhere ELSE node[k]
    BY <1>2
  <2>4. way(k) = Append(way(k - 1), node[k]) /\ way(k) \in DOMAIN t
    BY <1>5
  <2>5. Append(way(k - 1), Elsewhere) \notin DOMAIN t
    BY <1>7
  <2>6. CASE node[k] = "*"
    BY <2>2, <2>3, <2>4, <2>5, <2>6, Zenon DEF Step
  <2>7. CASE node[k] # "*"
    BY <2>2, <2>3, <2>4, <2>7, Zenon DEF Step
  <2> QED  BY <2>6, <2>7
<1>10. Good = 0 .. n
  <2>1. Good \in SUBSET (0 .. n) /\ 0 \in Good
    BY <1>1, <1>2, <1>4
  <2>2. \A k \in 1 .. n : k - 1 \in Good => k \in Good
    BY <1>8, <1>9
  <2> HIDE DEF Good
  <2> QED  BY <1>2, <2>1, <2>2, BoundedInduction
<1>11. at[n] = node
  BY <1>2, <1>4, <1>10
<1> DEFINE deep == {k \in 1 .. n : at[k] # None}
<1>12. Match(t, path) = IF deep = {} THEN None ELSE t[at[Max(deep)]].callback
  BY DEF Match, at, n
<1>13. n \in deep /\ deep \in SUBSET (1 .. n)
  <2>1. node # None /\ n \in 1 .. n
    BY <1>2, <1>3
  <2> QED  BY <1>11, <2>1
<1> HIDE DEF deep
<1>14. Max(deep) = n
  <2>1. Max(deep) \in deep /\ Max(deep) >= n
    BY <1>2, <1>13, MaxForm
  <2>2. Max(deep) \in 1 .. n
    BY <1>13, <2>1
  <2> QED  BY <1>2, <2>1, <2>2
<1> QED  BY <1>11, <1>12, <1>13, <1>14

-----------------------------------------------------------------------------
(* What a call of AddRoute does to the tree *)

\* "/" takes the place of whatever began with "*".
LEMMA AddRootForm ==
  ASSUME NEW t, NEW c
  PROVE  LET u == AddRoot(t, c) IN
         /\ DOMAIN u = {node \in DOMAIN t : node[1] # "*"} \cup {<<"*">>}
         /\ \A node \in DOMAIN t : node[1] # "*" => u[node] = t[node]
         /\ u[<<"*">>] = [callback |-> c, key |-> NoName]
<1>1. <<"*">> \notin {node \in DOMAIN t : node[1] # "*"}
  <2>1. <<"*">>[1] = "*"
    OBVIOUS
  <2> DEFINE root == <<"*">>
  <2> HIDE DEF root
  <2>2. root \notin {node \in DOMAIN t : node[1] # "*"}
    BY <2>1 DEF root
  <2> QED  BY <2>2 DEF root
<1> DEFINE root == <<"*">>
           kept == {node \in DOMAIN t : node[1] # "*"}
           u    == [node \in kept \cup {root} |->
                      IF node \in kept THEN t[node] ELSE [callback |-> c, key |-> NoName]]
<1>2. AddRoot(t, c) = u
  BY DEF AddRoot
<1>3. \A node \in DOMAIN t : node[1] # "*" => node \in kept
  OBVIOUS
<1> HIDE DEF root
<1>4. root \notin kept
  BY <1>1 DEF root
<1> HIDE DEF kept
<1>5. DOMAIN u = kept \cup {root} /\ (\A node \in kept : u[node] = t[node])
      /\ u[root] = [callback |-> c, key |-> NoName]
  BY <1>4
<1> HIDE DEF u
<1> QED  BY <1>2, <1>3, <1>5 DEF root, kept

\* The nodes on the way to the end are there, and only the end has another callback.
PathAdded(t, pattern, c, u) ==
  LET end == Shape(pattern) IN
  /\ DOMAIN u = DOMAIN t \cup {SubSeq(end, 1, n) : n \in 1 .. Len(end)}
  /\ \A node \in DOMAIN u :
       /\ u[node] \in Nodes
       /\ u[node].callback =
            IF node = end /\ EndsAtNode(pattern) THEN c
            ELSE IF node \in DOMAIN t THEN t[node].callback ELSE None

LEMMA AddPathForm ==
  ASSUME NEW t, \A node \in DOMAIN t : t[node] \in Nodes,
         NEW pattern \in Patterns, pattern # <<>>, NEW c \in Nat
  PROVE  PathAdded(t, pattern, c, AddPath(t, pattern, c))
<1> DEFINE parts  == Named(pattern)
           end    == Shape(pattern)
           way    == PathTo(end)
           old(node) == IF node \in DOMAIN t THEN t[node]
                        ELSE [callback |-> None, key |-> parts[Len(node)].var]
           new(node) == IF node = end /\ EndsAtNode(pattern)
                        THEN [old(node) EXCEPT !.callback = c] ELSE old(node)
           u      == [node \in DOMAIN t \cup way |-> new(node)]
<1>1. AddPath(t, pattern, c) = u
  BY DEF AddPath, Shape
<1>2. end \in Seq(Names)
  BY ShapeForm
<1>3. way = {SubSeq(end, 1, n) : n \in 1 .. Len(end)}
  BY <1>2, PathToForm
<1>4. parts \in Seq(Parts) /\ Len(end) = Len(parts)
  <2>1. pattern \in Seq(Parts)
    BY ServerAssumption DEF ServerAssumption, Parts
  <2>2. parts \in Seq(Parts)
    BY <2>1, NamedForm
  <2>3. end = [k \in DOMAIN parts |-> parts[k].name]
    BY DEF Shape, NodeOf
  <2> HIDE DEF parts, end
  <2> QED  BY <1>2, <2>2, <2>3
<1> HIDE DEF parts, end, way
<1>5. ASSUME NEW node \in DOMAIN t \cup way
      PROVE  /\ old(node) \in Nodes
             /\ old(node).callback = IF node \in DOMAIN t THEN t[node].callback ELSE None
  <2>1. CASE node \in DOMAIN t
    BY <2>1
  <2>2. CASE node \notin DOMAIN t
    <3>1. PICK n \in 1 .. Len(end) : node = SubSeq(end, 1, n)
      BY <1>3, <2>2
    <3>2. Len(node) = n
      BY <1>2, <3>1, PrefixForm
    <3>3. parts[Len(node)] \in Parts
      BY <1>4, <3>2
    <3>4. parts[Len(node)].var \in Names
      BY <3>3 DEF Parts
    <3> QED  BY <2>2, <3>4 DEF Nodes
  <2> QED  BY <2>1, <2>2
<1> HIDE DEF old
<1>6. ASSUME NEW node \in DOMAIN t \cup way
      PROVE  /\ new(node) \in Nodes
             /\ new(node).callback =
                  IF node = end /\ EndsAtNode(pattern) THEN c
                  ELSE IF node \in DOMAIN t THEN t[node].callback ELSE None
  <2>1. old(node) \in Nodes
    BY <1>5
  <2>2. /\ [old(node) EXCEPT !.callback = c] \in Nodes
        /\ [old(node) EXCEPT !.callback = c].callback = c
    BY <2>1 DEF Nodes
  <2> QED  BY <1>5, <2>1, <2>2
<1> HIDE DEF new
<1>7. DOMAIN u = DOMAIN t \cup way /\ \A node \in DOMAIN u : u[node] = new(node)
  OBVIOUS
<1> HIDE DEF u
<1> QED  BY <1>1, <1>3, <1>6, <1>7 DEF end, PathAdded

-----------------------------------------------------------------------------
(* Routes through a call of AddRoute *)

\* One more call: what counted still does unless that call has replaced it.
LEMMA LiveAfter ==
  ASSUME NEW calls \in Seq(Patterns), NEW pattern \in Patterns
  PROVE  LET more == Append(calls, pattern)
             n    == Len(calls)
         IN
         /\ \A i \in 1 .. n, k \in 0 .. n : Live(more, i, k) <=> Live(calls, i, k)
         /\ \A i \in 1 .. n :
              Live(more, i, n + 1) <=>
                /\ Live(calls, i, n)
                /\ Shape(pattern) = Shape(calls[i]) => pattern # <<>> /\ ~EndsAtNode(pattern)
                /\ pattern = <<>> => Shape(calls[i])[1] # "*"
         /\ Live(more, n + 1, n + 1) <=> pattern = <<>> \/ EndsAtNode(pattern)
<1> DEFINE more == Append(calls, pattern)
           n    == Len(calls)
<1>1. /\ n \in Nat /\ Len(more) = n + 1 /\ more[n + 1] = pattern
      /\ \A i \in 1 .. n : more[i] = calls[i]
  OBVIOUS
<1> HIDE DEF more, n
<1>2. \A i \in 1 .. n, k \in 0 .. n : Live(more, i, k) <=> Live(calls, i, k)
  <2> SUFFICES ASSUME NEW i \in 1 .. n, NEW k \in 0 .. n
               PROVE  Live(more, i, k) <=> Live(calls, i, k)
    OBVIOUS
  <2>1. \A j \in i + 1 .. k : j \in 1 .. n
    BY <1>1
  <2>2. more[i] = calls[i] /\ \A j \in i + 1 .. k : more[j] = calls[j]
    BY <1>1, <2>1
  <2> QED  BY <2>2, Zenon DEF Live
<1>3. ASSUME NEW i \in 1 .. n
      PROVE  Live(more, i, n + 1) <=>
                /\ Live(calls, i, n)
                /\ Shape(pattern) = Shape(calls[i]) => pattern # <<>> /\ ~EndsAtNode(pattern)
                /\ pattern = <<>> => Shape(calls[i])[1] # "*"
  <2>1. i + 1 .. n + 1 = (i + 1 .. n) \cup {n + 1}
    BY <1>1
  <2>2. more[i] = calls[i] /\ more[n + 1] = pattern /\ \A j \in i + 1 .. n : more[j] = calls[j]
    BY <1>1
  <2>3. Live(more, i, n + 1) <=>
          /\ calls[i] = <<>> \/ EndsAtNode(calls[i])
          /\ \A j \in (i + 1 .. n) \cup {n + 1} :
               /\ Shape(more[j]) = Shape(calls[i]) => more[j] # <<>> /\ ~EndsAtNode(more[j])
               /\ more[j] = <<>> => Shape(calls[i])[1] # "*"
    BY <2>1, <2>2, Zenon DEF Live
  <2> QED  BY <2>2, <2>3, Zenon DEF Live
<1>4. Live(more, n + 1, n + 1) <=> pattern = <<>> \/ EndsAtNode(pattern)
  <2>1. \A j \in n + 1 + 1 .. n + 1 : FALSE
    BY <1>1
  <2> QED  BY <1>1, <2>1, Zenon DEF Live
<1> QED  BY <1>2, <1>3, <1>4 DEF more, n

\* The tree and the routes that count agree: the part of the invariant that is about them.
TreeTyped ==
  /\ DOMAIN tree \subseteq Seq(Names) \ {<<>>}
  /\ \A node \in DOMAIN tree : tree[node] \in Nodes

TreeInductive == TreeTyped /\ PrefixClosed /\ NamesFromPatterns /\ CallbacksLive /\ RoutesKept

LEMMA RootKeepsRoutes ==
  ASSUME added \in Seq(Patterns), TreeInductive,
         NEW pattern \in Patterns, Add(pattern), pattern = <<>>
  PROVE  TreeInductive'
<1> DEFINE n    == Len(added)
           root == Shape(pattern)
           kept == {node \in DOMAIN tree : node[1] # "*"}
<1>1. n \in Nat /\ n + 1 \in Nat /\ DOMAIN added = 1 .. n
  OBVIOUS
<1>2. /\ added' = Append(added, pattern) /\ Len(added)' = n + 1 /\ DOMAIN added' = 1 .. n + 1
      /\ added'[n + 1] = pattern /\ \A i \in 1 .. n : added'[i] = added[i]
  BY DEF Add
<1>3. root = <<"*">>
  BY DEF Shape
<1>4. /\ root \in Seq(Names) \ {<<>>} /\ Len(root) = 1 /\ root[1] = "*" /\ SubSeq(root, 1, 1) = root
      /\ \A k \in DOMAIN root : k = 1
  <2>1. root \in Seq(Names) /\ root # <<>>
    BY ShapeForm
  <2>2. Len(root) = 1 /\ root[1] = "*"
    BY <1>3
  <2> HIDE DEF root
  <2> QED  BY <2>1, <2>2
<1>5. /\ DOMAIN tree' = kept \cup {root}
      /\ \A node \in kept : tree'[node] = tree[node]
      /\ tree'[root] = [callback |-> n + 1, key |-> NoName]
  <2>1. tree' = AddRoot(tree, n + 1)
    BY DEF Add, AddRoute
  <2>2. /\ DOMAIN tree' = kept \cup {<<"*">>}
        /\ \A node \in DOMAIN tree : node[1] # "*" => tree'[node] = tree[node]
        /\ tree'[<<"*">>] = [callback |-> n + 1, key |-> NoName]
    <3> DEFINE c == n + 1
               u == AddRoot(tree, c)
    <3>1. tree' = u
      BY <2>1
    <3> HIDE DEF n, c, root
    <3>2. /\ DOMAIN u = kept \cup {<<"*">>}
          /\ \A node \in DOMAIN tree : node[1] # "*" => u[node] = tree[node]
          /\ u[<<"*">>] = [callback |-> c, key |-> NoName]
      BY AddRootForm
    <3> HIDE DEF u, kept
    <3> QED  BY <3>1, <3>2, Zenon DEF c
  <2>3. \A node \in kept : node \in DOMAIN tree /\ node[1] # "*"
    OBVIOUS
  <2> HIDE DEF root, kept
  <2> QED  BY <1>3, <2>2, <2>3, Zenon
<1>6. NoName \in Names /\ Elsewhere # "*"
  BY ServerAssumption DEF ServerAssumption
<1>7. /\ \A i \in 1 .. n :
           Live(added', i, n + 1) <=>
             Live(added, i, n) /\ Shape(pattern) # Shape(added[i]) /\ Shape(added[i])[1] # "*"
      /\ Live(added', n + 1, n + 1)
  BY <1>2, LiveAfter
<1> HIDE DEF root, n
<1>8. TreeTyped'
  <2>1. DOMAIN tree' \subseteq Seq(Names) \ {<<>>}
    BY <1>4, <1>5 DEF TreeInductive, TreeTyped
  <2>2. tree'[root] \in Nodes
    BY <1>1, <1>5, <1>6 DEF Nodes
  <2>3. \A node \in kept : tree'[node] \in Nodes
    BY <1>5 DEF TreeInductive, TreeTyped
  <2> QED  BY <1>5, <2>1, <2>2, <2>3 DEF TreeTyped
<1>9. PrefixClosed'
  <2> SUFFICES ASSUME NEW node \in DOMAIN tree', NEW k \in 1 .. Len(node)
               PROVE  SubSeq(node, 1, k) \in DOMAIN tree'
    BY DEF PrefixClosed
  <2>1. CASE node \in kept
    <3>1. node \in Seq(Names) /\ SubSeq(node, 1, k) \in DOMAIN tree
      BY <2>1 DEF TreeInductive, TreeTyped, PrefixClosed
    <3>2. SubSeq(node, 1, k)[1] = node[1]
      BY <3>1, PrefixForm
    <3>3. SubSeq(node, 1, k) \in kept
      BY <2>1, <3>1, <3>2
    <3> QED  BY <1>5, <3>3
  <2>2. CASE node = root
    <3>0. Len(node) = 1
      BY <1>4, <2>2
    <3>1. k = 1
      BY <3>0
    <3>2. SubSeq(node, 1, k) = root
      BY <1>4, <2>2, <3>1
    <3> QED  BY <1>5, <3>2
  <2> QED  BY <1>5, <2>1, <2>2
<1>10. NamesFromPatterns'
  <2> SUFFICES ASSUME NEW node \in DOMAIN tree', NEW k \in DOMAIN node
               PROVE  node[k] # Elsewhere
    BY DEF NamesFromPatterns
  <2>1. CASE node \in kept
    BY <2>1 DEF TreeInductive, NamesFromPatterns
  <2>2. CASE node = root
    BY <1>4, <1>6, <2>2
  <2> QED  BY <1>5, <2>1, <2>2
<1>11. CallbacksLive'
  <2> SUFFICES ASSUME NEW node \in DOMAIN tree', tree'[node].callback # None
               PROVE  /\ tree'[node].callback \in 1 .. n + 1
                      /\ Shape(added'[tree'[node].callback]) = node
                      /\ Live(added', tree'[node].callback, n + 1)
    BY <1>2 DEF CallbacksLive
  <2>1. CASE node \in kept
    <3> DEFINE i == tree[node].callback
    <3>1. tree'[node].callback = i /\ i # None
      BY <1>5, <2>1
    <3>2. i \in 1 .. n /\ Shape(added[i]) = node /\ Live(added, i, n)
      BY <1>1, <2>1, <3>1 DEF TreeInductive, CallbacksLive, n
    <3>3. node[1] # "*" /\ node # root
      BY <1>4, <2>1
    <3> HIDE DEF i
    <3>4. Live(added', i, n + 1)
      BY <1>7, <3>2, <3>3 DEF root
    <3>5. i \in 1 .. n + 1 /\ added'[i] = added[i]
      BY <1>1, <1>2, <3>2
    <3> QED  BY <3>1, <3>2, <3>4, <3>5
  <2>2. CASE node = root
    <3>1. tree'[node].callback = n + 1
      BY <1>5, <2>2
    <3> QED  BY <1>1, <1>2, <1>7, <2>2, <3>1 DEF root
  <2> QED  BY <1>5, <2>1, <2>2
<1>12. RoutesKept'
  <2> SUFFICES ASSUME NEW i \in 1 .. n + 1, Live(added', i, n + 1)
               PROVE  Shape(added'[i]) \in DOMAIN tree' /\ tree'[Shape(added'[i])].callback = i
    BY <1>2 DEF RoutesKept
  <2>1. CASE i \in 1 .. n
    <3>1. Live(added, i, n) /\ Shape(added[i])[1] # "*" /\ added'[i] = added[i]
      BY <1>2, <1>7, <2>1
    <3>2. Shape(added[i]) \in DOMAIN tree /\ tree[Shape(added[i])].callback = i
      BY <1>1, <2>1, <3>1 DEF TreeInductive, RoutesKept, n
    <3>3. Shape(added[i]) \in kept
      BY <3>1, <3>2
    <3> QED  BY <1>5, <3>1, <3>2, <3>3
  <2>2. CASE i = n + 1
    <3>1. Shape(added'[i]) = root
      BY <1>2, <2>2 DEF root
    <3> QED  BY <1>5, <2>2, <3>1
  <2> QED  BY <1>1, <2>1, <2>2
<1> QED  BY <1>8, <1>9, <1>10, <1>11, <1>12 DEF TreeInductive

LEMMA PathKeepsRoutes ==
  ASSUME added \in Seq(Patterns), TreeInductive,
         NEW pattern \in Patterns, Add(pattern), pattern # <<>>
  PROVE  TreeInductive'
<1> DEFINE n    == Len(added)
           end  == Shape(pattern)
           way  == {SubSeq(end, 1, k) : k \in 1 .. Len(end)}
<1>1. n \in Nat /\ n + 1 \in Nat /\ DOMAIN added = 1 .. n
  OBVIOUS
<1>2. /\ added' = Append(added, pattern) /\ Len(added)' = n + 1 /\ DOMAIN added' = 1 .. n + 1
      /\ added'[n + 1] = pattern /\ \A i \in 1 .. n : added'[i] = added[i]
  BY DEF Add
<1>3. /\ end \in Seq(Names)
      /\ \A k \in DOMAIN end : end[k] # Elsewhere
      /\ EndsAtNode(pattern) => end # <<>>
  BY ShapeForm
<1>4. /\ DOMAIN tree' = DOMAIN tree \cup way
      /\ \A node \in DOMAIN tree' :
           /\ tree'[node] \in Nodes
           /\ tree'[node].callback =
                IF node = end /\ EndsAtNode(pattern) THEN n + 1
                ELSE IF node \in DOMAIN tree THEN tree[node].callback ELSE None
  <2>1. tree' = AddPath(tree, pattern, n + 1)
    BY DEF Add, AddRoute
  <2>2. \A node \in DOMAIN tree : tree[node] \in Nodes
    BY DEF TreeInductive, TreeTyped
  <2>3. n + 1 \in Nat
    OBVIOUS
  <2> HIDE DEF n
  <2>4. PathAdded(tree, pattern, n + 1, tree')
    BY <2>1, <2>2, <2>3, AddPathForm
  <2> QED  BY <2>4, Zenon DEF PathAdded
<1>5. /\ \A i \in 1 .. n :
           Live(added', i, n + 1) <=>
             Live(added, i, n) /\ (Shape(added[i]) = end => ~EndsAtNode(pattern))
      /\ Live(added', n + 1, n + 1) <=> EndsAtNode(pattern)
  BY <1>2, LiveAfter
<1> HIDE DEF end, n
<1>6. \A node \in way : \E k \in 1 .. Len(end) : node = SubSeq(end, 1, k)
  OBVIOUS
<1>7. \A k \in 1 .. Len(end) : SubSeq(end, 1, k) \in way
  OBVIOUS
<1>8. end # <<>> => end \in way
  <2> SUFFICES ASSUME end # <<>> PROVE end \in way
    OBVIOUS
  <2>1. Len(end) \in 1 .. Len(end) /\ SubSeq(end, 1, Len(end)) = end
    BY <1>3
  <2> QED  BY <1>7, <2>1
<1> HIDE DEF way
<1>9. TreeTyped'
  <2>1. ASSUME NEW node \in way PROVE node \in Seq(Names) \ {<<>>}
    <3>1. PICK k \in 1 .. Len(end) : node = SubSeq(end, 1, k)
      BY <1>6
    <3> QED  BY <1>3, <3>1, PrefixForm
  <2>2. DOMAIN tree' \subseteq Seq(Names) \ {<<>>}
    BY <1>4, <2>1 DEF TreeInductive, TreeTyped
  <2> QED  BY <1>4, <2>2 DEF TreeTyped
<1>10. PrefixClosed'
  <2> SUFFICES ASSUME NEW node \in DOMAIN tree', NEW k \in 1 .. Len(node)
               PROVE  SubSeq(node, 1, k) \in DOMAIN tree'
    BY DEF PrefixClosed
  <2>1. CASE node \in DOMAIN tree
    <3>1. SubSeq(node, 1, k) \in DOMAIN tree
      BY <2>1 DEF TreeInductive, PrefixClosed
    <3> QED  BY <1>4, <3>1
  <2>2. CASE node \in way
    <3>1. PICK m \in 1 .. Len(end) : node = SubSeq(end, 1, m)
      BY <1>6, <2>2
    <3>2. Len(node) = m /\ \A j \in 1 .. m : SubSeq(node, 1, j) = SubSeq(end, 1, j)
      BY <1>3, <3>1, PrefixForm
    <3>3. k \in 1 .. m /\ k \in 1 .. Len(end)
      BY <1>3, <3>2
    <3>4. SubSeq(node, 1, k) = SubSeq(end, 1, k)
      BY <3>2, <3>3
    <3> QED  BY <1>4, <1>7, <3>3, <3>4
  <2> QED  BY <1>4, <2>1, <2>2
<1>11. NamesFromPatterns'
  <2> SUFFICES ASSUME NEW node \in DOMAIN tree', NEW k \in DOMAIN node
               PROVE  node[k] # Elsewhere
    BY DEF NamesFromPatterns
  <2>1. CASE node \in DOMAIN tree
    BY <2>1 DEF TreeInductive, NamesFromPatterns
  <2>2. CASE node \in way
    <3>1. PICK m \in 1 .. Len(end) : node = SubSeq(end, 1, m)
      BY <1>6, <2>2
    <3>2. node \in Seq(Names) /\ Len(node) = m /\ \A j \in 1 .. m : node[j] = end[j]
      BY <1>3, <3>1, PrefixForm
    <3>3. k \in 1 .. m /\ k \in DOMAIN end
      BY <1>3, <3>2
    <3> QED  BY <1>3, <3>2, <3>3
  <2> QED  BY <1>4, <2>1, <2>2
<1>12. CallbacksLive'
  <2> SUFFICES ASSUME NEW node \in DOMAIN tree', tree'[node].callback # None
               PROVE  /\ tree'[node].callback \in 1 .. n + 1
                      /\ Shape(added'[tree'[node].callback]) = node
                      /\ Live(added', tree'[node].callback, n + 1)
    BY <1>2 DEF CallbacksLive
  <2>1. CASE node = end /\ EndsAtNode(pattern)
    <3>1. tree'[node].callback = n + 1
      BY <1>4, <2>1
    <3> QED  BY <1>1, <1>2, <1>5, <2>1, <3>1 DEF end
  <2>2. CASE ~(node = end /\ EndsAtNode(pattern))
    <3> DEFINE i == tree[node].callback
    <3>1. tree'[node].callback = i /\ i # None /\ node \in DOMAIN tree
      BY <1>4, <2>2
    <3>2. i \in 1 .. n /\ Shape(added[i]) = node /\ Live(added, i, n)
      BY <1>1, <3>1 DEF TreeInductive, CallbacksLive, n
    <3> HIDE DEF i
    <3>3. Live(added', i, n + 1)
      BY <1>5, <2>2, <3>2
    <3>4. i \in 1 .. n + 1 /\ added'[i] = added[i]
      BY <1>1, <1>2, <3>2
    <3> QED  BY <3>1, <3>2, <3>3, <3>4
  <2> QED  BY <2>1, <2>2
<1>13. RoutesKept'
  <2> SUFFICES ASSUME NEW i \in 1 .. n + 1, Live(added', i, n + 1)
               PROVE  Shape(added'[i]) \in DOMAIN tree' /\ tree'[Shape(added'[i])].callback = i
    BY <1>2 DEF RoutesKept
  <2>1. CASE i \in 1 .. n
    <3>1. Live(added, i, n) /\ (Shape(added[i]) = end => ~EndsAtNode(pattern)) /\ added'[i] = added[i]
      BY <1>2, <1>5, <2>1
    <3>2. Shape(added[i]) \in DOMAIN tree /\ tree[Shape(added[i])].callback = i
      BY <1>1, <2>1, <3>1 DEF TreeInductive, RoutesKept, n
    <3> QED  BY <1>4, <3>1, <3>2
  <2>2. CASE i = n + 1
    <3>1. Shape(added'[i]) = end /\ EndsAtNode(pattern) /\ end \in way
      BY <1>2, <1>3, <1>5, <1>8, <2>2 DEF end
    <3> QED  BY <1>4, <2>2, <3>1
  <2> QED  BY <1>1, <2>1, <2>2
<1> QED  BY <1>9, <1>10, <1>11, <1>12, <1>13 DEF TreeInductive

-----------------------------------------------------------------------------
(* The three parts of the state, one step *)

RoutesInductive == added \in Seq(Patterns) /\ TreeInductive

ListenersInductive ==
  /\ socket \in [Listeners -> {"none", "open", "closed"}]
  /\ shutdown \in [Listeners -> BOOLEAN]
  /\ readers \in [Listeners -> [Stages -> Nat]]
  /\ late \in [Listeners -> Nat]
  /\ OneReader /\ CloseInOrder

\* What holds of one request.
RequestOK(q, calls) ==
  q.at \in Handled =>
    /\ q.known <= Len(calls)
    /\ q.callback # None =>
         /\ q.callback \in 1 .. q.known
         /\ Live(calls, q.callback, q.known)
         /\ Fits(Shape(calls[q.callback]), q.path)

RequestsInductive ==
  /\ request \in [Requests -> RequestStates]
  /\ \A r \in Requests : RequestOK(request[r], added)

LEMMA InductiveParts ==
  Inductive <=> RoutesInductive /\ ListenersInductive /\ RequestsInductive
<1>1. (\A r \in Requests : RequestOK(request[r], added)) <=> FoundInTime /\ GivenToItsRoute
  BY Zenon DEF RequestOK, FoundInTime, GivenToItsRoute
<1> QED
  BY <1>1 DEF Inductive, TypeOK, RoutesInductive, TreeInductive, TreeTyped, ListenersInductive,
              RequestsInductive

LEMMA InitInductive == Init => Inductive
<1> SUFFICES ASSUME Init PROVE Inductive
  OBVIOUS
<1>1. RoutesInductive
  <2>1. DOMAIN tree = {} /\ added = <<>>
    BY DEF Init, EmptyTree
  <2>2. added \in Seq(Patterns) /\ DOMAIN added = {}
    BY <2>1
  <2>3. TreeTyped
    BY <2>1 DEF TreeTyped
  <2>4. PrefixClosed /\ NamesFromPatterns /\ CallbacksLive
    BY <2>1 DEF PrefixClosed, NamesFromPatterns, CallbacksLive
  <2>5. RoutesKept
    BY <2>2 DEF RoutesKept
  <2> QED  BY <2>2, <2>3, <2>4, <2>5 DEF RoutesInductive, TreeInductive
<1>2. ListenersInductive
  <2>1. \A l \in Listeners : Reading(l) = 0
    BY DEF Init, Reading, Stages
  <2> QED  BY <2>1 DEF Init, ListenersInductive, OneReader, CloseInOrder, Stages
<1>3. RequestsInductive
  <2>1. request \in [Requests -> RequestStates]
    BY DEF Init, RequestStates
  <2>2. \A r \in Requests : request[r].at \notin Handled
    BY DEF Init, Handled
  <2> QED  BY <2>1, <2>2 DEF RequestsInductive, RequestOK
<1> QED  BY <1>1, <1>2, <1>3, InductiveParts

\* Only Add changes the routes.
LEMMA RoutesNext == RoutesInductive /\ [Next]_vars => RoutesInductive'
<1> SUFFICES ASSUME RoutesInductive, [Next]_vars PROVE RoutesInductive'
  OBVIOUS
<1>1. ASSUME NEW pattern \in Patterns, Add(pattern) PROVE RoutesInductive'
  <2>1. added' \in Seq(Patterns)
    BY <1>1 DEF Add, RoutesInductive
  <2>2. TreeInductive'
    BY <1>1, RootKeepsRoutes, PathKeepsRoutes DEF RoutesInductive
  <2> QED  BY <2>1, <2>2 DEF RoutesInductive
<1>2. CASE UNCHANGED routing
  BY <1>2 DEF routing, RoutesInductive, TreeInductive, TreeTyped, PrefixClosed,
              NamesFromPatterns, CallbacksLive, RoutesKept
<1>3. (\E pattern \in Patterns : Add(pattern)) \/ UNCHANGED routing
  BY DEF Next, vars, Listen, Configure, SetFlag, CloseSocket, ReadEnds, FindsOpen, FindsShut,
         StartSuccessor, Receive, Dispatch, Reply
<1> QED  BY <1>1, <1>2, <1>3

LEMMA ListenersNext == ListenersInductive /\ [Next]_vars => ListenersInductive'
<1> SUFFICES ASSUME ListenersInductive, [Next]_vars PROVE ListenersInductive'
  OBVIOUS
<1> USE DEF ListenersInductive, OneReader, CloseInOrder, Reading
<1>0. {"reading", "ended", "unshut"} = Stages
  BY DEF Stages
<1>1. ASSUME NEW on \in SUBSET Listeners, Listen(on) PROVE ListenersInductive'
  <2>1. /\ socket' \in [Listeners -> {"none", "open", "closed"}]
        /\ readers' \in [Listeners -> [Stages -> Nat]]
        /\ setup' # "new" /\ shutdown' = shutdown /\ late' = late
    BY <1>1 DEF Listen
  <2>2. ASSUME NEW l \in Listeners
        PROVE  /\ socket'[l] = IF l \in on THEN "open" ELSE "none"
               /\ readers'[l]["reading"] = IF l \in on THEN 1 ELSE 0
               /\ readers'[l]["ended"] = 0 /\ readers'[l]["unshut"] = 0
               /\ ~shutdown[l] /\ late[l] = 0
    BY <1>0, <1>1 DEF Listen
  <2> QED  BY <2>1, <2>2
<1>2. ASSUME NEW l \in Listeners, SetFlag(l) PROVE ListenersInductive'
  BY <1>2 DEF SetFlag, Closing
<1>3. ASSUME NEW l \in Listeners, CloseSocket(l) PROVE ListenersInductive'
  BY <1>3 DEF CloseSocket, Closing
<1>4. ASSUME NEW l \in Listeners, ReadEnds(l) PROVE ListenersInductive'
  BY <1>0, <1>4 DEF ReadEnds, Move
<1>5. ASSUME NEW l \in Listeners, FindsOpen(l) PROVE ListenersInductive'
  BY <1>0, <1>5 DEF FindsOpen, Move
<1>6. ASSUME NEW l \in Listeners, FindsShut(l) PROVE ListenersInductive'
  BY <1>0, <1>6 DEF FindsShut
<1>7. ASSUME NEW l \in Listeners, StartSuccessor(l) PROVE ListenersInductive'
  BY <1>0, <1>7 DEF StartSuccessor, Move
<1>8. CASE Configure \/ UNCHANGED <<setup, listening>>
  BY <1>8 DEF Configure, listening
<1>9. \/ Configure \/ UNCHANGED <<setup, listening>>
      \/ \E on \in SUBSET Listeners : Listen(on)
      \/ \E l \in Listeners : SetFlag(l) \/ CloseSocket(l)
      \/ \E l \in Listeners : ReadEnds(l) \/ FindsOpen(l) \/ FindsShut(l) \/ StartSuccessor(l)
  BY DEF Next, vars, Add, Receive, Dispatch, Reply
<1> QED  BY <1>1, <1>2, <1>3, <1>4, <1>5, <1>6, <1>7, <1>8, <1>9

LEMMA HandledForm ==
  ASSUME NEW q \in RequestStates, q.at \in Handled
  PROVE  /\ q \in [at : Handled, on : Listeners, path : Paths, callback : Nat \cup {None}, known : Nat]
         /\ q.known \in Nat
BY DEF RequestStates, Handled

\* Another route changes nothing for the requests that were matched before.
LEMMA AddKeepsRequests ==
  ASSUME added \in Seq(Patterns), NEW pattern \in Patterns,
         NEW q \in RequestStates, RequestOK(q, added)
  PROVE  RequestOK(q, Append(added, pattern))
<1> DEFINE more == Append(added, pattern)
           n    == Len(added)
<1> SUFFICES ASSUME q.at \in Handled
             PROVE  /\ q.known <= Len(more)
                    /\ q.callback # None =>
                         /\ q.callback \in 1 .. q.known
                         /\ Live(more, q.callback, q.known)
                         /\ Fits(Shape(more[q.callback]), q.path)
  BY DEF RequestOK
<1>1. /\ n \in Nat /\ Len(more) = n + 1
      /\ \A i \in 1 .. n : more[i] = added[i]
  OBVIOUS
<1>2. \A i \in 1 .. n, k \in 0 .. n : Live(more, i, k) <=> Live(added, i, k)
  BY LiveAfter
<1>3. q.known \in 0 .. n
  BY <1>1, HandledForm DEF RequestOK
<1> HIDE DEF more
<1>4. ASSUME q.callback # None
      PROVE  /\ q.callback \in 1 .. q.known
             /\ Live(more, q.callback, q.known)
             /\ Fits(Shape(more[q.callback]), q.path)
  <2>1. /\ q.callback \in 1 .. q.known
        /\ Live(added, q.callback, q.known)
        /\ Fits(Shape(added[q.callback]), q.path)
    BY <1>4 DEF RequestOK
  <2>2. q.callback \in 1 .. n
    BY <1>1, <1>3, <2>1
  <2>3. more[q.callback] = added[q.callback]
    BY <1>1, <2>2
  <2>4. Live(more, q.callback, q.known)
    BY <1>2, <1>3, <2>1, <2>2
  <2> QED  BY <2>1, <2>3, <2>4
<1> QED  BY <1>1, <1>3, <1>4

\* A handler finds a route that counts and fits, or none.
LEMMA DispatchGives ==
  ASSUME RoutesInductive, RequestsInductive, NEW r \in Requests, Dispatch(r)
  PROVE  request'[r] \in RequestStates /\ RequestOK(request'[r], added)
<1> DEFINE n == Len(added)
           path == request[r].path
           c == Match(tree, path)
           q == [at |-> "matched", on |-> request[r].on, path |-> path, callback |-> c, known |-> n]
<1>1. request[r] \in [at : {"read"}, on : Listeners, path : Paths]
  BY DEF Dispatch, RequestsInductive, RequestStates, Handled
<1>2. path \in Paths /\ request[r].on \in Listeners
  BY <1>1
<1>3. path \in Seq(Names)
  BY <1>2, ServerAssumption DEF ServerAssumption
<1>4. n \in Nat /\ DOMAIN added = 1 .. n
  BY DEF RoutesInductive
<1>5. ASSUME c # None
      PROVE  c \in 1 .. n /\ Live(added, c, n) /\ Fits(Shape(added[c]), path)
  <2>1. DOMAIN tree \subseteq Seq(Names) \ {<<>>}
    BY DEF RoutesInductive, TreeInductive, TreeTyped
  <2>2. PICK node \in DOMAIN tree : tree[node].callback = c /\ Fits(node, path)
    BY <1>3, <1>5, <2>1, MatchFits
  <2> HIDE DEF c, path
  <2> QED
    BY <1>4, <1>5, <2>2 DEF RoutesInductive, TreeInductive, CallbacksLive
<1> HIDE DEF c, path
<1>6. c \in Nat \cup {None}
  <2>1. c # None => c \in Nat
    BY <1>4, <1>5
  <2> QED  BY <2>1
<1>7. request'[r] = q
  BY DEF Dispatch, RequestsInductive, c, path
<1> HIDE DEF n
<1>8. q \in RequestStates
  BY <1>2, <1>4, <1>6 DEF RequestStates, Handled
<1>9. RequestOK(q, added)
  BY <1>4, <1>5 DEF RequestOK, n
<1> HIDE DEF q
<1> QED  BY <1>7, <1>8, <1>9

\* The steps that change one request and no route.
LEMMA OneRequest ==
  ASSUME RequestsInductive, NEW r \in Requests,
         NEW q \in RequestStates, RequestOK(q, added),
         request' = [request EXCEPT ![r] = q], UNCHANGED added
  PROVE  RequestsInductive'
BY DEF RequestsInductive

LEMMA RequestsNext ==
  ASSUME RoutesInductive, RequestsInductive, [Next]_vars
  PROVE  RequestsInductive'
<1>1. ASSUME NEW pattern \in Patterns, Add(pattern) PROVE RequestsInductive'
  <2>1. added' = Append(added, pattern) /\ request' = request
    BY <1>1 DEF Add
  <2>2. \A r \in Requests : request[r] \in RequestStates /\ RequestOK(request[r], added)
    BY DEF RequestsInductive
  <2>3. \A r \in Requests : RequestOK(request[r], Append(added, pattern))
    BY <2>2, AddKeepsRequests DEF RoutesInductive
  <2> QED  BY <2>1, <2>3 DEF RequestsInductive
<1>2. ASSUME NEW l \in Listeners, NEW r \in Requests, NEW path \in Paths, UNCHANGED added,
             request' = [request EXCEPT ![r] = [at |-> "read", on |-> l, path |-> path]]
      PROVE  RequestsInductive'
  <2> DEFINE q == [at |-> "read", on |-> l, path |-> path]
  <2>1. request' = [request EXCEPT ![r] = q] /\ added' = added
    BY <1>2
  <2>2. q \in RequestStates /\ RequestOK(q, added)
    BY DEF RequestStates, RequestOK, Handled
  <2> HIDE DEF q
  <2> QED  BY <2>1, <2>2, OneRequest
<1>3. ASSUME NEW r \in Requests, Dispatch(r) PROVE RequestsInductive'
  <2>1. request'[r] \in RequestStates /\ RequestOK(request'[r], added)
    BY <1>3, DispatchGives
  <2>2. PICK q : request' = [request EXCEPT ![r] = q] /\ added' = added
    BY <1>3 DEF Dispatch, routing
  <2>3. request'[r] = q
    BY <2>2 DEF RequestsInductive
  <2> QED  BY <2>1, <2>2, <2>3, OneRequest
<1>4. ASSUME NEW r \in Requests, Reply(r) PROVE RequestsInductive'
  <2>1. PICK at \in {"answered", "lost"} :
          request' = [request EXCEPT ![r] = [@ EXCEPT !.at = at]] /\ added' = added
    BY <1>4 DEF Reply, routing
  <2> DEFINE q == [request[r] EXCEPT !.at = at]
  <2>2. request[r] \in RequestStates /\ RequestOK(request[r], added) /\ request[r].at \in Handled
    BY <1>4 DEF RequestsInductive, Reply, Handled
  <2>3. request[r] \in [at : Handled, on : Listeners, path : Paths, callback : Nat \cup {None}, known : Nat]
    BY <2>2, HandledForm
  <2>4. /\ q \in [at : Handled, on : Listeners, path : Paths, callback : Nat \cup {None}, known : Nat]
        /\ q.path = request[r].path /\ q.callback = request[r].callback /\ q.known = request[r].known
    BY <2>3 DEF Handled
  <2>5. request' = [request EXCEPT ![r] = q]
    BY <2>1
  <2> HIDE DEF q
  <2>6. q \in RequestStates
    BY <2>4 DEF RequestStates
  <2>7. RequestOK(q, added)
    BY <2>2, <2>4 DEF RequestOK
  <2> QED  BY <2>1, <2>5, <2>6, <2>7, OneRequest
<1>5. CASE UNCHANGED <<request, added>>
  BY <1>5 DEF RequestsInductive
<1>6. \/ UNCHANGED <<request, added>>
      \/ \E pattern \in Patterns : Add(pattern)
      \/ \E l \in Listeners, r \in Requests, path \in Paths :
           /\ UNCHANGED added
           /\ request' = [request EXCEPT ![r] = [at |-> "read", on |-> l, path |-> path]]
      \/ \E r \in Requests : Dispatch(r) \/ Reply(r)
  <2>1. ASSUME NEW l \in Listeners, StartSuccessor(l) PROVE <1>6!:
    BY <2>1 DEF StartSuccessor, routing
  <2>2. ASSUME NEW r \in Requests, NEW path \in Paths, Receive(r, path) PROVE <1>6!:
    BY <2>2 DEF Receive, routing
  <2>3. CASE ~(\E l \in Listeners : StartSuccessor(l)) /\ ~(\E r \in Requests, path \in Paths : Receive(r, path))
    BY <2>3 DEF Next, vars, routing, Listen, Configure, SetFlag, CloseSocket, ReadEnds, FindsOpen, FindsShut
  <2> QED  BY <2>1, <2>2, <2>3
<1> QED  BY <1>1, <1>2, <1>3, <1>4, <1>5, <1>6

-----------------------------------------------------------------------------
(* The theorems *)

LEMMA AlwaysInductive == Spec => []Inductive
<1>1. Inductive /\ [Next]_vars => Inductive'
  <2> SUFFICES ASSUME Inductive, [Next]_vars PROVE Inductive'
    OBVIOUS
  <2>1. RoutesInductive /\ ListenersInductive /\ RequestsInductive
    BY InductiveParts
  <2>2. (RoutesInductive /\ ListenersInductive /\ RequestsInductive)'
    BY <2>1, RoutesNext, ListenersNext, RequestsNext
  <2> QED  BY <2>2, InductiveParts, PTL
<1> QED  BY <1>1, InitInductive, PTL DEF Spec

\* The tree's nodes are sequences of names, with a callback or none; the readers are a
\* number for each listener and stage, and a request is what its handler has made of it so far.
THEOREM TypeCorrect == Spec => []TypeOK
<1>1. Inductive => TypeOK
  BY DEF Inductive
<1> QED  BY <1>1, AlwaysInductive, PTL

\* An open listener has one reader, whatever its reads return, and at most one more
\* starts once Close has begun, wherever Close meets the readers.
THEOREM OneReaderCorrect == Spec => []OneReader
<1>1. Inductive => OneReader
  BY DEF Inductive
<1> QED  BY <1>1, AlwaysInductive, PTL

\* No request is given to a callback whose route does not fit its path or has been
\* replaced, for all patterns, all paths and any number of routes.
THEOREM GivenToItsRouteCorrect == Spec => []GivenToItsRoute
<1>1. Inductive => GivenToItsRoute
  BY DEF Inductive
<1> QED  BY <1>1, AlwaysInductive, PTL

\* A route that counts is found, however many others the tree holds.
THEOREM RouteReachableCorrect == Spec => []RouteReachable
<1>1. Inductive => RouteReachable
  <2> SUFFICES ASSUME Inductive, NEW i \in DOMAIN added, Live(added, i, Len(added))
               PROVE  LET shape == Shape(added[i])
                          path  == [k \in DOMAIN shape |->
                                      IF shape[k] = "*" THEN Elsewhere ELSE shape[k]]
                      IN  Match(tree, path) = i
    BY DEF RouteReachable
  <2> DEFINE shape == Shape(added[i])
             path  == [k \in DOMAIN shape |-> IF shape[k] = "*" THEN Elsewhere ELSE shape[k]]
  <2>1. shape \in DOMAIN tree /\ tree[shape].callback = i
    BY DEF Inductive, RoutesKept
  <2>2. /\ DOMAIN tree \subseteq Seq(Names) \ {<<>>}
        /\ \A other \in DOMAIN tree : \A k \in DOMAIN other : other[k] # Elsewhere
        /\ \A k \in 1 .. Len(shape) : SubSeq(shape, 1, k) \in DOMAIN tree
    BY <2>1 DEF Inductive, TypeOK, NamesFromPatterns, PrefixClosed
  <2>3. Elsewhere \in Names
    BY ServerAssumption DEF ServerAssumption
  <2> HIDE DEF shape
  <2>4. shape \in Seq(Names) /\ DOMAIN shape = 1 .. Len(shape)
    BY <2>1, <2>2
  <2>5. /\ path \in Seq(Names)
        /\ Len(path) = Len(shape)
        /\ \A k \in 1 .. Len(shape) : path[k] = IF shape[k] = "*" THEN Elsewhere ELSE shape[k]
    BY <2>3, <2>4
  <2> HIDE DEF path
  <2>6. Match(tree, path) = i
    BY <2>1, <2>2, <2>5, MatchReaches
  <2> QED  BY <2>6 DEF shape, path
<1> QED  BY <1>1, AlwaysInductive, PTL
=============================================================================
