------------------------- MODULE QpContainersProof -------------------------
(***************************************************************************)
(* Proofs about the containers of qp_memory_core, for any number of nodes, *)
(* keys and heads: the red-black tree (QpRbtree) keeps its order and its   *)
(* balance and its lookups are exact, and the links of the queues          *)
(* (QpQueue) lead where they should.                                       *)
(*                                                                         *)
(* The shape of a tree is told from two ghosts that no variable holds.     *)
(* The bounds b give every node the keys it owns; with them order is a     *)
(* fact about each link by itself, a rotation changes the bounds of two    *)
(* nodes, and a way down is the right one when the bounds of the node it   *)
(* is at hold the key.  The heights h give every node the black nodes      *)
(* below it; balance is again a fact about each link, and the fault a      *)
(* deletion mends is one link that is one short.                           *)
(***************************************************************************)
EXTENDS QpContainers, TLAPS, FiniteSetTheorems, WellFoundedInduction, SequenceTheorems

-----------------------------------------------------------------------------
(***************************************************************************)
(* The red-black tree.  Every node n owns the keys strictly between        *)
(* b["left"][n] and b["right"][n]: a child owns the part of them on its    *)
(* side of n's key.  Shape says this link by link.                         *)
(***************************************************************************)
Before(side, j, k) == IF side = "left" THEN j < k ELSE k < j
Outer(side) == IF side = "left" THEN -1 ELSE MaxKey + 1
Bound == [Side -> [Node -> -1 .. MaxKey + 1]]

Tree == [root : Place, child : [Side -> [Place -> Place]], parent : [Place -> Place],
         red : SUBSET Node, key : [Node -> Key], data : [Node -> Key]]

Within(b, n, k) == \A side \in Side : Before(side, b[side][n], k)

LinkOk(T, L, b, n, side) ==
  LET c == T.child[side][n]
  IN  /\ c \in L \cup {Nil}
      /\ c # Nil => /\ T.parent[c] = n
                    /\ b[side][c] = b[side][n]
                    /\ b[Other(side)][c] = T.key[n]

NodeOk(T, L, b, n) ==
  /\ Within(b, n, T.key[n])
  /\ \A side \in Side : LinkOk(T, L, b, n, side)
  /\ n # T.root => T.parent[n] \in L /\ \E side \in Side : T.child[side][T.parent[n]] = n

RootOk(T, L, b) ==
  /\ T.root \in L \cup {Nil}
  /\ T.root = Nil => L = {}
  /\ T.root # Nil => /\ T.parent[T.root] = Nil
                     /\ \A side \in Side : b[side][T.root] = Outer(side)

Shape(T, L, b) ==
  /\ T \in Tree /\ L \subseteq Node /\ b \in Bound
  /\ RootOk(T, L, b)
  /\ \A n \in L : NodeOk(T, L, b, n)

(***************************************************************************)
(* A set of natural numbers that is not empty has a least element.         *)
(***************************************************************************)
LEMMA LeastNatural ==
  ASSUME NEW S \in SUBSET Nat, S # {}
  PROVE  \E d \in S : \A e \in S : d <= e
<1> DEFINE R == OpToRel(<, Nat)
<1>1. IsWellFoundedOn(R, Nat)
  BY Zenon, NatLessThanWellFounded
<1>2. PICK d \in S : \A e \in S : ~(<<e, d>> \in R)
  <2> HIDE DEF R
  <2> QED
    BY <1>1, WFMin
<1>3. \A e \in S : ~(e < d)
  BY <1>2 DEF OpToRel
<1> QED
  BY <1>3

(***************************************************************************)
(* The two sides.                                                          *)
(***************************************************************************)
LEMMA Sides ==
  /\ "left" \in Side /\ "right" \in Side
  /\ \A s \in Side : Other(s) \in Side /\ Other(s) # s /\ Other(Other(s)) = s
  /\ \A s, t \in Side : t = s \/ t = Other(s)
  BY DEF Side, Other

\* Before(side, j, k) orders keys strictly and totally, each side the other
\* way round.
LEMMA Befores ==
  /\ \A s \in Side, i \in Int : ~Before(s, i, i)
  /\ \A s \in Side, i, j \in Int : Before(s, i, j) => ~Before(s, j, i)
  /\ \A s \in Side, i, j \in Int : Before(Other(s), i, j) <=> Before(s, j, i)
  /\ \A s \in Side, i, j, k \in Int : Before(s, i, j) /\ Before(s, j, k) => Before(s, i, k)
  /\ \A s \in Side, i, j \in Int : i = j \/ Before(s, i, j) \/ Before(s, j, i)
  BY DEF Side, Other, Before

(***************************************************************************)
(* What the types give.                                                    *)
(***************************************************************************)
LEMMA ShapeTypes ==
  ASSUME NEW T, NEW L, NEW b, Shape(T, L, b)
  PROVE  /\ Nil \notin L
         /\ \A n \in L : T.key[n] \in Key /\ T.key[n] \in Int
         /\ \A n \in L, s \in Side : b[s][n] \in -1 .. MaxKey + 1 /\ b[s][n] \in Int
         /\ \A n \in L, s \in Side : T.child[s][n] \in L \cup {Nil}
  BY RbtreeAssumption DEF Shape, Tree, Bound, Key, Place, NodeOk, LinkOk

(***************************************************************************)
(* A child owns part of what its parent owns: all of it on its own side,   *)
(* up to the parent's key on the other.                                    *)
(***************************************************************************)
LEMMA ChildNests ==
  ASSUME NEW T, NEW L, NEW b, Shape(T, L, b),
         NEW n \in L, NEW s \in Side, NEW c, c = T.child[s][n], c # Nil
  PROVE  /\ c \in L /\ c # n
         /\ T.parent[c] = n
         /\ b[s][c] = b[s][n]
         /\ b[Other(s)][c] = T.key[n]
         /\ Before(Other(s), b[Other(s)][n], b[Other(s)][c])
         /\ Before(s, T.key[c], T.key[n])
<1>1. LinkOk(T, L, b, n, s) /\ Within(b, n, T.key[n])
  BY DEF Shape, NodeOk
<1>2. /\ c \in L
      /\ T.parent[c] = n
      /\ b[s][c] = b[s][n]
      /\ b[Other(s)][c] = T.key[n]
  BY <1>1 DEF LinkOk
<1>3. Within(b, c, T.key[c])
  BY <1>2 DEF Shape, NodeOk
<1>4. /\ T.key[n] \in Int /\ T.key[c] \in Int
  BY <1>2, ShapeTypes
<1>5. Before(Other(s), b[Other(s)][n], b[Other(s)][c])
  BY <1>1, <1>2, Sides DEF Within
<1>6. Before(Other(s), T.key[n], T.key[c])
  BY <1>2, <1>3, Sides DEF Within
<1>7. Before(s, T.key[c], T.key[n])
  BY <1>4, <1>6, Befores
<1> QED
  BY <1>2, <1>4, <1>5, <1>7, Befores

(***************************************************************************)
(* Induction over the tree: a set of its nodes that has the root and with  *)
(* every node its children has every node.                                 *)
(***************************************************************************)
Width(b, n) == MaxKey + 2 - (b["right"][n] - b["left"][n])

\* What a node owns gets narrower from parent to child.
LEMMA ChildWidth ==
  ASSUME NEW T, NEW L, NEW b, Shape(T, L, b),
         NEW n \in L, NEW s \in Side, NEW c, c = T.child[s][n], c # Nil
  PROVE  Width(b, c) > Width(b, n)
<1>1. c \in L
  BY ChildNests
<1>2. /\ b["left"][n] \in Int /\ b["right"][n] \in Int
      /\ b["left"][c] \in Int /\ b["right"][c] \in Int
  BY <1>1, ShapeTypes, Sides
<1>3. CASE s = "left"
  <2>1. b["left"][c] = b["left"][n] /\ b["right"][c] < b["right"][n]
    BY <1>3, ChildNests DEF Other, Before
  <2> QED
    BY <1>2, <2>1, RbtreeAssumption DEF Width
<1>4. CASE s = "right"
  <2>1. b["right"][c] = b["right"][n] /\ b["left"][n] < b["left"][c]
    BY <1>4, ChildNests DEF Other, Before
  <2> QED
    BY <1>2, <2>1, RbtreeAssumption DEF Width
<1> QED
  BY <1>3, <1>4 DEF Side

\* The induction itself, on the width of what a node owns.
LEMMA TreeInduction ==
  ASSUME NEW T, NEW L, NEW b, Shape(T, L, b),
         NEW S \in SUBSET L, T.root \in S \cup {Nil},
         \A n \in S, s \in Side : T.child[s][n] \in S \cup {Nil}
  PROVE  S = L
<1> SUFFICES ASSUME L \ S # {}
             PROVE  FALSE
  OBVIOUS
<1> DEFINE W == {Width(b, n) : n \in L \ S}
<1>1. W \in SUBSET Nat
  <2> SUFFICES ASSUME NEW n \in L
               PROVE  Width(b, n) \in Nat
    OBVIOUS
  <2>1. b["left"][n] \in -1 .. MaxKey + 1 /\ b["right"][n] \in -1 .. MaxKey + 1
    BY ShapeTypes, Sides
  <2> QED
    BY <2>1, RbtreeAssumption DEF Width
<1>2. PICK d \in W : \A e \in W : d <= e
  <2>1. W # {}
    OBVIOUS
  <2> HIDE DEF W
  <2> QED
    BY <1>1, <2>1, LeastNatural
<1>3. PICK n \in L \ S : d = Width(b, n)
  BY <1>2
<1>4. n # T.root
  BY <1>3, ShapeTypes
<1>5. PICK s \in Side : T.parent[n] \in L /\ T.child[s][T.parent[n]] = n
  BY <1>3, <1>4 DEF Shape, NodeOk
<1>6. Width(b, n) > Width(b, T.parent[n])
  BY <1>3, <1>5, ChildWidth, ShapeTypes
<1>7. T.parent[n] \in S
  <2>1. ASSUME T.parent[n] \notin S PROVE FALSE
    <3>1. Width(b, T.parent[n]) \in W
      BY <1>5, <2>1
    <3>2. Width(b, n) <= Width(b, T.parent[n])
      BY <3>1, <1>2, <1>3
    <3> QED
      BY <3>1, <3>2, <1>6, <1>1, <1>2, <1>3
  <2> QED
    BY <2>1
<1> QED
  BY <1>3, <1>5, <1>7, ShapeTypes
(***************************************************************************)
(* What is below a node.                                                   *)
(***************************************************************************)
LEMMA SubtreeBasics ==
  ASSUME NEW b, Shape(tree, linked, b)
  PROVE  /\ Subtree(Nil) = {}
         /\ \A n \in linked : n \in Subtree(n)
         /\ \A n \in linked : \A m \in Subtree(n), s \in Side :
              tree.child[s][m] \in Subtree(n) \cup {Nil}
         /\ \A n \in linked : Subtree(n) \in SUBSET linked
         /\ \A n \in linked : \A S \in Closed : n \in S => Subtree(n) \subseteq S
<1>1. Subtree(Nil) = {}
  <2>1. {} \in Closed
    BY DEF Closed
  <2> QED
    BY <2>1 DEF Subtree
<1>2. \A n \in linked : n \in Subtree(n) /\ n # Nil
  BY ShapeTypes DEF Subtree
<1>3. ASSUME NEW n \in linked, NEW m \in Subtree(n), NEW s \in Side
      PROVE  tree.child[s][m] \in Subtree(n) \cup {Nil}
  <2>1. m \in linked
    BY DEF Subtree
  <2>2. tree.child[s][m] \in linked \cup {Nil}
    BY <2>1, ShapeTypes
  <2>3. ASSUME NEW S \in Closed, n \in S \cup {Nil}
        PROVE  tree.child[s][m] \in S \cup {Nil}
    BY <2>3 DEF Subtree, Closed
  <2> QED
    BY <2>2, <2>3 DEF Subtree
<1> QED
  BY <1>1, <1>2, <1>3 DEF Subtree

\* Below n is n, or what is below one of its children.
LEMMA SubtreeSplits ==
  ASSUME NEW b, Shape(tree, linked, b), NEW n \in linked, NEW m \in Subtree(n), m # n
  PROVE  \E s \in Side : tree.child[s][n] # Nil /\ m \in Subtree(tree.child[s][n])
<1> DEFINE S == {n} \cup UNION {Subtree(tree.child[s][n]) : s \in Side}
<1>1. \A s \in Side : tree.child[s][n] \in linked \cup {Nil}
  BY ShapeTypes
<1>2. S \in Closed
  <2>1. S \in SUBSET linked
    BY <1>1, SubtreeBasics DEF Subtree
  <2>2. ASSUME NEW x \in S, NEW t \in Side
        PROVE  tree.child[t][x] \in S \cup {Nil}
    <3>1. CASE x = n
      <4>1. tree.child[t][n] # Nil => tree.child[t][n] \in Subtree(tree.child[t][n])
        BY <1>1, SubtreeBasics
      <4> QED
        BY <3>1, <4>1
    <3>2. ASSUME NEW s \in Side, x \in Subtree(tree.child[s][n])
          PROVE  tree.child[t][x] \in Subtree(tree.child[s][n]) \cup {Nil}
      BY <1>1, <3>2, SubtreeBasics
    <3> QED
      BY <3>1, <3>2
  <2> QED
    BY <2>1, <2>2 DEF Closed
<1>3. m \in S
  <2>1. n \in S
    OBVIOUS
  <2> HIDE DEF S
  <2> QED
    BY <1>2, <2>1, SubtreeBasics
<1> QED
  BY <1>3, SubtreeBasics

\* What is below n owns part of what n owns.
LEMMA SubtreeNests ==
  ASSUME NEW b, Shape(tree, linked, b), NEW n \in linked, NEW m \in Subtree(n)
  PROVE  /\ \A s \in Side : b[s][m] = b[s][n] \/ Before(s, b[s][n], b[s][m])
         /\ Within(b, n, tree.key[m])
<1> DEFINE In(x) == \A s \in Side : b[s][x] = b[s][n] \/ Before(s, b[s][n], b[s][x])
           S == {x \in linked : In(x)}
<1>1. S \in Closed
  <2> SUFFICES ASSUME NEW x \in S, NEW t \in Side, tree.child[t][x] # Nil
               PROVE  tree.child[t][x] \in S
    BY DEF Closed
  <2> DEFINE c == tree.child[t][x]
  <2>1. /\ c \in linked
        /\ b[t][c] = b[t][x]
        /\ Before(Other(t), b[Other(t)][x], b[Other(t)][c])
    BY ChildNests
  <2>2. \A s \in Side : b[s][c] \in Int /\ b[s][x] \in Int /\ b[s][n] \in Int
    BY <2>1, ShapeTypes
  <2> HIDE DEF c
  <2>3. b[t][c] = b[t][n] \/ Before(t, b[t][n], b[t][c])
    BY <2>1
  <2>4. Before(Other(t), b[Other(t)][n], b[Other(t)][c])
    BY <2>1, <2>2, Sides, Befores
  <2>5. In(c)
    BY <2>3, <2>4, Sides
  <2>6. c \in S
    BY <2>1, <2>5
  <2> QED
    BY <2>6 DEF c
<1>2. In(m) /\ m \in linked
  <2>1. n \in S
    OBVIOUS
  <2>2. m \in S
    BY <1>1, <2>1, SubtreeBasics
  <2> QED
    BY <2>2
<1>3. Within(b, m, tree.key[m])
  BY <1>2 DEF Shape, NodeOk
<1>4. \A s \in Side : b[s][m] \in Int /\ b[s][n] \in Int /\ tree.key[m] \in Int
  BY <1>2, ShapeTypes
<1>5. Within(b, n, tree.key[m])
  <2> SUFFICES ASSUME NEW s \in Side
               PROVE  Before(s, b[s][n], tree.key[m])
    BY DEF Within
  <2>1. Before(s, b[s][m], tree.key[m])
    BY <1>3 DEF Within
  <2> QED
    BY <1>2, <1>4, <2>1, Befores
<1> QED
  BY <1>2, <1>5

\* The key of what is below a child lies on that child's side.
LEMMA SubtreeSide ==
  ASSUME NEW b, Shape(tree, linked, b), NEW n \in linked, NEW s \in Side,
         NEW m \in Subtree(tree.child[s][n])
  PROVE  m \in linked /\ Before(s, tree.key[m], tree.key[n])
<1> DEFINE c == tree.child[s][n]
<1>1. c # Nil
  BY SubtreeBasics
<1>2. c \in linked /\ b[Other(s)][c] = tree.key[n]
  BY <1>1, ChildNests
<1>3. Within(b, c, tree.key[m])
  BY <1>2, SubtreeNests
<1>4. Before(Other(s), tree.key[n], tree.key[m])
  BY <1>2, <1>3, Sides DEF Within
<1>5. m \in linked
  BY DEF Subtree
<1> QED
  BY <1>4, <1>5, ShapeTypes, Befores

\* Every node of the tree is below its root.
LEMMA EverythingBelowRoot ==
  ASSUME NEW b, Shape(tree, linked, b)
  PROVE  Subtree(tree.root) = linked
<1>1. CASE tree.root = Nil
  BY <1>1, SubtreeBasics DEF Shape, RootOk
<1>2. CASE tree.root # Nil
  <2>1. tree.root \in linked
    BY <1>2 DEF Shape, RootOk
  <2> DEFINE S == Subtree(tree.root)
  <2>2. /\ S \in SUBSET linked /\ tree.root \in S
        /\ \A n \in S, s \in Side : tree.child[s][n] \in S \cup {Nil}
    BY <2>1, SubtreeBasics
  <2> HIDE DEF S
  <2>3. S = linked
    BY <2>2, TreeInduction
  <2> QED
    BY <2>3 DEF S
<1> QED
  BY <1>1, <1>2

(***************************************************************************)
(* The way to a key: a node that owns the key of m has m below it.  So a   *)
(* search goes on as long as there is something to find, and no two nodes  *)
(* have the same key.                                                      *)
(***************************************************************************)
LEMMA OwnerIsAbove ==
  ASSUME NEW b, Shape(tree, linked, b), NEW m \in linked, NEW n \in linked,
         Within(b, n, tree.key[m])
  PROVE  m \in Subtree(n)
<1> DEFINE Good(x) == Within(b, x, tree.key[m]) => m \in Subtree(x)
           S == {x \in linked : Good(x)}
<1>1. tree.root \in S \cup {Nil}
  BY EverythingBelowRoot DEF Shape, RootOk
<1>2. ASSUME NEW x \in S, NEW s \in Side
      PROVE  tree.child[s][x] \in S \cup {Nil}
  <2> DEFINE c == tree.child[s][x]
  <2> SUFFICES ASSUME c # Nil, Within(b, c, tree.key[m])
               PROVE  c \in linked /\ m \in Subtree(c)
    BY ShapeTypes
  <2>1. /\ c \in linked
        /\ b[s][c] = b[s][x]
        /\ b[Other(s)][c] = tree.key[x]
        /\ Before(Other(s), b[Other(s)][x], b[Other(s)][c])
    BY ChildNests
  <2>2. /\ tree.key[m] \in Int /\ tree.key[x] \in Int
        /\ \A t \in Side : b[t][x] \in Int /\ b[t][c] \in Int
    BY <2>1, ShapeTypes
  <2>3. Before(Other(s), tree.key[x], tree.key[m])
    BY <2>1, Sides DEF Within
  <2>4. Within(b, x, tree.key[m])
    <3>1. Before(s, b[s][x], tree.key[m])
      BY <2>1 DEF Within
    <3>2. Before(Other(s), b[Other(s)][x], tree.key[m])
      BY <2>1, <2>2, <2>3, Befores, Sides
    <3> QED
      BY <3>1, <3>2, Sides DEF Within
  <2>5. m # x
    BY <2>2, <2>3, Befores, Sides
  <2>6. PICK t \in Side : m \in Subtree(tree.child[t][x])
    BY <2>4, <2>5, SubtreeSplits
  <2>7. Before(t, tree.key[m], tree.key[x])
    BY <2>6, SubtreeSide
  <2>8. t = s
    BY <2>2, <2>3, <2>7, Befores, Sides
  <2> QED
    BY <2>1, <2>6, <2>8
<1>3. S = linked
  <2>1. S \in SUBSET linked
    OBVIOUS
  <2> HIDE DEF S
  <2> QED
    BY <1>1, <1>2, <2>1, TreeInduction
<1> QED
  BY <1>3

\* No two nodes of the tree have the same key.
LEMMA KeysDistinct ==
  ASSUME NEW b, Shape(tree, linked, b), NEW m \in linked, NEW n \in linked,
         tree.key[m] = tree.key[n]
  PROVE  m = n
<1> SUFFICES ASSUME m # n
             PROVE  FALSE
  OBVIOUS
<1>1. Within(b, n, tree.key[m])
  BY DEF Shape, NodeOk
<1>2. PICK s \in Side : m \in Subtree(tree.child[s][n])
  BY <1>1, OwnerIsAbove, SubtreeSplits
<1> QED
  BY <1>2, SubtreeSide, ShapeTypes, Befores

\* A search that is at n for a key of the tree before n's finds a child
\* there.
LEMMA SearchGoesOn ==
  ASSUME NEW b, Shape(tree, linked, b), NEW m \in linked, NEW n \in linked,
         Within(b, n, tree.key[m]), NEW s \in Side, Before(s, tree.key[m], tree.key[n])
  PROVE  tree.child[s][n] # Nil
<1>1. m # n
  BY ShapeTypes, Befores
<1>2. PICK t \in Side : tree.child[t][n] # Nil /\ m \in Subtree(tree.child[t][n])
  BY <1>1, OwnerIsAbove, SubtreeSplits
<1>3. Before(t, tree.key[m], tree.key[n])
  BY <1>2, SubtreeSide
<1>4. t = s
  BY <1>3, ShapeTypes, Befores, Sides
<1> QED
  BY <1>2, <1>4
(***************************************************************************)
(* Balance.  h[n] is the number of black nodes on a way from n down to the *)
(* sentinel, the same for every way; while a deletion is being mended the  *)
(* ways through the child of hole on side hs are one short.                *)
(***************************************************************************)
Height == [Place -> Nat]
Weight(T, n) == IF Red(T, n) THEN 0 ELSE 1

Level(T, h, n, hole, hs) ==
  \A s \in Side : h[n] = h[T.child[s][n]] + (IF n = hole /\ s = hs THEN 1 ELSE 0) + Weight(T, n)

Calm(T, n) == Red(T, n) => \A s \in Side : ~Red(T, T.child[s][n])

\* The ways to a child are those to its parent and one node more.
LEMMA PathGrows ==
  ASSUME NEW b, Shape(tree, linked, b), NEW n \in linked, NEW s \in Side,
         NEW c, c = tree.child[s][n], c # Nil
  PROVE  /\ BlackPath(c) = BlackPath(n) \cup (IF Red(tree, c) THEN {} ELSE {c})
         /\ c \notin BlackPath(n)
<1>1. c \in linked /\ tree.parent[c] = n /\ c # n
  BY ChildNests
<1>2. n \notin Subtree(c)
  <2> SUFFICES ASSUME n \in Subtree(c)
               PROVE  FALSE
    OBVIOUS
  <2>1. Before(Other(s), b[Other(s)][n], b[Other(s)][c])
    BY ChildNests
  <2>2. b[Other(s)][n] = b[Other(s)][c] \/ Before(Other(s), b[Other(s)][c], b[Other(s)][n])
    BY <1>1, SubtreeNests, Sides
  <2>3. b[Other(s)][n] \in Int /\ b[Other(s)][c] \in Int
    BY <1>1, ShapeTypes, Sides
  <2> QED
    BY <2>1, <2>2, <2>3, Befores, Sides
<1>3. ASSUME NEW m \in linked, n \in Subtree(m)
      PROVE  c \in Subtree(m)
  BY <1>3, SubtreeBasics
<1>4. ASSUME NEW m \in linked, c \in Subtree(m), m # c
      PROVE  n \in Subtree(m)
  <2> DEFINE S == {x \in Subtree(m) : x = m \/ tree.parent[x] \in Subtree(m)}
  <2>1. S \in Closed
    <3>1. S \in SUBSET linked
      BY SubtreeBasics
    <3>2. ASSUME NEW x \in S, NEW t \in Side, tree.child[t][x] # Nil
          PROVE  tree.child[t][x] \in S
      <4>1. tree.child[t][x] \in Subtree(m)
        BY <3>2, SubtreeBasics
      <4>2. tree.parent[tree.child[t][x]] = x
        BY <3>1, <3>2, ChildNests
      <4> QED
        BY <4>1, <4>2
    <3> QED
      BY <3>1, <3>2 DEF Closed
  <2>2. m \in S
    BY SubtreeBasics
  <2>3. c \in S
    <3> HIDE DEF S
    <3> QED
      BY <1>4, <2>1, <2>2, SubtreeBasics
  <2> QED
    BY <1>1, <1>4, <2>3
<1>5. c \in Subtree(c)
  BY <1>1, SubtreeBasics
<1> QED
  BY <1>1, <1>2, <1>3, <1>4, <1>5 DEF BlackPath

\* With heights in which no link is short, the black nodes above n and the
\* height of n make up the height of the root.
LEMMA PathsWeigh ==
  ASSUME NEW b, Shape(tree, linked, b), NEW h \in Height,
         \A n \in linked : Level(tree, h, n, Nil, "left"),
         NEW n \in linked
  PROVE  Cardinality(BlackPath(n)) + h[n] = h[tree.root] + Weight(tree, n)
<1> DEFINE Ok(x) == /\ IsFiniteSet(BlackPath(x))
                    /\ Cardinality(BlackPath(x)) + h[x] = h[tree.root] + Weight(tree, x)
           S == {x \in linked : Ok(x)}
           r == tree.root
<1>0. \A x \in linked : h[x] \in Nat /\ Weight(tree, x) \in Nat /\ x # Nil
  BY ShapeTypes DEF Height, Shape, Place, Weight
<1>1. r \in S \cup {Nil}
  <2> SUFFICES ASSUME r # Nil
               PROVE  r \in linked /\ Ok(r)
    OBVIOUS
  <2>1. r \in linked
    BY DEF Shape, RootOk
  <2>2. BlackPath(r) = IF Red(tree, r) THEN {} ELSE {r}
    <3>1. ASSUME NEW m \in linked, r \in Subtree(m), m # r
          PROVE  FALSE
      <4>1. m \in Subtree(r)
        BY EverythingBelowRoot
      <4>2. PICK s \in Side : tree.child[s][r] # Nil /\ m \in Subtree(tree.child[s][r])
        BY <2>1, <3>1, <4>1, SubtreeSplits
      <4> DEFINE c == tree.child[s][r]
                 o == Other(s)
      <4>3. c \in linked /\ Before(o, b[o][r], b[o][c])
        BY <2>1, <4>2, ChildNests
      <4>4. b[o][m] = b[o][c] \/ Before(o, b[o][c], b[o][m])
        BY <4>2, <4>3, SubtreeNests, Sides
      <4>5. b[o][r] = b[o][m] \/ Before(o, b[o][m], b[o][r])
        BY <3>1, SubtreeNests, Sides
      <4>6. b[o][r] \in Int /\ b[o][m] \in Int /\ b[o][c] \in Int /\ o \in Side
        BY <2>1, <4>3, ShapeTypes, Sides
      <4> QED
        BY <4>3, <4>4, <4>5, <4>6, Befores
    <3>2. r \in Subtree(r)
      BY <2>1, SubtreeBasics
    <3> QED
      BY <2>1, <3>1, <3>2 DEF BlackPath
  <2>3. /\ IsFiniteSet({}) /\ Cardinality({}) = 0
        /\ IsFiniteSet({r}) /\ Cardinality({r}) = 1
    BY FS_EmptySet, FS_Singleton
  <2>4. IsFiniteSet(BlackPath(r)) /\ Cardinality(BlackPath(r)) = Weight(tree, r)
    BY <2>2, <2>3 DEF Weight
  <2> QED
    BY <2>1, <2>4, <1>0
<1>2. ASSUME NEW x \in S, NEW s \in Side
      PROVE  tree.child[s][x] \in S \cup {Nil}
  <2> DEFINE c == tree.child[s][x]
  <2> SUFFICES ASSUME c # Nil
               PROVE  c \in linked /\ Ok(c)
    OBVIOUS
  <2>1. c \in linked
    BY ChildNests
  <2>2. h[x] = h[c] + Weight(tree, x)
    <3>1. x # Nil /\ Level(tree, h, x, Nil, "left")
      BY <1>0
    <3>2. h[x] = h[c] + 0 + Weight(tree, x)
      BY <3>1 DEF Level
    <3> QED
      BY <3>2, <1>0, <2>1
  <2>3. /\ BlackPath(c) = BlackPath(x) \cup (IF Red(tree, c) THEN {} ELSE {c})
        /\ c \notin BlackPath(x)
    BY PathGrows
  <2>4. /\ IsFiniteSet(BlackPath(x) \cup {c})
        /\ Cardinality(BlackPath(x) \cup {c}) = Cardinality(BlackPath(x)) + 1
        /\ Cardinality(BlackPath(x)) \in Nat
    BY <2>3, FS_AddElement, FS_CardinalityType
  <2>5. /\ IsFiniteSet(BlackPath(c))
        /\ Cardinality(BlackPath(c)) = Cardinality(BlackPath(x)) + Weight(tree, c)
    BY <2>3, <2>4 DEF Weight
  <2>6. h[r] \in Nat
    BY DEF Shape, Height, Tree
  <2>7. \A pc, px, hc, hx, hr, wc, wx \in Nat :
          pc = px + wc /\ hx = hc + wx /\ px + hx = hr + wx => pc + hc = hr + wc
    OBVIOUS
  <2>8. Cardinality(BlackPath(c)) \in Nat
    BY <2>5, FS_CardinalityType
  <2> HIDE DEF c
  <2>9. Cardinality(BlackPath(c)) + h[c] = h[r] + Weight(tree, c)
    BY <2>1, <2>2, <2>4, <2>5, <2>6, <2>7, <2>8, <1>0
  <2> QED
    BY <2>1, <2>5, <2>9 DEF c
<1>3. S = linked
  <2>1. S \in SUBSET linked
    OBVIOUS
  <2> HIDE DEF S
  <2> QED
    BY <1>1, <1>2, <2>1, TreeInduction
<1> QED
  BY <1>3
(***************************************************************************)
(* Links, seen from below: qp_rbtree_is_left tells on which side of its    *)
(* parent a node is.                                                       *)
(***************************************************************************)
LEMMA SideOfChild ==
  ASSUME NEW T, NEW L, NEW b, Shape(T, L, b),
         NEW m \in L, NEW s \in Side, NEW n, n = T.child[s][m], n # Nil
  PROVE  n \in L /\ T.parent[n] = m /\ n # T.root /\ SideOf(T, n) = s
         /\ T.child[Other(s)][m] # n
<1>1. n \in L /\ T.parent[n] = m /\ Before(s, T.key[n], T.key[m])
  BY ChildNests
<1>2. n # T.root
  BY <1>1, ShapeTypes DEF Shape, RootOk
<1>3. T.child[Other(s)][m] # n
  <2> SUFFICES ASSUME T.child[Other(s)][m] = n
               PROVE  FALSE
    OBVIOUS
  <2>1. Before(Other(s), T.key[n], T.key[m])
    BY ChildNests, Sides
  <2> QED
    BY <1>1, <2>1, ShapeTypes, Befores
<1>4. SideOf(T, n) = s
  BY <1>1, <1>3 DEF SideOf, Side, Other
<1> QED
  BY <1>1, <1>2, <1>3, <1>4

\* A node below the root is the child of its parent on the side SideOf tells,
\* and not on the other.
LEMMA ParentOf ==
  ASSUME NEW T, NEW L, NEW b, Shape(T, L, b), NEW n \in L, n # T.root
  PROVE  /\ T.parent[n] \in L /\ T.parent[n] # n
         /\ SideOf(T, n) \in Side
         /\ T.child[SideOf(T, n)][T.parent[n]] = n
         /\ T.child[Other(SideOf(T, n))][T.parent[n]] # n
<1>1. PICK s \in Side : T.parent[n] \in L /\ T.child[s][T.parent[n]] = n
  BY DEF Shape, NodeOk
<1>2. n # Nil
  BY ShapeTypes
<1>3. SideOf(T, n) = s /\ T.child[Other(s)][T.parent[n]] # n
  BY <1>1, <1>2, SideOfChild
<1>4. T.parent[n] # n
  BY <1>1, <1>2, ChildNests
<1> QED
  BY <1>1, <1>3, <1>4

(***************************************************************************)
(* Rotations.  The links after one, field by field.                        *)
(***************************************************************************)
LEMMA RotateFields ==
  ASSUME NEW T \in Tree, NEW n \in Node, NEW side \in Side,
         NEW up, up = T.child[Other(side)][n],
         NEW inner, inner = T.child[side][up],
         NEW U, U = Rotate(T, n, side), T.parent[n] \in Place, up # n, up # Nil
  PROVE  /\ U \in Tree
         /\ U.root = IF n = T.root THEN up ELSE T.root
         /\ U.red = T.red /\ U.key = T.key /\ U.data = T.data
         /\ \A s \in Side, m \in Place :
              U.child[s][m] = IF s = side /\ m = up THEN n
                              ELSE IF s # side /\ m = n THEN inner
                              ELSE IF n # T.root /\ s = SideOf(T, n) /\ m = T.parent[n] THEN up
                              ELSE T.child[s][m]
         /\ \A m \in Place :
              U.parent[m] = IF m = inner /\ inner # Nil THEN n
                            ELSE IF m = n THEN up
                            ELSE IF m = up THEN T.parent[n]
                            ELSE T.parent[m]
<1> DEFINE above == T.parent[n]
           at == SideOf(T, n)
           hung == IF n = T.root THEN T.child ELSE [T.child EXCEPT ![at][above] = up]
           par == [T.parent EXCEPT ![up] = above, ![n] = up]
           root2 == IF n = T.root THEN up ELSE T.root
           parent2 == IF inner = Nil THEN par ELSE [par EXCEPT ![inner] = n]
           child2 == [hung EXCEPT ![Other(side)][n] = inner, ![side][up] = n]
<1>1. /\ T.root \in Place /\ T.child \in [Side -> [Place -> Place]]
      /\ T.parent \in [Place -> Place] /\ T.red \in SUBSET Node
      /\ T.key \in [Node -> Key] /\ T.data \in [Node -> Key]
  BY DEF Tree
<1>2. /\ n \in Place /\ up \in Place /\ inner \in Place /\ above \in Place
      /\ at \in Side /\ Other(side) \in Side /\ Other(side) # side
  BY <1>1, Sides DEF Place, SideOf
<1>3. hung \in [Side -> [Place -> Place]]
  BY <1>1, <1>2
<1>4. child2 \in [Side -> [Place -> Place]]
  BY <1>2, <1>3
<1>5. par \in [Place -> Place]
  BY <1>1, <1>2
<1>6. parent2 \in [Place -> Place]
  BY <1>2, <1>5
<1>7. root2 \in Place
  BY SMTT(30), <1>1, <1>2
<1>8. U = [T EXCEPT !.root = root2, !.parent = parent2, !.child = child2]
  BY Zenon DEF Rotate
<1>9. /\ U.root = root2 /\ U.parent = parent2 /\ U.child = child2
      /\ U.red = T.red /\ U.key = T.key /\ U.data = T.data
      /\ U \in Tree
  <2> HIDE DEF root2, parent2, child2
  <2> QED
    BY <1>1, <1>4, <1>6, <1>7, <1>8 DEF Tree
<1>10. \A m \in Place :
         parent2[m] = IF m = inner /\ inner # Nil THEN n
                      ELSE IF m = n THEN up
                      ELSE IF m = up THEN T.parent[n]
                      ELSE T.parent[m]
  BY <1>1, <1>2, <1>5
<1>11. \A s \in Side, m \in Place :
         hung[s][m] = IF n # T.root /\ s = SideOf(T, n) /\ m = T.parent[n] THEN up
                      ELSE T.child[s][m]
  BY <1>1, <1>2
<1>12. \A s \in Side, m \in Place :
         child2[s][m] = IF s = side /\ m = up THEN n
                        ELSE IF s # side /\ m = n THEN inner
                        ELSE hung[s][m]
  <2> HIDE DEF hung
  <2> QED
    BY <1>2, <1>3, Sides
<1> HIDE DEF root2, parent2, child2, hung
<1>13. \A s \in Side, m \in Place :
         U.child[s][m] = IF s = side /\ m = up THEN n
                         ELSE IF s # side /\ m = n THEN inner
                         ELSE IF n # T.root /\ s = SideOf(T, n) /\ m = T.parent[n] THEN up
                         ELSE T.child[s][m]
  BY SMTT(30), <1>9, <1>11, <1>12
<1> QED
  BY <1>9, <1>10, <1>13 DEF root2

\* The same in a tree: what n and up have below them, and that whoever had n
\* below it has up there.
LEMMA RotateLinks ==
  ASSUME NEW T, NEW L, NEW b, Shape(T, L, b), NEW n \in L, NEW side \in Side,
         NEW up, up = T.child[Other(side)][n], up # Nil,
         NEW inner, inner = T.child[side][up],
         NEW U, U = Rotate(T, n, side)
  PROVE  /\ U \in Tree
         /\ U.root = IF n = T.root THEN up ELSE T.root
         /\ U.red = T.red /\ U.key = T.key /\ U.data = T.data
         /\ up \in L /\ up # n /\ inner \in L \cup {Nil} /\ inner # n /\ inner # up
         /\ T.parent[n] # up
         /\ U.child[side][n] = T.child[side][n]
         /\ U.child[Other(side)][n] = inner
         /\ U.child[side][up] = n
         /\ U.child[Other(side)][up] = T.child[Other(side)][up]
         /\ \A m \in L \ {n, up}, s \in Side :
              /\ T.child[s][m] # up
              /\ U.child[s][m] = IF T.child[s][m] = n THEN up ELSE T.child[s][m]
         /\ U.parent[n] = up /\ U.parent[up] = T.parent[n]
         /\ inner # Nil => U.parent[inner] = n
         /\ \A m \in Place \ {n, up, inner} : U.parent[m] = T.parent[m]
         /\ inner = Nil => U.parent[Nil] = T.parent[Nil]
<1>1. Other(side) \in Side /\ Other(side) # side
  BY Sides
<1>2. /\ up \in L /\ up # n /\ T.parent[up] = n
      /\ Before(Other(side), T.key[up], T.key[n])
  BY SMTT(30), <1>1, ChildNests
<1>3. /\ inner \in L \cup {Nil} /\ inner # up
      /\ inner # Nil => T.parent[inner] = up /\ b[Other(side)][inner] = T.key[up]
                        /\ b[side][inner] = b[side][up]
  <2>1. inner \in L \cup {Nil}
    BY <1>2, ShapeTypes
  <2>2. CASE inner = Nil
    BY SMTT(30), <1>2, <2>1, <2>2, ShapeTypes
  <2>3. CASE inner # Nil
    BY SMTT(30), <1>2, <2>1, <2>3, ChildNests
  <2> QED
    BY <2>2, <2>3
<1>4. T.parent[n] # up
  <2> SUFFICES ASSUME T.parent[n] = up
               PROVE  FALSE
    OBVIOUS
  <2>1. n # T.root
    BY <1>2, ShapeTypes DEF Shape, RootOk
  <2>2. PICK s \in Side : T.child[s][up] = n
    BY <2>1 DEF Shape, NodeOk
  <2>3. b[Other(s)][n] = T.key[up] /\ Before(Other(s), b[Other(s)][up], b[Other(s)][n])
        /\ b[s][n] = b[s][up]
    BY <1>2, <2>2, ChildNests, ShapeTypes
  <2>4. b[Other(side)][up] = b[Other(side)][n]
        /\ b[side][up] = T.key[n] /\ Before(side, b[side][n], b[side][up])
    BY <1>1, ChildNests, Sides
  <2>5. \A t \in Side : b[t][n] \in Int /\ b[t][up] \in Int
    BY <1>2, ShapeTypes
  <2> QED
    BY <2>3, <2>4, <2>5, Sides, Befores
<1>5. inner # n
  BY <1>3, <1>4, ShapeTypes
<1>6. T.parent[n] # n
  <2>1. CASE n = T.root
    BY <2>1, ShapeTypes DEF Shape, RootOk
  <2>2. CASE n # T.root
    BY <2>2, ParentOf
  <2> QED
    BY <2>1, <2>2
<1>7. /\ T \in Tree /\ n \in Node /\ T.parent[n] \in Place
  BY DEF Shape, Tree, Place
<1>8. /\ U \in Tree
      /\ U.root = IF n = T.root THEN up ELSE T.root
      /\ U.red = T.red /\ U.key = T.key /\ U.data = T.data
      /\ \A s \in Side, m \in Place :
           U.child[s][m] = IF s = side /\ m = up THEN n
                           ELSE IF s # side /\ m = n THEN inner
                           ELSE IF n # T.root /\ s = SideOf(T, n) /\ m = T.parent[n] THEN up
                           ELSE T.child[s][m]
      /\ \A m \in Place :
           U.parent[m] = IF m = inner /\ inner # Nil THEN n
                         ELSE IF m = n THEN up
                         ELSE IF m = up THEN T.parent[n]
                         ELSE T.parent[m]
  BY <1>2, <1>7, RotateFields
<1>9. L \subseteq Place /\ n \in Place /\ up \in Place /\ Nil \in Place /\ Nil \notin L
  BY <1>2, ShapeTypes DEF Shape, Place
<1>10. ASSUME NEW m \in L \ {n, up}, NEW s \in Side
       PROVE  /\ T.child[s][m] # up
              /\ U.child[s][m] = IF T.child[s][m] = n THEN up ELSE T.child[s][m]
  <2>1. T.child[s][m] # up
    BY <1>2, ChildNests
  <2>2. U.child[s][m] = IF n # T.root /\ s = SideOf(T, n) /\ m = T.parent[n] THEN up
                        ELSE T.child[s][m]
    BY <1>8, <1>9
  <2>3. CASE T.child[s][m] = n
    BY <2>1, <2>2, <2>3, <1>9, SideOfChild
  <2>4. CASE T.child[s][m] # n
    BY <2>1, <2>2, <2>4, ParentOf
  <2> QED
    BY <2>3, <2>4
<1>11. /\ U.child[side][n] = T.child[side][n]
       /\ U.child[Other(side)][n] = inner
       /\ U.child[side][up] = n
       /\ U.child[Other(side)][up] = T.child[Other(side)][up]
  BY SMTT(30), <1>1, <1>2, <1>4, <1>6, <1>8, <1>9
<1>12. /\ U.parent[n] = up /\ U.parent[up] = T.parent[n]
       /\ inner # Nil => U.parent[inner] = n
       /\ \A m \in Place \ {n, up, inner} : U.parent[m] = T.parent[m]
       /\ inner = Nil => U.parent[Nil] = T.parent[Nil]
  BY <1>2, <1>3, <1>5, <1>8, <1>9
<1> QED
  BY Zenon, <1>2, <1>3, <1>4, <1>5, <1>8, <1>10, <1>11, <1>12
(***************************************************************************)
(* A rotation keeps the search tree: up takes over what n owned, and n is  *)
(* left with the part on its side of up's key.                             *)
(***************************************************************************)
LEMMA RotateShape ==
  ASSUME NEW T, NEW L, NEW b, Shape(T, L, b), NEW n \in L, NEW side \in Side,
         T.child[Other(side)][n] # Nil
  PROVE  \E b2 : Shape(Rotate(T, n, side), L, b2)
<1> DEFINE up == T.child[Other(side)][n]
           inner == T.child[side][up]
           U == Rotate(T, n, side)
           o == Other(side)
           b2 == [b EXCEPT ![o][n] = T.key[up], ![side][up] = b[side][n]]
<1>1. /\ U \in Tree
      /\ U.root = IF n = T.root THEN up ELSE T.root
      /\ U.key = T.key
      /\ up \in L /\ up # n /\ inner \in L \cup {Nil} /\ inner # n /\ inner # up
      /\ T.parent[n] # up
      /\ U.child[side][n] = T.child[side][n]
      /\ U.child[o][n] = inner
      /\ U.child[side][up] = n
      /\ U.child[o][up] = T.child[o][up]
      /\ \A m \in L \ {n, up}, s \in Side :
           /\ T.child[s][m] # up
           /\ U.child[s][m] = IF T.child[s][m] = n THEN up ELSE T.child[s][m]
      /\ U.parent[n] = up /\ U.parent[up] = T.parent[n]
      /\ inner # Nil => U.parent[inner] = n
      /\ \A m \in Place \ {n, up, inner} : U.parent[m] = T.parent[m]
  BY RotateLinks
<1>2. /\ L \subseteq Node /\ L \subseteq Place /\ b \in Bound /\ Nil \notin L
      /\ o \in Side /\ o # side /\ Other(o) = side
      /\ T.key[up] \in -1 .. MaxKey + 1
  BY <1>1, ShapeTypes, Sides, RbtreeAssumption DEF Shape, Place, Key
<1>3. /\ b2 \in Bound
      /\ \A s \in Side, m \in L :
           b2[s][m] = IF s = side /\ m = up THEN b[side][n]
                      ELSE IF s # side /\ m = n THEN T.key[up]
                      ELSE b[s][m]
  <2> HIDE DEF up, o
  <2>1. n \in Node /\ up \in Node
    BY <1>1, <1>2
  <2>2. b[side][n] \in -1 .. MaxKey + 1
    BY <1>2, <2>1 DEF Bound
  <2>3. [b EXCEPT ![o][n] = T.key[up]] \in Bound
    BY <1>2, <2>1 DEF Bound
  <2>4. b2 \in Bound
    BY <1>2, <2>1, <2>2, <2>3 DEF Bound
  <2>5. \A s \in Side : s = side \/ s = o
    BY Sides DEF o
  <2>6. ASSUME NEW s \in Side, NEW m \in Node
        PROVE  b2[s][m] = IF s = side /\ m = up THEN b[side][n]
                          ELSE IF s # side /\ m = n THEN T.key[up]
                          ELSE b[s][m]
    BY <1>2, <2>1, <2>5 DEF Bound
  <2> QED
    BY <1>2, <2>4, <2>6
<1>4. /\ T.parent[up] = n
      /\ b[o][up] = b[o][n] /\ b[side][up] = T.key[n]
      /\ Before(side, b[side][n], b[side][up])
      /\ Before(o, T.key[up], T.key[n])
  BY <1>2, ChildNests
<1>5. \A m \in L : NodeOk(T, L, b, m)
  BY SMTT(30) DEF Shape
<1>6. inner # Nil => T.parent[inner] = up /\ b[side][inner] = T.key[n] /\ b[o][inner] = T.key[up]
  BY <1>1, <1>4, ChildNests
<1>7. \A m \in L : T.key[m] \in Int /\ \A s \in Side : b[s][m] \in Int
  BY ShapeTypes
<1> HIDE DEF U, b2, up, inner, o
<1>8. RootOk(U, L, b2)
  <2>1. CASE n = T.root
    <3>1. T.parent[n] = Nil /\ \A s \in Side : b[s][n] = Outer(s)
      BY <2>1, <1>2 DEF Shape, RootOk
    <3>2. \A s \in Side : b2[s][up] = b[s][n]
      BY <1>1, <1>2, <1>3, <1>4, Sides
    <3> QED
      BY <1>1, <2>1, <3>1, <3>2 DEF RootOk
  <2>2. CASE n # T.root
    <3>1. T.root # up
      BY <1>2, <1>4 DEF Shape, RootOk
    <3>2. T.root \in L /\ T.parent[T.root] = Nil /\ \A s \in Side : b[s][T.root] = Outer(s)
      BY <1>2 DEF Shape, RootOk
    <3>3. T.root # inner
      BY <3>2, <1>1, <1>2, <1>6
    <3>4. U.parent[T.root] = Nil /\ \A s \in Side : b2[s][T.root] = Outer(s)
      BY <1>1, <1>2, <1>3, <2>2, <3>1, <3>2, <3>3
    <3> QED
      BY <1>1, <1>2, <2>2, <3>2, <3>4 DEF RootOk
  <2> QED
    BY <2>1, <2>2
<1>9. NodeOk(U, L, b2, n)
  <2>1. Within(b2, n, U.key[n])
    <3>1. Before(o, b2[o][n], T.key[n])
      BY <1>2, <1>3, <1>4
    <3>2. Before(side, b2[side][n], T.key[n])
      BY <1>1, <1>2, <1>3, <1>5 DEF NodeOk, Within
    <3> QED
      BY <1>1, <1>2, <3>1, <3>2, Sides DEF Within, o
  <2>2. LinkOk(U, L, b2, n, side)
    <3> DEFINE c == T.child[side][n]
    <3>1. LinkOk(T, L, b, n, side)
      BY <1>5 DEF NodeOk
    <3>2. c # Nil => c # up /\ c # n /\ c # inner
      <4>1. c # Nil => T.parent[c] = n /\ T.child[o][n] # c /\ c # n
        BY SideOfChild, ChildNests DEF o
      <4> QED
        BY <4>1, <1>1, <1>6 DEF up, o
    <3>3. c \in L \cup {Nil} /\ (c # Nil => T.parent[c] = n /\ b[side][c] = b[side][n] /\ b[o][c] = T.key[n])
      BY <3>1 DEF LinkOk, o
    <3>4. c # Nil => U.parent[c] = n /\ b2[side][c] = b2[side][n] /\ b2[o][c] = T.key[n]
      BY <1>1, <1>2, <1>3, <3>2, <3>3
    <3> QED
      BY <3>3, <3>4, <1>1 DEF LinkOk, o
  <2>3. LinkOk(U, L, b2, n, o)
    <3>1. inner # Nil => U.parent[inner] = n /\ b2[o][inner] = b2[o][n] /\ b2[side][inner] = T.key[n]
      BY <1>1, <1>2, <1>3, <1>6
    <3> QED
      BY <3>1, <1>1, <1>2 DEF LinkOk
  <2>4. n # U.root /\ U.parent[n] \in L /\ U.child[side][U.parent[n]] = n
    BY <1>1
  <2> QED
    BY <2>1, <2>2, <2>3, <2>4, Sides DEF NodeOk, o
<1>10. NodeOk(U, L, b2, up)
  <2>1. Within(b2, up, U.key[up])
    <3>1. Within(b, up, T.key[up])
      BY <1>1, <1>5 DEF NodeOk
    <3>2. Before(o, b2[o][up], T.key[up])
      BY <1>1, <1>2, <1>3, <3>1 DEF Within
    <3>3. Before(side, b2[side][up], T.key[up])
      <4>1. Before(side, T.key[n], T.key[up])
        BY <1>1, <1>2, <1>3, <1>4, <3>1 DEF Within
      <4>2. Before(side, b[side][n], T.key[n])
        BY <1>5 DEF NodeOk, Within
      <4> QED
        BY <1>1, <1>3, <1>7, <4>1, <4>2, Befores
    <3> QED
      BY <1>1, <3>2, <3>3, Sides DEF Within, o
  <2>2. LinkOk(U, L, b2, up, o)
    <3> DEFINE c == T.child[o][up]
    <3>1. LinkOk(T, L, b, up, o)
      BY <1>1, <1>2, <1>5 DEF NodeOk
    <3>2. c # Nil => c # up /\ c # n /\ c # inner
      <4>1. c # Nil => T.parent[c] = up /\ T.child[side][up] # c /\ c # up
        BY <1>1, <1>2, SideOfChild, ChildNests
      <4>2. c = n => T.parent[n] = up
        BY <4>1, <1>2
      <4> QED
        BY <4>1, <4>2, <1>1 DEF inner
    <3>3. c \in L \cup {Nil} /\ (c # Nil => T.parent[c] = up /\ b[o][c] = b[o][up] /\ b[side][c] = T.key[up])
      BY <3>1, <1>2 DEF LinkOk
    <3>4. c # Nil => U.parent[c] = up /\ b2[o][c] = b2[o][up] /\ b2[side][c] = T.key[up]
      BY <1>1, <1>2, <1>3, <3>2, <3>3
    <3> QED
      BY <3>3, <3>4, <1>1, <1>2 DEF LinkOk
  <2>3. LinkOk(U, L, b2, up, side)
    <3>1. U.parent[n] = up /\ b2[side][n] = b2[side][up] /\ b2[o][n] = T.key[up]
      BY <1>1, <1>2, <1>3
    <3> QED
      BY <3>1, <1>1, <1>2 DEF LinkOk, o
  <2>4. up # U.root => U.parent[up] \in L /\ \E s \in Side : U.child[s][U.parent[up]] = up
    <3> SUFFICES ASSUME n # T.root
                 PROVE  T.parent[n] \in L /\ \E s \in Side : U.child[s][T.parent[n]] = up
      BY <1>1
    <3>1. /\ T.parent[n] \in L /\ T.parent[n] # n
          /\ SideOf(T, n) \in Side /\ T.child[SideOf(T, n)][T.parent[n]] = n
      BY ParentOf
    <3> QED
      BY <3>1, <1>1
  <2> QED
    BY <2>1, <2>2, <2>3, <2>4, Sides DEF NodeOk, o
<1>11. ASSUME NEW m \in L \ {n, up}
       PROVE  NodeOk(U, L, b2, m)
  <2>0. m \in L /\ m # n /\ m # up
    OBVIOUS
  <2>1. Within(b2, m, U.key[m])
    BY <1>1, <1>3, <1>5, <2>0 DEF NodeOk, Within
  <2>2. ASSUME NEW s \in Side
        PROVE  LinkOk(U, L, b2, m, s)
    <3> DEFINE c == T.child[s][m]
    <3>1. /\ c \in L \cup {Nil}
          /\ c # Nil => T.parent[c] = m /\ b[s][c] = b[s][m] /\ b[Other(s)][c] = T.key[m]
      BY <1>5, <2>0 DEF NodeOk, LinkOk
    <3>2. c # up /\ U.child[s][m] = IF c = n THEN up ELSE c
      BY <1>1, <2>0
    <3>3. b2[s][m] = b[s][m]
      BY <1>3, <2>0
    <3> HIDE DEF c
    <3>4. CASE c = n
      <4>1. T.parent[n] = m /\ b[s][n] = b[s][m] /\ b[Other(s)][n] = T.key[m]
        BY <1>2, <3>1, <3>4
      <4>2. \A t \in Side : b2[t][up] = b[t][n]
        BY <1>1, <1>2, <1>3, <1>4, Sides DEF o
      <4> QED
        BY <1>1, <1>2, <3>2, <3>3, <3>4, <4>1, <4>2, Sides DEF LinkOk
    <3>5. CASE c # n /\ c # Nil
      <4>1. c # inner
        BY <1>6, <2>0, <3>1, <3>5
      <4>2. U.parent[c] = m
        BY <1>1, <1>2, <3>1, <3>2, <3>5, <4>1
      <4>3. \A t \in Side : b2[t][c] = b[t][c]
        BY <1>3, <3>1, <3>2, <3>5
      <4> QED
        BY <1>1, <3>1, <3>2, <3>3, <3>5, <4>2, <4>3, Sides DEF LinkOk
    <3>6. CASE c = Nil
      BY SMTT(30), <1>2, <3>2, <3>6 DEF LinkOk
    <3> QED
      BY <3>4, <3>5, <3>6
  <2>3. m # U.root => U.parent[m] \in L /\ \E s \in Side : U.child[s][U.parent[m]] = m
    <3> SUFFICES ASSUME m # U.root
                 PROVE  U.parent[m] \in L /\ \E s \in Side : U.child[s][U.parent[m]] = m
      OBVIOUS
    <3>1. CASE m = inner
      BY <1>1, <1>2, <2>0, <3>1, Sides DEF o
    <3>2. CASE m # inner
      <4>1. m # T.root
        <5>1. CASE n = T.root
          BY <5>1, <2>0
        <5>2. CASE n # T.root
          BY <5>2, <1>1
        <5> QED
          BY <5>1, <5>2
      <4>2. PICK s \in Side : T.parent[m] \in L /\ T.child[s][T.parent[m]] = m
        BY <1>5, <2>0, <4>1 DEF NodeOk
      <4>3. U.parent[m] = T.parent[m]
        BY <1>1, <1>2, <2>0, <3>2
      <4>4. CASE T.parent[m] = n
        <5>1. s = side
          BY <4>2, <4>4, <2>0, Sides DEF up, o
        <5> QED
          BY <1>1, <4>2, <4>3, <4>4, <5>1
      <4>5. CASE T.parent[m] = up
        <5>1. s = o
          BY <4>2, <4>5, <3>2, Sides DEF inner, o
        <5> QED
          BY <1>1, <1>2, <4>2, <4>3, <4>5, <5>1
      <4>6. CASE T.parent[m] # n /\ T.parent[m] # up
        BY <1>1, <4>2, <4>3, <4>6, <2>0
      <4> QED
        BY <4>4, <4>5, <4>6
    <3> QED
      BY <3>1, <3>2
  <2> QED
    BY <2>1, <2>2, <2>3 DEF NodeOk
<1>12. Shape(U, L, b2)
  BY <1>1, <1>2, <1>3, <1>8, <1>9, <1>10, <1>11 DEF Shape
<1> QED
  BY <1>12 DEF U
(***************************************************************************)
(* Colours do not matter to the search tree.                               *)
(***************************************************************************)
SameLinks(U, T) ==
  /\ U.root = T.root /\ U.child = T.child /\ U.parent = T.parent
  /\ U.key = T.key /\ U.data = T.data

\* Setting a colour changes no link, key or data.
LEMMA Recolour ==
  ASSUME NEW T \in Tree, NEW n
  PROVE  /\ SetBlack(T, n) \in Tree /\ SameLinks(SetBlack(T, n), T)
         /\ SetBlack(T, n).red = T.red \ {n}
         /\ n \in Node => /\ SetRed(T, n) \in Tree /\ SameLinks(SetRed(T, n), T)
                          /\ SetRed(T, n).red = T.red \cup {n}
  BY DEF SetBlack, SetRed, Tree, SameLinks

\* Colours are of no matter to the shape.
LEMMA SameShape ==
  ASSUME NEW T, NEW L, NEW b, Shape(T, L, b), NEW U \in Tree, SameLinks(U, T)
  PROVE  Shape(U, L, b)
  BY DEF Shape, SameLinks, RootOk, NodeOk, LinkOk

(***************************************************************************)
(* Away from the two nodes that change places a rotation keeps heights and *)
(* colours, if up is as high as n was.                                     *)
(***************************************************************************)
LEMMA RotateLevel ==
  ASSUME NEW T, NEW L, NEW b, Shape(T, L, b), NEW n \in L, NEW side \in Side,
         NEW up, up = T.child[Other(side)][n], up # Nil,
         NEW h, NEW g, g[up] = h[n],
         \A m \in Place \ {n, up} : g[m] = h[m],
         NEW hole, NEW hs,
         NEW m \in L \ {n, up}, Level(T, h, m, hole, hs)
  PROVE  Level(Rotate(T, n, side), g, m, hole, hs)
<1> DEFINE U == Rotate(T, n, side)
<1>1. /\ U.red = T.red /\ up \in L
      /\ \A s \in Side :
              /\ T.child[s][m] # up
              /\ U.child[s][m] = IF T.child[s][m] = n THEN up ELSE T.child[s][m]
  BY RotateLinks
<1>2. Weight(U, m) = Weight(T, m)
  BY <1>1 DEF Weight, Red
<1> HIDE DEF U
<1>3. m \in Place /\ \A s \in Side : T.child[s][m] \in Place
  BY ShapeTypes DEF Shape, Place
<1>4. \A s \in Side : g[U.child[s][m]] = h[T.child[s][m]]
  BY <1>1, <1>3
<1>5. g[m] = h[m]
  BY <1>3
<1>6. Level(U, g, m, hole, hs)
  BY <1>2, <1>4, <1>5 DEF Level
<1> QED
  BY <1>6 DEF U

(***************************************************************************)
(* What holds between calls, what while an insertion is mended (x may be   *)
(* red below a red parent), and what while a deletion is (the ways through *)
(* x are one black node short, or x is red).                               *)
(***************************************************************************)
Balanced(T, L, h, hole, hs) ==
  /\ h \in Height /\ h[Nil] = 0
  /\ \A n \in L : Level(T, h, n, hole, hs)

Mended(T, L) ==
  /\ \E h : Balanced(T, L, h, Nil, "left")
  /\ \A n \in L : Calm(T, n)
  /\ ~Red(T, T.root)

MendingInsert(T, L, x) ==
  /\ \E h : Balanced(T, L, h, Nil, "left")
  /\ x \in L /\ Red(T, x)
  /\ \A n \in L, s \in Side : Red(T, n) => ~Red(T, T.child[s][n]) \/ T.child[s][n] = x
  /\ T.root = x \/ ~Red(T, T.root)

HoleAt(T, L, x, hole, hs) ==
  IF x = T.root THEN hole = Nil
  ELSE hole = T.parent[x] /\ hole \in L /\ hs \in Side /\ T.child[hs][hole] = x

MendingDelete(T, L, x) ==
  /\ x \in L \cup {Nil}
  /\ \E h, hole, hs : Balanced(T, L, h, hole, hs) /\ HoleAt(T, L, x, hole, hs)
  /\ \A n \in L, s \in Side : Red(T, n) => ~Red(T, T.child[s][n]) \/ n = x \/ T.child[s][n] = x
  /\ T.root = x \/ ~Red(T, T.root)

\* What heights say link by link: a link that is not the hole is exact, the
\* hole is one short.
LEMMA BalancedHeights ==
  ASSUME NEW T, NEW L, NEW b, Shape(T, L, b), NEW h, NEW hole, NEW hs,
         Balanced(T, L, h, hole, hs)
  PROVE  /\ \A n \in Place : h[n] \in Nat
         /\ L \subseteq Place /\ Nil \in Place /\ Nil \notin L
         /\ \A n \in L, s \in Side : T.child[s][n] \in Place
         /\ \A n \in L, s \in Side :
              ~(n = hole /\ s = hs) => h[n] = h[T.child[s][n]] + Weight(T, n)
         /\ \A n \in L, s \in Side :
              n = hole /\ s = hs => h[n] = h[T.child[s][n]] + 1 + Weight(T, n)
         /\ ~Red(T, Nil)
<1>1. /\ \A n \in Place : h[n] \in Nat
      /\ L \subseteq Place /\ Nil \in Place /\ Nil \notin L
      /\ \A n \in L, s \in Side : T.child[s][n] \in Place
  BY ShapeTypes DEF Balanced, Height, Shape, Place
<1>2. \A n \in L : Weight(T, n) \in Nat
  BY DEF Weight
<1>3. ASSUME NEW n \in L, NEW s \in Side
      PROVE  /\ ~(n = hole /\ s = hs) => h[n] = h[T.child[s][n]] + Weight(T, n)
             /\ n = hole /\ s = hs => h[n] = h[T.child[s][n]] + 1 + Weight(T, n)
  <2>1. h[n] = h[T.child[s][n]] + (IF n = hole /\ s = hs THEN 1 ELSE 0) + Weight(T, n)
    BY DEF Balanced, Level
  <2> QED
    BY <1>1, <1>2, <2>1
<1>4. ~Red(T, Nil)
  BY RbtreeAssumption DEF Shape, Tree, Red
<1> QED
  BY <1>1, <1>3, <1>4
CanChange(h, p, i, q, j) ==
  \E k \in Height : /\ k[Nil] = 0 /\ k[p] = i /\ k[q] = j
                    /\ \A n \in Place : n # p /\ n # q => k[n] = h[n]

\* Heights can be changed at two nodes.
LEMMA HeightsChange ==
  ASSUME NEW h \in Height, h[Nil] = 0, NEW p \in Place \ {Nil}, NEW q \in Place \ {Nil}, p # q,
         NEW i \in Nat, NEW j \in Nat
  PROVE  CanChange(h, p, i, q, j)
<1> DEFINE k == [h EXCEPT ![p] = i, ![q] = j]
<1>1. Nil \in Place
  BY DEF Place
<1>2. /\ k \in Height /\ k[Nil] = 0 /\ k[p] = i /\ k[q] = j
      /\ \A n \in Place : n # p /\ n # q => k[n] = h[n]
  BY <1>1 DEF Height
<1> QED
  BY <1>2 DEF CanChange

\* Without a hole every link is exact.
LEMMA NoHole ==
  ASSUME NEW T, NEW L, NEW b, Shape(T, L, b), NEW h, NEW hs, Balanced(T, L, h, Nil, hs)
  PROVE  \A n \in L, s \in Side : h[n] = h[T.child[s][n]] + Weight(T, n)
<1>1. Nil \notin L
  BY ShapeTypes
<1>2. \A n \in L, s \in Side : n # Nil /\ ~(n = Nil /\ s = hs)
  BY <1>1
<1> QED
  BY <1>2, BalancedHeights

(***************************************************************************)
(* Mending an insertion: the end of the loop, and its three cases.         *)
(***************************************************************************)
LEMMA InsertEnds ==
  ASSUME NEW T, NEW L, NEW b, Shape(T, L, b), NEW x, MendingInsert(T, L, x),
         x = T.root \/ ~Red(T, T.parent[x]),
         NEW U, U = SetBlack(T, T.root)
  PROVE  Shape(U, L, b) /\ Mended(U, L)
<1>1. U \in Tree /\ SameLinks(U, T) /\ U.red = T.red \ {T.root}
  BY Recolour DEF Shape
<1>2. Shape(U, L, b)
  BY <1>1, SameShape
<1>3. PICK h : Balanced(T, L, h, Nil, "left")
  BY DEF MendingInsert
<1>4. x \in L /\ Red(T, x)
  BY DEF MendingInsert
<1>5. \A n \in L, s \in Side : T.child[s][n] # Nil => T.child[s][n] # T.root /\ T.parent[T.child[s][n]] = n
  BY SideOfChild
<1>6. /\ \A n \in Place : h[n] \in Nat
      /\ L \subseteq Place /\ Nil \in Place /\ Nil \notin L
      /\ \A n \in L, s \in Side : T.child[s][n] \in Place
      /\ \A n \in L, s \in Side : h[n] = h[T.child[s][n]] + Weight(T, n)
  BY <1>3, BalancedHeights, NoHole
<1>7. \A n \in L : Calm(U, n)
  <2> SUFFICES ASSUME NEW n \in L, NEW s \in Side, Red(U, n), Red(U, T.child[s][n])
               PROVE  FALSE
    BY <1>1 DEF Calm, SameLinks
  <2>1. Red(T, n) /\ n # T.root /\ Red(T, T.child[s][n]) /\ T.child[s][n] # T.root
    BY <1>1 DEF Red
  <2>2. T.child[s][n] = x
    BY <2>1 DEF MendingInsert
  <2> QED
    BY <2>1, <2>2, <1>4, <1>5, <1>6
<1>8. ~Red(U, U.root)
  BY <1>1 DEF Red, SameLinks
<1>9. \E g : Balanced(U, L, g, Nil, "left")
  <2>1. CASE ~Red(T, T.root)
    <3>1. U.red = T.red
      BY <1>1, <2>1 DEF Red
    <3>2. Balanced(U, L, h, Nil, "left")
      BY <1>1, <1>3, <3>1 DEF Balanced, Level, SameLinks, Weight, Red
    <3> QED
      BY <3>2
  <2>2. CASE Red(T, T.root)
    <3> DEFINE r == T.root
               g == [h EXCEPT ![r] = h[r] + 1]
    <3>1. r = x /\ r \in L
      BY <2>2, <1>4 DEF MendingInsert
    <3>2. g \in Height /\ g[Nil] = 0 /\ g[r] = h[r] + 1 /\ \A n \in Place : n # r => g[n] = h[n]
      BY <1>3, <1>6, <3>1 DEF Balanced, Height
    <3> HIDE DEF g
    <3>3. ASSUME NEW n \in L
          PROVE  Level(U, g, n, Nil, "left")
      <4> SUFFICES ASSUME NEW s \in Side
                   PROVE  g[n] = g[T.child[s][n]] + 0 + Weight(U, n)
        BY <1>1, <1>6 DEF Level, SameLinks
      <4>1. g[T.child[s][n]] = h[T.child[s][n]]
        BY <1>5, <1>6, <3>1, <3>2
      <4>2. h[n] = h[T.child[s][n]] + Weight(T, n) /\ h[T.child[s][n]] \in Nat /\ h[n] \in Nat
        BY <1>6
      <4>3. CASE n = r
        <5>1. Weight(T, n) = 0 /\ Weight(U, n) = 1
          BY <1>1, <2>2, <4>3 DEF Weight, Red
        <5> QED
          BY <3>2, <4>1, <4>2, <4>3, <5>1
      <4>4. CASE n # r
        <5>1. Weight(U, n) = Weight(T, n) /\ Weight(T, n) \in Nat
          BY <1>1, <4>4 DEF Weight, Red
        <5>2. g[n] = h[n]
          BY <1>6, <3>2, <4>4
        <5> QED
          BY <4>1, <4>2, <5>1, <5>2
      <4> QED
        BY <4>3, <4>4
    <3> QED
      BY <3>2, <3>3 DEF Balanced
  <2> QED
    BY <2>1, <2>2
<1> QED
  BY <1>2, <1>7, <1>8, <1>9 DEF Mended

\* Where the loop goes on there is a black grandparent.
Line(T, x, p, g, side) ==
  /\ x # T.root /\ Red(T, p)
  /\ p = T.parent[x] /\ g = T.parent[p] /\ side = SideOf(T, p)

\* Where insert_fix goes on, the node has a red parent and a black
\* grandparent.
LEMMA InsertGrandpa ==
  ASSUME NEW T, NEW L, NEW b, Shape(T, L, b), NEW x, MendingInsert(T, L, x),
         NEW p, NEW g, NEW side, Line(T, x, p, g, side)
  PROVE  /\ p \in L /\ g \in L /\ side \in Side /\ p # x /\ g # p
         /\ T.parent[x] = p /\ T.parent[p] = g
         /\ ~Red(T, g) /\ Red(T, p) /\ p # T.root /\ x # T.root
         /\ T.child[side][g] = p /\ T.child[Other(side)][g] # p
         /\ \E s \in Side : T.child[s][p] = x
         /\ ~Red(T, T.root)
<1>1. x \in L
  BY DEF MendingInsert
<1>2. /\ p \in L /\ p # x /\ T.parent[x] = p /\ T.parent[p] = g /\ x # T.root
      /\ Red(T, p) /\ \E s \in Side : T.child[s][p] = x
  BY <1>1, ParentOf DEF Line
<1>3. p # T.root /\ ~Red(T, T.root)
  BY <1>2 DEF MendingInsert
<1>4. /\ g \in L /\ g # p /\ side \in Side
      /\ T.child[side][g] = p /\ T.child[Other(side)][g] # p
  BY <1>2, <1>3, ParentOf DEF Line
<1>5. ~Red(T, g)
  BY <1>2, <1>4 DEF MendingInsert
<1> QED
  BY <1>2, <1>3, <1>4, <1>5

\* insert_fix with a red uncle: recolouring moves the fault up to the
\* grandparent.
LEMMA InsertRecolours ==
  ASSUME NEW T, NEW L, NEW b, Shape(T, L, b), NEW x, MendingInsert(T, L, x),
         x # T.root, Red(T, T.parent[x]), Red(T, Uncle(T, x)),
         NEW U, U = SetRed(SetBlack(SetBlack(T, T.parent[x]), Uncle(T, x)), Grandpa(T, x))
  PROVE  Shape(U, L, b) /\ MendingInsert(U, L, Grandpa(T, x))
<1> DEFINE p == T.parent[x]
           g == T.parent[p]
           side == SideOf(T, p)
           u == T.child[Other(side)][g]
<1>1. /\ p \in L /\ g \in L /\ side \in Side /\ p # x /\ g # p
      /\ ~Red(T, g) /\ p # T.root
      /\ T.child[side][g] = p /\ u # p
      /\ ~Red(T, T.root)
  <2>1. Line(T, x, p, g, side)
    BY DEF Line
  <2> HIDE DEF p, g, side
  <2> QED
    BY <2>1, InsertGrandpa
<1>2. Uncle(T, x) = u /\ Grandpa(T, x) = g
  BY DEF Uncle, Grandpa
<1>3. T \in Tree /\ L \subseteq Node
  BY SMTT(30) DEF Shape
<1>4. /\ U \in Tree /\ SameLinks(U, T)
      /\ U.red = ((T.red \ {p}) \ {u}) \cup {g}
  <2> DEFINE T1 == SetBlack(T, p)
             T2 == SetBlack(T1, u)
  <2>1. T1 \in Tree /\ SameLinks(T1, T) /\ T1.red = T.red \ {p}
    BY <1>3, Recolour
  <2>2. T2 \in Tree /\ SameLinks(T2, T1) /\ T2.red = T1.red \ {u}
    <3> HIDE DEF T1
    <3> QED
      BY SMTT(30), <2>1, Recolour
  <2>3. U = SetRed(T2, g) /\ g \in Node
    BY <1>1, <1>2, <1>3
  <2>4. U \in Tree /\ SameLinks(U, T2) /\ U.red = T2.red \cup {g}
    <3> HIDE DEF T2
    <3> QED
      BY <2>2, <2>3, Recolour
  <2> QED
    BY Zenon, <2>1, <2>2, <2>4 DEF SameLinks
<1>5. Shape(U, L, b)
  BY <1>4, SameShape
<1>6. PICK h : Balanced(T, L, h, Nil, "left")
  BY DEF MendingInsert
<1>7. /\ \A n \in Place : h[n] \in Nat
      /\ L \subseteq Place /\ Nil \in Place /\ Nil \notin L
      /\ \A n \in L, s \in Side : T.child[s][n] \in Place
      /\ \A n \in L, s \in Side : h[n] = h[T.child[s][n]] + Weight(T, n)
      /\ ~Red(T, Nil)
  BY <1>6, BalancedHeights, NoHole
<1>8. \A n \in L, s \in Side : T.child[s][n] # Nil => T.child[s][n] \in L /\ T.parent[T.child[s][n]] = n
                                                 /\ T.child[s][n] # n /\ T.child[s][n] # T.root
  BY SMTT(30), SideOfChild, ChildNests
<1>9. u \in L /\ T.parent[u] = g /\ u # g /\ Red(T, u) /\ Red(T, p)
  <2>1. Red(T, u) /\ u # Nil
    BY <1>2, <1>7
  <2> QED
    BY ZenonT(40), <1>1, <1>8, <2>1, Sides
<1> HIDE DEF p, g, u, side
<1>10. PICK k \in Height :
         /\ k[Nil] = 0 /\ k[p] = h[p] + 1 /\ k[u] = h[u] + 1
         /\ \A n \in Place : n # p /\ n # u => k[n] = h[n]
  <2>1. h \in Height /\ h[Nil] = 0
    BY <1>6 DEF Balanced
  <2>2. p \in Place \ {Nil} /\ u \in Place \ {Nil} /\ h[p] \in Nat /\ h[u] \in Nat
    BY <1>1, <1>7, <1>9
  <2> DEFINE i == h[p] + 1
             j == h[u] + 1
  <2>3. i \in Nat /\ j \in Nat /\ p # u
    BY <1>1, <2>2
  <2>4. p \in Place \ {Nil} /\ u \in Place \ {Nil}
    BY <2>2
  <2> HIDE DEF i, j
  <2>5. \E k \in Height :
         /\ k[Nil] = 0 /\ k[p] = i /\ k[u] = j
         /\ \A n \in Place : n # p /\ n # u => k[n] = h[n]
    <3>1. CanChange(h, p, i, u, j)
      BY <2>1, <2>3, <2>4, HeightsChange
    <3> QED
      BY <3>1 DEF CanChange
  <2> QED
    BY <2>5 DEF i, j
<1>11. ASSUME NEW n \in L
       PROVE  Level(U, k, n, Nil, "left")
  <2> SUFFICES ASSUME NEW s \in Side
               PROVE  k[n] = k[T.child[s][n]] + 0 + Weight(U, n)
    BY <1>4, <1>7 DEF Level, SameLinks
  <2> DEFINE c == T.child[s][n]
  <2>1. h[n] = h[c] + Weight(T, n) /\ h[c] \in Nat /\ h[n] \in Nat /\ c \in Place
    BY <1>7
  <2>2. CASE n = g
    <3>1. c = p \/ c = u
      BY <1>1, <2>2, Sides DEF u
    <3>2. k[c] = h[c] + 1 /\ k[n] = h[n]
      BY <1>1, <1>7, <1>9, <1>10, <2>2, <3>1
    <3>3. Weight(T, n) = 1 /\ Weight(U, n) = 0
      BY <1>1, <1>4, <2>2 DEF Weight, Red
    <3> QED
      BY <2>1, <3>2, <3>3
  <2>3. CASE n # g
    <3>1. c # p /\ c # u
      BY <1>1, <1>7, <1>8, <1>9, <2>3 DEF g
    <3>2. k[c] = h[c]
      BY <1>10, <2>1, <3>1
    <3>3. CASE n = p \/ n = u
      <4>1. Weight(T, n) = 0 /\ Weight(U, n) = 1
        BY <1>4, <1>9, <2>3, <3>3 DEF Weight, Red
      <4>2. k[n] = h[n] + 1
        BY <1>10, <3>3
      <4> QED
        BY <2>1, <3>2, <4>1, <4>2
    <3>4. CASE n # p /\ n # u
      <4>1. Weight(T, n) = Weight(U, n) /\ Weight(T, n) \in Nat
        BY <1>4, <2>3, <3>4 DEF Weight, Red
      <4>2. k[n] = h[n]
        BY <1>7, <1>10, <3>4
      <4> QED
        BY <2>1, <3>2, <4>1, <4>2
    <3> QED
      BY <3>3, <3>4
  <2> QED
    BY <2>2, <2>3
<1>12. ASSUME NEW n \in L, NEW s \in Side, Red(U, n), Red(U, U.child[s][n])
       PROVE  U.child[s][n] = g
  <2> DEFINE c == T.child[s][n]
  <2> SUFFICES ASSUME c # g
               PROVE  FALSE
    BY <1>4 DEF SameLinks
  <2>1. Red(T, c) /\ c # p /\ c # u
    BY <1>4, <1>12 DEF Red, SameLinks
  <2>2. n # g
    BY <1>1, <2>1, Sides DEF u
  <2>3. Red(T, n) /\ n # p
    BY <1>4, <1>12, <2>2 DEF Red
  <2>4. c = x
    BY <2>1, <2>3 DEF MendingInsert
  <2> QED
    BY <2>1, <2>3, <2>4, <1>7, <1>8 DEF p
<1>13. g \in L /\ Red(U, g) /\ (U.root = g \/ ~Red(U, U.root))
  BY <1>1, <1>4 DEF Red, SameLinks
<1>14. Balanced(U, L, k, Nil, "left")
  BY <1>10, <1>11 DEF Balanced
<1> QED
  BY <1>2, <1>5, <1>12, <1>13, <1>14 DEF MendingInsert
\* A bent line is straightened: x comes up, its parent is mended next.
LEMMA InsertBend ==
  ASSUME NEW T, NEW L, NEW b, Shape(T, L, b), NEW x, MendingInsert(T, L, x),
         NEW p, NEW g, NEW side, Line(T, x, p, g, side), T.child[Other(side)][p] = x
  PROVE  LET U == Rotate(T, p, side)
         IN  /\ \E b2 : Shape(U, L, b2)
             /\ MendingInsert(U, L, p)
             /\ Line(U, p, x, g, side)
             /\ U.child[side][x] = p
             /\ U.child[Other(side)][g] = T.child[Other(side)][g] /\ U.red = T.red
<1> DEFINE inner == T.child[side][x]
           o == Other(side)
           U == Rotate(T, p, side)
<1>1. /\ p \in L /\ g \in L /\ side \in Side /\ p # x /\ g # p
      /\ ~Red(T, g) /\ p # T.root
      /\ T.parent[p] = g /\ T.child[side][g] = p /\ T.child[o][g] # p
      /\ ~Red(T, T.root) /\ Red(T, p)
  BY InsertGrandpa
<1>2. x \in L /\ Red(T, x) /\ x # Nil /\ o \in Side
  BY <1>1, ShapeTypes, Sides DEF MendingInsert
<1>3. /\ U \in Tree
      /\ U.root = IF p = T.root THEN x ELSE T.root
      /\ U.red = T.red
      /\ inner \in L \cup {Nil} /\ inner # p /\ inner # x
      /\ g # x
      /\ U.child[side][p] = T.child[side][p]
      /\ U.child[o][p] = inner
      /\ U.child[side][x] = p
      /\ U.child[o][x] = T.child[o][x]
      /\ \A m \in L \ {p, x}, s \in Side :
           /\ T.child[s][m] # x
           /\ U.child[s][m] = IF T.child[s][m] = p THEN x ELSE T.child[s][m]
      /\ U.parent[p] = x /\ U.parent[x] = g
  BY <1>1, <1>2, RotateLinks
<1>4. \E b2 : Shape(U, L, b2)
  BY <1>1, <1>2, RotateShape
<1>5. PICK h : Balanced(T, L, h, Nil, "left")
  BY DEF MendingInsert
<1>6. /\ \A n \in Place : h[n] \in Nat
      /\ L \subseteq Place /\ Nil \in Place /\ Nil \notin L
      /\ \A n \in L, s \in Side : T.child[s][n] \in Place
      /\ \A n \in L, s \in Side : h[n] = h[T.child[s][n]] + Weight(T, n)
      /\ ~Red(T, Nil)
  BY <1>5, BalancedHeights, NoHole
<1>7. \A n \in L : Weight(U, n) = Weight(T, n)
  BY <1>3 DEF Weight, Red
<1>8. Weight(T, p) = 0 /\ Weight(T, x) = 0
  BY <1>1, <1>2 DEF Weight
<1>9. \A s \in Side : h[p] = h[T.child[s][p]] /\ h[x] = h[T.child[s][x]]
  <2>1. \A i, j \in Nat : i = j + 0 => i = j
    OBVIOUS
  <2> QED
    BY <1>1, <1>2, <1>6, <1>8, <2>1
<1>10. h[p] = h[x]
  BY <1>2, <1>9
<1> HIDE DEF inner, o, U
<1>11. ASSUME NEW n \in L
       PROVE  Level(U, h, n, Nil, "left")
  <2>1. CASE n = p \/ n = x
    <3>1. \A s \in Side : h[U.child[s][n]] = h[n]
      BY <1>1, <1>2, <1>3, <1>9, <1>10, <2>1, Sides DEF inner, o
    <3>2. Weight(U, n) = 0 /\ h[n] \in Nat
      BY <1>6, <1>7, <1>8, <2>1
    <3>3. \A s \in Side : h[n] = h[U.child[s][n]] + 0 + 0
      BY <3>1, <3>2
    <3> QED
      BY <1>6, <3>2, <3>3 DEF Level
  <2>2. CASE n # p /\ n # x
    <3>1. Level(T, h, n, Nil, "left")
      BY <1>5 DEF Balanced
    <3> QED
      BY <1>1, <1>2, <1>10, <2>2, <3>1, RotateLevel DEF o, U
  <2> QED
    BY <2>1, <2>2
<1>12. Balanced(U, L, h, Nil, "left")
  BY <1>5, <1>11 DEF Balanced
<1>13. ASSUME NEW n \in L, NEW s \in Side, Red(U, n), Red(U, U.child[s][n])
       PROVE  U.child[s][n] = p
  <2>0. Red(T, n) /\ Red(T, U.child[s][n])
    BY <1>3, <1>13 DEF Red
  <2>1. \A t \in Side : Red(T, T.child[t][n]) => T.child[t][n] = x
    BY <2>0 DEF MendingInsert
  <2>2. CASE n = p
    <3>1. CASE s = side
      <4>1. T.child[side][p] # x
        BY <1>1, <1>2, SideOfChild, Sides DEF o
      <4> QED
        BY <1>1, <1>3, <2>0, <2>1, <2>2, <3>1, <4>1
    <3>2. CASE s = o
      BY <1>1, <1>2, <1>3, <2>0, <2>2, <3>2 DEF inner, MendingInsert
    <3> QED
      BY <3>1, <3>2, <1>1, Sides DEF o
  <2>3. CASE n = x
    <3>1. CASE s = side
      BY <1>3, <2>3, <3>1
    <3>2. CASE s = o
      <4>1. T.child[o][x] # x
        BY <1>2, ChildNests
      <4> QED
        BY <1>2, <1>3, <2>0, <2>1, <2>3, <3>2, <4>1
    <3> QED
      BY <3>1, <3>2, <1>1, Sides DEF o
  <2>4. CASE n # p /\ n # x
    <3>1. T.child[s][n] # x /\ U.child[s][n] = IF T.child[s][n] = p THEN x ELSE T.child[s][n]
      BY <1>3, <2>4
    <3>2. T.child[s][n] # p
      BY <1>1, <2>1, <3>1
    <3> QED
      BY <2>0, <2>1, <3>1, <3>2
  <2> QED
    BY <2>2, <2>3, <2>4
<1>14. Red(U, p) /\ ~Red(U, U.root) /\ p # U.root
  BY <1>1, <1>3 DEF Red
<1>15. MendingInsert(U, L, p)
  BY <1>1, <1>12, <1>13, <1>14 DEF MendingInsert
<1>16. U.child[side][g] = x /\ U.child[o][g] = T.child[o][g]
  BY <1>1, <1>2, <1>3
<1>17. SideOf(U, x) = side
  <2>1. PICK b2 : Shape(U, L, b2)
    BY <1>4
  <2> QED
    BY <1>1, <1>2, <1>16, <2>1, SideOfChild
<1>18. Line(U, p, x, g, side)
  BY <1>2, <1>3, <1>14, <1>17 DEF Line, Red
<1> QED
  BY <1>3, <1>4, <1>15, <1>16, <1>18 DEF o, U

\* A straight line: the parent comes up black, the grandparent goes down red.
LEMMA InsertStraight ==
  ASSUME NEW T, NEW L, NEW b, Shape(T, L, b), NEW x, MendingInsert(T, L, x),
         NEW p, NEW g, NEW side, Line(T, x, p, g, side),
         T.child[side][p] = x, ~Red(T, T.child[Other(side)][g])
  PROVE  LET U == Rotate(SetRed(SetBlack(T, p), g), g, Other(side))
         IN  (\E b2 : Shape(U, L, b2)) /\ MendingInsert(U, L, x)
<1> DEFINE o == Other(side)
           T2 == SetRed(SetBlack(T, p), g)
           U == Rotate(T2, g, o)
           u == T.child[o][g]
           inner == T.child[o][p]
<1>1. /\ p \in L /\ g \in L /\ side \in Side /\ p # x /\ g # p
      /\ ~Red(T, g) /\ p # T.root
      /\ T.parent[x] = p /\ T.parent[p] = g /\ T.child[side][g] = p /\ u # p
      /\ ~Red(T, T.root) /\ Red(T, p) /\ x # T.root
  BY InsertGrandpa
<1>2. /\ x \in L /\ Red(T, x) /\ x # Nil /\ p # Nil
      /\ o \in Side /\ Other(o) = side /\ o # side
  BY <1>1, ShapeTypes, Sides DEF MendingInsert
<1>3. /\ T2 \in Tree /\ SameLinks(T2, T)
      /\ T2.red = (T.red \ {p}) \cup {g}
  <2> DEFINE T1 == SetBlack(T, p)
  <2>1. T1 \in Tree /\ SameLinks(T1, T) /\ T1.red = T.red \ {p}
    BY Recolour DEF Shape
  <2>2. g \in Node /\ T2 = SetRed(T1, g)
    BY <1>1 DEF Shape
  <2> HIDE DEF T1
  <2>3. T2 \in Tree /\ SameLinks(T2, T1) /\ T2.red = T1.red \cup {g}
    BY <2>1, <2>2, Recolour
  <2> QED
    BY <2>1, <2>3 DEF SameLinks
<1> HIDE DEF T2
<1>4. Shape(T2, L, b)
  BY <1>3, SameShape
<1>5. T2.child = T.child /\ T2.root = T.root /\ T2.parent = T.parent
  BY <1>3 DEF SameLinks
<1>6. /\ U \in Tree
      /\ U.root = IF g = T.root THEN p ELSE T.root
      /\ U.red = T2.red
      /\ inner \in L \cup {Nil} /\ inner # g /\ inner # p
      /\ U.child[o][g] = u
      /\ U.child[side][g] = inner
      /\ U.child[o][p] = g
      /\ U.child[side][p] = x
      /\ \A m \in L \ {g, p}, s \in Side :
           /\ T.child[s][m] # p
           /\ U.child[s][m] = IF T.child[s][m] = g THEN p ELSE T.child[s][m]
  <2>1. p = T2.child[Other(o)][g] /\ inner = T2.child[o][p]
    BY <1>1, <1>2, <1>5
  <2> HIDE DEF inner
  <2>2. /\ U \in Tree
        /\ U.root = IF g = T2.root THEN p ELSE T2.root
        /\ U.red = T2.red
        /\ inner \in L \cup {Nil} /\ inner # g /\ inner # p
        /\ U.child[o][g] = T2.child[o][g]
        /\ U.child[Other(o)][g] = inner
        /\ U.child[o][p] = g
        /\ U.child[Other(o)][p] = T2.child[Other(o)][p]
        /\ \A m \in L \ {g, p}, s \in Side :
             /\ T2.child[s][m] # p
             /\ U.child[s][m] = IF T2.child[s][m] = g THEN p ELSE T2.child[s][m]
    BY SMTT(30), <1>1, <1>2, <1>4, <2>1, RotateLinks
  <2> QED
    BY <1>2, <1>5, <2>2
<1>7. \E b2 : Shape(U, L, b2)
  BY <1>1, <1>2, <1>4, <1>5, RotateShape
<1> HIDE DEF U
<1>8. PICK h : Balanced(T, L, h, Nil, "left")
  BY DEF MendingInsert
<1>9. /\ \A n \in Place : h[n] \in Nat
      /\ L \subseteq Place /\ Nil \in Place /\ Nil \notin L
      /\ \A n \in L, s \in Side : T.child[s][n] \in Place
      /\ \A n \in L, s \in Side : h[n] = h[T.child[s][n]] + Weight(T, n)
      /\ ~Red(T, Nil)
  BY <1>8, BalancedHeights, NoHole
<1>10. /\ Weight(T, p) = 0 /\ Weight(T, g) = 1
       /\ Weight(U, p) = 1 /\ Weight(U, g) = 0
       /\ \A n \in L \ {p, g} : Weight(T2, n) = Weight(T, n)
  BY <1>1, <1>3, <1>6 DEF Weight, Red
<1>11. PICK k \in Height :
         /\ k[Nil] = 0 /\ k[p] = h[g] /\ k[g] = h[p]
         /\ \A n \in Place : n # p /\ n # g => k[n] = h[n]
  <2>1. h \in Height /\ h[Nil] = 0
    BY <1>8 DEF Balanced
  <2>2. p \in Place \ {Nil} /\ g \in Place \ {Nil} /\ h[p] \in Nat /\ h[g] \in Nat
    BY <1>1, <1>9
  <2> QED
    <3>1. CanChange(h, p, h[g], g, h[p])
      BY <1>1, <2>1, <2>2, HeightsChange
    <3> QED
      BY <3>1 DEF CanChange
<1> HIDE DEF o, u, inner
<1>12. /\ h[g] = h[u] + 1 /\ h[g] = h[p] + 1
       /\ h[p] = h[inner] + 0 /\ h[p] = h[x] + 0
  BY <1>1, <1>2, <1>9, <1>10 DEF u, inner
<1>13. u \in Place /\ inner \in Place /\ u # p /\ u # g /\ inner # p /\ inner # g /\ x # p /\ x # g
  <2>1. u # g
    <3>1. CASE u = Nil
      BY <3>1, <1>1, <1>9
    <3>2. CASE u # Nil
      BY <3>2, <1>1, <1>2, ChildNests DEF u
    <3> QED
      BY <3>1, <3>2
  <2>2. x # g
    BY <1>2, <1>1, <1>6
  <2> QED
    BY <1>1, <1>2, <1>6, <1>9, <2>1, <2>2 DEF u, inner
<1>14. Level(U, k, g, Nil, "left") /\ Level(U, k, p, Nil, "left")
  <2>1. \A a, c, d, e, f \in Nat : a = c + 1 /\ a = d + 1 /\ d = e + 0 /\ d = f + 0
                            => a = d + 0 + 1 /\ a = f + 0 + 1 /\ d = c + 0 + 0 /\ d = e + 0 + 0
    OBVIOUS
  <2>2. /\ h[g] \in Nat /\ h[u] \in Nat /\ h[p] \in Nat /\ h[inner] \in Nat /\ h[x] \in Nat
    BY <1>1, <1>2, <1>9, <1>13
  <2>3. /\ h[g] = h[p] + 0 + 1 /\ h[g] = h[x] + 0 + 1
        /\ h[p] = h[u] + 0 + 0 /\ h[p] = h[inner] + 0 + 0
    BY <1>12, <2>1, <2>2
  <2>4. k[u] = h[u] /\ k[inner] = h[inner] /\ k[x] = h[x]
    BY <1>2, <1>9, <1>11, <1>13
  <2>5. \A s \in Side : k[g] = k[U.child[s][g]] + 0 + 0
    BY <1>2, <1>6, <1>11, <2>3, <2>4, Sides DEF o
  <2>6. \A s \in Side : k[p] = k[U.child[s][p]] + 0 + 1
    BY <1>2, <1>6, <1>11, <2>3, <2>4, Sides DEF o
  <2> QED
    BY <1>1, <1>9, <1>10, <2>5, <2>6 DEF Level
<1>15. ASSUME NEW n \in L \ {p, g}
       PROVE  Level(U, k, n, Nil, "left")
  <2>1. Level(T, h, n, Nil, "left")
    BY <1>8 DEF Balanced
  <2>2. Level(T2, h, n, Nil, "left")
    BY <1>5, <1>10, <2>1 DEF Level
  <2> QED
    BY <1>1, <1>2, <1>4, <1>5, <1>11, <2>2, RotateLevel DEF U
<1>16. Balanced(U, L, k, Nil, "left")
  BY <1>11, <1>14, <1>15 DEF Balanced
<1>17. ASSUME NEW n \in L, NEW s \in Side, Red(U, n), Red(U, U.child[s][n])
       PROVE  FALSE
  <2>1. n # p /\ U.child[s][n] # p
    BY <1>1, <1>3, <1>6, <1>17 DEF Red
  <2>2. CASE n = g
    <3>1. U.child[s][n] \in {u, inner}
      BY <1>2, <1>6, <2>2, Sides DEF o
    <3>2. ~Red(T, inner)
      <4>1. inner # x
        BY <1>1, <1>2, SideOfChild DEF o, inner
      <4> QED
        BY <1>1, <1>2, <4>1 DEF inner, MendingInsert
    <3> QED
      BY <1>3, <1>6, <1>13, <1>17, <3>1, <3>2 DEF Red, u, o
  <2>3. CASE n # g
    <3>1. U.child[s][n] = T.child[s][n] /\ T.child[s][n] # g
      BY <1>6, <2>1, <2>3
    <3>2. Red(T, n) /\ Red(T, T.child[s][n])
      BY <1>3, <1>6, <1>17, <2>1, <2>3, <3>1 DEF Red
    <3>3. T.child[s][n] = x
      BY <3>2 DEF MendingInsert
    <3>4. T.parent[x] = n
      BY <1>2, <3>3, ChildNests
    <3> QED
      BY <1>1, <2>1, <3>4
  <2> QED
    BY <2>2, <2>3
<1>18. Red(U, x) /\ ~Red(U, U.root)
  BY <1>1, <1>2, <1>3, <1>6 DEF Red
<1> QED
  <2>1. MendingInsert(U, L, x)
    BY <1>2, <1>16, <1>17, <1>18 DEF MendingInsert
  <2> QED
    BY <1>7, <2>1 DEF U, T2, o
(***************************************************************************)
(* Mending a deletion.  Where the loop goes on, x has a parent and, since  *)
(* the ways through x are one black node short, a brother.                 *)
(***************************************************************************)
Short(T, L, h, x, p, side, sib) ==
  /\ Balanced(T, L, h, p, side)
  /\ x \in L \cup {Nil} /\ p \in L /\ sib \in L /\ side \in Side
  /\ T.parent[x] = p /\ T.child[side][p] = x /\ T.child[Other(side)][p] = sib
  /\ x # p /\ x # sib /\ sib # p
  /\ SideOf(T, x) = side
  /\ ~Red(T, x) /\ x # T.root
  /\ \A n \in L : Calm(T, n)
  /\ ~Red(T, T.root)

\* delete_fix ends at the root or at a red node: blackening it mends the
\* tree.
LEMMA DeleteEnds ==
  ASSUME NEW T, NEW L, NEW b, Shape(T, L, b), NEW x, MendingDelete(T, L, x),
         x = T.root \/ Red(T, x)
  PROVE  Shape(SetBlack(T, x), L, b) /\ Mended(SetBlack(T, x), L)
<1> DEFINE U == SetBlack(T, x)
<1>1. U \in Tree /\ SameLinks(U, T) /\ U.red = T.red \ {x}
  BY Recolour DEF Shape
<1> HIDE DEF U
<1>2. Shape(U, L, b)
  BY <1>1, SameShape
<1>3. PICK h, hole, hs : Balanced(T, L, h, hole, hs) /\ HoleAt(T, L, x, hole, hs)
  BY DEF MendingDelete
<1>4. /\ \A n \in Place : h[n] \in Nat
      /\ L \subseteq Place /\ Nil \in Place /\ Nil \notin L
      /\ \A n \in L, s \in Side : T.child[s][n] \in Place
      /\ \A n \in L, s \in Side :
           ~(n = hole /\ s = hs) => h[n] = h[T.child[s][n]] + Weight(T, n)
      /\ \A n \in L, s \in Side :
           n = hole /\ s = hs => h[n] = h[T.child[s][n]] + 1 + Weight(T, n)
      /\ ~Red(T, Nil)
  BY <1>3, BalancedHeights
<1>5. \A n \in L : Calm(U, n)
  BY <1>1 DEF MendingDelete, Calm, SameLinks, Red
<1>6. ~Red(U, U.root)
  BY <1>1 DEF MendingDelete, SameLinks, Red
<1>7. \E k : Balanced(U, L, k, Nil, "left")
  <2>1. CASE ~Red(T, x)
    <3>1. U.red = T.red /\ hole = Nil
      BY <1>1, <1>3, <2>1 DEF Red, HoleAt
    <3>2. \A n \in L : Level(U, h, n, Nil, "left")
      BY <1>1, <1>3, <1>4, <3>1 DEF Balanced, Level, SameLinks, Weight, Red
    <3> QED
      BY <1>3, <3>2 DEF Balanced
  <2>2. CASE Red(T, x)
    <3>1. x \in L
      BY <1>4, <2>2 DEF MendingDelete
    <3>2. PICK k \in Height : k[Nil] = 0 /\ k[x] = h[x] + 1 /\ \A n \in Place : n # x => k[n] = h[n]
      <4> DEFINE i == h[x] + 1
                 k == [h EXCEPT ![x] = i]
      <4>1. i \in Nat
        BY <1>4, <3>1
      <4> HIDE DEF i
      <4>2. k \in Height /\ k[Nil] = 0 /\ k[x] = i /\ \A n \in Place : n # x => k[n] = h[n]
        BY <1>3, <1>4, <3>1, <4>1 DEF Balanced, Height
      <4> QED
        BY <4>2 DEF i
    <3>3. ASSUME NEW n \in L, NEW s \in Side
          PROVE  k[n] = k[T.child[s][n]] + 0 + Weight(U, n)
      <4> DEFINE c == T.child[s][n]
      <4>1. h[n] \in Nat /\ h[c] \in Nat /\ c \in Place /\ n \in Place
        BY <1>4
      <4>2. CASE c = x
        <5>1. T.parent[x] = n /\ x # T.root /\ n # x /\ SideOf(T, x) = s
          BY <1>4, <3>1, <4>2, SideOfChild, ChildNests
        <5>2. /\ hole = n /\ hs \in Side /\ T.child[hs][n] = x
          BY <1>3, <5>1 DEF HoleAt
        <5>3. hs = s
          BY <1>4, <3>1, <5>1, <5>2, SideOfChild
        <5>4. h[n] = h[c] + 1 + Weight(T, n)
          BY <1>4, <5>2, <5>3
        <5>5. Weight(U, n) = Weight(T, n) /\ Weight(T, n) \in Nat
          BY <1>1, <5>1 DEF Weight, Red
        <5>6. k[n] = h[n] /\ k[c] = h[c] + 1
          BY <3>2, <4>1, <4>2, <5>1
        <5> QED
          BY <4>1, <5>4, <5>5, <5>6
      <4>3. CASE c # x
        <5>1. ~(n = hole /\ s = hs)
          BY <1>3, <1>4, <4>3 DEF HoleAt
        <5>2. h[n] = h[c] + Weight(T, n)
          BY <1>4, <5>1
        <5>3. k[c] = h[c]
          BY <3>2, <4>1, <4>3
        <5>4. CASE n = x
          <6>1. Weight(T, n) = 0 /\ Weight(U, n) = 1
            BY <1>1, <2>2, <5>4 DEF Weight, Red
          <6> QED
            BY <3>2, <4>1, <5>2, <5>3, <5>4, <6>1
        <5>5. CASE n # x
          <6>1. Weight(U, n) = Weight(T, n) /\ Weight(T, n) \in Nat
            BY <1>1, <5>5 DEF Weight, Red
          <6>2. k[n] = h[n]
            BY <3>2, <4>1, <5>5
          <6> QED
            BY <4>1, <5>2, <5>3, <6>1, <6>2
        <5> QED
          BY <5>4, <5>5
      <4> QED
        BY <4>2, <4>3
    <3>4. \A n \in L : Level(U, k, n, Nil, "left")
      BY <1>1, <1>4, <3>3 DEF Level, SameLinks
    <3> QED
      BY <3>2, <3>4 DEF Balanced
  <2> QED
    BY <2>1, <2>2
<1>8. Mended(U, L)
  BY <1>5, <1>6, <1>7 DEF Mended
<1> QED
  BY <1>2, <1>8 DEF U

\* Where delete_fix goes on, the node has a brother and the link to the node
\* is one short.
LEMMA DeleteShort ==
  ASSUME NEW T, NEW L, NEW b, Shape(T, L, b), NEW x, MendingDelete(T, L, x),
         x # T.root, ~Red(T, x)
  PROVE  \E h, sib : Short(T, L, h, x, T.parent[x], SideOf(T, x), sib)
<1>1. PICK h, p, side : Balanced(T, L, h, p, side) /\ HoleAt(T, L, x, p, side)
  BY DEF MendingDelete
<1>2. /\ T.parent[x] = p /\ p \in L /\ side \in Side /\ T.child[side][p] = x
      /\ Other(side) \in Side /\ Other(side) # side
  BY <1>1, Sides DEF HoleAt
<1> DEFINE sib == T.child[Other(side)][p]
<1>3. /\ \A n \in Place : h[n] \in Nat
      /\ L \subseteq Place /\ Nil \in Place /\ Nil \notin L
      /\ h[p] = h[x] + 1 + Weight(T, p)
      /\ h[p] = h[sib] + Weight(T, p)
      /\ h[Nil] = 0
  BY <1>1, <1>2, BalancedHeights DEF Balanced
<1>4. x \in L \cup {Nil} /\ sib \in L \cup {Nil}
  BY <1>2, ShapeTypes DEF MendingDelete
<1>5. sib \in L
  <2>1. sib # Nil
    <3>1. h[x] \in Nat /\ h[sib] \in Nat /\ Weight(T, p) \in Nat
      BY <1>3, <1>4 DEF Weight
    <3>2. \A i, j, k, w \in Nat : k = i + 1 + w /\ k = j + w => j # 0
      OBVIOUS
    <3> HIDE DEF sib
    <3>3. h[p] \in Nat
      BY <1>2, <1>3
    <3> QED
      BY <1>3, <3>1, <3>2, <3>3
  <2> QED
    BY <1>4, <2>1
<1>6. x # p /\ sib # p /\ x # sib
  <2>1. sib # p /\ x # sib
    BY <1>2, <1>3, <1>5, SideOfChild, ChildNests, Sides
  <2>2. CASE x = Nil
    BY <1>2, <1>3, <2>1, <2>2
  <2>3. CASE x # Nil
    BY <1>2, <2>1, <2>3, ChildNests
  <2> QED
    BY <2>1, <2>2, <2>3
<1>7. SideOf(T, x) = side
  BY <1>2, <1>6 DEF SideOf, Side, Other
<1>8. (\A n \in L : Calm(T, n)) /\ ~Red(T, T.root)
  BY DEF MendingDelete, Calm
<1>9. Short(T, L, h, x, p, side, sib)
  BY <1>1, <1>2, <1>4, <1>5, <1>6, <1>7, <1>8 DEF Short
<1> QED
  BY <1>2, <1>7, <1>9

\* The heights around a short link.
LEMMA ShortHeights ==
  ASSUME NEW T, NEW L, NEW b, Shape(T, L, b),
         NEW h, NEW x, NEW p, NEW side, NEW sib, Short(T, L, h, x, p, side, sib)
  PROVE  /\ \A n \in Place : h[n] \in Nat
         /\ L \subseteq Place /\ Nil \in Place /\ Nil \notin L
         /\ \A n \in L, s \in Side : T.child[s][n] \in Place
         /\ h[p] = h[x] + 1 + Weight(T, p)
         /\ h[p] = h[sib] + Weight(T, p)
         /\ h[sib] = h[x] + 1
         /\ \A n \in L, s \in Side : n # p => h[n] = h[T.child[s][n]] + Weight(T, n)
         /\ ~Red(T, Nil)
<1>1. /\ Balanced(T, L, h, p, side) /\ p \in L /\ sib \in L /\ side \in Side
      /\ T.child[side][p] = x /\ T.child[Other(side)][p] = sib
      /\ x \in L \cup {Nil}
  BY DEF Short
<1>2. Other(side) \in Side /\ Other(side) # side
  BY <1>1, Sides
<1>3. /\ \A n \in Place : h[n] \in Nat
      /\ L \subseteq Place /\ Nil \in Place /\ Nil \notin L
      /\ \A n \in L, s \in Side : T.child[s][n] \in Place
      /\ h[p] = h[x] + 1 + Weight(T, p)
      /\ h[p] = h[sib] + Weight(T, p)
      /\ \A n \in L, s \in Side : n # p => h[n] = h[T.child[s][n]] + Weight(T, n)
      /\ ~Red(T, Nil)
  BY <1>1, <1>2, BalancedHeights
<1>4. \A i, j, k, w \in Nat : k = i + 1 + w /\ k = j + w => j = i + 1
  OBVIOUS
<1>5. h[p] \in Nat /\ h[x] \in Nat /\ h[sib] \in Nat /\ Weight(T, p) \in Nat
  BY <1>1, <1>3 DEF Weight
<1> QED
  BY <1>3, <1>4, <1>5
\* Two nodes change colours and places, and so do their heights.
LEMMA RotateSwap ==
  ASSUME NEW T, NEW L, NEW b, Shape(T, L, b), NEW n \in L, NEW side \in Side,
         NEW up \in L, T.child[Other(side)][n] = up,
         NEW V \in Tree, SameLinks(V, T),
         \A m \in L \ {n, up} : Weight(V, m) = Weight(T, m),
         NEW h \in Height, h[Nil] = 0, NEW hole, NEW hs,
         \A m \in L \ {n, up} : Level(T, h, m, hole, hs)
  PROVE  \E k \in Height :
           /\ k[Nil] = 0 /\ k[up] = h[n] /\ k[n] = h[up]
           /\ \A m \in Place : m # n /\ m # up => k[m] = h[m]
           /\ \A m \in L \ {n, up} : Level(Rotate(V, n, side), k, m, hole, hs)
<1>1. Shape(V, L, b) /\ V.child = T.child
  BY SameShape DEF SameLinks
<1>2. up # Nil /\ n # Nil /\ up # n /\ Other(side) \in Side
  BY ShapeTypes, ChildNests, Sides
<1>3. n \in Place \ {Nil} /\ up \in Place \ {Nil} /\ h[n] \in Nat /\ h[up] \in Nat
  BY <1>2 DEF Shape, Place, Height
<1>4. PICK k \in Height :
        /\ k[Nil] = 0 /\ k[up] = h[n] /\ k[n] = h[up]
        /\ \A m \in Place : m # up /\ m # n => k[m] = h[m]
  <2>1. CanChange(h, up, h[n], n, h[up])
    BY <1>2, <1>3, HeightsChange
  <2> QED
    BY <2>1 DEF CanChange
<1>5. ASSUME NEW m \in L \ {n, up}
      PROVE  Level(Rotate(V, n, side), k, m, hole, hs)
  <2>1. Level(V, h, m, hole, hs)
    BY <1>1 DEF Level
  <2> QED
    BY <1>1, <1>2, <1>4, <2>1, RotateLevel
<1> QED
  BY <1>4, <1>5

\* Two recolourings.
LEMMA RecolourTwo ==
  ASSUME NEW T \in Tree, NEW m, NEW n \in Node
  PROVE  LET V == SetRed(SetBlack(T, m), n)
         IN  V \in Tree /\ SameLinks(V, T) /\ V.red = (T.red \ {m}) \cup {n}
<1> DEFINE T1 == SetBlack(T, m)
<1>1. T1 \in Tree /\ SameLinks(T1, T) /\ T1.red = T.red \ {m}
  BY Recolour
<1> HIDE DEF T1
<1>2. SetRed(T1, n) \in Tree /\ SameLinks(SetRed(T1, n), T1) /\ SetRed(T1, n).red = T1.red \cup {n}
  BY <1>1, Recolour
<1> QED
  BY <1>1, <1>2 DEF T1, SameLinks

\* A red brother comes up; x then has a black one.
LEMMA RedBrother ==
  ASSUME NEW T, NEW L, NEW b, Shape(T, L, b),
         NEW h, NEW x, NEW p, NEW side, NEW sib, Short(T, L, h, x, p, side, sib),
         Red(T, sib)
  PROVE  LET U == Rotate(SetRed(SetBlack(T, sib), p), p, side)
         IN  /\ \E b2 : Shape(U, L, b2)
             /\ \E k, sib2 : Short(U, L, k, x, p, side, sib2) /\ ~Red(U, sib2)
<1> DEFINE o == Other(side)
           V == SetRed(SetBlack(T, sib), p)
           U == Rotate(V, p, side)
           near == T.child[side][sib]
           far == T.child[o][sib]
<1>1. /\ Balanced(T, L, h, p, side)
      /\ x \in L \cup {Nil} /\ p \in L /\ sib \in L /\ side \in Side
      /\ T.parent[x] = p /\ T.child[side][p] = x /\ T.child[o][p] = sib
      /\ x # p /\ x # sib /\ sib # p
      /\ ~Red(T, x) /\ x # T.root
      /\ \A n \in L : Calm(T, n)
      /\ ~Red(T, T.root)
  BY DEF Short
<1>2. /\ o \in Side /\ o # side /\ Other(o) = side /\ sib # Nil
  BY <1>1, Sides, ShapeTypes
<1>3. /\ \A n \in Place : h[n] \in Nat
      /\ L \subseteq Place /\ Nil \in Place /\ Nil \notin L
      /\ \A n \in L, s \in Side : T.child[s][n] \in Place
      /\ h[p] = h[sib] + Weight(T, p)
      /\ h[sib] = h[x] + 1
      /\ \A n \in L, s \in Side : n # p => h[n] = h[T.child[s][n]] + Weight(T, n)
      /\ ~Red(T, Nil)
  BY ShortHeights
<1>4. ~Red(T, p) /\ ~Red(T, near) /\ ~Red(T, far)
  BY <1>1, <1>2 DEF Calm
<1>5. V \in Tree /\ SameLinks(V, T) /\ V.red = (T.red \ {sib}) \cup {p}
  BY <1>1, RecolourTwo DEF Shape
<1> HIDE DEF V
<1>6. Shape(V, L, b) /\ V.child = T.child /\ V.root = T.root /\ V.parent = T.parent
  BY <1>5, SameShape DEF SameLinks
<1>7. /\ U \in Tree
      /\ U.root = IF p = T.root THEN sib ELSE T.root
      /\ U.red = V.red
      /\ near \in L \cup {Nil} /\ near # p /\ near # sib
      /\ U.child[side][p] = x
      /\ U.child[o][p] = near
      /\ U.child[side][sib] = p
      /\ U.child[o][sib] = far
      /\ \A m \in L \ {p, sib}, s \in Side :
           /\ T.child[s][m] # sib
           /\ U.child[s][m] = IF T.child[s][m] = p THEN sib ELSE T.child[s][m]
      /\ \A m \in Place \ {p, sib, near} : U.parent[m] = T.parent[m]
      /\ near = Nil => U.parent[Nil] = T.parent[Nil]
  <2>1. V.child[Other(side)][p] = sib /\ V.child[side][sib] = near
    BY <1>1, <1>6
  <2> HIDE DEF near
  <2> QED
    BY <1>1, <1>2, <1>6, <2>1, RotateLinks
<1>8. PICK b2 : Shape(U, L, b2)
  BY <1>1, <1>2, <1>6, RotateShape
<1>9. /\ Weight(T, p) = 1 /\ Weight(T, sib) = 0
      /\ Weight(U, p) = 0 /\ Weight(U, sib) = 1
      /\ \A n \in L \ {p, sib} : Weight(V, n) = Weight(T, n)
  BY <1>1, <1>4, <1>5, <1>7 DEF Weight, Red
<1>10. PICK k \in Height :
         /\ k[Nil] = 0 /\ k[sib] = h[p] /\ k[p] = h[sib]
         /\ \A m \in Place : m # p /\ m # sib => k[m] = h[m]
         /\ \A m \in L \ {p, sib} : Level(U, k, m, p, side)
  <2>1. h \in Height /\ h[Nil] = 0 /\ \A m \in L : Level(T, h, m, p, side)
    BY <1>1 DEF Balanced
  <2> QED
    BY SMTT(30), <1>1, <1>5, <1>9, <2>1, RotateSwap
<1> HIDE DEF U, near, far, o
<1>11. h[sib] = h[near] + 0 /\ h[sib] = h[far] + 0
  BY <1>1, <1>2, <1>3, <1>9 DEF near, far
<1>12. near \in Place /\ far \in Place /\ far # p /\ far # sib /\ x \in Place
  <2>1. far \in L \cup {Nil} /\ (far # Nil => T.parent[far] = sib /\ far # sib)
    BY <1>1, <1>2, ShapeTypes, ChildNests DEF far
  <2>2. T.parent[p] # sib
    BY <1>1, <1>2, RotateLinks DEF o
  <2> QED
    BY <1>1, <1>3, <1>7, <2>1, <2>2
<1>13. k[near] = h[near] /\ k[far] = h[far] /\ k[x] = h[x]
  BY <1>1, <1>7, <1>10, <1>12
<1>14. Level(U, k, p, p, side)
  <2>1. h[x] \in Nat /\ h[near] \in Nat
    BY <1>3, <1>12
  <2>2. k[p] = k[x] + 1 + 0 /\ k[p] = k[near] + 0 + 0
    BY <1>3, <1>10, <1>11, <1>13, <2>1
  <2> QED
    BY <1>1, <1>2, <1>7, <1>9, <2>2, Sides DEF Level, o
<1>15. Level(U, k, sib, p, side)
  <2>1. h[far] \in Nat /\ h[sib] \in Nat
    BY <1>1, <1>3, <1>12
  <2>2. k[sib] = k[p] + 0 + 1 /\ k[sib] = k[far] + 0 + 1
    BY <1>3, <1>9, <1>10, <1>11, <1>13, <2>1
  <2> QED
    BY <1>1, <1>2, <1>7, <1>9, <2>2, Sides DEF Level, o
<1>16. Balanced(U, L, k, p, side)
  BY <1>10, <1>14, <1>15 DEF Balanced
<1>17. \A n \in L : Calm(U, n)
  <2> SUFFICES ASSUME NEW n \in L, NEW s \in Side, Red(U, n), Red(U, U.child[s][n])
               PROVE  FALSE
    BY DEF Calm
  <2>1. n # sib /\ U.child[s][n] # sib
    BY <1>1, <1>5, <1>7 DEF Red
  <2>2. CASE n = p
    BY <1>1, <1>4, <1>5, <1>7, <2>2, Sides DEF Red, o
  <2>3. CASE n # p
    <3>1. U.child[s][n] = T.child[s][n] /\ T.child[s][n] # p
      BY <1>7, <2>1, <2>3
    <3> QED
      BY <1>1, <1>5, <1>7, <2>1, <2>3, <3>1 DEF Calm, Red
  <2> QED
    BY <2>2, <2>3
<1>18. ~Red(U, near) /\ ~Red(U, x) /\ ~Red(U, U.root) /\ x # U.root
  BY <1>1, <1>4, <1>5, <1>7 DEF Red
<1>19. near \in L
  <2>1. h[x] \in Nat /\ h[near] \in Nat
    BY <1>3, <1>12
  <2>2. h[near] # 0
    BY <1>3, <1>11, <2>1
  <2>3. h[Nil] = 0
    BY <1>1 DEF Balanced
  <2> QED
    BY <1>7, <2>2, <2>3
<1>20. x # near
  BY <1>1, <1>2, <1>3, <1>19, ChildNests DEF near
<1>21. U.parent[x] = p
  BY <1>1, <1>7, <1>12, <1>20
<1>22. SideOf(U, x) = side
  BY <1>1, <1>7, <1>20, <1>21 DEF SideOf, Side, Other, o
<1>23. Short(U, L, k, x, p, side, near)
  BY <1>1, <1>7, <1>16, <1>17, <1>18, <1>19, <1>20, <1>21, <1>22 DEF Short, o
<1> QED
  BY <1>8, <1>18, <1>23 DEF U, V

\* Both nephews are black: the brother turns red, and the parent is short.
LEMMA BlackNephews ==
  ASSUME NEW T, NEW L, NEW b, Shape(T, L, b),
         NEW h, NEW x, NEW p, NEW side, NEW sib, Short(T, L, h, x, p, side, sib),
         ~Red(T, sib), \A s \in Side : ~Red(T, T.child[s][sib])
  PROVE  Shape(SetRed(T, sib), L, b) /\ MendingDelete(SetRed(T, sib), L, p)
<1> DEFINE U == SetRed(T, sib)
<1>1. /\ Balanced(T, L, h, p, side)
      /\ p \in L /\ sib \in L /\ side \in Side
      /\ T.child[side][p] = x /\ T.child[Other(side)][p] = sib
      /\ x # p /\ x # sib /\ sib # p
      /\ x \in L \cup {Nil}
      /\ \A n \in L : Calm(T, n)
      /\ ~Red(T, T.root)
  BY DEF Short
<1>2. /\ \A n \in Place : h[n] \in Nat
      /\ L \subseteq Place /\ Nil \in Place /\ Nil \notin L
      /\ \A n \in L, s \in Side : T.child[s][n] \in Place
      /\ h[p] = h[x] + 1 + Weight(T, p)
      /\ h[p] = h[sib] + Weight(T, p)
      /\ h[sib] = h[x] + 1
      /\ \A n \in L, s \in Side : n # p => h[n] = h[T.child[s][n]] + Weight(T, n)
  BY ShortHeights
<1>3. U \in Tree /\ SameLinks(U, T) /\ U.red = T.red \cup {sib}
  BY <1>1, Recolour DEF Shape
<1> HIDE DEF U
<1>4. Shape(U, L, b)
  BY <1>3, SameShape
<1>5. T.parent[sib] = p /\ sib # T.root
  BY <1>1, <1>2, SideOfChild, Sides
<1>6. PICK k \in Height :
        /\ k[Nil] = 0 /\ k[sib] = h[x] /\ k[p] = h[x] + Weight(T, p)
        /\ \A m \in Place : m # sib /\ m # p => k[m] = h[m]
  <2> DEFINE j == h[x] + Weight(T, p)
  <2>1. h[x] \in Nat /\ j \in Nat
    BY <1>1, <1>2 DEF Weight
  <2>2. h \in Height /\ h[Nil] = 0
    BY <1>1 DEF Balanced
  <2>3. sib \in Place \ {Nil} /\ p \in Place \ {Nil}
    BY <1>1, <1>2
  <2> HIDE DEF j
  <2>4. \E k \in Height :
          /\ k[Nil] = 0 /\ k[sib] = h[x] /\ k[p] = j
          /\ \A m \in Place : m # sib /\ m # p => k[m] = h[m]
    <3>1. CanChange(h, sib, h[x], p, j)
      BY <1>1, <2>1, <2>2, <2>3, HeightsChange
    <3> QED
      BY <3>1 DEF CanChange
  <2> QED
    BY <2>4 DEF j
<1> DEFINE hole == IF p = T.root THEN Nil ELSE T.parent[p]
           hs == SideOf(T, p)
<1>7. HoleAt(U, L, p, hole, hs)
  BY <1>1, <1>3, ParentOf DEF HoleAt, SameLinks
<1>8. ASSUME NEW n \in L, NEW s \in Side
      PROVE  k[n] = k[T.child[s][n]] + (IF n = hole /\ s = hs THEN 1 ELSE 0) + Weight(U, n)
  <2> DEFINE c == T.child[s][n]
  <2>0. c \in Place /\ n \in Place /\ n # Nil /\ h[n] \in Nat /\ h[c] \in Nat /\ h[x] \in Nat
        /\ Weight(T, n) \in Nat
    BY <1>1, <1>2 DEF Weight
  <2>1. CASE n = p
    <3>1. ~(n = hole /\ s = hs)
      BY <1>1, <2>0, <2>1, ParentOf
    <3>2. Weight(U, n) = Weight(T, n)
      BY <1>1, <1>3, <2>1 DEF Weight, Red
    <3>3. c = x \/ c = sib
      BY <1>1, <2>1, Sides
    <3>4. k[c] = h[x]
      BY <1>1, <1>6, <2>0, <3>3
    <3>5. k[n] = h[x] + 0 + Weight(T, n)
      BY <1>6, <2>0, <2>1
    <3> QED
      BY <3>1, <3>2, <3>4, <3>5
  <2>2. CASE n # p /\ c = p
    <3>1. T.parent[p] = n /\ p # T.root /\ SideOf(T, p) = s
      BY <1>1, <1>2, <2>2, SideOfChild
    <3>2. n = hole /\ s = hs
      BY <3>1
    <3>3. n # sib
      <4>1. T.parent[p] # sib
        BY <1>1, <1>2, RotateLinks
      <4> QED
        BY <3>1, <4>1
    <3>4. Weight(U, n) = Weight(T, n)
      BY <1>3, <3>3 DEF Weight, Red
    <3>5. k[n] = h[n] /\ h[n] = h[p] + Weight(T, n)
      BY <1>2, <1>6, <2>0, <2>2, <3>3
    <3>6. Weight(T, p) \in Nat
      BY DEF Weight
    <3>7. k[n] = k[c] + 1 + Weight(U, n)
      BY <1>2, <1>6, <2>0, <2>2, <3>4, <3>5, <3>6
    <3> QED
      BY <3>2, <3>7
  <2>3. CASE n # p /\ c # p
    <3>1. ~(n = hole /\ s = hs)
      BY <1>1, <2>0, <2>3, ParentOf
    <3>2. c # sib
      BY <1>1, <1>2, <1>5, <2>3, ChildNests
    <3>3. k[c] = h[c] /\ h[n] = h[c] + Weight(T, n)
      BY <1>2, <1>6, <2>0, <2>3, <3>2
    <3>4. CASE n = sib
      <4>1. Weight(T, n) = 1 /\ Weight(U, n) = 0 /\ k[n] = h[x] /\ h[n] = h[x] + 1
        BY <1>2, <1>3, <1>6, <3>4 DEF Weight, Red
      <4>2. k[n] = k[c] + 0 + Weight(U, n)
        BY <2>0, <3>3, <4>1
      <4> QED
        BY <3>1, <4>2
    <3>5. CASE n # sib
      <4>1. Weight(T, n) = Weight(U, n) /\ k[n] = h[n]
        BY <1>3, <1>6, <2>0, <2>3, <3>5 DEF Weight, Red
      <4>2. k[n] = k[c] + 0 + Weight(U, n)
        BY <2>0, <3>3, <4>1
      <4> QED
        BY <3>1, <4>2
    <3> QED
      BY <3>4, <3>5
  <2> QED
    BY <2>1, <2>2, <2>3
<1>9. Balanced(U, L, k, hole, hs)
  <2> HIDE DEF hole, hs
  <2> QED
    BY <1>3, <1>6, <1>8 DEF Balanced, Level, SameLinks
<1>10. ASSUME NEW n \in L, NEW s \in Side, Red(U, n), Red(U, U.child[s][n])
       PROVE  n = p
  <2> DEFINE c == T.child[s][n]
  <2>1. Red(U, c)
    BY <1>3, <1>10 DEF SameLinks
  <2>2. CASE c = sib
    BY <1>1, <1>2, <1>5, <2>2, ChildNests
  <2>3. CASE c # sib
    <3>1. Red(T, c)
      BY <1>3, <2>1, <2>3 DEF Red
    <3>2. CASE n = sib
      BY <3>1, <3>2
    <3>3. CASE n # sib
      BY <1>1, <1>3, <1>10, <3>1, <3>3 DEF Red, Calm
    <3> QED
      BY <3>2, <3>3
  <2> QED
    BY <2>2, <2>3
<1>11. ~Red(U, U.root)
  BY <1>1, <1>3, <1>5 DEF Red, SameLinks
<1>12. MendingDelete(U, L, p)
  <2> HIDE DEF hole, hs
  <2> QED
    BY <1>1, <1>7, <1>9, <1>10, <1>11 DEF MendingDelete
<1> QED
  BY <1>4, <1>12 DEF U

\* Only the near nephew is red: it comes up and is the new brother.
LEMMA DeleteNear ==
  ASSUME NEW T, NEW L, NEW b, Shape(T, L, b),
         NEW h, NEW x, NEW p, NEW side, NEW sib, Short(T, L, h, x, p, side, sib),
         ~Red(T, sib), ~Red(T, T.child[Other(side)][sib]),
         NEW near, near = T.child[side][sib], Red(T, near)
  PROVE  LET U == Rotate(SetRed(SetBlack(T, near), sib), sib, Other(side))
         IN  /\ \E b2 : Shape(U, L, b2)
             /\ \E k : Short(U, L, k, x, p, side, near)
             /\ ~Red(U, near) /\ Red(U, U.child[Other(side)][near])
<1> DEFINE o == Other(side)
           V == SetRed(SetBlack(T, near), sib)
           U == Rotate(V, sib, o)
           far == T.child[o][sib]
           inner == T.child[o][near]
           outer == T.child[side][near]
<1>1. /\ Balanced(T, L, h, p, side)
      /\ x \in L \cup {Nil} /\ p \in L /\ sib \in L /\ side \in Side
      /\ T.parent[x] = p /\ T.child[side][p] = x /\ T.child[o][p] = sib
      /\ x # p /\ x # sib /\ sib # p
      /\ ~Red(T, x) /\ x # T.root
      /\ \A n \in L : Calm(T, n)
      /\ ~Red(T, T.root)
  BY DEF Short
<1>2. /\ o \in Side /\ o # side /\ Other(o) = side /\ sib # Nil
  BY <1>1, Sides, ShapeTypes
<1>3. /\ \A n \in Place : h[n] \in Nat
      /\ L \subseteq Place /\ Nil \in Place /\ Nil \notin L
      /\ \A n \in L, s \in Side : T.child[s][n] \in Place
      /\ \A n \in L, s \in Side : n # p => h[n] = h[T.child[s][n]] + Weight(T, n)
      /\ ~Red(T, Nil)
  BY ShortHeights
<1>4. near \in L /\ near # Nil /\ T.parent[near] = sib /\ near # sib
  BY <1>1, <1>3, ChildNests
<1>5. V \in Tree /\ SameLinks(V, T) /\ V.red = (T.red \ {near}) \cup {sib}
  BY <1>1, RecolourTwo DEF Shape
<1> HIDE DEF V
<1>6. Shape(V, L, b) /\ V.child = T.child /\ V.root = T.root /\ V.parent = T.parent
  BY <1>5, SameShape DEF SameLinks
<1>7. sib # T.root /\ T.parent[sib] = p
  BY <1>1, <1>2, SideOfChild
<1>8. near # p /\ far # p
  <2>1. T.parent[p] # sib
    BY <1>1, <1>2, RotateLinks
  <2>2. far # Nil => T.parent[far] = sib
    BY <1>1, <1>2, ChildNests
  <2> QED
    BY <1>1, <1>3, <1>4, <2>1, <2>2
<1>9. /\ U \in Tree
      /\ U.root = T.root
      /\ U.red = V.red
      /\ inner \in L \cup {Nil} /\ inner # sib /\ inner # near
      /\ U.child[o][sib] = far
      /\ U.child[side][sib] = inner
      /\ U.child[o][near] = sib
      /\ U.child[side][near] = outer
      /\ \A m \in L \ {sib, near}, s \in Side :
           /\ T.child[s][m] # near
           /\ U.child[s][m] = IF T.child[s][m] = sib THEN near ELSE T.child[s][m]
      /\ \A m \in Place \ {sib, near, inner} : U.parent[m] = T.parent[m]
      /\ inner = Nil => U.parent[Nil] = T.parent[Nil]
  <2>1. V.child[Other(o)][sib] = near /\ V.child[o][near] = inner
        /\ V.child[o][sib] = far /\ V.child[side][near] = outer
    BY <1>2, <1>6
  <2> HIDE DEF inner, far, outer, o
  <2> QED
    BY SMTT(30), <1>1, <1>2, <1>4, <1>6, <1>7, <2>1, RotateLinks
<1>10. PICK b2 : Shape(U, L, b2)
  BY <1>1, <1>2, <1>4, <1>6, RotateShape
<1>11. /\ Weight(T, sib) = 1 /\ Weight(T, near) = 0
       /\ Weight(U, sib) = 0 /\ Weight(U, near) = 1
       /\ \A n \in L \ {sib, near} : Weight(V, n) = Weight(T, n)
  BY <1>4, <1>5, <1>9 DEF Weight, Red
<1>12. PICK k \in Height :
         /\ k[Nil] = 0 /\ k[near] = h[sib] /\ k[sib] = h[near]
         /\ \A m \in Place : m # sib /\ m # near => k[m] = h[m]
         /\ \A m \in L \ {sib, near} : Level(U, k, m, p, side)
  <2>1. h \in Height /\ h[Nil] = 0 /\ \A m \in L : Level(T, h, m, p, side)
    BY <1>1 DEF Balanced
  <2>2. T.child[Other(o)][sib] = near /\ \A m \in L \ {sib, near} : Level(T, h, m, p, side)
    BY <1>2, <2>1
  <2> HIDE DEF o
  <2> QED
    BY SMTT(30), <1>1, <1>2, <1>4, <1>5, <1>11, <2>1, <2>2, RotateSwap
<1>13. far # near /\ far # sib /\ outer # near /\ outer # sib /\ far \in Place /\ outer \in Place
       /\ ~Red(T, inner) /\ ~Red(T, far)
  <2>1. far # Nil => far # sib
    BY <1>1, <1>2, ChildNests
  <2>2. outer # Nil => outer # near /\ T.parent[outer] = near
    BY <1>1, <1>4, ChildNests
  <2>3. outer # sib
    BY <1>7, <1>8, <1>2, <2>2
  <2> QED
    BY <1>1, <1>2, <1>3, <1>4, <2>1, <2>2, <2>3, SideOfChild DEF Calm
<1> HIDE DEF U, far, inner, outer, o
<1>14. /\ h[sib] = h[near] + 1 /\ h[sib] = h[far] + 1
       /\ h[near] = h[inner] + 0 /\ h[near] = h[outer] + 0
  BY <1>1, <1>2, <1>3, <1>4, <1>8, <1>11 DEF far, inner, outer
<1>15. inner \in Place /\ k[inner] = h[inner] /\ k[far] = h[far] /\ k[outer] = h[outer]
       /\ h[inner] \in Nat /\ h[far] \in Nat /\ h[outer] \in Nat /\ h[near] \in Nat
  BY <1>3, <1>4, <1>9, <1>12, <1>13
<1>16. Level(U, k, sib, p, side)
  <2>1. k[sib] = k[far] + 0 + 0 /\ k[sib] = k[inner] + 0 + 0
    BY <1>12, <1>14, <1>15
  <2> QED
    BY <1>1, <1>2, <1>9, <1>11, <2>1, Sides DEF Level, o
<1>17. Level(U, k, near, p, side)
  <2>1. k[near] = k[sib] + 0 + 1 /\ k[near] = k[outer] + 0 + 1
    BY <1>12, <1>14, <1>15
  <2> QED
    BY <1>1, <1>2, <1>8, <1>9, <1>11, <2>1, Sides DEF Level, o
<1>18. Balanced(U, L, k, p, side)
  BY <1>12, <1>16, <1>17 DEF Balanced
<1>19. \A n \in L : Calm(U, n)
  <2> SUFFICES ASSUME NEW n \in L, NEW s \in Side, Red(U, n), Red(U, U.child[s][n])
               PROVE  FALSE
    BY DEF Calm
  <2>1. n # near /\ U.child[s][n] # near
    BY <1>4, <1>5, <1>9 DEF Red
  <2>2. CASE n = sib
    BY <1>1, <1>5, <1>9, <1>13, <2>2, Sides DEF Red, o
  <2>3. CASE n # sib
    <3>1. U.child[s][n] = T.child[s][n] /\ T.child[s][n] # sib
      BY <1>9, <2>1, <2>3
    <3> QED
      BY <1>1, <1>5, <1>9, <2>1, <2>3, <3>1 DEF Calm, Red
  <2> QED
    BY <2>2, <2>3
<1>20. ~Red(U, near) /\ ~Red(U, x) /\ ~Red(U, U.root) /\ x # U.root /\ Red(U, sib)
  BY <1>1, <1>4, <1>5, <1>7, <1>9 DEF Red
<1>21. x # near /\ x \in Place /\ U.child[side][p] = x /\ U.child[o][p] = near
  BY <1>1, <1>2, <1>3, <1>8, <1>9
<1>22. U.parent[x] = p
  <2>1. inner # Nil => T.parent[inner] = near
    BY <1>2, <1>4, ChildNests DEF inner
  <2> QED
    BY <1>1, <1>8, <1>9, <1>21, <2>1
<1>23. SideOf(U, x) = side
  BY <1>1, <1>21, <1>22 DEF SideOf, Side, Other, o
<1>24. Short(U, L, k, x, p, side, near)
  BY <1>1, <1>4, <1>8, <1>18, <1>19, <1>20, <1>21, <1>22, <1>23 DEF Short, o
<1> QED
  BY <1>9, <1>10, <1>20, <1>24 DEF U, V, o

\* The far nephew is red: the brother comes up in the parent's colour, and the
\* loop ends.
FarColours(T, p, sib, far) ==
  SetBlack(SetBlack(IF Red(T, p) THEN SetRed(T, sib) ELSE SetBlack(T, sib), p), far)

\* The recolouring before the last rotation of delete_fix.
LEMMA FarRecolours ==
  ASSUME NEW T \in Tree, NEW p \in Node, NEW sib \in Node, NEW far \in Node
  PROVE  LET V == FarColours(T, p, sib, far)
         IN  /\ V \in Tree /\ SameLinks(V, T)
             /\ Red(T, p) => V.red = ((T.red \cup {sib}) \ {p}) \ {far}
             /\ ~Red(T, p) => V.red = ((T.red \ {sib}) \ {p}) \ {far}
<1> DEFINE T1 == IF Red(T, p) THEN SetRed(T, sib) ELSE SetBlack(T, sib)
           T2 == SetBlack(T1, p)
<1>1. /\ T1 \in Tree /\ SameLinks(T1, T)
      /\ T1.red = IF Red(T, p) THEN T.red \cup {sib} ELSE T.red \ {sib}
  BY Recolour
<1> HIDE DEF T1
<1>2. T2 \in Tree /\ SameLinks(T2, T1) /\ T2.red = T1.red \ {p}
  BY <1>1, Recolour
<1> HIDE DEF T2
<1>3. SetBlack(T2, far) \in Tree /\ SameLinks(SetBlack(T2, far), T2)
      /\ SetBlack(T2, far).red = T2.red \ {far}
  BY <1>2, Recolour
<1>4. FarColours(T, p, sib, far) = SetBlack(T2, far)
  BY DEF FarColours, T1, T2
<1> QED
  BY <1>1, <1>2, <1>3, <1>4 DEF SameLinks

\* delete_fix with a red far nephew: recolouring and one rotation leave no
\* link short, and the code goes to the root.
LEMMA DeleteFar ==
  ASSUME NEW T, NEW L, NEW b, Shape(T, L, b),
         NEW h, NEW x, NEW p, NEW side, NEW sib, Short(T, L, h, x, p, side, sib),
         NEW far, far = T.child[Other(side)][sib], Red(T, far)
  PROVE  LET U == Rotate(FarColours(T, p, sib, far), p, side)
         IN  (\E b2 : Shape(U, L, b2)) /\ MendingDelete(U, L, U.root)
<1> DEFINE o == Other(side)
           V == FarColours(T, p, sib, far)
           U == Rotate(V, p, side)
           near == T.child[side][sib]
<1>1. /\ Balanced(T, L, h, p, side)
      /\ x \in L \cup {Nil} /\ p \in L /\ sib \in L /\ side \in Side
      /\ T.parent[x] = p /\ T.child[side][p] = x /\ T.child[o][p] = sib
      /\ x # p /\ x # sib /\ sib # p
      /\ \A n \in L : Calm(T, n)
  BY DEF Short
<1>2. o \in Side /\ o # side /\ Other(o) = side /\ sib # Nil
  BY <1>1, Sides, ShapeTypes
<1>3. /\ \A n \in Place : h[n] \in Nat
      /\ L \subseteq Place /\ Nil \in Place /\ Nil \notin L
      /\ \A n \in L, s \in Side : T.child[s][n] \in Place
      /\ h[p] = h[sib] + Weight(T, p)
      /\ h[sib] = h[x] + 1
      /\ \A n \in L, s \in Side : n # p => h[n] = h[T.child[s][n]] + Weight(T, n)
      /\ ~Red(T, Nil)
  BY ShortHeights
<1>4. far \in L /\ far # Nil /\ T.parent[far] = sib /\ far # sib /\ ~Red(T, sib)
  BY <1>1, <1>2, <1>3, ChildNests DEF Calm
<1>5. /\ V \in Tree /\ SameLinks(V, T)
      /\ Red(T, p) => V.red = ((T.red \cup {sib}) \ {p}) \ {far}
      /\ ~Red(T, p) => V.red = ((T.red \ {sib}) \ {p}) \ {far}
  <2>1. T \in Tree /\ sib \in Node /\ p \in Node /\ far \in Node
    BY <1>1, <1>4 DEF Shape
  <2> QED
    BY SMTT(30), <2>1, FarRecolours
<1> HIDE DEF V
<1>6. Shape(V, L, b) /\ V.child = T.child /\ V.root = T.root /\ V.parent = T.parent
  BY <1>5, SameShape DEF SameLinks
<1>7. /\ U \in Tree
      /\ U.red = V.red
      /\ near \in L \cup {Nil} /\ near # p /\ near # sib
      /\ T.parent[p] # sib
      /\ U.child[side][p] = x
      /\ U.child[o][p] = near
      /\ U.child[side][sib] = p
      /\ U.child[o][sib] = far
      /\ \A m \in L \ {p, sib}, s \in Side :
           /\ T.child[s][m] # sib
           /\ U.child[s][m] = IF T.child[s][m] = p THEN sib ELSE T.child[s][m]
  <2>1. V.child[Other(side)][p] = sib /\ V.child[side][sib] = near /\ V.child[o][sib] = far
    BY <1>1, <1>6
  <2> HIDE DEF near
  <2> QED
    BY <1>1, <1>2, <1>6, <2>1, RotateLinks
<1>8. far # p /\ far # x /\ far # near
  <2>1. near # Nil => far # near
    BY <1>1, <1>2, SideOfChild
  <2> QED
    BY <1>1, <1>3, <1>4, <1>7, <2>1
<1>9. PICK b2 : Shape(U, L, b2)
  BY <1>1, <1>2, <1>6, RotateShape
<1>10. /\ Weight(T, sib) = 1 /\ Weight(T, far) = 0
       /\ Weight(V, far) = 1 /\ Weight(U, p) = 1 /\ Weight(U, sib) = Weight(T, p)
       /\ \A n \in L \ {p, sib, far} : Weight(V, n) = Weight(T, n)
  BY <1>1, <1>4, <1>5, <1>7 DEF Weight, Red
<1>11. PICK h4 \in Height :
         /\ h4[Nil] = 0 /\ h4[far] = h[far] + 1 /\ h4[p] = h[p]
         /\ \A m \in Place : m # far => h4[m] = h[m]
  <2> DEFINE i == h[far] + 1
             j == h[p]
  <2>1. h \in Height /\ h[Nil] = 0
    BY <1>1 DEF Balanced
  <2>2. far \in Place \ {Nil} /\ p \in Place \ {Nil} /\ i \in Nat /\ j \in Nat
    BY <1>1, <1>3, <1>4
  <2> HIDE DEF i, j
  <2>3. \E k \in Height :
          /\ k[Nil] = 0 /\ k[far] = i /\ k[p] = j
          /\ \A m \in Place : m # far /\ m # p => k[m] = h[m]
    <3>1. CanChange(h, far, i, p, j)
      BY <1>8, <2>1, <2>2, HeightsChange
    <3> QED
      BY <3>1 DEF CanChange
  <2> QED
    BY <2>3 DEF i, j
<1>12. ASSUME NEW m \in L \ {p, sib}
       PROVE  Level(V, h4, m, Nil, side)
  <2> SUFFICES ASSUME NEW s \in Side
               PROVE  h4[m] = h4[T.child[s][m]] + 0 + Weight(V, m)
    BY <1>3, <1>6 DEF Level
  <2> DEFINE c == T.child[s][m]
  <2>1. c # far
    BY <1>1, <1>4, ChildNests
  <2>2. c \in Place /\ m \in Place /\ h4[c] = h[c] /\ h[c] \in Nat
    BY <1>3, <1>11, <2>1
  <2>3. h[m] = h[c] + Weight(T, m)
    BY <1>3
  <2> HIDE DEF c
  <2>4. m = far => h4[m] = h4[c] + 0 + Weight(V, m)
    BY <1>10, <1>11, <2>2, <2>3
  <2>5. ASSUME m # far PROVE h4[m] = h4[c] + 0 + Weight(V, m)
    <3>1. Weight(V, m) = Weight(T, m) /\ Weight(T, m) \in Nat
      BY <1>10, <2>5 DEF Weight
    <3> QED
      BY <1>11, <2>2, <2>3, <2>5, <3>1
  <2> QED
    BY <2>4, <2>5 DEF c
<1>13. PICK k \in Height :
         /\ k[Nil] = 0 /\ k[sib] = h4[p] /\ k[p] = h4[sib]
         /\ \A m \in Place : m # p /\ m # sib => k[m] = h4[m]
         /\ \A m \in L \ {p, sib} : Level(U, k, m, Nil, side)
  <2>1. V.child[Other(side)][p] = sib /\ SameLinks(V, V) /\ V \in Tree /\ Shape(V, L, b)
        /\ p \in L /\ side \in Side /\ sib \in L
    BY <1>1, <1>5, <1>6 DEF SameLinks
  <2>2. h4 \in Height /\ h4[Nil] = 0
    BY <1>11
  <2>3. /\ \A m \in L \ {p, sib} : Level(V, h4, m, Nil, side)
        /\ \A m \in L \ {p, sib} : Weight(V, m) = Weight(V, m)
    BY <1>12
  <2> QED
    BY SMTT(30), <2>1, <2>2, <2>3, RotateSwap
<1> HIDE DEF U, near, o
<1>14. h[sib] = h[near] + 1 /\ h[sib] = h[far] + 1
  BY <1>1, <1>2, <1>3, <1>10 DEF near, o
<1>15. /\ k[x] = h[x] /\ k[near] = h[near] /\ k[far] = h[far] + 1
       /\ k[p] = h[sib] /\ k[sib] = h[p]
       /\ h[x] \in Nat /\ h[near] \in Nat /\ h[far] \in Nat /\ Weight(T, p) \in Nat
  <2>1. x \in Place /\ near \in Place /\ far \in Place /\ sib \in Place
    BY <1>1, <1>3, <1>4, <1>7
  <2> QED
    BY <1>1, <1>3, <1>4, <1>7, <1>8, <1>11, <1>13, <2>1 DEF Weight
<1>16. Level(U, k, p, Nil, side)
  <2>1. k[p] = k[x] + 0 + 1 /\ k[p] = k[near] + 0 + 1
    BY <1>3, <1>14, <1>15
  <2> QED
    BY <1>1, <1>3, <1>7, <1>10, <2>1, Sides DEF Level, o
<1>17. Level(U, k, sib, Nil, side)
  <2>1. k[sib] = k[p] + 0 + Weight(T, p) /\ k[sib] = k[far] + 0 + Weight(T, p)
    BY <1>3, <1>14, <1>15
  <2> QED
    BY <1>1, <1>3, <1>7, <1>10, <2>1, Sides DEF Level, o
<1>18. Balanced(U, L, k, Nil, side)
  BY <1>13, <1>16, <1>17 DEF Balanced
<1>19. ASSUME NEW n \in L, NEW s \in Side, Red(U, n), Red(U, U.child[s][n])
       PROVE  FALSE
  <2>1. n # p /\ n # far /\ U.child[s][n] # p /\ U.child[s][n] # far
    BY <1>5, <1>7, <1>19 DEF Red
  <2>2. n # sib
    BY <1>1, <1>7, <2>1, Sides DEF o
  <2>3. Red(T, n)
    BY <1>5, <1>7, <1>19, <2>1, <2>2 DEF Red
  <2>4. CASE T.child[s][n] = p
    <3>1. Red(T, p)
      BY <1>4, <1>5, <1>7, <1>19, <2>1, <2>2, <2>4 DEF Red
    <3> QED
      BY <1>1, <2>3, <2>4, <3>1 DEF Calm
  <2>5. CASE T.child[s][n] # p
    <3>1. U.child[s][n] = T.child[s][n] /\ T.child[s][n] # sib
      BY <1>7, <2>1, <2>2, <2>5
    <3>2. Red(T, T.child[s][n])
      BY <1>5, <1>7, <1>19, <3>1 DEF Red
    <3> QED
      BY <1>1, <2>3, <3>2 DEF Calm
  <2> QED
    BY <2>4, <2>5
<1>20. U.root \in L \cup {Nil}
  BY <1>9 DEF Shape, RootOk
<1>21. MendingDelete(U, L, U.root)
  <2>1. HoleAt(U, L, U.root, Nil, side)
    BY DEF HoleAt
  <2> QED
    BY <1>18, <1>19, <1>20, <2>1 DEF MendingDelete
<1> QED
  BY <1>9, <1>21 DEF U, V


(***************************************************************************)
(* A new leaf.                                                             *)
(***************************************************************************)
LEMMA LeafFields ==
  ASSUME NEW T \in Tree, NEW n \in Node, NEW above \in Place, NEW k \in Key
  PROVE  LET U == Leaf(T, n, above, k)
         IN  /\ U \in Tree /\ U.root = T.root /\ U.red = T.red
             /\ \A s \in Side, m \in Place : U.child[s][m] = IF m = n THEN Nil ELSE T.child[s][m]
             /\ \A m \in Place : U.parent[m] = IF m = n THEN above ELSE T.parent[m]
             /\ \A m \in Node : U.key[m] = IF m = n THEN k ELSE T.key[m]
             /\ \A m \in Node : U.data[m] = IF m = n THEN k ELSE T.data[m]
<1> DEFINE U == Leaf(T, n, above, k)
           C == [side \in Side |-> [T.child[side] EXCEPT ![n] = Nil]]
<1>1. C \in [Side -> [Place -> Place]]
  BY DEF Tree, Place
<1>2. \A s \in Side, m \in Place : C[s][m] = IF m = n THEN Nil ELSE T.child[s][m]
  BY DEF Tree, Place
<1> HIDE DEF C
<1>3. U = [T EXCEPT !.key[n] = k, !.data[n] = k, !.parent[n] = above, !.child = C]
  BY DEF Leaf, C
<1>4. /\ U.root = T.root /\ U.red = T.red /\ U.child = C
      /\ U.parent = [T.parent EXCEPT ![n] = above]
      /\ U.key = [T.key EXCEPT ![n] = k] /\ U.data = [T.data EXCEPT ![n] = k]
      /\ U = [root |-> U.root, child |-> U.child, parent |-> U.parent, red |-> U.red,
              key |-> U.key, data |-> U.data]
  BY <1>3 DEF Tree
<1>5. T.parent \in [Place -> Place] /\ T.key \in [Node -> Key] /\ T.data \in [Node -> Key]
      /\ T.root \in Place /\ T.red \in SUBSET Node /\ n \in Place
  BY DEF Tree, Place
<1> HIDE DEF U
<1>6. U.parent \in [Place -> Place] /\ U.key \in [Node -> Key] /\ U.data \in [Node -> Key]
  BY <1>4, <1>5
<1>7. U \in Tree
  BY <1>1, <1>4, <1>5, <1>6 DEF Tree
<1> QED
  BY <1>2, <1>4, <1>5, <1>7 DEF U

\* The tree with n hung under cur.
Hung(T, n, cur, k, side) == SetRed([Leaf(T, n, cur, k) EXCEPT !.child[side][cur] = n], n)

\* What hanging a new red leaf changes.
LEMMA HangFields ==
  ASSUME NEW T \in Tree, NEW n \in Node, NEW cur \in Node, cur # n, NEW k \in Key, NEW side \in Side
  PROVE  LET U == Hung(T, n, cur, k, side)
         IN  /\ U \in Tree /\ U.root = T.root /\ U.red = T.red \cup {n}
             /\ \A s \in Side, m \in Place :
                  U.child[s][m] = IF m = n THEN Nil
                                  ELSE IF m = cur /\ s = side THEN n ELSE T.child[s][m]
             /\ \A m \in Place : U.parent[m] = IF m = n THEN cur ELSE T.parent[m]
             /\ \A m \in Node : U.key[m] = IF m = n THEN k ELSE T.key[m]
             /\ \A m \in Node : U.data[m] = IF m = n THEN k ELSE T.data[m]
<1> DEFINE V == Leaf(T, n, cur, k)
           W == [V EXCEPT !.child[side][cur] = n]
<1>1. /\ V \in Tree /\ V.root = T.root /\ V.red = T.red
      /\ \A s \in Side, m \in Place : V.child[s][m] = IF m = n THEN Nil ELSE T.child[s][m]
      /\ \A m \in Place : V.parent[m] = IF m = n THEN cur ELSE T.parent[m]
      /\ \A m \in Node : V.key[m] = IF m = n THEN k ELSE T.key[m]
      /\ \A m \in Node : V.data[m] = IF m = n THEN k ELSE T.data[m]
  <2>1. cur \in Place
    BY DEF Place
  <2> QED
    BY <2>1, LeafFields
<1> HIDE DEF V
<1>2. /\ W \in Tree /\ W.root = V.root /\ W.red = V.red /\ W.parent = V.parent
      /\ W.key = V.key /\ W.data = V.data
      /\ \A s \in Side, m \in Place :
           W.child[s][m] = IF m = cur /\ s = side THEN n ELSE V.child[s][m]
  BY <1>1 DEF Tree, Place
<1> HIDE DEF W
<1>3. SetRed(W, n) \in Tree /\ SameLinks(SetRed(W, n), W) /\ SetRed(W, n).red = W.red \cup {n}
  BY <1>2, Recolour
<1>4. SetRed(W, n) = Hung(T, n, cur, k, side)
  BY DEF W, V, Hung
<1> QED
  BY <1>1, <1>2, <1>3, <1>4 DEF SameLinks

\* A search goes to the side of n's key on which the key is.
LEMMA TowardBefore ==
  ASSUME NEW T \in Tree, NEW n \in Node, NEW k \in Key, k # T.key[n]
  PROVE  Toward(T, n, k) \in Side /\ Before(Toward(T, n, k), k, T.key[n])
<1>1. T.key[n] \in Int /\ k \in Int
  BY DEF Tree, Key
<1> QED
  BY <1>1 DEF Toward, Side, Before

\* The leaf owns the part of what cur owns that the way down has reached.
LEMMA LeafShape ==
  ASSUME NEW T, NEW L, NEW b, Shape(T, L, b), NEW cur \in L, NEW n \in Node \ L, NEW k \in Key,
         Within(b, cur, k), NEW side \in Side, Before(side, k, T.key[cur]),
         T.child[side][cur] = Nil,
         NEW U \in Tree, U.root = T.root,
         \A s \in Side, m \in Place :
                  U.child[s][m] = IF m = n THEN Nil
                                  ELSE IF m = cur /\ s = side THEN n ELSE T.child[s][m],
         \A m \in Place : U.parent[m] = IF m = n THEN cur ELSE T.parent[m],
         \A m \in Node : U.key[m] = IF m = n THEN k ELSE T.key[m]
  PROVE  \E b2 : Shape(U, L \cup {n}, b2)
<1> DEFINE o == Other(side)
           b2 == [s \in Side |-> [m \in Node |->
                    IF m # n THEN b[s][m] ELSE IF s = side THEN b[side][cur] ELSE T.key[cur]]]
           M == L \cup {n}
<1>1. /\ L \subseteq Node /\ M \subseteq Node /\ Node \subseteq Place /\ Nil \notin Node /\ Nil \in Place
      /\ n \notin L /\ cur # n /\ b \in Bound
      /\ o \in Side /\ o # side /\ \A s \in Side : s = side \/ s = o
  BY Sides, RbtreeAssumption DEF Shape, Place
<1>2. T.key[cur] \in -1 .. MaxKey + 1 /\ T.key[cur] \in Int /\ k \in Int
  <2>1. T.key[cur] \in 0 .. MaxKey
    BY ShapeTypes DEF Key
  <2> QED
    BY <2>1, RbtreeAssumption DEF Key
<1>3. b2 \in Bound
  BY <1>1, <1>2 DEF Bound
<1>4. /\ \A s \in Side, m \in L : b2[s][m] = b[s][m]
      /\ b2[side][n] = b[side][cur] /\ b2[o][n] = T.key[cur]
  BY <1>1
<1> HIDE DEF b2, o
<1>5. RootOk(U, M, b2)
  <2>1. RootOk(T, L, b) /\ T.root \in L
    <3>1. RootOk(T, L, b)
      BY DEF Shape
    <3> QED
      BY <3>1 DEF RootOk
  <2> QED
    BY <1>1, <1>4, <2>1 DEF RootOk
<1>6. ASSUME NEW m \in L
      PROVE  NodeOk(U, M, b2, m)
  <2>0. NodeOk(T, L, b, m) /\ m # n /\ m \in Node /\ m \in Place
    BY <1>1 DEF Shape
  <2>1. Within(b2, m, U.key[m])
    BY <1>1, <1>4, <2>0 DEF NodeOk, Within
  <2>2. ASSUME NEW s \in Side PROVE LinkOk(U, M, b2, m, s)
    <3>1. LinkOk(T, L, b, m, s)
      BY <2>0 DEF NodeOk
    <3>2. CASE m = cur /\ s = side
      <4>1. U.child[s][m] = n /\ U.parent[n] = cur
        BY <1>1, <2>0, <3>2
      <4> QED
        BY <1>1, <1>4, <2>0, <3>2, <4>1 DEF LinkOk, o
    <3>3. CASE ~(m = cur /\ s = side)
      <4>1. U.child[s][m] = T.child[s][m] /\ T.child[s][m] \in L \cup {Nil}
        BY <1>1, <2>0, <3>1, <3>3 DEF LinkOk
      <4>2. T.child[s][m] # Nil => U.parent[T.child[s][m]] = T.parent[T.child[s][m]]
        BY <1>1, <4>1
      <4>3. Other(s) \in Side
        BY Sides
      <4> QED
        BY <1>1, <1>4, <2>0, <3>1, <4>1, <4>2, <4>3 DEF LinkOk
    <3> QED
      BY <3>2, <3>3
  <2>3. ASSUME m # U.root
        PROVE  U.parent[m] \in M /\ \E s \in Side : U.child[s][U.parent[m]] = m
    <3>1. U.parent[m] = T.parent[m]
      BY <1>1, <2>0
    <3>2. PICK s \in Side : T.parent[m] \in L /\ T.child[s][T.parent[m]] = m
      BY <2>0, <2>3 DEF NodeOk
    <3>3. U.child[s][T.parent[m]] = m
      BY <1>1, <2>0, <3>2
    <3> QED
      BY <3>1, <3>2, <3>3
  <2> QED
    BY <2>1, <2>2, <2>3 DEF NodeOk
<1>7. NodeOk(U, M, b2, n)
  <2>1. Within(b2, n, U.key[n])
    <3>1. Before(side, b[side][cur], k) /\ Before(o, T.key[cur], k)
      BY <1>1, <1>2, Befores DEF Within, o
    <3> QED
      BY <1>1, <1>4, <3>1 DEF Within
  <2>2. \A s \in Side : U.child[s][n] = Nil
    BY <1>1
  <2>3. U.parent[n] = cur /\ U.child[side][cur] = n
    BY <1>1
  <2> QED
    BY <2>1, <2>2, <2>3 DEF NodeOk, LinkOk
<1>8. Shape(U, M, b2)
  BY <1>1, <1>3, <1>5, <1>6, <1>7 DEF Shape
<1> QED
  BY <1>8

\* A red leaf weighs nothing: only its colour next to cur's can be wrong.
LEMMA LeafBalance ==
  ASSUME NEW T, NEW L, NEW b, Shape(T, L, b), Mended(T, L),
         NEW cur \in L, NEW n \in Node \ L, NEW side \in Side, T.child[side][cur] = Nil,
         NEW U, U.root = T.root, U.red = T.red \cup {n},
         \A s \in Side, m \in Place :
                  U.child[s][m] = IF m = n THEN Nil
                                  ELSE IF m = cur /\ s = side THEN n ELSE T.child[s][m]
  PROVE  /\ Red(T, cur) => MendingInsert(U, L \cup {n}, n)
         /\ ~Red(T, cur) => Mended(U, L \cup {n})
<1> DEFINE M == L \cup {n}
<1>1. PICK h : Balanced(T, L, h, Nil, "left")
  BY DEF Mended
<1>2. /\ L \subseteq Place /\ Nil \in Place /\ Nil \notin L /\ n \in Place /\ n # Nil
      /\ n \notin L /\ cur # n /\ cur # Nil
      /\ h \in Height /\ h[Nil] = 0
      /\ \A m \in L, s \in Side : T.child[s][m] \in L \cup {Nil}
      /\ ~Red(T, Nil)
      /\ \A m \in L, s \in Side : h[m] = h[T.child[s][m]] + Weight(T, m)
      /\ T.root \in L
  <2>1. n \in Place /\ n # Nil /\ T.root \in L
    BY RbtreeAssumption DEF Place, Shape, RootOk
  <2>2. \A m \in L, s \in Side : T.child[s][m] \in L \cup {Nil}
    BY ShapeTypes
  <2>3. h \in Height /\ h[Nil] = 0
    BY <1>1 DEF Balanced
  <2>4. L \subseteq Place /\ Nil \in Place /\ Nil \notin L /\ ~Red(T, Nil)
    BY <1>1, BalancedHeights
  <2>5. \A m \in L, s \in Side : h[m] = h[T.child[s][m]] + Weight(T, m)
    BY <1>1, NoHole
  <2> QED
    BY <2>1, <2>2, <2>3, <2>4, <2>5
<1>3. PICK g \in Height : g[Nil] = 0 /\ g[n] = 0 /\ \A m \in L : g[m] = h[m]
  <2>1. cur \in Place \ {Nil} /\ n \in Place \ {Nil} /\ h[cur] \in Nat
    BY <1>2 DEF Height
  <2>2. \E k \in Height :
          /\ k[Nil] = 0 /\ k[n] = 0 /\ k[cur] = h[cur]
          /\ \A m \in Place : m # n /\ m # cur => k[m] = h[m]
    <3>1. CanChange(h, n, 0, cur, h[cur])
      BY <1>2, <2>1, HeightsChange
    <3> QED
      BY <3>1 DEF CanChange
  <2> QED
    BY <1>2, <2>2
<1>4. Balanced(U, M, g, Nil, "left")
  <2>1. ASSUME NEW m \in M, NEW s \in Side
        PROVE  g[m] = g[U.child[s][m]] + 0 + Weight(U, m)
    <3>1. CASE m = n
      <4>1. U.child[s][m] = Nil /\ Weight(U, m) = 0
        BY <1>2, <3>1 DEF Weight, Red
      <4> QED
        BY <1>3, <3>1, <4>1
    <3>2. CASE m # n
      <4>0. m \in L /\ m \in Place
        BY <1>2, <3>2
      <4>1. Weight(U, m) = Weight(T, m) /\ Weight(T, m) \in Nat /\ g[m] = h[m]
        BY <1>3, <3>2, <4>0 DEF Weight, Red
      <4>2. g[U.child[s][m]] = h[T.child[s][m]] /\ h[T.child[s][m]] \in Nat
        <5>1. CASE m = cur /\ s = side
          BY <1>2, <1>3, <4>0, <5>1
        <5>2. CASE ~(m = cur /\ s = side)
          <6>1. U.child[s][m] = T.child[s][m] /\ T.child[s][m] \in L \cup {Nil}
            BY <1>2, <4>0, <5>2
          <6> QED
            BY <1>2, <1>3, <6>1 DEF Height
        <5> QED
          BY <5>1, <5>2
      <4>3. h[m] = h[T.child[s][m]] + Weight(T, m)
        BY <1>2, <4>0
      <4> QED
        BY <4>1, <4>2, <4>3
    <3> QED
      BY <3>1, <3>2
  <2>2. ASSUME NEW m \in M
        PROVE  Level(U, g, m, Nil, "left")
    <3>1. m # Nil
      BY <1>2
    <3> QED
      BY <2>1, <3>1 DEF Level
  <2> QED
    BY <1>3, <2>2 DEF Balanced
<1>5. ASSUME NEW m \in M, NEW s \in Side, Red(U, m), Red(U, U.child[s][m])
      PROVE  U.child[s][m] = n /\ Red(T, cur)
  <2>1. m # n /\ m \in L /\ m \in Place
    <3>1. ~Red(U, Nil)
      BY <1>2 DEF Red
    <3> QED
      BY <1>2, <1>5, <3>1
  <2>2. Red(T, m)
    BY <1>5, <2>1 DEF Red
  <2>3. CASE m = cur /\ s = side
    BY <1>2, <2>1, <2>2, <2>3
  <2>4. CASE ~(m = cur /\ s = side)
    <3>1. U.child[s][m] = T.child[s][m] /\ T.child[s][m] \in L \cup {Nil}
      BY <1>2, <2>1, <2>4
    <3>2. Red(T, T.child[s][m])
      BY <1>2, <1>5, <3>1 DEF Red
    <3> QED
      BY <2>1, <2>2, <3>2 DEF Mended, Calm
  <2> QED
    BY <2>3, <2>4
<1>6. ~Red(U, U.root)
  BY <1>2 DEF Red, Mended
<1>7. n \in M /\ Red(U, n)
  BY DEF Red
<1>8. Red(T, cur) => MendingInsert(U, M, n)
  BY <1>4, <1>5, <1>6, <1>7 DEF MendingInsert
<1>9. ~Red(T, cur) => Mended(U, M)
  BY <1>4, <1>5, <1>6 DEF Mended, Calm
<1> QED
  BY <1>8, <1>9

\* A leaf hung where the search ends keeps the shape; only a red parent makes
\* a fault.
LEMMA InsertLeafOk ==
  ASSUME NEW T, NEW L, NEW b, Shape(T, L, b), Mended(T, L), NEW cur \in L, NEW n \in Node \ L,
         NEW k \in Key, Within(b, cur, k), k # T.key[cur],
         T.child[Toward(T, cur, k)][cur] = Nil
  PROVE  LET U == Hung(T, n, cur, k, Toward(T, cur, k))
         IN  /\ \E b2 : Shape(U, L \cup {n}, b2)
             /\ Red(T, cur) => MendingInsert(U, L \cup {n}, n)
             /\ ~Red(T, cur) => Mended(U, L \cup {n})
             /\ \A m \in L : U.key[m] = T.key[m] /\ U.data[m] = T.data[m]
             /\ U.key[n] = k /\ U.data[n] = k
<1> DEFINE side == Toward(T, cur, k)
           U == Hung(T, n, cur, k, side)
<1>1. T \in Tree /\ L \subseteq Node /\ cur \in Node /\ cur # n
  BY DEF Shape
<1>2. side \in Side /\ Before(side, k, T.key[cur])
  BY <1>1, TowardBefore
<1>3. T.child[side][cur] = Nil
  OBVIOUS
<1> HIDE DEF side
<1>4. /\ U \in Tree /\ U.root = T.root /\ U.red = T.red \cup {n}
      /\ \A s \in Side, m \in Place :
                  U.child[s][m] = IF m = n THEN Nil
                                  ELSE IF m = cur /\ s = side THEN n ELSE T.child[s][m]
      /\ \A m \in Place : U.parent[m] = IF m = n THEN cur ELSE T.parent[m]
      /\ \A m \in Node : U.key[m] = IF m = n THEN k ELSE T.key[m]
      /\ \A m \in Node : U.data[m] = IF m = n THEN k ELSE T.data[m]
  <2>1. n \in Node
    OBVIOUS
  <2> QED
    BY <1>1, <1>2, <2>1, HangFields
<1> HIDE DEF U
<1>5. \E b2 : Shape(U, L \cup {n}, b2)
  BY <1>2, <1>3, <1>4, LeafShape
<1>6. /\ Red(T, cur) => MendingInsert(U, L \cup {n}, n)
      /\ ~Red(T, cur) => Mended(U, L \cup {n})
  BY <1>2, <1>3, <1>4, LeafBalance
<1> QED
  BY <1>1, <1>4, <1>5, <1>6 DEF U, side

Rooted(T, n, k) == [SetBlack(Leaf(T, n, Nil, k), n) EXCEPT !.root = n]

\* The first node makes a tree.
LEMMA InsertRootOk ==
  ASSUME NEW T, NEW L, NEW b, Shape(T, L, b), T.root = Nil, NEW n \in Node, NEW k \in Key
  PROVE  LET U == Rooted(T, n, k)
         IN  /\ L = {}
             /\ \E b2 : Shape(U, L \cup {n}, b2)
             /\ Mended(U, L \cup {n})
             /\ U.key[n] = k /\ U.data[n] = k
<1> DEFINE V == Leaf(T, n, Nil, k)
           W == SetBlack(V, n)
           U == [W EXCEPT !.root = n]
           b2 == [s \in Side |-> [m \in Node |-> Outer(s)]]
           h == [m \in Place |-> IF m = Nil THEN 0 ELSE 1]
<1>0. n # Nil /\ n \in Place /\ Nil \in Place /\ T \in Tree
  BY RbtreeAssumption DEF Place, Shape
<1>1. L = {}
  BY DEF Shape, RootOk
<1>2. /\ V \in Tree
      /\ \A s \in Side : V.child[s][n] = Nil
      /\ V.parent[n] = Nil /\ V.key[n] = k /\ V.data[n] = k
  BY <1>0, LeafFields
<1> HIDE DEF V
<1>3. W \in Tree /\ SameLinks(W, V) /\ W.red = V.red \ {n}
  BY <1>2, Recolour
<1> HIDE DEF W
<1>4. /\ U \in Tree /\ U.root = n /\ U.child = V.child /\ U.parent = V.parent /\ U.key = V.key
      /\ U.data = V.data /\ n \notin U.red /\ Nil \notin U.red
  <2>1. n \notin W.red /\ Nil \notin W.red
    BY <1>3, RbtreeAssumption DEF Tree
  <2>2. /\ U.root = n /\ U.child = W.child /\ U.parent = W.parent /\ U.key = W.key
        /\ U.data = W.data /\ U.red = W.red /\ U \in Tree
    BY <1>0, <1>3 DEF Tree
  <2> QED
    BY <1>3, <2>1, <2>2 DEF SameLinks
<1> HIDE DEF U
<1>5. b2 \in Bound /\ \A s \in Side, m \in Node : b2[s][m] = Outer(s)
  BY RbtreeAssumption DEF Bound, Outer
<1> HIDE DEF b2
<1>6. Within(b2, n, k)
  BY <1>5, RbtreeAssumption DEF Within, Before, Outer, Key, Side
<1>7. Shape(U, L \cup {n}, b2)
  BY <1>0, <1>1, <1>2, <1>4, <1>5, <1>6 DEF Shape, RootOk, NodeOk, LinkOk
<1>8. h \in Height /\ h[n] = 1 /\ h[Nil] = 0
  BY <1>0 DEF Height
<1> HIDE DEF h
<1>9. Weight(U, n) = 1 /\ ~Red(U, n)
  BY <1>4 DEF Weight, Red
<1>10. Level(U, h, n, Nil, "left")
  <2>1. \A s \in Side : U.child[s][n] = Nil
    BY <1>2, <1>4
  <2> QED
    BY <1>0, <1>8, <1>9, <2>1 DEF Level
<1>11. Balanced(U, L \cup {n}, h, Nil, "left")
  BY <1>1, <1>8, <1>10 DEF Balanced
<1>12. Mended(U, L \cup {n})
  BY <1>1, <1>4, <1>9, <1>11 DEF Mended, Calm
<1> QED
  BY <1>1, <1>2, <1>4, <1>7, <1>12 DEF U, W, V, Rooted

(***************************************************************************)
(* Taking a node out: tmp is in the place of subst, whose key and data n   *)
(* has.                                                                    *)
(***************************************************************************)
Cut(U, T, n, subst, tmp) ==
  /\ U \in Tree
  /\ U.root = IF T.parent[subst] = Nil THEN tmp ELSE T.root
  /\ U.red = T.red \ {subst}
  /\ \A s \in Side, m \in Place :
       U.child[s][m] = IF m = subst THEN Nil
                       ELSE IF T.parent[subst] # Nil /\ m = T.parent[subst] /\ s = SideOf(T, subst)
                       THEN tmp ELSE T.child[s][m]
  /\ \A m \in Place :
       U.parent[m] = IF m = subst THEN Nil ELSE IF m = tmp THEN T.parent[subst] ELSE T.parent[m]
  /\ \A m \in Node \ {subst} :
       /\ U.key[m] = IF m = n THEN T.key[subst] ELSE T.key[m]
       /\ U.data[m] = IF m = n THEN T.data[subst] ELSE T.data[m]

\* What Forget changes.
LEMMA ForgetFields ==
  ASSUME NEW T \in Tree, NEW n \in Node
  PROVE  LET U == Forget(T, n)
         IN  /\ U \in Tree /\ U.root = T.root /\ U.red = T.red \ {n}
             /\ \A s \in Side, m \in Place : U.child[s][m] = IF m = n THEN Nil ELSE T.child[s][m]
             /\ \A m \in Place : U.parent[m] = IF m = n THEN Nil ELSE T.parent[m]
             /\ \A m \in Node \ {n} : U.key[m] = T.key[m] /\ U.data[m] = T.data[m]
<1> DEFINE U == Forget(T, n)
           C == [side \in Side |-> [T.child[side] EXCEPT ![n] = Nil]]
<1>1. C \in [Side -> [Place -> Place]]
  BY DEF Tree, Place
<1>2. \A s \in Side, m \in Place : C[s][m] = IF m = n THEN Nil ELSE T.child[s][m]
  BY DEF Tree, Place
<1> HIDE DEF C
<1>3. U = [T EXCEPT !.child = C, !.parent[n] = Nil, !.red = @ \ {n}, !.key[n] = 0, !.data[n] = 0]
  BY DEF Forget, C
<1>4. /\ U.root = T.root /\ U.red = T.red \ {n} /\ U.child = C
      /\ U.parent = [T.parent EXCEPT ![n] = Nil]
      /\ U.key = [T.key EXCEPT ![n] = 0] /\ U.data = [T.data EXCEPT ![n] = 0]
      /\ U = [root |-> U.root, child |-> U.child, parent |-> U.parent, red |-> U.red,
              key |-> U.key, data |-> U.data]
  BY <1>3 DEF Tree
<1>5. T.parent \in [Place -> Place] /\ T.key \in [Node -> Key] /\ T.data \in [Node -> Key]
      /\ T.root \in Place /\ T.red \in SUBSET Node /\ n \in Place /\ 0 \in Key /\ Nil \in Place
  BY RbtreeAssumption DEF Tree, Place, Key
<1> HIDE DEF U
<1>6. U.parent \in [Place -> Place] /\ U.key \in [Node -> Key] /\ U.data \in [Node -> Key]
  BY <1>4, <1>5
<1>7. U \in Tree
  BY <1>1, <1>4, <1>5, <1>6 DEF Tree
<1> QED
  BY <1>2, <1>4, <1>5, <1>7 DEF U

\* What Unlink changes: its only child takes the place of subst.
LEMMA UnlinkFields ==
  ASSUME NEW T \in Tree, NEW n \in Node, NEW subst \in Node
  PROVE  LET U == Unlink(T, n, subst)
             tmp == Only(T, subst)
         IN  /\ U \in Tree
             /\ U.root = IF T.parent[subst] = Nil THEN tmp ELSE T.root
             /\ U.red = T.red
             /\ \A s \in Side, m \in Place :
                  U.child[s][m] =
                    IF T.parent[subst] # Nil /\ m = T.parent[subst] /\ s = SideOf(T, subst)
                    THEN tmp ELSE T.child[s][m]
             /\ \A m \in Place :
                  U.parent[m] = IF m = tmp THEN T.parent[subst] ELSE T.parent[m]
             /\ \A m \in Node :
                  /\ U.key[m] = IF m = n THEN T.key[subst] ELSE T.key[m]
                  /\ U.data[m] = IF m = n THEN T.data[subst] ELSE T.data[m]
<1> DEFINE tmp == Only(T, subst)
           above == T.parent[subst]
           at == SideOf(T, subst)
           V == [T EXCEPT !.parent[tmp] = above,
                          !.key[n] = T.key[subst], !.data[n] = T.data[subst]]
           U == Unlink(T, n, subst)
<1>1. tmp \in Place /\ above \in Place /\ at \in Side
  BY DEF Tree, Place, Only, SideOf, Side
<1>2. U = IF above = Nil THEN [V EXCEPT !.root = tmp] ELSE [V EXCEPT !.child[at][above] = tmp]
  BY DEF Unlink
<1> HIDE DEF tmp, above, at, U
<1>3. /\ V \in Tree /\ V.root = T.root /\ V.red = T.red /\ V.child = T.child
      /\ V.parent = [T.parent EXCEPT ![tmp] = above]
      /\ V.key = [T.key EXCEPT ![n] = T.key[subst]]
      /\ V.data = [T.data EXCEPT ![n] = T.data[subst]]
  BY <1>1 DEF Tree
<1>4. /\ \A m \in Place : V.parent[m] = IF m = tmp THEN above ELSE T.parent[m]
      /\ \A m \in Node : /\ V.key[m] = IF m = n THEN T.key[subst] ELSE T.key[m]
                         /\ V.data[m] = IF m = n THEN T.data[subst] ELSE T.data[m]
  BY <1>1, <1>3 DEF Tree
<1> HIDE DEF V
<1>5. /\ U \in Tree /\ U.parent = V.parent /\ U.key = V.key /\ U.data = V.data /\ U.red = V.red
      /\ U.root = IF above = Nil THEN tmp ELSE V.root
      /\ \A s \in Side, m \in Place :
           U.child[s][m] = IF above # Nil /\ m = above /\ s = at THEN tmp ELSE V.child[s][m]
  <2>1. CASE above = Nil
    BY <1>1, <1>2, <1>3, <2>1 DEF Tree
  <2>2. CASE above # Nil
    BY <1>1, <1>2, <1>3, <2>2 DEF Tree
  <2> QED
    BY <2>1, <2>2
<1> QED
  BY <1>3, <1>4, <1>5 DEF U, above, at, tmp

\* Unlink and Forget together cut subst out.
LEMMA CutFields ==
  ASSUME NEW T \in Tree, NEW n \in Node, NEW subst \in Node
  PROVE  Cut(Forget(Unlink(T, n, subst), subst), T, n, subst, Only(T, subst))
<1> DEFINE V == Unlink(T, n, subst)
           tmp == Only(T, subst)
           above == T.parent[subst]
           at == SideOf(T, subst)
           U == Forget(V, subst)
<1>1. /\ V \in Tree
      /\ V.root = IF above = Nil THEN tmp ELSE T.root
      /\ V.red = T.red
      /\ \A s \in Side, m \in Place :
           V.child[s][m] = IF above # Nil /\ m = above /\ s = at THEN tmp ELSE T.child[s][m]
      /\ \A m \in Place : V.parent[m] = IF m = tmp THEN above ELSE T.parent[m]
      /\ \A m \in Node : /\ V.key[m] = IF m = n THEN T.key[subst] ELSE T.key[m]
                         /\ V.data[m] = IF m = n THEN T.data[subst] ELSE T.data[m]
  BY UnlinkFields
<1> HIDE DEF V
<1>2. /\ U \in Tree /\ U.root = V.root /\ U.red = V.red \ {subst}
      /\ \A s \in Side, m \in Place : U.child[s][m] = IF m = subst THEN Nil ELSE V.child[s][m]
      /\ \A m \in Place : U.parent[m] = IF m = subst THEN Nil ELSE V.parent[m]
      /\ \A m \in Node \ {subst} : U.key[m] = V.key[m] /\ U.data[m] = V.data[m]
  BY <1>1, ForgetFields
<1> HIDE DEF U, tmp, above, at
<1>3. Cut(U, T, n, subst, tmp)
  BY <1>1, <1>2 DEF Cut, above, at
<1> QED
  BY <1>3 DEF U, V, tmp

\* Where subst and its only child tmp are, and what the cut does to the links.
LEMMA CutPlace ==
  ASSUME NEW T, NEW L, NEW b, Shape(T, L, b), NEW subst \in L, NEW o \in Side,
         T.child[o][subst] = Nil
  PROVE  LET tmp == Only(T, subst)
         IN  /\ tmp = T.child[Other(o)][subst]
             /\ tmp \in L \cup {Nil} /\ tmp # subst
             /\ tmp # Nil => T.parent[tmp] = subst /\ tmp # T.root
             /\ subst = T.root => T.parent[subst] = Nil
             /\ subst # T.root => /\ T.parent[subst] \in L /\ T.parent[subst] # subst
                                  /\ T.parent[subst] # Nil
                                  /\ SideOf(T, subst) \in Side
                                  /\ T.child[SideOf(T, subst)][T.parent[subst]] = subst
             /\ \A m \in L, s \in Side : T.child[s][m] = subst =>
                  m = T.parent[subst] /\ s = SideOf(T, subst) /\ subst # T.root
<1> DEFINE tmp == Only(T, subst)
<1>0. Nil \notin L /\ Other(o) \in Side /\ subst # Nil
  BY ShapeTypes, Sides
<1>1. tmp = T.child[Other(o)][subst]
  BY DEF Only, Side, Other
<1>2. tmp \in L \cup {Nil} /\ tmp # subst /\ (tmp # Nil => T.parent[tmp] = subst /\ tmp # T.root)
  <2>1. T.child[Other(o)][subst] \in L \cup {Nil}
    BY <1>0, ShapeTypes
  <2>2. T.child[Other(o)][subst] # Nil =>
          /\ T.parent[T.child[Other(o)][subst]] = subst
          /\ T.child[Other(o)][subst] # T.root /\ T.child[Other(o)][subst] # subst
    BY <1>0, SideOfChild, ChildNests
  <2> QED
    BY <1>0, <1>1, <2>1, <2>2
<1>3. subst = T.root => T.parent[subst] = Nil
  BY <1>0 DEF Shape, RootOk
<1>4. subst # T.root => /\ T.parent[subst] \in L /\ T.parent[subst] # subst /\ T.parent[subst] # Nil
                        /\ SideOf(T, subst) \in Side
                        /\ T.child[SideOf(T, subst)][T.parent[subst]] = subst
  BY <1>0, ParentOf
<1>5. \A m \in L, s \in Side : T.child[s][m] = subst =>
         m = T.parent[subst] /\ s = SideOf(T, subst) /\ subst # T.root
  BY <1>0, SideOfChild
<1> QED
  BY <1>1, <1>2, <1>3, <1>4, <1>5

\* subst, which has no child on side o, is out of T, and U is the result.
Cutting(T, L, b, n, subst, o, tmp, U) ==
  /\ Shape(T, L, b) /\ subst \in L /\ o \in Side
  /\ T.child[o][subst] = Nil /\ tmp = Only(T, subst)
  /\ Cut(U, T, n, subst, tmp)

\* The links after a node is cut out.
LEMMA CutLinks ==
  ASSUME NEW T, NEW L, NEW b, NEW n, NEW subst, NEW o, NEW tmp, NEW U,
         Cutting(T, L, b, n, subst, o, tmp, U)
  PROVE  /\ U.root = IF subst = T.root THEN tmp ELSE T.root
         /\ \A m \in L \ {subst}, s \in Side :
              /\ T.child[s][m] = subst => U.child[s][m] = tmp
              /\ T.child[s][m] # subst => U.child[s][m] = T.child[s][m]
         /\ U.parent[tmp] = T.parent[subst]
         /\ \A m \in L \ {subst, tmp} : U.parent[m] = T.parent[m]
<1>0. /\ Shape(T, L, b) /\ subst \in L /\ o \in Side
      /\ T.child[o][subst] = Nil /\ tmp = Only(T, subst)
      /\ Cut(U, T, n, subst, tmp)
  BY DEF Cutting
<1> USE <1>0
<1>1. /\ tmp \in L \cup {Nil} /\ tmp # subst
      /\ subst = T.root => T.parent[subst] = Nil
      /\ subst # T.root => /\ T.parent[subst] # Nil
                           /\ T.child[SideOf(T, subst)][T.parent[subst]] = subst
      /\ \A m \in L, s \in Side : T.child[s][m] = subst =>
                  m = T.parent[subst] /\ s = SideOf(T, subst) /\ subst # T.root
  BY CutPlace
<1>2. L \subseteq Place /\ tmp \in Place /\ subst # Nil
  BY <1>1, ShapeTypes DEF Shape, Place
<1>3. U.root = IF subst = T.root THEN tmp ELSE T.root
  BY <1>1 DEF Cut
<1>4. ASSUME NEW m \in L \ {subst}, NEW s \in Side
      PROVE  U.child[s][m] = IF T.child[s][m] = subst THEN tmp ELSE T.child[s][m]
  <2>1. m \in Place
    BY <1>2
  <2>2. U.child[s][m] = IF T.parent[subst] # Nil /\ m = T.parent[subst] /\ s = SideOf(T, subst)
                       THEN tmp ELSE T.child[s][m]
    BY <2>1 DEF Cut
  <2> QED
    BY <1>1, <2>2
<1>5. U.parent[tmp] = T.parent[subst] /\ \A m \in L \ {subst, tmp} : U.parent[m] = T.parent[m]
  BY <1>1, <1>2 DEF Cut
<1> QED
  BY <1>3, <1>4, <1>5

\* The shape, given the bounds the nodes now have.
CutBounds(U, T, L, subst, tmp, b2) ==
  /\ b2 \in Bound
  /\ \A m \in L \ {subst} : Within(b2, m, U.key[m])
  /\ \A m \in L \ {subst}, s \in Side : T.child[s][m] # Nil /\ T.child[s][m] # subst =>
       b2[s][T.child[s][m]] = b2[s][m] /\ b2[Other(s)][T.child[s][m]] = U.key[m]
  /\ \A m \in L \ {subst}, s \in Side : T.child[s][m] = subst /\ tmp # Nil =>
       b2[s][tmp] = b2[s][m] /\ b2[Other(s)][tmp] = U.key[m]
  /\ U.root # Nil => \A s \in Side : b2[s][U.root] = Outer(s)

\* With bounds that fit the new links the tree without subst has its shape.
LEMMA CutShape ==
  ASSUME NEW T, NEW L, NEW b, NEW n, NEW subst, NEW o, NEW tmp, NEW U,
         Cutting(T, L, b, n, subst, o, tmp, U),
         NEW b2, CutBounds(U, T, L, subst, tmp, b2)
  PROVE  Shape(U, L \ {subst}, b2)
<1> DEFINE M == L \ {subst}
<1>0. /\ Shape(T, L, b) /\ subst \in L /\ o \in Side
      /\ T.child[o][subst] = Nil /\ tmp = Only(T, subst)
      /\ Cut(U, T, n, subst, tmp)
  BY DEF Cutting
<1> USE <1>0
<1>1. /\ tmp = T.child[Other(o)][subst]
      /\ tmp \in L \cup {Nil} /\ tmp # subst
      /\ tmp # Nil => T.parent[tmp] = subst /\ tmp # T.root
      /\ subst = T.root => T.parent[subst] = Nil
      /\ subst # T.root => /\ T.parent[subst] \in L /\ T.parent[subst] # subst
                           /\ SideOf(T, subst) \in Side
                           /\ T.child[SideOf(T, subst)][T.parent[subst]] = subst
      /\ \A m \in L, s \in Side : T.child[s][m] = subst =>
                  m = T.parent[subst] /\ s = SideOf(T, subst) /\ subst # T.root
  BY CutPlace
<1>2. /\ U.root = IF subst = T.root THEN tmp ELSE T.root
      /\ \A m \in M, s \in Side :
           /\ T.child[s][m] = subst => U.child[s][m] = tmp
           /\ T.child[s][m] # subst => U.child[s][m] = T.child[s][m]
      /\ U.parent[tmp] = T.parent[subst]
      /\ \A m \in L \ {subst, tmp} : U.parent[m] = T.parent[m]
  <2>1. U.root = IF subst = T.root THEN tmp ELSE T.root
    BY CutLinks
  <2>2. \A m \in M, s \in Side :
           /\ T.child[s][m] = subst => U.child[s][m] = tmp
           /\ T.child[s][m] # subst => U.child[s][m] = T.child[s][m]
    BY CutLinks
  <2>3. U.parent[tmp] = T.parent[subst]
    BY CutLinks
  <2>4. \A m \in L \ {subst, tmp} : U.parent[m] = T.parent[m]
    BY CutLinks
  <2> QED
    BY <2>1, <2>2, <2>3, <2>4
<1>3. Nil \notin L /\ \A m \in L, s \in Side : T.child[s][m] \in L \cup {Nil}
  BY ShapeTypes
<1>4. RootOk(U, M, b2)
  <2>1. U.root = Nil => M = {}
    <3> SUFFICES ASSUME U.root = Nil PROVE L = {subst}
      OBVIOUS
    <3>1. subst = T.root /\ tmp = Nil
      BY <1>2, <1>3 DEF Shape, RootOk
    <3>2. \A s \in Side : T.child[s][subst] = Nil
      BY <1>1, <3>1, Sides
    <3> DEFINE S == {subst}
    <3>3. S \in SUBSET L /\ T.root \in S \cup {Nil}
          /\ \A m \in S, s \in Side : T.child[s][m] \in S \cup {Nil}
      BY <3>1, <3>2
    <3> HIDE DEF S
    <3>4. S = L
      BY <3>3, TreeInduction
    <3> QED
      BY <3>4 DEF S
  <2>2. U.root \in M \cup {Nil}
    BY <1>1, <1>2 DEF Shape, RootOk
  <2>3. U.root # Nil => U.parent[U.root] = Nil
    <3>1. CASE subst = T.root
      BY <1>1, <1>2, <3>1
    <3>2. CASE subst # T.root
      <4>1. T.root \in L /\ T.parent[T.root] = Nil /\ T.root # tmp
        BY <1>1 DEF Shape, RootOk
      <4> QED
        BY <1>2, <3>2, <4>1
    <3> QED
      BY <3>1, <3>2
  <2> QED
    BY <2>1, <2>2, <2>3 DEF RootOk, CutBounds
<1>5. ASSUME NEW m \in M
      PROVE  NodeOk(U, M, b2, m)
  <2>1. ASSUME NEW s \in Side PROVE LinkOk(U, M, b2, m, s)
    <3>1. CASE T.child[s][m] = subst
      <4>1. U.child[s][m] = tmp /\ m = T.parent[subst]
        BY <1>1, <1>2, <3>1
      <4> QED
        BY <1>1, <1>2, <3>1, <4>1 DEF LinkOk, CutBounds
    <3>2. CASE T.child[s][m] # subst
      <4> DEFINE c == T.child[s][m]
      <4>1. U.child[s][m] = c /\ c \in L \cup {Nil}
        BY <1>2, <1>3, <3>2
      <4>2. c # Nil => T.parent[c] = m
        BY ChildNests
      <4>3. c # Nil => U.parent[c] = m
        BY <1>1, <1>2, <3>2, <4>1, <4>2
      <4>4. c # Nil => b2[s][c] = b2[s][m] /\ b2[Other(s)][c] = U.key[m]
        BY <3>2 DEF CutBounds
      <4> HIDE DEF c
      <4> QED
        BY <3>2, <4>1, <4>3, <4>4 DEF LinkOk, c
    <3> QED
      BY <3>1, <3>2
  <2>2. ASSUME m # U.root
        PROVE  U.parent[m] \in M /\ \E s \in Side : U.child[s][U.parent[m]] = m
    <3>1. CASE m = tmp
      <4>1. subst # T.root
        BY <1>2, <2>2, <3>1
      <4> QED
        BY <1>1, <1>2, <3>1, <4>1
    <3>2. CASE m # tmp
      <4>1. m # T.root
        BY <1>2, <2>2
      <4>2. PICK s \in Side : T.parent[m] \in L /\ T.child[s][T.parent[m]] = m
        BY <4>1 DEF Shape, NodeOk
      <4>3. T.parent[m] # subst
        BY <1>1, <1>3, <3>2, <4>2, Sides
      <4>4. U.parent[m] = T.parent[m] /\ U.child[s][T.parent[m]] = m
        BY <1>2, <3>2, <4>2, <4>3
      <4> QED
        BY <4>2, <4>3, <4>4
    <3> QED
      BY <3>1, <3>2
  <2> QED
    BY <2>1, <2>2 DEF NodeOk, CutBounds
<1> QED
  BY <1>4, <1>5 DEF Shape, Cut, CutBounds

\* A red node leaves no trace; after a black one tmp's place is one short.
LEMMA CutBalance ==
  ASSUME NEW T, NEW L, NEW b, NEW n, NEW subst, NEW o, NEW tmp, NEW U,
         Cutting(T, L, b, n, subst, o, tmp, U), Mended(T, L)
  PROVE  /\ Red(T, subst) => Mended(U, L \ {subst})
         /\ ~Red(T, subst) => MendingDelete(U, L \ {subst}, tmp)
<1> DEFINE M == L \ {subst}
           above == T.parent[subst]
           at == SideOf(T, subst)
           hole == IF Red(T, subst) \/ subst = T.root THEN Nil ELSE above
<1>0. /\ Shape(T, L, b) /\ subst \in L /\ o \in Side
      /\ T.child[o][subst] = Nil /\ tmp = Only(T, subst)
      /\ Cut(U, T, n, subst, tmp)
  BY DEF Cutting
<1> USE <1>0
<1>1. /\ tmp = T.child[Other(o)][subst]
      /\ tmp \in L \cup {Nil} /\ tmp # subst
      /\ tmp # Nil => T.parent[tmp] = subst /\ tmp # T.root
      /\ subst # T.root => /\ above \in L /\ above # subst /\ above # Nil
                           /\ at \in Side
                           /\ T.child[at][above] = subst
      /\ \A m \in L, s \in Side : T.child[s][m] = subst =>
                  m = above /\ s = at /\ subst # T.root
  BY CutPlace
<1>2. U.root = IF subst = T.root THEN tmp ELSE T.root
  BY CutLinks
<1>3. \A m \in M, s \in Side :
           /\ T.child[s][m] = subst => U.child[s][m] = tmp
           /\ T.child[s][m] # subst => U.child[s][m] = T.child[s][m]
  BY CutLinks
<1>4. U.parent[tmp] = above
  BY CutLinks
<1>5. U.red = T.red \ {subst}
  BY DEF Cut
<1>6. PICK h : Balanced(T, L, h, Nil, "left")
  BY DEF Mended
<1>7. /\ \A m \in Place : h[m] \in Nat
      /\ L \subseteq Place /\ Nil \in Place /\ Nil \notin L
      /\ \A m \in L, s \in Side : T.child[s][m] \in Place
      /\ ~Red(T, Nil)
  BY <1>6, BalancedHeights
<1>8. \A m \in L, s \in Side : h[m] = h[T.child[s][m]] + Weight(T, m)
  BY <1>6, NoHole
<1>9. h \in Height /\ h[Nil] = 0
  BY <1>6 DEF Balanced
<1>10. /\ \A m \in M : Weight(U, m) = Weight(T, m) /\ Weight(T, m) \in Nat
       /\ Weight(T, subst) = IF Red(T, subst) THEN 0 ELSE 1
  BY <1>5 DEF Weight, Red
<1>11. h[tmp] = 0 /\ h[subst] = Weight(T, subst)
  <2>1. Other(o) \in Side /\ tmp \in Place /\ subst \in Place
    BY <1>1, <1>7, Sides
  <2>2. h[subst] = h[Nil] + Weight(T, subst) /\ h[subst] = h[tmp] + Weight(T, subst)
    BY <1>1, <1>8, <2>1
  <2>3. \A i, j, w \in Nat : i = 0 + w /\ i = j + w => j = 0 /\ i = w
    OBVIOUS
  <2>4. h[subst] \in Nat /\ h[tmp] \in Nat /\ Weight(T, subst) \in Nat
    BY <1>7, <2>1 DEF Weight
  <2> QED
    BY <1>9, <2>2, <2>3, <2>4
<1>12. Balanced(U, M, h, hole, at)
  <2>1. ASSUME NEW m \in M, NEW s \in Side
        PROVE  h[m] = h[U.child[s][m]] + (IF m = hole /\ s = at THEN 1 ELSE 0) + Weight(U, m)
    <3>1. h[m] = h[T.child[s][m]] + Weight(U, m) /\ Weight(U, m) \in Nat
          /\ h[T.child[s][m]] \in Nat /\ m # Nil
      BY <1>7, <1>8, <1>10
    <3>2. CASE T.child[s][m] = subst
      <4>1. U.child[s][m] = tmp /\ m = above /\ s = at /\ subst # T.root
        BY <1>1, <1>3, <3>2
      <4>2. CASE Red(T, subst)
        <5>1. hole = Nil /\ h[subst] = 0
          BY <1>10, <1>11, <4>2
        <5> QED
          BY <1>11, <3>1, <3>2, <4>1, <5>1
      <4>3. CASE ~Red(T, subst)
        <5>1. hole = above /\ h[subst] = 1
          BY <1>10, <1>11, <4>1, <4>3
        <5>2. h[m] = h[tmp] + 1 + Weight(U, m)
          BY <1>11, <3>1, <3>2, <5>1
        <5> QED
          BY <4>1, <5>1, <5>2
      <4> QED
        BY <4>2, <4>3
    <3>3. CASE T.child[s][m] # subst
      <4>1. ~(m = hole /\ s = at)
        BY <1>1, <3>1, <3>3
      <4>2. U.child[s][m] = T.child[s][m]
        BY <1>3, <3>3
      <4>3. h[m] = h[U.child[s][m]] + 0 + Weight(U, m)
        BY <3>1, <4>2
      <4> QED
        BY <4>1, <4>3
    <3> QED
      BY <3>2, <3>3
  <2> HIDE DEF hole, at
  <2> QED
    BY <1>9, <2>1 DEF Balanced, Level
<1>13. ASSUME NEW m \in M, NEW s \in Side, Red(U, m), Red(U, U.child[s][m])
       PROVE  U.child[s][m] = tmp /\ ~Red(T, subst)
  <2>1. Red(T, m) /\ Red(T, U.child[s][m]) /\ Calm(T, m)
    BY <1>5, <1>13 DEF Red, Mended
  <2>2. T.child[s][m] = subst
    BY <1>3, <2>1 DEF Calm
  <2>3. ~Red(T, subst)
    BY <2>1, <2>2 DEF Calm
  <2> QED
    BY <1>3, <2>2, <2>3
<1>14. Red(T, subst) => Mended(U, M)
  <2> SUFFICES ASSUME Red(T, subst) PROVE Mended(U, M)
    OBVIOUS
  <2>1. subst # T.root /\ ~Red(T, T.root)
    BY DEF Mended
  <2>2. ~Red(U, U.root)
    BY <1>2, <1>5, <2>1 DEF Red
  <2>3. hole = Nil
    OBVIOUS
  <2>4. \A m \in M : Calm(U, m)
    BY <1>13 DEF Calm
  <2>5. Balanced(U, M, h, Nil, "left")
    <3>1. Balanced(U, M, h, Nil, at) /\ Nil \notin M
      BY <1>7, <1>12, <2>3
    <3> QED
      BY <3>1 DEF Balanced, Level
  <2> QED
    BY <2>2, <2>4, <2>5 DEF Mended
<1>15. ~Red(T, subst) => MendingDelete(U, M, tmp)
  <2> SUFFICES ASSUME ~Red(T, subst) PROVE MendingDelete(U, M, tmp)
    OBVIOUS
  <2>1. HoleAt(U, M, tmp, hole, at)
    <3>1. CASE subst = T.root
      BY <1>2, <3>1 DEF HoleAt
    <3>2. CASE subst # T.root
      <4>1. T.root # Nil
        BY <1>7 DEF Shape, RootOk
      <4>2. tmp # U.root
        BY <1>1, <1>2, <3>2, <4>1
      <4>3. hole = above /\ above \in M /\ U.child[at][above] = tmp
        BY <1>1, <1>3, <3>2
      <4> QED
        BY <1>1, <1>4, <3>2, <4>2, <4>3 DEF HoleAt
    <3> QED
      BY <3>1, <3>2
  <2>2. U.root = tmp \/ ~Red(U, U.root)
    BY <1>2, <1>5 DEF Red, Mended
  <2>3. tmp \in M \cup {Nil}
    BY <1>1
  <2> HIDE DEF hole, at
  <2> QED
    BY <1>12, <1>13, <2>1, <2>2, <2>3 DEF MendingDelete
<1> QED
  BY <1>14, <1>15

\* The node itself goes: what its only subtree owned up to its key it now owns
\* up to the node's bound.
LEMMA CutSelf ==
  ASSUME NEW T, NEW L, NEW b, NEW subst, NEW o, NEW tmp, NEW U,
         Cutting(T, L, b, subst, subst, o, tmp, U),
         \A m \in L : T.key[m] = T.key[subst] => m = subst
  PROVE  \E b2 : Shape(U, L \ {subst}, b2)
<1>0. /\ Shape(T, L, b) /\ subst \in L /\ o \in Side
      /\ T.child[o][subst] = Nil /\ tmp = Only(T, subst)
      /\ Cut(U, T, subst, subst, tmp)
  BY DEF Cutting
<1> DEFINE kn == T.key[subst]
           M == L \ {subst}
           e == Other(o)
           f(s, v) == IF s = o /\ v = kn THEN b[o][subst] ELSE v
           b2 == [s \in Side |-> [m \in Node |-> f(s, b[s][m])]]
<1>1. /\ \A m \in L : T.key[m] \in Int
      /\ \A m \in L, s \in Side : b[s][m] \in Int
      /\ kn \in 0 .. MaxKey /\ L \subseteq Node /\ Nil \notin L
      /\ e \in Side /\ e # o /\ \A s \in Side : (s = o \/ s = e) /\ Other(s) \in Side /\ Other(s) # s
      /\ b \in Bound /\ b[o][subst] \in -1 .. MaxKey + 1
  BY <1>0, ShapeTypes, Sides DEF Shape, Key
<1>2. b2 \in Bound /\ \A s \in Side, m \in L : b2[s][m] = f(s, b[s][m])
  BY <1>1 DEF Bound
<1>3. Before(o, b[o][subst], kn) /\ b[o][subst] # kn
  <2>1. Before(o, b[o][subst], kn)
    BY <1>0 DEF Shape, NodeOk, Within
  <2> QED
    BY <1>0, <1>1, <2>1, Befores
<1>4. \A m \in M : U.key[m] = T.key[m] /\ T.key[m] # kn
  BY <1>0, <1>1 DEF Cut
<1> HIDE DEF b2, e, kn
<1>5. ASSUME NEW m \in M
      PROVE  Within(b2, m, U.key[m])
  <2> SUFFICES ASSUME NEW s \in Side
               PROVE  Before(s, b2[s][m], T.key[m])
    BY <1>4 DEF Within
  <2>1. Before(s, b[s][m], T.key[m])
    BY <1>0 DEF Shape, NodeOk, Within
  <2>2. CASE s = o /\ b[s][m] = kn
    <3>1. b2[s][m] = b[o][subst]
      BY <1>2, <2>2
    <3>2. b[o][subst] \in Int /\ kn \in Int /\ T.key[m] \in Int
      BY <1>0, <1>1
    <3> QED
      BY <1>3, <2>1, <2>2, <3>1, <3>2, Befores
  <2>3. CASE ~(s = o /\ b[s][m] = kn)
    <3>1. b2[s][m] = b[s][m]
      BY <1>2, <2>3
    <3> QED
      BY <2>1, <3>1
  <2> QED
    BY <2>2, <2>3
<1>6. ASSUME NEW m \in M, NEW s \in Side, T.child[s][m] # Nil, T.child[s][m] # subst
      PROVE  b2[s][T.child[s][m]] = b2[s][m] /\ b2[Other(s)][T.child[s][m]] = U.key[m]
  <2> DEFINE c == T.child[s][m]
  <2>1. c \in L /\ b[s][c] = b[s][m] /\ b[Other(s)][c] = T.key[m]
    BY <1>0, <1>6, ChildNests
  <2> HIDE DEF c
  <2>2. b2[s][c] = b2[s][m]
    BY <1>2, <2>1
  <2>3. b2[Other(s)][c] = U.key[m]
    BY <1>1, <1>2, <1>4, <2>1
  <2> QED
    BY <2>2, <2>3 DEF c
<1>7. tmp # Nil => tmp \in L /\ \A s \in Side : b2[s][tmp] = b[s][subst]
  <2> SUFFICES ASSUME tmp # Nil
               PROVE  tmp \in L /\ \A s \in Side : b2[s][tmp] = b[s][subst]
    OBVIOUS
  <2>1. tmp = T.child[e][subst]
    BY <1>0, CutPlace DEF e
  <2>2. tmp \in L /\ b[e][tmp] = b[e][subst] /\ b[Other(e)][tmp] = kn
    BY <1>0, <1>1, <2>1, ChildNests DEF kn
  <2>3. Other(e) = o
    BY <1>0, Sides DEF e
  <2>4. b2[o][tmp] = b[o][subst] /\ b2[e][tmp] = b[e][subst]
    BY <1>0, <1>1, <1>2, <2>2, <2>3
  <2> QED
    BY <1>1, <2>2, <2>4
<1>8. ASSUME NEW m \in M, NEW s \in Side, T.child[s][m] = subst, tmp # Nil
      PROVE  b2[s][tmp] = b2[s][m] /\ b2[Other(s)][tmp] = U.key[m]
  <2>1. b[s][subst] = b[s][m] /\ b[Other(s)][subst] = T.key[m]
    BY <1>0, <1>1, <1>8, ChildNests
  <2>2. b2[s][tmp] = b[s][subst] /\ b2[Other(s)][tmp] = b[Other(s)][subst]
    BY <1>1, <1>7, <1>8
  <2>3. b2[s][m] = b[s][m]
    BY <1>2, <1>3, <2>1
  <2> QED
    BY <1>4, <2>1, <2>2, <2>3
<1>9. U.root # Nil => \A s \in Side : b2[s][U.root] = Outer(s)
  <2> SUFFICES ASSUME U.root # Nil, NEW s \in Side
               PROVE  b2[s][U.root] = Outer(s)
    OBVIOUS
  <2>0. U.root = IF subst = T.root THEN tmp ELSE T.root
    BY CutLinks
  <2>1. T.root \in L /\ b[s][T.root] = Outer(s)
    BY <1>0, <1>1 DEF Shape, RootOk
  <2>2. CASE subst = T.root
    BY <1>7, <2>0, <2>1, <2>2
  <2>3. CASE subst # T.root
    <3>1. Outer(s) # kn
      BY <1>1, RbtreeAssumption DEF Outer
    <3> QED
      BY <1>2, <2>0, <2>1, <2>3, <3>1
  <2> QED
    BY <2>2, <2>3
<1>10. CutBounds(U, T, L, subst, tmp, b2)
  BY <1>2, <1>5, <1>6, <1>8, <1>9 DEF CutBounds
<1>11. Shape(U, M, b2)
  BY <1>10, CutShape
<1> QED
  BY <1>11

\* The successor goes and n has its key: no key is between the two, and what
\* ended at n's key ends at the successor's.
LEMMA CutSuccessor ==
  ASSUME NEW T, NEW L, NEW b, NEW n \in L, NEW subst, NEW tmp, NEW U,
         Cutting(T, L, b, n, subst, "left", tmp, U), n # subst,
         b["left"][subst] = T.key[n], Within(b, n, T.key[subst]),
         \A m \in L : T.key[m] = T.key[n] => m = n,
         \A m \in L : T.key[m] > T.key[n] /\ m # subst => T.key[m] > T.key[subst]
  PROVE  \E b2 : Shape(U, L \ {subst}, b2)
<1>0. /\ Shape(T, L, b) /\ subst \in L
      /\ T.child["left"][subst] = Nil /\ tmp = Only(T, subst)
      /\ Cut(U, T, n, subst, tmp)
  BY DEF Cutting
<1> DEFINE kn == T.key[n]
           ks == T.key[subst]
           M == L \ {subst}
           f(v) == IF v = kn THEN ks ELSE v
           b2 == [s \in Side |-> [m \in Node |-> f(b[s][m])]]
<1>1. /\ \A m \in L : T.key[m] \in Int
      /\ \A m \in L, s \in Side : b[s][m] \in Int
      /\ kn \in 0 .. MaxKey /\ ks \in 0 .. MaxKey /\ L \subseteq Node /\ Nil \notin L
      /\ "left" \in Side /\ "right" \in Side
      /\ Other("left") = "right" /\ Other("right") = "left"
      /\ \A s \in Side : (s = "left" \/ s = "right") /\ Other(s) \in Side
      /\ b \in Bound
  BY <1>0, ShapeTypes, Sides DEF Shape, Key, Side, Other
<1>2. b2 \in Bound /\ \A s \in Side, m \in L : b2[s][m] = f(b[s][m])
  <2>1. ks \in -1 .. MaxKey + 1
    BY <1>1, RbtreeAssumption
  <2> HIDE DEF ks, kn
  <2> QED
    BY <1>1, <2>1 DEF Bound
<1>3. \A m \in L : b["left"][m] < T.key[m] /\ T.key[m] < b["right"][m]
  BY <1>0, <1>1 DEF Shape, NodeOk, Within, Before
<1>4. kn < ks /\ ks < b["right"][subst] /\ ks < b["right"][n] /\ b["left"][n] < kn
  BY <1>0, <1>1, <1>3 DEF Within, Before
<1>5. /\ \A m \in M : m # n => U.key[m] = T.key[m] /\ T.key[m] # kn
      /\ U.key[n] = ks
  BY <1>0, <1>1 DEF Cut
<1>5a. /\ \A m \in L : T.key[m] > kn /\ m # subst => T.key[m] > ks
       /\ b["left"][subst] = kn
  OBVIOUS
<1> HIDE DEF b2, kn, ks
<1>6. ASSUME NEW m \in M
      PROVE  Within(b2, m, U.key[m])
  <2> SUFFICES b2["left"][m] < U.key[m] /\ U.key[m] < b2["right"][m]
    BY <1>1 DEF Within, Before, Side
  <2>0. /\ b["left"][m] < T.key[m] /\ T.key[m] < b["right"][m]
        /\ b["left"][m] \in Int /\ b["right"][m] \in Int /\ T.key[m] \in Int
        /\ kn \in Int /\ ks \in Int
    BY <1>1, <1>3
  <2>1. b2["left"][m] = f(b["left"][m]) /\ b2["right"][m] = f(b["right"][m])
    BY <1>1, <1>2
  <2>2. CASE m = n
    BY <1>4, <1>5, <2>0, <2>1, <2>2 DEF kn
  <2>3. CASE m # n
    <3>1. T.key[m] > kn => T.key[m] > ks
      BY <1>5a
    <3>2. U.key[m] = T.key[m]
      BY <1>5, <2>3
    <3> QED
      BY <1>4, <2>0, <2>1, <3>1, <3>2
  <2> QED
    BY <2>2, <2>3
<1>7. ASSUME NEW m \in M, NEW s \in Side, T.child[s][m] # Nil, T.child[s][m] # subst
      PROVE  b2[s][T.child[s][m]] = b2[s][m] /\ b2[Other(s)][T.child[s][m]] = U.key[m]
  <2> DEFINE c == T.child[s][m]
  <2>1. c \in L /\ b[s][c] = b[s][m] /\ b[Other(s)][c] = T.key[m]
    BY <1>0, <1>7, ChildNests
  <2> HIDE DEF c
  <2>2. b2[s][c] = b2[s][m]
    BY <1>2, <2>1
  <2>3. b2[Other(s)][c] = f(T.key[m])
    BY <1>1, <1>2, <2>1
  <2>4. f(T.key[m]) = U.key[m]
    BY <1>5 DEF kn
  <2> QED
    BY <2>2, <2>3, <2>4 DEF c
<1>8. ASSUME NEW m \in M, NEW s \in Side, T.child[s][m] = subst, tmp # Nil
      PROVE  b2[s][tmp] = b2[s][m] /\ b2[Other(s)][tmp] = U.key[m]
  <2>1. b[s][subst] = b[s][m] /\ b[Other(s)][subst] = T.key[m]
    BY <1>0, <1>1, <1>8, ChildNests
  <2>2. tmp = T.child["right"][subst]
    BY <1>0, <1>1, CutPlace
  <2>3. tmp \in L /\ b["right"][tmp] = b["right"][subst] /\ b["left"][tmp] = ks
    BY <1>0, <1>1, <1>8, <2>2, ChildNests DEF ks
  <2>4. b["right"][subst] \in Int /\ kn \in Int /\ ks \in Int
    BY <1>0, <1>1
  <2>5. b2["left"][tmp] = ks /\ b2["right"][tmp] = b["right"][subst]
    BY <1>1, <1>2, <1>4, <2>3, <2>4
  <2>6. CASE s = "left"
    <3>1. b["left"][m] = kn /\ b["right"][subst] = T.key[m]
      BY <1>1, <1>5a, <2>1, <2>6
    <3>2. m # n
      BY <1>4, <2>4, <3>1 DEF kn
    <3>3. b2["left"][m] = ks /\ U.key[m] = T.key[m]
      BY <1>1, <1>2, <1>5, <3>1, <3>2
    <3> QED
      BY <1>1, <2>5, <2>6, <3>1, <3>3
  <2>7. CASE s = "right"
    <3>1. b["right"][m] = b["right"][subst] /\ T.key[m] = kn
      BY <1>1, <1>5a, <2>1, <2>7
    <3>2. m = n
      BY <1>5, <3>1
    <3>3. b2["right"][m] = b["right"][subst]
      BY <1>1, <1>2, <1>4, <2>4, <3>1
    <3> QED
      BY <1>1, <1>5, <2>5, <2>7, <3>2, <3>3
  <2> QED
    BY <1>1, <2>6, <2>7
<1>9. U.root # Nil => \A s \in Side : b2[s][U.root] = Outer(s)
  <2> SUFFICES ASSUME U.root # Nil, NEW s \in Side
               PROVE  b2[s][U.root] = Outer(s)
    OBVIOUS
  <2>0. U.root = IF subst = T.root THEN tmp ELSE T.root
    BY CutLinks
  <2>1. T.root \in L /\ \A t \in Side : b[t][T.root] = Outer(t)
    BY <1>0, <1>1 DEF Shape, RootOk
  <2>2. subst # T.root
    <3>1. Outer("left") # kn
      BY <1>1, RbtreeAssumption DEF Outer
    <3> QED
      BY <1>1, <1>5a, <2>1, <3>1
  <2>3. Outer(s) # kn
    BY <1>1, RbtreeAssumption DEF Outer
  <2> QED
    BY <1>2, <2>0, <2>1, <2>2, <2>3
<1>10. CutBounds(U, T, L, subst, tmp, b2)
  BY <1>2, <1>6, <1>7, <1>8, <1>9 DEF CutBounds
<1>11. Shape(U, M, b2)
  BY <1>10, CutShape
<1> QED
  BY <1>11


(***************************************************************************)
(* The inductive invariant.  Some bounds give the tree its shape in every  *)
(* step; a call on its way down is where its bounds hold what it looks     *)
(* for; and the colours are in order but for the node a fix is at.         *)
(***************************************************************************)
CallType == [op : {"none", "insert", "delete", "find", "left", "right"},
             at : {"returned", "descend", "fix"},
             node : Place, cur : Place, key : Key]

InsertWay(b) ==
  Descending("insert") =>
    /\ call.node \in Node \ linked
    /\ call.cur = Nil => tree.root = Nil
    /\ call.cur # Nil => call.cur \in linked /\ Within(b, call.cur, call.key)

DeleteWay(b) ==
  Descending("delete") =>
    /\ call.node \in linked /\ call.cur \in linked
    /\ call.cur = call.node => \E side \in Side : tree.child[side][call.node] = Nil
    /\ call.cur # call.node => /\ b["left"][call.cur] = tree.key[call.node]
                               /\ call.cur \in Subtree(call.node)

FindWay(b) ==
  Descending("find") =>
    /\ call.cur = Nil => call.key \notin content
    /\ call.cur # Nil => call.cur \in linked /\ Within(b, call.cur, call.key)

MinMaxWay(b) ==
  \A side \in Side : Descending(side) =>
    /\ call.node \in linked
    /\ call.cur \in Subtree(call.node)
    /\ b[side][call.cur] = b[side][call.node]

Ways(b) == InsertWay(b) /\ DeleteWay(b) /\ FindWay(b) /\ MinMaxWay(b)

Colours ==
  /\ Fixing("insert") => MendingInsert(tree, linked, call.cur)
  /\ Fixing("delete") => MendingDelete(tree, linked, call.cur)
  /\ call.at # "fix" => Mended(tree, linked)

Holds(T, L, keys) ==
  /\ {T.key[n] : n \in L} = keys
  /\ \A n \in L : T.data[n] = T.key[n]

Contents == Holds(tree, linked, content)

TreeInv ==
  /\ call \in CallType
  /\ Contents
  /\ Colours
  /\ \E b : Shape(tree, linked, b) /\ Ways(b)

-----------------------------------------------------------------------------
(* What a step has to show, by what the call does next.                    *)

\* A call that returns leaves a mended tree.
LEMMA CallReturns ==
  ASSUME call' = Returned, Contents', Mended(tree', linked'), \E b : Shape(tree', linked', b)
  PROVE  TreeInv'
<1>1. call' \in CallType
  BY RbtreeAssumption DEF CallType, Returned, Place, Key
<1>2. call'.op = "none" /\ call'.at = "returned"
  BY DEF Returned
<1>3. Colours'
  BY <1>2 DEF Colours, Fixing
<1>4. \A b : Ways(b)'
  BY <1>2 DEF Ways, InsertWay, DeleteWay, FindWay, MinMaxWay, Descending
<1> QED
  BY <1>1, <1>3, <1>4 DEF TreeInv

\* A call that goes into a fix leaves one fault, at the node the fix is at.
LEMMA CallFixes ==
  ASSUME call' \in CallType, call'.at = "fix", Contents', \E b : Shape(tree', linked', b),
         \/ call'.op = "insert" /\ MendingInsert(tree', linked', call'.cur)
         \/ call'.op = "delete" /\ MendingDelete(tree', linked', call'.cur)
  PROVE  TreeInv'
<1>1. Colours'
  BY DEF Colours, Fixing
<1>2. \A b : Ways(b)'
  BY DEF Ways, InsertWay, DeleteWay, FindWay, MinMaxWay, Descending
<1> QED
  BY <1>1, <1>2 DEF TreeInv

\* A step down leaves the tree alone; the way to the next node is to be
\* shown.
LEMMA CallWalks ==
  ASSUME TreeInv, call.at # "fix", UNCHANGED <<tree, linked, content>>,
         call' \in CallType, call'.at = "descend",
         NEW b, Shape(tree, linked, b), Ways(b)'
  PROVE  TreeInv'
<1>1. Contents'
  BY DEF TreeInv, Contents, Holds
<1>2. Colours'
  BY DEF TreeInv, Colours, Fixing
<1>3. Shape(tree', linked', b)
  OBVIOUS
<1> QED
  BY <1>1, <1>2, <1>3 DEF TreeInv

\* Subtrees are those of the links.
LEMMA SameSubtrees ==
  ASSUME UNCHANGED <<tree, linked>>
  PROVE  \A n : Subtree(n)' = Subtree(n)
  BY DEF Subtree, Closed

\* A child on the side of k owns k if its parent does.
LEMMA WithinChild ==
  ASSUME NEW T, NEW L, NEW b, Shape(T, L, b), NEW n \in L, NEW k \in Key, Within(b, n, k),
         k # T.key[n], NEW c, c = T.child[Toward(T, n, k)][n], c # Nil
  PROVE  c \in L /\ Within(b, c, k)
<1> DEFINE s == Toward(T, n, k)
<1>1. s \in Side /\ Before(s, k, T.key[n])
  BY TowardBefore DEF Shape
<1>2. c = T.child[s][n]
  OBVIOUS
<1> HIDE DEF s
<1>3. c \in L /\ b[s][c] = b[s][n] /\ b[Other(s)][c] = T.key[n]
  BY <1>1, <1>2, ChildNests
<1>4. Before(s, b[s][c], k)
  BY <1>1, <1>3 DEF Within
<1>5. Before(Other(s), b[Other(s)][c], k)
  <2>1. T.key[n] \in Int /\ k \in Int
    BY ShapeTypes DEF Key
  <2> QED
    BY <1>1, <1>3, <2>1, Befores
<1> QED
  BY <1>1, <1>3, <1>4, <1>5, Sides DEF Within

\* The root owns every key.
LEMMA RootOwns ==
  ASSUME NEW T, NEW L, NEW b, Shape(T, L, b), NEW k \in Key, T.root # Nil
  PROVE  T.root \in L /\ Within(b, T.root, k)
<1>1. T.root \in L /\ \A s \in Side : b[s][T.root] = Outer(s)
  BY DEF Shape, RootOk
<1>2. \A s \in Side : Before(s, Outer(s), k)
  BY RbtreeAssumption DEF Side, Before, Outer, Key
<1> QED
  BY <1>1, <1>2 DEF Within

-----------------------------------------------------------------------------
\* The empty tree satisfies the invariant.
LEMMA InitTree == Init => TreeInv
<1> SUFFICES ASSUME Init PROVE TreeInv
  OBVIOUS
<1> DEFINE b == [s \in Side |-> [n \in Node |-> 0]]
           h == [n \in Place |-> 0]
<1>1. tree = qp_rbtree_init /\ linked = {} /\ content = {} /\ call = Returned
  BY DEF Init
<1>2. tree \in Tree
  BY <1>1, RbtreeAssumption DEF Tree, qp_rbtree_init, Place, Key
<1>3. tree.root = Nil /\ tree.red = {}
  BY <1>1 DEF qp_rbtree_init
<1>4. b \in Bound
  BY RbtreeAssumption DEF Bound
<1> HIDE DEF b
<1>5. Shape(tree, linked, b)
  BY <1>1, <1>2, <1>3, <1>4 DEF Shape, RootOk
<1>6. h \in Height /\ h[Nil] = 0
  BY DEF Height, Place
<1> HIDE DEF h
<1>7. Balanced(tree, linked, h, Nil, "left")
  BY <1>1, <1>6 DEF Balanced
<1>8. Mended(tree, linked)
  BY <1>1, <1>3, <1>7 DEF Mended, Red
<1>9. call \in CallType /\ call.op = "none" /\ call.at = "returned"
  BY <1>1, RbtreeAssumption DEF CallType, Returned, Place, Key
<1>10. Colours
  BY <1>8, <1>9 DEF Colours, Fixing
<1>11. Ways(b)
  BY <1>9 DEF Ways, InsertWay, DeleteWay, FindWay, MinMaxWay, Descending
<1>12. Contents
  BY <1>1 DEF Contents, Holds
<1> QED
  BY <1>5, <1>9, <1>10, <1>11, <1>12 DEF TreeInv

\* Nothing runs: the colours are in order.
LEMMA IdleFacts ==
  ASSUME TreeInv, Idle
  PROVE  call.at = "returned" /\ Mended(tree, linked)
<1>1. call.at = "returned"
  BY DEF Idle, Returned
<1> QED
  BY <1>1 DEF TreeInv, Colours

\* qp_rbtree_insert is called.
LEMMA InsertStep ==
  ASSUME TreeInv, NEW n \in Node, NEW k \in Key, Insert(n, k)
  PROVE  TreeInv'
<1>1. PICK b : Shape(tree, linked, b)
  BY DEF TreeInv
<1>2. /\ n \in Node \ linked
      /\ UNCHANGED <<tree, linked, content>>
      /\ call' = [op |-> "insert", at |-> "descend", node |-> n, cur |-> tree.root, key |-> k]
  BY DEF Insert, Begin
<1>3. call' \in CallType /\ call'.op = "insert" /\ call'.at = "descend" /\ call'.node = n
      /\ call'.cur = tree.root /\ call'.key = k
  <2>1. tree.root \in Place /\ n \in Place
    BY <1>1 DEF Shape, Tree, Place
  <2> QED
    BY <1>2, <2>1 DEF CallType
<1>4. InsertWay(b)'
  BY <1>1, <1>2, <1>3, RootOwns DEF InsertWay
<1>5. Ways(b)'
  BY <1>3, <1>4 DEF Ways, DeleteWay, FindWay, MinMaxWay, Descending, Side
<1>6. call.at # "fix"
  BY IdleFacts DEF Insert
<1> QED
  BY <1>1, <1>2, <1>3, <1>5, <1>6, CallWalks

\* A step of the way down: cur goes to a child.
LEMMA DownFields ==
  ASSUME TreeInv, NEW side \in Side, Down(side), call.cur \in Place
  PROVE  /\ call' \in CallType
         /\ call'.op = call.op /\ call'.at = call.at /\ call'.node = call.node
         /\ call'.key = call.key /\ call'.cur = tree.child[side][call.cur]
<1>1. tree.child[side][call.cur] \in Place
  BY DEF TreeInv, Shape, Tree
<1> QED
  BY <1>1 DEF TreeInv, CallType, Down

\* qp_rbtree_insert goes down.
LEMMA InsertDescendStep ==
  ASSUME TreeInv, InsertDescend
  PROVE  TreeInv'
<1> DEFINE cur == call.cur
           side == Toward(tree, cur, call.key)
<1>1. PICK b : Shape(tree, linked, b) /\ Ways(b)
  BY DEF TreeInv
<1>2. /\ Descending("insert") /\ cur # Nil /\ call.key # tree.key[cur]
      /\ tree.child[side][cur] # Nil /\ Down(side)
      /\ UNCHANGED <<tree, linked, content>>
  BY DEF InsertDescend
<1>3. call.node \in Node \ linked /\ cur \in linked /\ Within(b, cur, call.key)
  BY <1>1, <1>2 DEF Ways, InsertWay
<1>4. call.key \in Key /\ cur \in Place /\ side \in Side /\ call.op = "insert" /\ call.at = "descend"
  BY <1>2 DEF TreeInv, CallType, Toward, Side, Descending
<1>5. /\ call' \in CallType
      /\ call'.op = "insert" /\ call'.at = "descend" /\ call'.node = call.node
      /\ call'.key = call.key /\ call'.cur = tree.child[side][cur]
  BY <1>2, <1>4, DownFields
<1>6. tree.child[side][cur] \in linked /\ Within(b, tree.child[side][cur], call.key)
  BY <1>1, <1>2, <1>3, <1>4, WithinChild
<1> HIDE DEF side, cur
<1>7. InsertWay(b)'
  BY <1>2, <1>3, <1>5, <1>6 DEF InsertWay
<1>8. Ways(b)'
  BY <1>5, <1>7 DEF Ways, DeleteWay, FindWay, MinMaxWay, Descending, Side
<1> QED
  BY <1>1, <1>2, <1>4, <1>5, <1>8, CallWalks

\* A call returns and has changed nothing.
LEMMA StayReturns ==
  ASSUME TreeInv, call.at = "descend", call' = Returned, UNCHANGED <<tree, linked, content>>
  PROVE  TreeInv'
<1>1. Mended(tree', linked')
  BY DEF TreeInv, Colours
<1>2. \E b : Shape(tree', linked', b)
  BY DEF TreeInv
<1>3. Contents'
  BY DEF TreeInv, Contents, Holds
<1> QED
  BY <1>1, <1>2, <1>3, CallReturns

\* qp_rbtree_insert into an empty tree.
LEMMA InsertRootStep ==
  ASSUME TreeInv, InsertRoot
  PROVE  TreeInv'
<1> DEFINE n == call.node
           k == call.key
           U == Rooted(tree, n, k)
<1>1. PICK b : Shape(tree, linked, b) /\ Ways(b)
  BY DEF TreeInv
<1>2. /\ Descending("insert") /\ call.cur = Nil /\ tree' = U
      /\ linked' = linked \cup {n} /\ content' = content \cup {k} /\ call' = Returned
  BY DEF InsertRoot, Join, Rooted
<1>3. n \in Node /\ tree.root = Nil /\ k \in Key
  BY <1>1, <1>2 DEF Ways, InsertWay, TreeInv, CallType
<1>4. /\ linked = {}
      /\ \E b2 : Shape(U, linked \cup {n}, b2)
      /\ Mended(U, linked \cup {n})
      /\ U.key[n] = k /\ U.data[n] = k
  <2> HIDE DEF n, k
  <2> QED
    BY <1>1, <1>3, InsertRootOk
<1> HIDE DEF U, n, k
<1>5. Contents'
  BY <1>2, <1>4 DEF Contents, Holds, TreeInv
<1> QED
  BY <1>2, <1>4, <1>5, CallReturns

\* qp_rbtree_insert hangs the leaf.
LEMMA InsertLeafStep ==
  ASSUME TreeInv, InsertLeaf
  PROVE  TreeInv'
<1> DEFINE n == call.node
           k == call.key
           cur == call.cur
           side == Toward(tree, cur, k)
           U == Hung(tree, n, cur, k, side)
<1>1. PICK b : Shape(tree, linked, b) /\ Ways(b)
  BY DEF TreeInv
<1>2. /\ Descending("insert") /\ cur # Nil /\ k # tree.key[cur] /\ tree.child[side][cur] = Nil
      /\ tree' = U
      /\ linked' = linked \cup {n} /\ content' = content \cup {k}
      /\ call' = IF Red(tree, cur) THEN [call EXCEPT !.at = "fix", !.cur = n] ELSE Returned
  BY DEF InsertLeaf, Join, Hung
<1>3. n \in Node \ linked /\ cur \in linked /\ Within(b, cur, k) /\ k \in Key
  BY <1>1, <1>2 DEF Ways, InsertWay, TreeInv, CallType
<1>4. Mended(tree, linked) /\ call.op = "insert"
  BY <1>2 DEF TreeInv, Colours, Descending
<1>5. /\ \E b2 : Shape(U, linked \cup {n}, b2)
      /\ Red(tree, cur) => MendingInsert(U, linked \cup {n}, n)
      /\ ~Red(tree, cur) => Mended(U, linked \cup {n})
      /\ \A m \in linked : U.key[m] = tree.key[m] /\ U.data[m] = tree.data[m]
      /\ U.key[n] = k /\ U.data[n] = k
  <2>1. k # tree.key[cur] /\ tree.child[Toward(tree, cur, k)][cur] = Nil
    BY <1>2
  <2> HIDE DEF n, k, cur
  <2> QED
    BY <1>1, <1>3, <1>4, <2>1, InsertLeafOk
<1> HIDE DEF U, side
<1>6. Contents'
  <2>1. {tree.key[m] : m \in linked} = content /\ \A m \in linked : tree.data[m] = tree.key[m]
    BY DEF TreeInv, Contents, Holds
  <2>2. {U.key[m] : m \in linked \cup {n}} = content \cup {k}
    BY <1>5, <2>1
  <2> QED
    BY <1>2, <1>5, <2>1, <2>2 DEF Contents, Holds
<1>7. CASE Red(tree, cur)
  <2>1. call' \in CallType /\ call'.at = "fix" /\ call'.op = "insert" /\ call'.cur = n
    BY <1>2, <1>3, <1>4, <1>7 DEF TreeInv, CallType, Place
  <2>2. MendingInsert(tree', linked', call'.cur)
    BY <1>2, <1>5, <1>7, <2>1
  <2> QED
    BY <1>2, <1>5, <1>6, <2>1, <2>2, CallFixes
<1>8. CASE ~Red(tree, cur)
  <2>1. call' = Returned /\ Mended(tree', linked') /\ \E b2 : Shape(tree', linked', b2)
    BY SMTT(30), <1>2, <1>5, <1>8
  <2> QED
    BY <1>6, <2>1, CallReturns
<1> QED
  BY <1>7, <1>8

-----------------------------------------------------------------------------
(* The steps of qp_rbtree_insert_fix.                                      *)

\* A rotation moves no key and no data.
LEMMA RotateKeeps ==
  ASSUME NEW T \in Tree, NEW n, NEW side
  PROVE  Rotate(T, n, side).key = T.key /\ Rotate(T, n, side).data = T.data
  BY DEF Rotate, Tree

\* A fix keeps keys and data.
LEMMA FixContents ==
  ASSUME TreeInv, tree'.key = tree.key, tree'.data = tree.data, UNCHANGED <<linked, content>>
  PROVE  Contents'
  BY DEF TreeInv, Contents, Holds

\* qp_rbtree_insert_fix ends.
LEMMA InsertFixEndsStep ==
  ASSUME TreeInv, InsertFixEnds
  PROVE  TreeInv'
<1>1. PICK b : Shape(tree, linked, b)
  BY DEF TreeInv
<1>2. /\ Fixing("insert") /\ InsertFixed /\ tree' = SetBlack(tree, tree.root)
      /\ call' = Returned /\ UNCHANGED <<linked, content>>
  BY DEF InsertFixEnds
<1>3. MendingInsert(tree, linked, call.cur)
  BY <1>2 DEF TreeInv, Colours
<1>4. Shape(tree', linked, b) /\ Mended(tree', linked)
  BY <1>1, <1>2, <1>3, InsertEnds DEF InsertFixed
<1>5. Contents'
  <2>1. tree'.key = tree.key /\ tree'.data = tree.data
    BY <1>1, <1>2, Recolour DEF Shape, SameLinks
  <2> QED
    BY <1>2, <2>1, FixContents
<1> QED
  BY <1>2, <1>4, <1>5, CallReturns

\* qp_rbtree_insert_fix recolours and goes up.
LEMMA InsertFixRecoloursStep ==
  ASSUME TreeInv, InsertFixRecolours
  PROVE  TreeInv'
<1> DEFINE x == call.cur
           p == tree.parent[x]
           u == Uncle(tree, x)
           g == Grandpa(tree, x)
           U == SetRed(SetBlack(SetBlack(tree, p), u), g)
<1>1. PICK b : Shape(tree, linked, b)
  BY DEF TreeInv
<1>2. /\ Fixing("insert") /\ x # tree.root /\ Red(tree, p) /\ Red(tree, u)
      /\ tree' = U
      /\ call' = [call EXCEPT !.cur = g] /\ UNCHANGED <<linked, content>>
  BY DEF InsertFixRecolours, InsertFixed
<1>3. MendingInsert(tree, linked, x)
  BY <1>2 DEF TreeInv, Colours
<1>4. Shape(U, linked, b) /\ MendingInsert(U, linked, g)
  BY <1>1, <1>2, <1>3, InsertRecolours
<1>5. U.key = tree.key /\ U.data = tree.data
  <2> DEFINE A == SetBlack(tree, p)
             B == SetBlack(A, u)
  <2>0. g \in Node
    BY <1>1, <1>4 DEF MendingInsert, Shape
  <2>1. A \in Tree /\ SameLinks(A, tree)
    BY <1>1, Recolour DEF Shape
  <2> HIDE DEF A
  <2>2. B \in Tree /\ SameLinks(B, A)
    BY <2>1, Recolour
  <2> HIDE DEF B
  <2>3. SameLinks(SetRed(B, g), B)
    BY <2>0, <2>2, Recolour
  <2> QED
    BY SMTT(30), <2>1, <2>2, <2>3 DEF SameLinks, A, B
<1>6. call' \in CallType /\ call'.at = "fix" /\ call'.op = "insert" /\ call'.cur = g
  <2>1. g \in Place
    BY <1>1, <1>4 DEF MendingInsert, Shape, Place
  <2> HIDE DEF g
  <2> QED
    BY <1>2, <2>1 DEF TreeInv, CallType, Fixing
<1> HIDE DEF U, g
<1>7. Contents'
  BY <1>2, <1>5, FixContents
<1> QED
  BY <1>2, <1>4, <1>6, <1>7, CallFixes

\* The last rotation of an insertion, from where the three nodes are in line.
LEMMA StraightStep ==
  ASSUME NEW T, NEW L, (\E b : Shape(T, L, b)), NEW x, MendingInsert(T, L, x),
         NEW p, NEW g, NEW side, Line(T, x, p, g, side),
         T.child[side][p] = x, ~Red(T, T.child[Other(side)][g]),
         NEW V, V = SetRed(SetBlack(T, T.parent[x]), Grandpa(T, x)),
         NEW U, U = Rotate(V, Grandpa(V, x), Other(side))
  PROVE  /\ \E b : Shape(U, L, b)
         /\ MendingInsert(U, L, x)
         /\ U.key = T.key /\ U.data = T.data
<1>1. PICK b : Shape(T, L, b)
  OBVIOUS
<1>2. T.parent[x] = p /\ T.parent[p] = g
  BY DEF Line
<1>3. g \in Node /\ T \in Tree
  BY <1>1, InsertGrandpa DEF Shape
<1>4. V = SetRed(SetBlack(T, p), g)
  BY <1>2 DEF Grandpa
<1>5. V \in Tree /\ SameLinks(V, T)
  BY <1>3, <1>4, RecolourTwo
<1>6. Grandpa(V, x) = g
  BY <1>2, <1>5 DEF Grandpa, SameLinks
<1>7. U = Rotate(SetRed(SetBlack(T, p), g), g, Other(side))
  BY <1>4, <1>6
<1>8. (\E b2 : Shape(U, L, b2)) /\ MendingInsert(U, L, x)
  BY <1>1, <1>7, InsertStraight
<1>9. U.key = T.key /\ U.data = T.data
  BY <1>5, RotateKeeps DEF SameLinks
<1> QED
  BY <1>8, <1>9

\* qp_rbtree_insert_fix rotates, once or twice.
LEMMA InsertFixRotatesStep ==
  ASSUME TreeInv, InsertFixRotates
  PROVE  TreeInv'
<1> DEFINE x == call.cur
           p == tree.parent[x]
           g == tree.parent[p]
           side == SideOf(tree, p)
           bent == x = tree.child[Other(side)][p]
           m == IF bent THEN p ELSE x
           T1 == IF bent THEN Rotate(tree, m, side) ELSE tree
           T2 == SetRed(SetBlack(T1, T1.parent[m]), Grandpa(T1, m))
           U == Rotate(T2, Grandpa(T2, m), Other(side))
<1>1. PICK b : Shape(tree, linked, b)
  BY DEF TreeInv
<1>2. /\ Fixing("insert") /\ x # tree.root /\ Red(tree, p) /\ ~Red(tree, Uncle(tree, x))
      /\ tree' = U
      /\ call' = [call EXCEPT !.cur = m] /\ UNCHANGED <<linked, content>>
  BY ZenonT(40) DEF InsertFixRotates, InsertFixed
<1>3. MendingInsert(tree, linked, x)
  BY ZenonT(40), <1>2 DEF TreeInv, Colours
<1>4. Line(tree, x, p, g, side)
  BY ZenonT(40), <1>2 DEF Line
<1>5. ~Red(tree, tree.child[Other(side)][g])
  BY Zenon, <1>2 DEF Uncle, Grandpa
<1>6. p \in linked /\ x \in linked /\ side \in Side /\ \E s \in Side : tree.child[s][p] = x
  BY SMTT(30), <1>1, <1>3, <1>4, InsertGrandpa DEF MendingInsert
<1> HIDE DEF g, side
<1>7. /\ \E b2 : Shape(U, linked, b2)
      /\ MendingInsert(U, linked, m)
      /\ U.key = tree.key /\ U.data = tree.data
  <2>1. CASE bent
    <3>1. m = p /\ T1 = Rotate(tree, p, side)
      BY <2>1
    <3>2. /\ \E b2 : Shape(T1, linked, b2)
          /\ MendingInsert(T1, linked, p)
          /\ Line(T1, p, x, g, side)
          /\ T1.child[side][x] = p
          /\ T1.child[Other(side)][g] = tree.child[Other(side)][g] /\ T1.red = tree.red
      <4> HIDE DEF p, x
      <4>1. tree.child[Other(side)][p] = x
        BY SMTT(30), <2>1
      <4> QED
        BY <1>1, <1>3, <1>4, <3>1, <4>1, InsertBend
    <3>3. ~Red(T1, T1.child[Other(side)][g])
      BY <1>5, <3>2 DEF Red
    <3>4. T1.key = tree.key /\ T1.data = tree.data
      BY SMTT(30), <1>1, <3>1, RotateKeeps DEF Shape
    <3>5. /\ \E b2 : Shape(U, linked, b2)
          /\ MendingInsert(U, linked, p)
          /\ U.key = T1.key /\ U.data = T1.data
      <4> HIDE DEF T1, m
      <4> QED
        BY <3>1, <3>2, <3>3, StraightStep
    <3> HIDE DEF U, m, T1
    <3> QED
      BY <3>1, <3>4, <3>5
  <2>2. CASE ~bent
    <3>1. m = x /\ T1 = tree
      BY <2>2
    <3>2. tree.child[side][p] = x
      BY <1>6, <2>2, Sides
    <3> HIDE DEF T1, m, p, x
    <3> QED
      BY <1>1, <1>3, <1>4, <1>5, <3>1, <3>2, StraightStep
  <2> QED
    BY Zenon, <2>1, <2>2
<1> HIDE DEF U
<1>8. call' \in CallType /\ call'.at = "fix" /\ call'.op = "insert" /\ call'.cur = m
  <2>1. m \in Place
    BY <1>1, <1>6 DEF Shape, Place
  <2> HIDE DEF m
  <2> QED
    BY <1>2, <2>1 DEF TreeInv, CallType, Fixing
<1> HIDE DEF m
<1>9. Contents'
  BY <1>2, <1>7, FixContents
<1> QED
  BY SMTT(30), <1>2, <1>7, <1>8, <1>9, CallFixes

-----------------------------------------------------------------------------
(* Deletion.                                                               *)

\* qp_rbtree_delete is called.
LEMMA DeleteStep ==
  ASSUME TreeInv, NEW n \in Node, Delete(n)
  PROVE  TreeInv'
<1> DEFINE leaf == \E side \in Side : tree.child[side][n] = Nil
           r == tree.child["right"][n]
           from == IF leaf THEN n ELSE r
<1>1. PICK b : Shape(tree, linked, b)
  BY DEF TreeInv
<1>2. /\ n \in linked
      /\ UNCHANGED <<tree, linked, content>>
      /\ call' = [op |-> "delete", at |-> "descend", node |-> n, cur |-> from, key |-> 0]
  BY DEF Delete, Begin
<1>3. ~leaf => /\ r \in linked /\ r # n /\ b["left"][r] = tree.key[n]
               /\ r \in Subtree(n)
  <2> SUFFICES ASSUME ~leaf
               PROVE  /\ r \in linked /\ r # n /\ b["left"][r] = tree.key[n]
                      /\ r \in Subtree(n)
    OBVIOUS
  <2>1. r # Nil
    BY Sides
  <2>2. r \in linked /\ r # n /\ b["left"][r] = tree.key[n]
    BY <1>1, <1>2, <2>1, ChildNests, Sides DEF Other
  <2>3. r \in Subtree(n)
    BY <1>1, <1>2, <2>1, SubtreeBasics, Sides
  <2> QED
    BY <2>2, <2>3
<1>4. call' \in CallType /\ call'.op = "delete" /\ call'.at = "descend" /\ call'.node = n
      /\ call'.cur = from
  <2>1. from \in Place /\ n \in Place /\ 0 \in Key
    BY <1>1, <1>2, <1>3, RbtreeAssumption DEF Shape, Place, Key
  <2> HIDE DEF from
  <2> QED
    BY <1>2, <2>1 DEF CallType
<1>5. DeleteWay(b)'
  <2>1. from = n => leaf
    BY <1>3
  <2>2. from # n => b["left"][from] = tree.key[n] /\ from \in Subtree(n)
    BY <1>3
  <2>3. from \in linked
    BY <1>2, <1>3
  <2>4. Subtree(n)' = Subtree(n)
    BY <1>2, SameSubtrees
  <2> HIDE DEF from
  <2> QED
    BY <1>2, <1>4, <2>1, <2>2, <2>3, <2>4 DEF DeleteWay, Subtree, Closed
<1>6. Ways(b)'
  BY <1>4, <1>5 DEF Ways, InsertWay, FindWay, MinMaxWay, Descending, Side
<1>7. call.at # "fix"
  BY IdleFacts DEF Delete
<1> QED
  BY <1>1, <1>2, <1>4, <1>6, <1>7, CallWalks

\* qp_rbtree_delete goes down to the successor.
LEMMA DeleteDescendStep ==
  ASSUME TreeInv, DeleteDescend
  PROVE  TreeInv'
<1> DEFINE cur == call.cur
           n == call.node
           c == tree.child["left"][cur]
<1>1. PICK b : Shape(tree, linked, b) /\ Ways(b)
  BY DEF TreeInv
<1>2. /\ Descending("delete") /\ cur # n /\ c # Nil /\ Down("left")
      /\ UNCHANGED <<tree, linked, content>>
  BY DEF DeleteDescend
<1>3. n \in linked /\ cur \in linked /\ b["left"][cur] = tree.key[n] /\ cur \in Subtree(n)
  BY <1>1, <1>2 DEF Ways, DeleteWay
<1>4. /\ call' \in CallType
      /\ call'.op = "delete" /\ call'.at = "descend" /\ call'.node = n
      /\ call'.cur = c
  BY <1>2, DownFields, Sides DEF TreeInv, CallType, Descending
<1>5. c \in linked /\ b["left"][c] = tree.key[n]
  BY <1>1, <1>2, <1>3, ChildNests, Sides
<1>6. c \in Subtree(n)
  BY <1>1, <1>2, <1>3, SubtreeBasics, Sides
<1>7. c # n
  <2>1. tree.key[n] \in Int /\ b["left"][n] \in Int
    BY <1>1, <1>3, ShapeTypes, Sides
  <2>2. b["left"][n] < tree.key[n]
    BY <1>1, <1>3, Sides DEF Shape, NodeOk, Within, Before
  <2> QED
    BY <1>5, <2>1, <2>2
<1>8. DeleteWay(b)'
  <2>1. \A m : Subtree(m)' = Subtree(m)
    BY <1>2, SameSubtrees
  <2> HIDE DEF c, n
  <2> QED
    BY <1>2, <1>3, <1>4, <1>5, <1>6, <1>7, <2>1 DEF DeleteWay, Subtree, Closed
<1>9. Ways(b)'
  BY <1>4, <1>8 DEF Ways, InsertWay, FindWay, MinMaxWay, Descending, Side
<1>10. call.at # "fix"
  BY <1>2 DEF Descending
<1> QED
  BY <1>1, <1>2, <1>4, <1>9, <1>10, CallWalks

\* What is left when subst is out, whichever node it is.
Unlinking(b, n, subst, U) ==
  /\ Shape(tree, linked, b) /\ Mended(tree, linked) /\ Contents
  /\ n \in linked /\ subst \in linked
  /\ U = Forget(Unlink(tree, n, subst), subst)
  /\ subst = n => \E side \in Side : tree.child[side][n] = Nil
  /\ subst # n => /\ tree.child["left"][subst] = Nil
                  /\ b["left"][subst] = tree.key[n] /\ subst \in Subtree(n)

\* Without subst, its key and data in n, the tree holds the other keys; a
\* black subst leaves a short link.
LEMMA UnlinkOk ==
  ASSUME NEW b, NEW n, NEW subst, NEW U, Unlinking(b, n, subst, U)
  PROVE  /\ \E b2 : Shape(U, linked \ {subst}, b2)
         /\ Red(tree, subst) => Mended(U, linked \ {subst})
         /\ ~Red(tree, subst) => MendingDelete(U, linked \ {subst}, Only(tree, subst))
         /\ Holds(U, linked \ {subst}, content \ {tree.key[n]})
<1> DEFINE tmp == Only(tree, subst)
           M == linked \ {subst}
<1>0. /\ Shape(tree, linked, b) /\ Mended(tree, linked) /\ Contents
      /\ n \in linked /\ subst \in linked
      /\ U = Forget(Unlink(tree, n, subst), subst)
      /\ subst = n => \E side \in Side : tree.child[side][n] = Nil
      /\ subst # n => /\ tree.child["left"][subst] = Nil
                      /\ b["left"][subst] = tree.key[n] /\ subst \in Subtree(n)
  BY DEF Unlinking
<1> USE <1>0
<1>1. PICK o \in Side : tree.child[o][subst] = Nil /\ (subst # n => o = "left")
  BY Sides
<1>2. Cut(U, tree, n, subst, tmp)
  <2>1. tree \in Tree /\ n \in Node /\ subst \in Node
    BY DEF Shape
  <2> QED
    BY <2>1, CutFields
<1>3. Cutting(tree, linked, b, n, subst, o, tmp, U)
  BY <1>1, <1>2 DEF Cutting
<1> HIDE DEF tmp
<1>4. /\ Red(tree, subst) => Mended(U, M)
      /\ ~Red(tree, subst) => MendingDelete(U, M, tmp)
  BY <1>3, CutBalance
<1>5. \A m \in linked : tree.key[m] = tree.key[n] => m = n
  BY KeysDistinct
<1>6. \E b2 : Shape(U, M, b2)
  <2>1. CASE subst = n
    BY <1>3, <1>5, <2>1, CutSelf
  <2>2. CASE subst # n
    <3>1. Within(b, n, tree.key[subst])
      BY <2>2, SubtreeNests
    <3>2. ASSUME NEW m \in linked, tree.key[m] > tree.key[n], m # subst
          PROVE  tree.key[m] > tree.key[subst]
      <4>1. tree.key[m] # tree.key[subst]
        BY <3>2, KeysDistinct
      <4>2. /\ tree.key[m] \in Int /\ tree.key[n] \in Int /\ tree.key[subst] \in Int
            /\ b["right"][subst] \in Int
        BY ShapeTypes, Sides
      <4>3. tree.key[subst] < b["right"][subst]
        BY Sides DEF Shape, NodeOk, Within, Before
      <4>4. ASSUME tree.key[m] < tree.key[subst] PROVE FALSE
        <5>1. Within(b, subst, tree.key[m])
          BY <2>2, <3>2, <4>2, <4>3, <4>4 DEF Within, Before, Side
        <5>2. Before("left", tree.key[m], tree.key[subst])
          BY <4>4 DEF Before
        <5>3. tree.child["left"][subst] # Nil
          BY <5>1, <5>2, SearchGoesOn, Sides
        <5> QED
          BY <2>2, <5>3
      <4> QED
        BY <4>1, <4>2, <4>4
    <3>3. Cutting(tree, linked, b, n, subst, "left", tmp, U) /\ n # subst
      BY <1>1, <1>3, <2>2
    <3>4. b["left"][subst] = tree.key[n]
      BY <2>2
    <3> QED
      BY <1>5, <3>1, <3>2, <3>3, <3>4, CutSuccessor
  <2> QED
    BY <2>1, <2>2
<1>7. \A m \in M : /\ U.key[m] = IF m = n THEN tree.key[subst] ELSE tree.key[m]
                   /\ U.data[m] = IF m = n THEN tree.data[subst] ELSE tree.data[m]
  BY <1>2 DEF Cut, Shape
<1>8. \A m \in M : U.data[m] = U.key[m]
  BY <1>7 DEF Contents, Holds
<1>9. {U.key[m] : m \in M} = content \ {tree.key[n]}
  <2>0. {tree.key[m] : m \in linked} = content
    BY DEF Contents, Holds
  <2>1. ASSUME NEW m \in M
        PROVE  U.key[m] \in content \ {tree.key[n]}
    <3>1. CASE m = n
      BY <1>5, <1>7, <2>0, <3>1
    <3>2. CASE m # n
      BY <1>5, <1>7, <2>0, <3>2
    <3> QED
      BY <3>1, <3>2
  <2>2. ASSUME NEW k \in content \ {tree.key[n]}
        PROVE  \E m \in M : U.key[m] = k
    <3>1. PICK m \in linked : tree.key[m] = k
      BY <2>0
    <3>2. CASE m = subst
      <4>1. n \in M /\ U.key[n] = k
        BY <1>7, <3>1, <3>2
      <4> QED
        BY <4>1
    <3>3. CASE m # subst
      <4>1. m \in M /\ m # n
        BY <3>1, <3>3
      <4> QED
        BY <1>7, <3>1, <4>1
    <3> QED
      BY <3>2, <3>3
  <2> QED
    BY <2>1, <2>2
<1> QED
  BY <1>4, <1>6, <1>8, <1>9 DEF tmp, Holds

\* qp_rbtree_delete unlinks.
LEMMA DeleteUnlinksStep ==
  ASSUME TreeInv, DeleteUnlinks
  PROVE  TreeInv'
<1> DEFINE n == call.node
           subst == call.cur
           U == Forget(Unlink(tree, n, subst), subst)
           tmp == Only(tree, subst)
<1>1. PICK b : Shape(tree, linked, b) /\ Ways(b)
  BY DEF TreeInv
<1>2. /\ Descending("delete") /\ (subst = n \/ tree.child["left"][subst] = Nil)
      /\ tree' = U
      /\ linked' = linked \ {subst}
      /\ content' = content \ {tree.key[n]}
      /\ call' = IF Red(tree, subst) THEN Returned
                 ELSE [call EXCEPT !.at = "fix", !.node = Nil, !.cur = tmp]
  BY DEF DeleteUnlinks
<1>3. /\ Descending("delete")
      /\ subst # n => tree.child["left"][subst] = Nil
  BY DEF DeleteUnlinks
<1>4. /\ n \in linked /\ subst \in linked
      /\ subst = n => \E side \in Side : tree.child[side][n] = Nil
      /\ subst # n => /\ tree.child["left"][subst] = Nil
                      /\ b["left"][subst] = tree.key[n] /\ subst \in Subtree(n)
  BY <1>1, <1>3 DEF Ways, DeleteWay
<1>5. Mended(tree, linked) /\ Contents
  BY <1>3 DEF TreeInv, Colours, Descending
<1>6. /\ \E b2 : Shape(U, linked \ {subst}, b2)
      /\ Red(tree, subst) => Mended(U, linked \ {subst})
      /\ ~Red(tree, subst) => MendingDelete(U, linked \ {subst}, tmp)
      /\ Holds(U, linked \ {subst}, content \ {tree.key[n]})
  <2>1. Unlinking(b, n, subst, U)
    BY <1>1, <1>4, <1>5 DEF Unlinking
  <2> HIDE DEF n, subst, U
  <2> QED
    BY <2>1, UnlinkOk
<1> HIDE DEF U, tmp, n
<1>7. Contents'
  BY <1>2, <1>6 DEF Contents, Holds
<1>8. CASE Red(tree, subst)
  BY <1>2, <1>6, <1>7, <1>8, CallReturns
<1>9. CASE ~Red(tree, subst)
  <2>1. tmp \in Place /\ Nil \in Place
    BY <1>1, <1>6, <1>9 DEF MendingDelete, Place, Shape
  <2>2. call' \in CallType /\ call'.at = "fix" /\ call'.op = "delete" /\ call'.cur = tmp
    BY <1>2, <1>3, <1>9, <2>1 DEF TreeInv, CallType, Descending
  <2> QED
    BY <1>2, <1>6, <1>7, <1>9, <2>2, CallFixes
<1> QED
  BY <1>8, <1>9

-----------------------------------------------------------------------------
(* The steps of qp_rbtree_delete_fix.                                      *)

\* qp_rbtree_delete_fix ends.
LEMMA DeleteFixEndsStep ==
  ASSUME TreeInv, DeleteFixEnds
  PROVE  TreeInv'
<1>1. PICK b : Shape(tree, linked, b)
  BY DEF TreeInv
<1>2. /\ Fixing("delete") /\ DeleteFixed /\ tree' = SetBlack(tree, call.cur)
      /\ call' = Returned /\ UNCHANGED <<linked, content>>
  BY DEF DeleteFixEnds
<1>3. MendingDelete(tree, linked, call.cur)
  BY <1>2 DEF TreeInv, Colours
<1>4. Shape(tree', linked, b) /\ Mended(tree', linked)
  BY <1>1, <1>2, <1>3, DeleteEnds DEF DeleteFixed
<1>5. Contents'
  <2>1. tree'.key = tree.key /\ tree'.data = tree.data
    BY <1>1, <1>2, Recolour DEF Shape, SameLinks
  <2> QED
    BY <1>2, <2>1, FixContents
<1> QED
  BY <1>2, <1>4, <1>5, CallReturns

\* The first case of a turn leaves x short of a black brother.
LEMMA BlackBrotherOk ==
  ASSUME NEW T, NEW L, NEW b, Shape(T, L, b), NEW x, MendingDelete(T, L, x),
         x # T.root, ~Red(T, x), NEW U, U = BlackBrother(T, x)
  PROVE  /\ \E b2 : Shape(U, L, b2)
         /\ \E h, p, side, sib : Short(U, L, h, x, p, side, sib) /\ ~Red(U, sib)
         /\ U.key = T.key /\ U.data = T.data
<1> DEFINE p == T.parent[x]
           side == SideOf(T, x)
<1>1. PICK h, sib : Short(T, L, h, x, p, side, sib)
  BY DeleteShort
<1>2. Brother(T, x) = sib /\ p \in Node /\ T \in Tree
  BY <1>1 DEF Short, Brother, Shape
<1>3. CASE Red(T, sib)
  <2> DEFINE V == SetRed(SetBlack(T, sib), p)
  <2>1. U = Rotate(V, p, side)
    BY <1>2, <1>3 DEF BlackBrother
  <2>2. V \in Tree /\ SameLinks(V, T)
    BY <1>2, RecolourTwo
  <2> HIDE DEF p, side
  <2>3. /\ \E b2 : Shape(U, L, b2)
        /\ \E k, sib2 : Short(U, L, k, x, p, side, sib2) /\ ~Red(U, sib2)
    BY <1>1, <1>3, <2>1, RedBrother
  <2>4. U.key = V.key /\ U.data = V.data
    BY <2>1, <2>2, RotateKeeps
  <2> QED
    BY <2>2, <2>3, <2>4 DEF SameLinks
<1>4. CASE ~Red(T, sib)
  BY <1>1, <1>2, <1>4 DEF BlackBrother
<1> QED
  BY <1>3, <1>4

\* The nodes around a short link, as the code finds them.
LEMMA ShortPlaces ==
  ASSUME NEW T, NEW L, NEW h, NEW x, NEW p, NEW side, NEW sib, Short(T, L, h, x, p, side, sib)
  PROVE  /\ T.parent[x] = p /\ SideOf(T, x) = side /\ Brother(T, x) = sib
         /\ T.child[Other(side)][p] = sib
         /\ p \in L /\ sib \in L /\ side \in Side
  BY DEF Short, Brother

\* qp_rbtree_delete_fix recolours the brother and goes up.
LEMMA DeleteFixRecoloursStep ==
  ASSUME TreeInv, DeleteFixRecolours
  PROVE  TreeInv'
<1> DEFINE x == call.cur
           T1 == BlackBrother(tree, x)
           U == SetRed(T1, Brother(T1, x))
<1>1. PICK b : Shape(tree, linked, b)
  BY DEF TreeInv
<1>2. /\ Fixing("delete") /\ x # tree.root /\ ~Red(tree, x)
      /\ \A side \in Side : ~Red(T1, T1.child[side][Brother(T1, x)])
      /\ tree' = U
      /\ call' = [call EXCEPT !.cur = T1.parent[x]]
      /\ UNCHANGED <<linked, content>>
  BY DEF DeleteFixRecolours, DeleteFixed
<1>3. MendingDelete(tree, linked, x)
  BY <1>2 DEF TreeInv, Colours
<1>4. /\ \E b2 : Shape(T1, linked, b2)
      /\ \E h, p, side, sib : Short(T1, linked, h, x, p, side, sib) /\ ~Red(T1, sib)
      /\ T1.key = tree.key /\ T1.data = tree.data
  BY <1>1, <1>2, <1>3, BlackBrotherOk
<1> HIDE DEF T1
<1>5. PICK b1 : Shape(T1, linked, b1)
  BY <1>4
<1>6. PICK h, p, side, sib : Short(T1, linked, h, x, p, side, sib) /\ ~Red(T1, sib)
  BY <1>4
<1>7. T1.parent[x] = p /\ Brother(T1, x) = sib /\ p \in linked /\ sib \in linked
  BY <1>6, ShortPlaces
<1>8. Shape(U, linked, b1) /\ MendingDelete(U, linked, p)
  BY <1>2, <1>5, <1>6, <1>7, BlackNephews
<1>9. U.key = tree.key /\ U.data = tree.data
  <2>1. T1 \in Tree /\ sib \in Node
    BY <1>5, <1>7 DEF Shape
  <2> QED
    BY <1>4, <1>7, <2>1, Recolour DEF SameLinks
<1> HIDE DEF U
<1>10. call' \in CallType /\ call'.at = "fix" /\ call'.op = "delete" /\ call'.cur = p
  <2>1. p \in Place
    BY <1>1, <1>7 DEF Shape, Place
  <2> QED
    BY <1>2, <1>7, <2>1 DEF TreeInv, CallType, Fixing
<1>11. Contents'
  BY <1>2, <1>9, FixContents
<1> QED
  BY <1>2, <1>8, <1>10, <1>11, CallFixes

\* The last two cases of a turn, from a black brother.
Turned(T, x) ==
  LET side == SideOf(T, x)
      b == Brother(T, x)
      near == T.child[side][b]
  IN  IF Red(T, T.child[Other(side)][b]) THEN T
      ELSE Rotate(SetRed(SetBlack(T, near), b), b, Other(side))

Lifted(T, p, side) ==
  LET b == T.child[Other(side)][p]
      T3 == IF Red(T, p) THEN SetRed(T, b) ELSE SetBlack(T, b)
      T4 == SetBlack(SetBlack(T3, p), T3.child[Other(side)][b])
  IN  Rotate(T4, p, side)

\* With a red nephew the first rotation, if any, makes the far one red.
LEMMA TurnedOk ==
  ASSUME NEW T, NEW L, NEW b, Shape(T, L, b),
         NEW h, NEW x, NEW p, NEW side, NEW sib, Short(T, L, h, x, p, side, sib), ~Red(T, sib),
         \E s \in Side : Red(T, T.child[s][sib]),
         NEW U, U = Turned(T, x)
  PROVE  /\ \E b2 : Shape(U, L, b2)
         /\ \E k, sib2 : /\ Short(U, L, k, x, p, side, sib2)
                         /\ Red(U, U.child[Other(side)][sib2])
         /\ U.key = T.key /\ U.data = T.data
<1>1. SideOf(T, x) = side /\ Brother(T, x) = sib /\ sib \in Node /\ side \in Side /\ T \in Tree
  BY ShortPlaces DEF Shape
<1>2. CASE Red(T, T.child[Other(side)][sib])
  <2>1. U = T
    BY <1>1, <1>2 DEF Turned
  <2> QED
    BY <1>2, <2>1
<1>3. CASE ~Red(T, T.child[Other(side)][sib])
  <2> DEFINE near == T.child[side][sib]
             V == SetRed(SetBlack(T, near), sib)
  <2>1. U = Rotate(V, sib, Other(side))
    BY <1>1, <1>3 DEF Turned
  <2>2. Red(T, near)
    BY <1>1, <1>3, Sides
  <2>3. V \in Tree /\ SameLinks(V, T)
    BY <1>1, RecolourTwo
  <2>4. U.key = V.key /\ U.data = V.data
    BY <2>1, <2>3, RotateKeeps
  <2>5. /\ \E b2 : Shape(U, L, b2)
        /\ \E k : Short(U, L, k, x, p, side, near)
        /\ Red(U, U.child[Other(side)][near])
    BY <1>3, <2>1, <2>2, DeleteNear
  <2> QED
    BY <2>3, <2>4, <2>5 DEF SameLinks
<1> QED
  BY <1>2, <1>3

\* And the last rotation mends the tree.
LEMMA LiftedOk ==
  ASSUME NEW T, NEW L, NEW b, Shape(T, L, b),
         NEW h, NEW x, NEW p, NEW side, NEW sib, Short(T, L, h, x, p, side, sib),
         Red(T, T.child[Other(side)][sib]),
         NEW U, U = Lifted(T, p, side)
  PROVE  /\ \E b2 : Shape(U, L, b2)
         /\ MendingDelete(U, L, U.root)
         /\ U.key = T.key /\ U.data = T.data
<1> DEFINE far == T.child[Other(side)][sib]
           T3 == IF Red(T, p) THEN SetRed(T, sib) ELSE SetBlack(T, sib)
           V == FarColours(T, p, sib, far)
<1>1. T.child[Other(side)][p] = sib /\ sib \in Node /\ p \in Node /\ T \in Tree
  BY ShortPlaces DEF Shape
<1>2. T3.child = T.child
  BY <1>1, Recolour DEF SameLinks
<1>3. U = Rotate(V, p, side)
  BY <1>1, <1>2 DEF Lifted, FarColours
<1>4. far \in Node
  BY <1>1 DEF Red, Tree
<1>5. V \in Tree /\ SameLinks(V, T)
  <2> HIDE DEF far
  <2> QED
    BY <1>1, <1>4, FarRecolours
<1>6. (\E b2 : Shape(U, L, b2)) /\ MendingDelete(U, L, U.root)
  BY <1>3, DeleteFar
<1> HIDE DEF V
<1>7. U.key = V.key /\ U.data = V.data
  BY <1>3, <1>5, RotateKeeps
<1> QED
  BY <1>5, <1>6, <1>7 DEF SameLinks

\* qp_rbtree_delete_fix rotates and goes to the root.
LEMMA DeleteFixRotatesStep ==
  ASSUME TreeInv, DeleteFixRotates
  PROVE  TreeInv'
<1> DEFINE x == call.cur
           T1 == BlackBrother(tree, x)
           T2 == Turned(T1, x)
           U == Lifted(T2, T1.parent[x], SideOf(T1, x))
<1>1. PICK b : Shape(tree, linked, b)
  BY DEF TreeInv
<1>2. /\ Fixing("delete") /\ x # tree.root /\ ~Red(tree, x)
      /\ \E s \in Side : Red(T1, T1.child[s][Brother(T1, x)])
      /\ tree' = U
      /\ call' = [call EXCEPT !.cur = tree'.root]
      /\ UNCHANGED <<linked, content>>
  BY Zenon DEF DeleteFixRotates, DeleteFixed, Turned, Lifted
<1>3. MendingDelete(tree, linked, x)
  BY <1>2 DEF TreeInv, Colours
<1>4. /\ \E b2 : Shape(T1, linked, b2)
      /\ \E h, p, side, sib : Short(T1, linked, h, x, p, side, sib) /\ ~Red(T1, sib)
      /\ T1.key = tree.key /\ T1.data = tree.data
  BY <1>1, <1>2, <1>3, BlackBrotherOk
<1> HIDE DEF T1, x
<1>5. PICK b1 : Shape(T1, linked, b1)
  BY <1>4
<1>6. PICK h, p, side, sib : Short(T1, linked, h, x, p, side, sib) /\ ~Red(T1, sib)
  BY <1>4
<1>7. T1.parent[x] = p /\ SideOf(T1, x) = side /\ Brother(T1, x) = sib
  BY <1>6, ShortPlaces
<1>8. /\ \E b2 : Shape(T2, linked, b2)
      /\ \E k, sib2 : /\ Short(T2, linked, k, x, p, side, sib2)
                      /\ Red(T2, T2.child[Other(side)][sib2])
      /\ T2.key = T1.key /\ T2.data = T1.data
  BY <1>2, <1>5, <1>6, <1>7, TurnedOk
<1> HIDE DEF T2
<1>9. /\ \E b2 : Shape(U, linked, b2)
      /\ MendingDelete(U, linked, U.root)
      /\ U.key = T2.key /\ U.data = T2.data
  BY <1>7, <1>8, LiftedOk
<1> HIDE DEF U
<1>10. call' \in CallType /\ call'.at = "fix" /\ call'.op = "delete" /\ call'.cur = U.root
  <2>1. U.root \in Place
    BY <1>9 DEF Shape, Tree
  <2> QED
    BY <1>2, <2>1 DEF TreeInv, CallType, Fixing
<1>11. Contents'
  BY <1>2, <1>4, <1>8, <1>9, FixContents
<1> QED
  BY SMTT(30), <1>2, <1>9, <1>10, <1>11, CallFixes

-----------------------------------------------------------------------------
(* Lookups.                                                                *)

\* What is left of a key in 32 bits is a key.
LEMMA FindKey == \A k \in Key : k % FindRange \in Key
<1> SUFFICES ASSUME NEW k \in Key PROVE k % FindRange \in Key
  OBVIOUS
<1>1. k \in Nat /\ k <= MaxKey /\ FindRange \in Nat /\ FindRange > 0 /\ MaxKey \in Nat
  BY RbtreeAssumption DEF Key
<1>2. k % FindRange \in 0 .. FindRange - 1
  BY <1>1
<1>3. k < FindRange => k % FindRange = k
  BY <1>1
<1> QED
  BY <1>1, <1>2, <1>3 DEF Key

\* qp_rbtree_find is called.
LEMMA FindStep ==
  ASSUME TreeInv, NEW k \in Key, Find(k)
  PROVE  TreeInv'
<1> DEFINE j == k % FindRange
<1>1. PICK b : Shape(tree, linked, b)
  BY DEF TreeInv
<1>2. /\ UNCHANGED <<tree, linked, content>>
      /\ call' = [op |-> "find", at |-> "descend", node |-> Nil, cur |-> tree.root, key |-> j]
  BY DEF Find, Begin
<1>3. j \in Key
  BY FindKey
<1> HIDE DEF j
<1>4. call' \in CallType /\ call'.op = "find" /\ call'.at = "descend"
      /\ call'.cur = tree.root /\ call'.key = j
  <2>1. tree.root \in Place /\ Nil \in Place
    BY <1>1 DEF Shape, Tree, Place
  <2> QED
    BY <1>2, <1>3, <2>1 DEF CallType
<1>5. FindWay(b)'
  <2>1. tree.root = Nil => j \notin content
    BY <1>1 DEF TreeInv, Contents, Holds, Shape, RootOk
  <2>2. tree.root # Nil => tree.root \in linked /\ Within(b, tree.root, j)
    BY <1>1, <1>3, RootOwns
  <2> QED
    BY <1>2, <1>4, <2>1, <2>2 DEF FindWay
<1>6. Ways(b)'
  BY <1>4, <1>5 DEF Ways, DeleteWay, InsertWay, MinMaxWay, Descending, Side
<1>7. call.at # "fix"
  BY IdleFacts DEF Find
<1> QED
  BY <1>1, <1>2, <1>4, <1>6, <1>7, CallWalks

\* qp_rbtree_find goes down.
LEMMA FindDescendStep ==
  ASSUME TreeInv, FindDescend
  PROVE  TreeInv'
<1> DEFINE cur == call.cur
           k == call.key
           side == Toward(tree, cur, k)
           c == tree.child[side][cur]
<1>1. PICK b : Shape(tree, linked, b) /\ Ways(b)
  BY DEF TreeInv
<1>2. /\ Descending("find") /\ cur # Nil /\ k # tree.key[cur] /\ Down(side)
      /\ UNCHANGED <<tree, linked, content>>
  BY DEF FindDescend
<1>3. cur \in linked /\ Within(b, cur, k)
  BY <1>1, <1>2 DEF Ways, FindWay
<1>4. k \in Key /\ cur \in Place /\ call.op = "find" /\ call.at = "descend"
  BY <1>2 DEF TreeInv, CallType, Descending
<1>5. side \in Side /\ Before(side, k, tree.key[cur])
  BY <1>1, <1>2, <1>3, <1>4, TowardBefore DEF Shape
<1>6. /\ call' \in CallType
      /\ call'.op = "find" /\ call'.at = "descend"
      /\ call'.key = k /\ call'.cur = c
  BY <1>2, <1>4, <1>5, DownFields
<1>7. c # Nil => c \in linked /\ Within(b, c, k)
  BY <1>1, <1>2, <1>3, <1>4, WithinChild
<1>8. c = Nil => k \notin content
  <2> SUFFICES ASSUME k \in content PROVE c # Nil
    OBVIOUS
  <2>1. PICK m \in linked : tree.key[m] = k
    BY DEF TreeInv, Contents, Holds
  <2> HIDE DEF side, cur, k
  <2> QED
    BY <1>1, <1>3, <1>5, <2>1, SearchGoesOn
<1> HIDE DEF side, cur, c, k
<1>9. FindWay(b)'
  BY <1>2, <1>6, <1>7, <1>8 DEF FindWay
<1>10. Ways(b)'
  BY <1>6, <1>9 DEF Ways, DeleteWay, InsertWay, MinMaxWay, Descending, Side
<1> QED
  BY <1>1, <1>2, <1>4, <1>6, <1>10, CallWalks

\* qp_rbtree_min or qp_rbtree_max is called.
LEMMA MinMaxStep ==
  ASSUME TreeInv, NEW side \in Side, NEW n \in Node, MinMax(side, n)
  PROVE  TreeInv'
<1>1. PICK b : Shape(tree, linked, b)
  BY DEF TreeInv
<1>2. /\ n \in linked
      /\ UNCHANGED <<tree, linked, content>>
      /\ call' = [op |-> side, at |-> "descend", node |-> n, cur |-> n, key |-> 0]
  BY DEF MinMax, Begin
<1>3. call' \in CallType /\ call'.op = side /\ call'.at = "descend"
      /\ call'.cur = n /\ call'.node = n
  <2>1. n \in Place /\ 0 \in Key
    BY RbtreeAssumption DEF Place, Key
  <2> QED
    BY <1>2, <2>1 DEF CallType, Side
<1>4. MinMaxWay(b)'
  <2>1. n \in Subtree(n)
    BY <1>1, <1>2, SubtreeBasics
  <2>2. Subtree(n)' = Subtree(n)
    BY <1>2, SameSubtrees
  <2> QED
    BY <1>2, <1>3, <2>1, <2>2 DEF MinMaxWay, Subtree, Closed, Descending
<1>5. Ways(b)'
  BY <1>3, <1>4 DEF Ways, DeleteWay, InsertWay, FindWay, Descending, Side
<1>6. call.at # "fix"
  BY IdleFacts DEF MinMax
<1> QED
  BY <1>1, <1>2, <1>3, <1>5, <1>6, CallWalks

\* qp_rbtree_min or qp_rbtree_max goes down.
LEMMA MinMaxDescendStep ==
  ASSUME TreeInv, NEW side \in Side, MinMaxDescend(side)
  PROVE  TreeInv'
<1> DEFINE cur == call.cur
           n == call.node
           c == tree.child[side][cur]
<1>1. PICK b : Shape(tree, linked, b) /\ Ways(b)
  BY DEF TreeInv
<1>2. /\ Descending(side) /\ c # Nil /\ Down(side)
      /\ UNCHANGED <<tree, linked, content>>
  BY DEF MinMaxDescend
<1>3. n \in linked /\ cur \in Subtree(n) /\ b[side][cur] = b[side][n]
  BY <1>1, <1>2 DEF Ways, MinMaxWay
<1>4. cur \in linked
  BY <1>3 DEF Subtree
<1>5. /\ call' \in CallType
      /\ call'.op = side /\ call'.at = "descend" /\ call'.node = n
      /\ call'.cur = c
  BY <1>2, DownFields DEF TreeInv, CallType, Descending
<1>6. c \in linked /\ b[side][c] = b[side][cur]
  BY <1>1, <1>2, <1>4, ChildNests
<1>7. c \in Subtree(n)
  BY <1>1, <1>2, <1>3, SubtreeBasics
<1>8. MinMaxWay(b)'
  <2>1. \A m : Subtree(m)' = Subtree(m)
    BY <1>2, SameSubtrees
  <2> HIDE DEF c, n, cur
  <2> QED
    BY <1>2, <1>3, <1>5, <1>6, <1>7, <2>1 DEF MinMaxWay, Subtree, Closed, Descending
<1>9. Ways(b)'
  BY <1>5, <1>8 DEF Ways, InsertWay, DeleteWay, FindWay, Descending, Side
<1>10. call.at # "fix"
  BY <1>2 DEF Descending
<1> QED
  BY <1>1, <1>2, <1>5, <1>9, <1>10, CallWalks

\* A lookup returns, or an insertion finds its key taken.
LEMMA LookupReturnsStep ==
  ASSUME TreeInv, \/ InsertDuplicate \/ FindReturns \/ \E side \in Side : MinMaxReturns(side)
  PROVE  TreeInv'
<1>1. call.at = "descend" /\ call' = Returned /\ UNCHANGED <<tree, linked, content>>
  BY DEF InsertDuplicate, FindReturns, FindEnds, MinMaxReturns, MinMaxEnds, Descending
<1> QED
  BY <1>1, StayReturns

-----------------------------------------------------------------------------
\* Every step of every call keeps the invariant.
LEMMA TreeStep == TreeInv /\ [Next]_vars => TreeInv'
<1> SUFFICES ASSUME TreeInv, [Next]_vars PROVE TreeInv'
  OBVIOUS
<1>1. CASE \E n \in Node, k \in Key : Insert(n, k)
  BY <1>1, InsertStep
<1>2. CASE InsertRoot \/ InsertDescend \/ InsertLeaf
  BY <1>2, InsertRootStep, InsertDescendStep, InsertLeafStep
<1>3. CASE InsertFixEnds \/ InsertFixRecolours \/ InsertFixRotates
  BY <1>3, InsertFixEndsStep, InsertFixRecoloursStep, InsertFixRotatesStep
<1>4. CASE \E n \in Node : Delete(n)
  BY <1>4, DeleteStep
<1>5. CASE DeleteDescend \/ DeleteUnlinks
  BY <1>5, DeleteDescendStep, DeleteUnlinksStep
<1>6. CASE DeleteFixEnds \/ DeleteFixRecolours \/ DeleteFixRotates
  BY <1>6, DeleteFixEndsStep, DeleteFixRecoloursStep, DeleteFixRotatesStep
<1>7. CASE \E k \in Key : Find(k)
  BY <1>7, FindStep
<1>8. CASE FindDescend
  BY <1>8, FindDescendStep
<1>9. CASE \E side \in Side, n \in Node : MinMax(side, n)
  BY <1>9, MinMaxStep
<1>10. CASE \E side \in Side : MinMaxDescend(side)
  BY <1>10, MinMaxDescendStep
<1>11. CASE InsertDuplicate \/ FindReturns \/ \E side \in Side : MinMaxReturns(side)
  BY <1>11, LookupReturnsStep
<1>12. CASE UNCHANGED vars
  BY <1>12 DEF vars, TreeInv, Contents, Colours, Fixing, Ways, InsertWay, DeleteWay, FindWay,
     MinMaxWay, Descending, Subtree, Closed
<1> QED
  BY <1>1, <1>2, <1>3, <1>4, <1>5, <1>6, <1>7, <1>8, <1>9, <1>10, <1>11, <1>12 DEF Next

-----------------------------------------------------------------------------
(* What the invariant says.                                                *)

\* The bounds make the links a search tree.
LEMMA TreeInvSearch == TreeInv => SearchTree
<1> SUFFICES ASSUME TreeInv PROVE SearchTree
  OBVIOUS
<1>1. PICK b : Shape(tree, linked, b)
  BY DEF TreeInv
<1>2. Subtree(tree.root) = linked
  BY <1>1, EverythingBelowRoot
<1>3. tree.root # Nil => tree.parent[tree.root] = Nil
  BY <1>1 DEF Shape, RootOk
<1>4. ASSUME NEW n \in linked, NEW side \in Side, tree.child[side][n] # Nil
      PROVE  tree.parent[tree.child[side][n]] = n
  BY <1>1, <1>4, ChildNests
<1>5. ASSUME NEW n \in linked, NEW m \in Subtree(tree.child["left"][n])
      PROVE  tree.key[m] < tree.key[n]
  BY <1>1, SubtreeSide, Sides DEF Before
<1>6. ASSUME NEW n \in linked, NEW m \in Subtree(tree.child["right"][n])
      PROVE  tree.key[m] > tree.key[n]
  <2>1. m \in linked /\ Before("right", tree.key[m], tree.key[n])
    BY <1>1, SubtreeSide, Sides
  <2>2. tree.key[m] \in Int /\ tree.key[n] \in Int
    BY <1>1, <2>1, ShapeTypes
  <2> QED
    BY <2>1, <2>2 DEF Before
<1> QED
  BY <1>2, <1>3, <1>4, <1>5, <1>6 DEF SearchTree

\* The heights make every path as long.
LEMMA TreeInvBalanced == TreeInv => RedBlack
<1> SUFFICES ASSUME TreeInv, Idle
             PROVE  /\ ~Red(tree, tree.root) /\ ~Red(tree, Nil)
                    /\ \A n \in linked : Red(tree, n) => ~Red(tree, tree.parent[n])
                    /\ LET Ends == {n \in linked : \E side \in Side : tree.child[side][n] = Nil}
                       IN  \A m, n \in Ends : Cardinality(BlackPath(m)) = Cardinality(BlackPath(n))
  BY DEF RedBlack
<1>1. PICK b : Shape(tree, linked, b)
  BY DEF TreeInv
<1>2. Mended(tree, linked)
  BY IdleFacts
<1>3. ~Red(tree, tree.root) /\ \A n \in linked : Calm(tree, n)
  BY <1>2 DEF Mended
<1>4. ~Red(tree, Nil)
  BY <1>1, RbtreeAssumption DEF Shape, Tree, Red
<1>5. ASSUME NEW n \in linked, Red(tree, n)
      PROVE  ~Red(tree, tree.parent[n])
  <2>1. n # tree.root
    BY <1>3, <1>5
  <2>2. /\ tree.parent[n] \in linked /\ SideOf(tree, n) \in Side
        /\ tree.child[SideOf(tree, n)][tree.parent[n]] = n
    BY <1>1, <2>1, ParentOf
  <2> QED
    BY <1>3, <1>5, <2>2 DEF Calm
<1>6. PICK h : Balanced(tree, linked, h, Nil, "left")
  BY <1>2 DEF Mended
<1>7. ASSUME NEW n \in linked, NEW side \in Side, tree.child[side][n] = Nil
      PROVE  Cardinality(BlackPath(n)) = h[tree.root]
  <2>1. Cardinality(BlackPath(n)) + h[n] = h[tree.root] + Weight(tree, n)
    BY <1>1, <1>6, PathsWeigh DEF Balanced
  <2>2. h[n] = h[Nil] + Weight(tree, n)
    BY <1>1, <1>6, <1>7, NoHole
  <2>3. IsFiniteSet(BlackPath(n))
    <3>1. BlackPath(n) \subseteq Node
      BY <1>1 DEF BlackPath, Shape
    <3> QED
      BY <3>1, FS_Subset, RbtreeAssumption
  <2>4. Cardinality(BlackPath(n)) \in Nat
    BY <2>3, FS_CardinalityType
  <2>5. h[Nil] = 0 /\ h[n] \in Nat /\ h[tree.root] \in Nat /\ Weight(tree, n) \in Nat
    <3>1. tree.root \in Place
      BY <1>1 DEF Shape, Tree
    <3> QED
      BY <1>1, <1>6, <3>1, BalancedHeights DEF Balanced, Weight
  <2>6. \A c, i, r, w \in Nat : c + i = r + w /\ i = 0 + w => c = r
    OBVIOUS
  <2> QED
    BY <2>1, <2>2, <2>4, <2>5, <2>6
<1> QED
  BY <1>3, <1>4, <1>5, <1>7

\* The ways make the lookups exact.
LEMMA TreeInvLookups == TreeInv => LookupsExact
<1> SUFFICES ASSUME TreeInv PROVE LookupsExact
  OBVIOUS
<1>1. PICK b : Shape(tree, linked, b) /\ Ways(b)
  BY DEF TreeInv
<1>2. /\ {tree.key[n] : n \in linked} = content
      /\ \A n \in linked : tree.data[n] = tree.key[n]
  BY DEF TreeInv, Contents, Holds
<1>3. ASSUME FindEnds
      PROVE  IF call.key \in content THEN call.cur \in linked /\ tree.key[call.cur] = call.key
             ELSE call.cur = Nil
  <2>1. /\ call.cur = Nil => call.key \notin content
        /\ call.cur # Nil => call.cur \in linked /\ tree.key[call.cur] = call.key
    BY <1>1, <1>3 DEF FindEnds, Ways, FindWay
  <2> QED
    BY <1>2, <2>1
<1>4. ASSUME NEW side \in Side, MinMaxEnds(side)
      PROVE  /\ call.cur \in Subtree(call.node)
             /\ \A m \in Subtree(call.node) :
                  IF side = "left" THEN tree.key[call.cur] <= tree.key[m]
                  ELSE tree.key[call.cur] >= tree.key[m]
  <2> DEFINE cur == call.cur
             n == call.node
  <2>1. tree.child[side][cur] = Nil /\ n \in linked /\ cur \in Subtree(n)
        /\ b[side][cur] = b[side][n]
    BY <1>1, <1>4 DEF MinMaxEnds, Ways, MinMaxWay
  <2>2. cur \in linked
    BY <2>1 DEF Subtree
  <2>3. ASSUME NEW m \in Subtree(n)
        PROVE  ~Before(side, tree.key[m], tree.key[cur]) /\ tree.key[m] \in Int
    <3>1. m \in linked
      BY DEF Subtree
    <3>2. /\ tree.key[m] \in Int /\ tree.key[cur] \in Int
          /\ b[Other(side)][cur] \in Int /\ Other(side) \in Side
      BY <1>1, <2>2, <3>1, ShapeTypes, Sides
    <3>3. Before(side, b[side][cur], tree.key[m])
      <4>1. Within(b, n, tree.key[m])
        BY <1>1, <2>1, SubtreeNests
      <4> QED
        BY <2>1, <4>1 DEF Within
    <3>4. Before(Other(side), b[Other(side)][cur], tree.key[cur])
      BY <1>1, <2>2, <3>2 DEF Shape, NodeOk, Within
    <3>5. ASSUME Before(side, tree.key[m], tree.key[cur]) PROVE FALSE
      <4>1. Before(Other(side), tree.key[cur], tree.key[m])
        BY <3>2, <3>5, Befores
      <4>2. Before(Other(side), b[Other(side)][cur], tree.key[m])
        BY <3>2, <3>4, <4>1, Befores
      <4>3. Within(b, cur, tree.key[m])
        BY <3>3, <4>2, Sides DEF Within
      <4> HIDE DEF cur
      <4>4. tree.child[side][cur] # Nil
        BY <1>1, <2>2, <3>1, <3>5, <4>3, SearchGoesOn
      <4> QED
        BY <2>1, <4>4
    <3> QED
      BY <3>2, <3>5
  <2>4. tree.key[cur] \in Int
    BY <1>1, <2>2, ShapeTypes
  <2> QED
    BY <2>1, <2>3, <2>4 DEF Before
<1> QED
  BY <1>2, <1>3, <1>4 DEF LookupsExact

-----------------------------------------------------------------------------
(* Queues *)

Cell == QHead \cup Node
Links == [prev : [Cell -> Cell \cup {Null}], next : [Cell -> Cell \cup {Null}]]

\* The cells one meets on the way once round a queue: the head, the nodes, the head.
Around(q, s) == [k \in 0..(Len(s) + 1) |-> IF k \in 1..Len(s) THEN s[k] ELSE q]

\* The links lead round f forwards and backwards.
Linked(l, f, N) == \A k \in 0..N : l.next[f[k]] = f[k + 1] /\ l.prev[f[k + 1]] = f[k]

Ring(l, q, s) == Linked(l, Around(q, s), Len(s))

\* f goes round through N different nodes.
Round(f, N) ==
  /\ N \in Nat
  /\ f \in [0..(N + 1) -> Cell]
  /\ f[N + 1] = f[0]
  /\ \A j, k \in 0..N : f[j] = f[k] => j = k

\* A sequence with n inserted at i.
LEMMA InsertAtElements ==
  ASSUME NEW s \in Seq(Node), NEW i \in 1..(Len(s) + 1), NEW n \in Node
  PROVE  /\ Q!InsertAt(s, i, n) \in Seq(Node)
         /\ Len(Q!InsertAt(s, i, n)) = Len(s) + 1
         /\ \A k \in 1..(Len(s) + 1) :
              Q!InsertAt(s, i, n)[k] = IF k < i THEN s[k] ELSE IF k = i THEN n ELSE s[k - 1]
<1>1. Len(s) \in Nat /\ i \in Nat
  BY LenProperties
<1> DEFINE a == SubSeq(s, 1, i - 1)
           b == <<n>>
           c == SubSeq(s, i, Len(s))
<1>2. a \in Seq(Node) /\ Len(a) = i - 1 /\ \A k \in 1..(i - 1) : a[k] = s[k]
  BY <1>1, SubSeqProperties
<1>3. c \in Seq(Node) /\ Len(c) = Len(s) - i + 1 /\ \A k \in 1..(Len(s) - i + 1) : c[k] = s[i + k - 1]
  BY <1>1, SubSeqProperties
<1>4. b \in Seq(Node) /\ Len(b) = 1 /\ b[1] = n
  OBVIOUS
<1>5. Q!InsertAt(s, i, n) = (a \o b) \o c
  BY DEF Q!InsertAt
<1> HIDE DEF a, b, c
<1> DEFINE d == a \o b
           e == d \o c
<1>6. /\ d \in Seq(Node)
      /\ Len(d) = Len(a) + Len(b)
      /\ \A k \in 1..(Len(a) + Len(b)) : d[k] = IF k <= Len(a) THEN a[k] ELSE b[k - Len(a)]
  BY <1>2, <1>4, ConcatProperties, Zenon
<1> HIDE DEF d
<1>0. c \in Seq(Node) /\ d \in Seq(Node)
  BY <1>3, <1>6
<1>7. /\ e \in Seq(Node)
      /\ Len(e) = Len(d) + Len(c)
      /\ \A k \in 1..(Len(d) + Len(c)) : e[k] = IF k <= Len(d) THEN d[k] ELSE c[k - Len(d)]
  BY <1>0, ConcatProperties, Zenon
<1> HIDE DEF e
<1>8. Len(d) = i /\ \A k \in 1..i : d[k] = IF k < i THEN s[k] ELSE n
  BY <1>1, <1>2, <1>4, <1>6
<1>9. Len(e) = Len(s) + 1
  <2>1. Len(e) = Len(d) + Len(c)
    BY <1>7
  <2>2. Len(d) = i
    BY <1>8
  <2>3. Len(c) = Len(s) - i + 1
    BY <1>3
  <2>4. QED
    BY <1>1, <2>1, <2>2, <2>3
<1>10. ASSUME NEW k \in 1..(Len(s) + 1)
       PROVE  e[k] = IF k < i THEN s[k] ELSE IF k = i THEN n ELSE s[k - 1]
  <2>1. k \in 1..(Len(d) + Len(c))
    BY <1>1, <1>3, <1>8
  <2>2. CASE k <= i
    BY <2>1, <2>2, <1>1, <1>7, <1>8
  <2>3. CASE k > i
    <3>1. e[k] = c[k - i] /\ k - i \in 1..(Len(s) - i + 1)
      BY <2>1, <2>3, <1>1, <1>7, <1>8
    <3>2. c[k - i] = s[i + (k - i) - 1]
      BY <3>1, <1>3
    <3>3. i + (k - i) - 1 = k - 1
      BY <1>1
    <3>4. QED
      BY <2>3, <3>1, <3>2, <3>3, <1>1
  <2>4. QED
    BY <2>2, <2>3, <1>1
<1>11. Q!InsertAt(s, i, n) = e
  BY <1>5 DEF d, e
<1>12. QED
  BY <1>6, <1>7, <1>9, <1>10, <1>11

\* A sequence without its i-th element.
LEMMA RemoveAtElements ==
  ASSUME NEW s \in Seq(Node), NEW i \in 1..Len(s)
  PROVE  /\ Q!RemoveAt(s, i) \in Seq(Node)
         /\ Len(Q!RemoveAt(s, i)) = Len(s) - 1
         /\ \A k \in 1..(Len(s) - 1) :
              Q!RemoveAt(s, i)[k] = IF k < i THEN s[k] ELSE s[k + 1]
<1>1. Len(s) \in Nat /\ i \in Nat
  BY LenProperties
<1> DEFINE a == SubSeq(s, 1, i - 1)
           c == SubSeq(s, i + 1, Len(s))
<1>2. a \in Seq(Node) /\ Len(a) = i - 1 /\ \A k \in 1..(i - 1) : a[k] = s[k]
  BY <1>1, SubSeqProperties
<1>3. c \in Seq(Node) /\ Len(c) = Len(s) - i /\ \A k \in 1..(Len(s) - i) : c[k] = s[i + k]
  BY <1>1, SubSeqProperties
<1>5. Q!RemoveAt(s, i) = a \o c
  BY DEF Q!RemoveAt
<1> HIDE DEF a, c
<1>4. a \in Seq(Node) /\ c \in Seq(Node)
  BY <1>2, <1>3
<1> DEFINE e == a \o c
<1>6. /\ e \in Seq(Node)
      /\ Len(e) = Len(a) + Len(c)
      /\ \A k \in 1..(Len(a) + Len(c)) : e[k] = IF k <= Len(a) THEN a[k] ELSE c[k - Len(a)]
  BY <1>4, ConcatProperties, Zenon
<1> HIDE DEF e
<1>7. Len(a) + Len(c) = Len(s) - 1
  <2>1. Len(a) = i - 1 /\ Len(c) = Len(s) - i
    BY <1>2, <1>3
  <2>2. QED
    BY <1>1, <2>1
<1>8. ASSUME NEW k \in 1..(Len(s) - 1)
      PROVE  e[k] = IF k < i THEN s[k] ELSE s[k + 1]
  <2>1. Len(a) = i - 1
    BY <1>2
  <2>2. e[k] = IF k <= i - 1 THEN a[k] ELSE c[k - (i - 1)]
    BY <1>6, <1>7, <2>1
  <2>3. CASE k < i
    <3>1. e[k] = a[k] /\ a[k] = s[k]
      BY <1>1, <1>2, <2>2, <2>3
    <3>2. QED
      BY <2>3, <3>1
  <2>4. CASE ~(k < i)
    <3>1. e[k] = c[k - (i - 1)] /\ k - (i - 1) \in 1..(Len(s) - i) /\ i + (k - (i - 1)) = k + 1
      BY <1>1, <2>2, <2>4
    <3>2. c[k - (i - 1)] = s[i + (k - (i - 1))]
      BY <1>3, <3>1
    <3>3. QED
      BY <2>4, <3>1, <3>2
  <2>5. QED
    BY <2>3, <2>4
<1>9. Q!RemoveAt(s, i) = e
  BY <1>5 DEF e
<1>10. QED
  BY <1>6, <1>7, <1>8, <1>9

\* The way round a queue, with its nodes different from each other, meets every
\* cell once.
LEMMA AroundRound ==
  ASSUME NEW q \in QHead, NEW s \in Seq(Node),
         \A i, j \in 1..Len(s) : s[i] = s[j] => i = j
  PROVE  Round(Around(q, s), Len(s))
<1>1. Len(s) \in Nat /\ \A k \in 1..Len(s) : s[k] \in Node
  BY LenProperties
<1>2. QED
  BY <1>1, ContainersAssumption DEF Round, Around, Cell

\* Where the links of a head lead.
LEMMA HeadLinks ==
  ASSUME NEW N, NEW f, Round(f, N), NEW l, Linked(l, f, N)
  PROVE  /\ f[0] \in Cell /\ f[1] \in Cell /\ f[N] \in Cell /\ f[N + 1] = f[0]
         /\ l.next[f[0]] = f[1] /\ l.prev[f[0]] = f[N]
<1>1. N \in Nat /\ f[N + 1] = f[0] /\ f \in [0..(N + 1) -> Cell]
  BY DEF Round
<1>2. 0 \in 0..N /\ N \in 0..N /\ 0 + 1 = 1
  BY <1>1
<1>3. f[0] \in Cell /\ f[1] \in Cell /\ f[N] \in Cell
  BY <1>1
<1>4. l.next[f[0]] = f[0 + 1] /\ l.prev[f[N + 1]] = f[N]
  BY <1>2 DEF Linked
<1> QED
  BY <1>1, <1>2, <1>3, <1>4

\* Nor does the way meet a cell twice when the head is counted at its end.
LEMMA RoundBack ==
  ASSUME NEW N, NEW f, Round(f, N)
  PROVE  \A j, k \in 1..(N + 1) : f[j] = f[k] => j = k
<1>1. N \in Nat /\ f[N + 1] = f[0] /\ \A j, k \in 0..N : f[j] = f[k] => j = k
  BY DEF Round
<1>2. ASSUME NEW j \in 1..(N + 1), NEW k \in 1..(N + 1), f[j] = f[k] PROVE j = k
  <2>1. CASE j = N + 1 /\ k # N + 1
    BY <1>1, <1>2, <2>1
  <2>2. CASE j # N + 1 /\ k = N + 1
    BY <1>1, <1>2, <2>2
  <2>3. CASE j # N + 1 /\ k # N + 1
    BY <1>1, <1>2, <2>3
  <2>4. QED
    BY <2>1, <2>2, <2>3
<1>3. QED
  BY <1>2

\* What the links of cells not met round f are is of no matter.
LEMMA LinkedFrame ==
  ASSUME NEW N, NEW f, Round(f, N), NEW l, NEW r, Linked(l, f, N),
         \A k \in 0..N : r.next[f[k]] = l.next[f[k]] /\ r.prev[f[k]] = l.prev[f[k]]
  PROVE  Linked(r, f, N)
<1>1. N \in Nat /\ f[N + 1] = f[0]
  BY DEF Round
<1>2. ASSUME NEW k \in 0..N
      PROVE  r.next[f[k]] = f[k + 1] /\ r.prev[f[k + 1]] = f[k]
  <2>1. l.next[f[k]] = f[k + 1] /\ l.prev[f[k + 1]] = f[k]
    BY DEF Linked
  <2>2. CASE k = N
    BY <1>1, <2>1, <2>2
  <2>3. CASE k # N
    <3>1. k + 1 \in 0..N
      BY <1>1, <2>3
    <3>2. QED
      BY <2>1, <3>1
  <2>4. QED
    BY <2>2, <2>3
<1>3. QED
  BY <1>2 DEF Linked

\* n is linked in between a and b.
Hooked(l, r, a, n, b) ==
  /\ r.next = [l.next EXCEPT ![n] = b, ![a] = n]
  /\ r.prev = [l.prev EXCEPT ![n] = a, ![b] = n]

\* Where n is linked in between two neighbours, the way round goes through it.
LEMMA HookedRing ==
  ASSUME NEW N, NEW f, Round(f, N), NEW l \in Links, NEW r, Linked(l, f, N),
         NEW i \in 1..(N + 1), NEW n \in Cell, \A k \in 0..N : f[k] # n,
         Hooked(l, r, f[i - 1], n, f[i]),
         NEW g, \A k \in 0..(N + 2) :
           g[k] = IF k < i THEN f[k] ELSE IF k = i THEN n ELSE f[k - 1]
  PROVE  Linked(r, g, N + 1)
<1>1. N \in Nat /\ f[N + 1] = f[0] /\ \A k \in 0..(N + 1) : f[k] \in Cell
  BY DEF Round
<1>2. \A j, k \in 0..N : f[j] = f[k] => j = k
  BY DEF Round
<1>3. \A k \in 1..(N + 1) : f[k] # n
  BY <1>1
<1>4. \A x \in Cell : r.next[x] = IF x = f[i - 1] THEN n ELSE IF x = n THEN f[i] ELSE l.next[x]
  BY DEF Hooked, Links
<1>5. \A x \in Cell : r.prev[x] = IF x = f[i] THEN n ELSE IF x = n THEN f[i - 1] ELSE l.prev[x]
  BY DEF Hooked, Links
<1>6. \A j, k \in 1..(N + 1) : f[j] = f[k] => j = k
  BY RoundBack
<1>7. ASSUME NEW k \in 0..(N + 1)
      PROVE  r.next[g[k]] = g[k + 1] /\ r.prev[g[k + 1]] = g[k]
  <2>1. CASE k < i - 1
    <3>1. k \in 0..N /\ k + 1 \in 1..(N + 1) /\ g[k] = f[k] /\ g[k + 1] = f[k + 1] /\ k # i - 1 /\ k + 1 # i
      BY <1>1, <2>1
    <3>2. f[k] # f[i - 1] /\ f[k + 1] # f[i]
      BY <1>1, <1>2, <1>6, <3>1
    <3>3. QED
      BY <1>1, <1>3, <1>4, <1>5, <3>1, <3>2 DEF Linked
  <2>2. CASE k = i - 1
    BY <1>1, <1>3, <1>4, <1>5, <2>2
  <2>3. CASE k = i
    BY <1>1, <1>3, <1>4, <1>5, <2>3
  <2>4. CASE k > i
    <3>1. k - 1 \in 0..N /\ k \in 1..(N + 1) /\ g[k] = f[k - 1] /\ g[k + 1] = f[k] /\ k - 1 # i - 1 /\ k # i
      BY <1>1, <2>4
    <3>2. f[k - 1] # f[i - 1] /\ f[k] # f[i]
      BY <1>1, <1>2, <1>6, <3>1
    <3>3. l.next[f[k - 1]] = f[k] /\ l.prev[f[k]] = f[k - 1]
      BY <3>1 DEF Linked
    <3>4. QED
      BY <1>1, <1>3, <1>4, <1>5, <3>1, <3>2, <3>3
  <2>5. QED
    BY <1>1, <2>1, <2>2, <2>3, <2>4
<1>8. QED
  BY <1>1, <1>7 DEF Linked

\* n is taken out from between a and b.
Unhooked(l, r, a, n, b) ==
  /\ \A x \in Cell \ {n} : r.next[x] = IF x = a THEN b ELSE l.next[x]
  /\ \A x \in Cell \ {n} : r.prev[x] = IF x = b THEN a ELSE l.prev[x]

\* Where a node is taken out, the way round goes past it.
LEMMA UnhookedRing ==
  ASSUME NEW N, NEW f, Round(f, N), NEW l, NEW r, Linked(l, f, N),
         NEW i \in 1..N, Unhooked(l, r, f[i - 1], f[i], f[i + 1]),
         NEW g, \A k \in 0..N : g[k] = IF k < i THEN f[k] ELSE f[k + 1]
  PROVE  Linked(r, g, N - 1)
<1>1. N \in Nat /\ f[N + 1] = f[0] /\ \A k \in 0..(N + 1) : f[k] \in Cell
  BY DEF Round
<1>2. \A j, k \in 0..N : f[j] = f[k] => j = k
  BY DEF Round
<1>3. \A j, k \in 1..(N + 1) : f[j] = f[k] => j = k
  BY RoundBack
<1>4. ASSUME NEW k \in 0..(N - 1)
      PROVE  r.next[g[k]] = g[k + 1] /\ r.prev[g[k + 1]] = g[k]
  <2>1. CASE k < i - 1
    <3>1. k \in 0..N /\ k + 1 \in 1..(N + 1) /\ g[k] = f[k] /\ g[k + 1] = f[k + 1]
      BY <1>1, <2>1
    <3>2. f[k] # f[i - 1] /\ f[k] # f[i] /\ f[k + 1] # f[i + 1] /\ f[k + 1] # f[i]
      BY <1>1, <1>2, <1>3, <2>1, <3>1
    <3>3. l.next[f[k]] = f[k + 1] /\ l.prev[f[k + 1]] = f[k]
      BY <3>1 DEF Linked
    <3>4. QED
      BY <1>1, <3>1, <3>2, <3>3 DEF Unhooked
  <2>2. CASE k = i - 1
    <3>1. g[k] = f[i - 1] /\ g[k + 1] = f[i + 1]
      BY <1>1, <2>2
    <3>2. f[i - 1] # f[i] /\ f[i + 1] # f[i]
      BY <1>1, <1>2, <1>3
    <3>3. QED
      BY <1>1, <3>1, <3>2 DEF Unhooked
  <2>3. CASE k > i - 1
    <3>1. k + 1 \in 0..N /\ k + 2 \in 1..(N + 1) /\ g[k] = f[k + 1] /\ g[k + 1] = f[k + 2]
      BY <1>1, <2>3
    <3>2. f[k + 1] # f[i - 1] /\ f[k + 1] # f[i] /\ f[k + 2] # f[i + 1] /\ f[k + 2] # f[i]
      BY <1>1, <1>2, <1>3, <2>3, <3>1
    <3>3. l.next[f[k + 1]] = f[k + 2] /\ l.prev[f[k + 2]] = f[k + 1]
      BY <3>1 DEF Linked
    <3>4. QED
      BY <1>1, <3>1, <3>2, <3>3 DEF Unhooked
  <2>4. QED
    BY <1>1, <2>1, <2>2, <2>3
<1>5. QED
  BY <1>1, <1>4 DEF Linked

\* The ring f is cut before f[i]; p is the head of what is cut off.
Divided(l, r, f, N, i, p) ==
  /\ \A x \in Cell : r.next[x] = IF x = f[i - 1] THEN f[0] ELSE IF x = p THEN f[i]
                                 ELSE IF x = f[N] THEN p ELSE l.next[x]
  /\ \A x \in Cell : r.prev[x] = IF x = f[i] THEN p ELSE IF x = f[0] THEN f[i - 1]
                                 ELSE IF x = p THEN f[N] ELSE l.prev[x]

\* Where a queue is split, its head goes round what is before the node.
LEMMA DividedFront ==
  ASSUME NEW N, NEW f, Round(f, N), NEW l, NEW r, Linked(l, f, N),
         NEW i \in 1..N, NEW p \in Cell, \A k \in 0..N : f[k] # p, Divided(l, r, f, N, i, p),
         NEW g, \A k \in 0..i : g[k] = IF k < i THEN f[k] ELSE f[0]
  PROVE  Linked(r, g, i - 1)
<1>1. N \in Nat /\ f[N + 1] = f[0] /\ \A k \in 0..(N + 1) : f[k] \in Cell
  BY DEF Round
<1>2. \A j, k \in 0..N : f[j] = f[k] => j = k
  BY DEF Round
<1>4. ASSUME NEW k \in 0..(i - 1)
      PROVE  r.next[g[k]] = g[k + 1] /\ r.prev[g[k + 1]] = g[k]
  <2>1. CASE k < i - 1
    <3>1. k \in 0..N /\ k + 1 \in 0..N /\ g[k] = f[k] /\ g[k + 1] = f[k + 1]
      BY <1>1, <2>1
    <3>2. f[k] # f[i - 1] /\ f[k] # f[N] /\ f[k + 1] # f[0] /\ f[k + 1] # f[i] /\ f[k] # p /\ f[k + 1] # p
      BY <1>1, <1>2, <2>1, <3>1
    <3>3. l.next[f[k]] = f[k + 1] /\ l.prev[f[k + 1]] = f[k]
      BY <3>1 DEF Linked
    <3>4. QED
      BY <1>1, <3>1, <3>2, <3>3 DEF Divided
  <2>2. CASE k = i - 1
    <3>1. g[k] = f[i - 1] /\ g[k + 1] = f[0]
      BY <1>1, <2>2
    <3>2. f[0] # f[i]
      BY <1>1, <1>2
    <3>3. QED
      BY <1>1, <3>1, <3>2 DEF Divided
  <2>3. QED
    BY <1>1, <2>1, <2>2
<1>5. QED
  BY <1>1, <1>4 DEF Linked

\* And the new head goes round the node and what is behind it.
LEMMA DividedBack ==
  ASSUME NEW N, NEW f, Round(f, N), NEW l, NEW r, Linked(l, f, N),
         NEW i \in 1..N, NEW p \in Cell, \A k \in 0..N : f[k] # p, Divided(l, r, f, N, i, p),
         NEW g, \A k \in 0..(N - i + 2) : g[k] = IF k \in 1..(N - i + 1) THEN f[i + k - 1] ELSE p
  PROVE  Linked(r, g, N - i + 1)
<1>1. N \in Nat /\ f[N + 1] = f[0] /\ \A k \in 0..(N + 1) : f[k] \in Cell
  BY DEF Round
<1>2. \A j, k \in 0..N : f[j] = f[k] => j = k
  BY DEF Round
<1>4. ASSUME NEW k \in 0..(N - i + 1)
      PROVE  r.next[g[k]] = g[k + 1] /\ r.prev[g[k + 1]] = g[k]
  <2>1. CASE k = 0
    <3>1. g[k] = p /\ g[k + 1] = f[i]
      BY <1>1, <2>1
    <3>2. p # f[i - 1] /\ f[i] # p
      BY <1>1
    <3>3. QED
      BY <1>1, <3>1, <3>2 DEF Divided
  <2>2. CASE k # 0 /\ k # N - i + 1
    <3>1. i + k - 1 \in 0..N /\ i + k \in 0..N /\ g[k] = f[i + k - 1] /\ g[k + 1] = f[i + k]
      BY <1>1, <2>2
    <3>2. /\ f[i + k - 1] # f[i - 1] /\ f[i + k - 1] # f[N] /\ f[i + k - 1] # p
          /\ f[i + k] # f[0] /\ f[i + k] # f[i] /\ f[i + k] # p
      BY <1>1, <1>2, <2>2, <3>1
    <3>3. l.next[f[i + k - 1]] = f[i + k] /\ l.prev[f[i + k]] = f[i + k - 1]
      BY <1>1, <3>1 DEF Linked
    <3>4. QED
      BY <1>1, <3>1, <3>2, <3>3 DEF Divided
  <2>3. CASE k = N - i + 1
    <3>1. k \in 1..(N - i + 1) /\ k + 1 \in 0..(N - i + 2) /\ i + k - 1 = N
      BY <1>1, <2>3
    <3>2. g[k] = f[N] /\ g[k + 1] = p
      BY <1>1, <2>3, <3>1
    <3>3. f[N] # f[i - 1] /\ p # f[i] /\ p # f[0] /\ f[N] # p
      BY <1>1, <1>2
    <3>4. QED
      BY <1>1, <3>2, <3>3 DEF Divided
  <2>4. QED
    BY <1>1, <2>1, <2>2, <2>3
<1>5. QED
  BY <1>1, <1>4 DEF Linked

\* The way round h, which has nodes, is led into the end of f.
Joined(l, r, f, N, h, M) ==
  /\ \A x \in Cell \ {h[0]} : r.next[x] = IF x = h[M] THEN f[0] ELSE IF x = f[N] THEN h[1] ELSE l.next[x]
  /\ \A x \in Cell \ {h[0]} : r.prev[x] = IF x = f[0] THEN h[M] ELSE IF x = h[1] THEN f[N] ELSE l.prev[x]

\* Where a queue with nodes is merged into another, one goes round through both.
LEMMA JoinedRing ==
  ASSUME NEW N, NEW f, Round(f, N), NEW M, NEW h, Round(h, M), M # 0,
         \A j \in 0..N, k \in 0..M : f[j] # h[k],
         NEW l, NEW r, Linked(l, f, N), Linked(l, h, M), Joined(l, r, f, N, h, M),
         NEW g, \A k \in 0..(N + M + 1) :
           g[k] = IF k <= N THEN f[k] ELSE IF k <= N + M THEN h[k - N] ELSE f[0]
  PROVE  Linked(r, g, N + M)
<1>1. N \in Nat /\ f[N + 1] = f[0] /\ \A k \in 0..N : f[k] \in Cell
  BY DEF Round
<1>2. M \in Nat /\ h[M + 1] = h[0] /\ \A k \in 0..M : h[k] \in Cell
  BY DEF Round
<1>3. \A j, k \in 0..N : f[j] = f[k] => j = k
  BY DEF Round
<1>4. \A j, k \in 0..M : h[j] = h[k] => j = k
  BY DEF Round
<1>5. \A j \in 0..N : f[j] # h[0] /\ f[j] # h[1] /\ f[j] # h[M]
  BY <1>1, <1>2
<1>6. \A j \in 0..M : h[j] # f[0] /\ h[j] # f[N]
  BY <1>1, <1>2
<1>7. ASSUME NEW k \in 0..(N + M)
      PROVE  r.next[g[k]] = g[k + 1] /\ r.prev[g[k + 1]] = g[k]
  <2>1. CASE k < N
    <3>1. k \in 0..N /\ k + 1 \in 0..N /\ g[k] = f[k] /\ g[k + 1] = f[k + 1]
      BY <1>1, <1>2, <2>1
    <3>2. f[k] # f[N] /\ f[k + 1] # f[0]
      BY <1>1, <1>3, <2>1, <3>1
    <3>3. l.next[f[k]] = f[k + 1] /\ l.prev[f[k + 1]] = f[k]
      BY <3>1 DEF Linked
    <3>4. QED
      BY <1>1, <1>5, <3>1, <3>2, <3>3 DEF Joined
  <2>2. CASE k = N
    <3>1. g[k] = f[N] /\ g[k + 1] = h[1] /\ h[1] # h[0]
      BY <1>1, <1>2, <1>4, <2>2
    <3>2. QED
      BY <1>1, <1>2, <1>5, <1>6, <3>1 DEF Joined
  <2>3. CASE k > N /\ k < N + M
    <3>1. k - N \in 1..M /\ k - N + 1 \in 1..M /\ g[k] = h[k - N] /\ g[k + 1] = h[k - N + 1]
      <4>1. k + 1 - N = k - N + 1 /\ k + 1 \in 0..(N + M + 1) /\ ~(k + 1 <= N) /\ k + 1 <= N + M
        BY <1>1, <1>2, <2>3
      <4>2. QED
        BY <1>1, <1>2, <2>3, <4>1
    <3>2. h[k - N] # h[M] /\ h[k - N] # h[0] /\ h[k - N + 1] # h[1] /\ h[k - N + 1] # h[0]
      BY <1>1, <1>2, <1>4, <2>3, <3>1
    <3>3. l.next[h[k - N]] = h[k - N + 1] /\ l.prev[h[k - N + 1]] = h[k - N]
      BY <1>2, <3>1 DEF Linked
    <3>4. QED
      BY <1>1, <1>2, <1>6, <3>1, <3>2, <3>3 DEF Joined
  <2>4. CASE k = N + M
    <3>1. g[k] = h[M] /\ g[k + 1] = f[0] /\ h[M] # h[0]
      BY <1>1, <1>2, <1>4, <2>4
    <3>2. QED
      BY <1>1, <1>2, <1>5, <1>6, <3>1 DEF Joined
  <2>5. QED
    BY <1>1, <1>2, <2>1, <2>2, <2>3, <2>4
<1>8. QED
  BY <1>1, <1>2, <1>7 DEF Linked

-----------------------------------------------------------------------------
(* What each function does to the links. *)

\* qp_queue_insert_after_head, the node not yet where it goes.
LEMMA InsertHeadFields ==
  ASSUME NEW l \in Links, NEW a \in Cell, NEW n \in Cell, a # n,
         NEW b \in Cell, b = l.next[a], b # n
  PROVE  /\ Q!qp_queue_insert_after_head(l, a, n) \in Links
         /\ Hooked(l, Q!qp_queue_insert_after_head(l, a, n), a, n, b)
<1> DEFINE r1 == Q!SetNext(l, n, b)
           r2 == Q!SetPrev(r1, r1.next[n], n)
           r3 == Q!SetPrev(r2, n, a)
           r4 == Q!SetNext(r3, a, n)
<1>1. Q!qp_queue_insert_after_head(l, a, n) = r4
  BY DEF Q!qp_queue_insert_after_head
<1>2. r1 \in Links /\ r1.prev = l.prev /\ r1.next = [l.next EXCEPT ![n] = b]
  BY DEF Links, Q!SetPrev, Q!SetNext
<1> HIDE DEF r1
<1>3. r1.next[n] = b
  BY <1>2 DEF Links
<1>4. r2 \in Links /\ r2.next = r1.next /\ r2.prev = [r1.prev EXCEPT ![b] = n]
  BY <1>2, <1>3 DEF Links, Q!SetPrev, Q!SetNext
<1> HIDE DEF r2
<1>5. r3 \in Links /\ r3.next = r2.next /\ r3.prev = [r2.prev EXCEPT ![n] = a]
  BY <1>4 DEF Links, Q!SetPrev, Q!SetNext
<1> HIDE DEF r3
<1>6. r4 \in Links /\ r4.prev = r3.prev /\ r4.next = [r3.next EXCEPT ![a] = n]
  BY <1>5 DEF Links, Q!SetPrev, Q!SetNext
<1> HIDE DEF r4
<1>7. r4.next = [l.next EXCEPT ![n] = b, ![a] = n]
  BY <1>2, <1>4, <1>5, <1>6
<1>8. r4.prev = [l.prev EXCEPT ![n] = a, ![b] = n]
  <2>1. r4.prev = [l.prev EXCEPT ![b] = n, ![n] = a]
    BY <1>2, <1>4, <1>5, <1>6
  <2>2. l.prev \in [Cell -> Cell \cup {Null}]
    BY DEF Links
  <2>3. QED
    BY <2>1, <2>2
<1>9. QED
  BY <1>1, <1>6, <1>7, <1>8 DEF Hooked

\* qp_queue_insert_after_tail.
LEMMA InsertTailFields ==
  ASSUME NEW l \in Links, NEW b \in Cell, NEW n \in Cell, b # n,
         NEW a \in Cell, a = l.prev[b], a # n
  PROVE  /\ Q!qp_queue_insert_after_tail(l, b, n) \in Links
         /\ Hooked(l, Q!qp_queue_insert_after_tail(l, b, n), a, n, b)
<1> DEFINE r1 == Q!SetPrev(l, n, a)
           r2 == Q!SetNext(r1, r1.prev[n], n)
           r3 == Q!SetNext(r2, n, b)
           r4 == Q!SetPrev(r3, b, n)
<1>1. Q!qp_queue_insert_after_tail(l, b, n) = r4
  BY DEF Q!qp_queue_insert_after_tail
<1>2. r1 \in Links /\ r1.next = l.next /\ r1.prev = [l.prev EXCEPT ![n] = a]
  BY DEF Links, Q!SetPrev, Q!SetNext
<1> HIDE DEF r1
<1>3. r1.prev[n] = a
  BY <1>2 DEF Links
<1>4. r2 \in Links /\ r2.prev = r1.prev /\ r2.next = [r1.next EXCEPT ![a] = n]
  BY <1>2, <1>3 DEF Links, Q!SetPrev, Q!SetNext
<1> HIDE DEF r2
<1>5. r3 \in Links /\ r3.prev = r2.prev /\ r3.next = [r2.next EXCEPT ![n] = b]
  BY <1>4 DEF Links, Q!SetPrev, Q!SetNext
<1> HIDE DEF r3
<1>6. r4 \in Links /\ r4.next = r3.next /\ r4.prev = [r3.prev EXCEPT ![b] = n]
  BY <1>5 DEF Links, Q!SetPrev, Q!SetNext
<1> HIDE DEF r4
<1>7. r4.prev = [l.prev EXCEPT ![n] = a, ![b] = n]
  BY <1>2, <1>4, <1>5, <1>6
<1>8. r4.next = [l.next EXCEPT ![n] = b, ![a] = n]
  <2>1. r4.next = [l.next EXCEPT ![a] = n, ![n] = b]
    BY <1>2, <1>4, <1>5, <1>6
  <2>2. l.next \in [Cell -> Cell \cup {Null}]
    BY DEF Links
  <2>3. QED
    BY <2>1, <2>2
<1>9. QED
  BY <1>1, <1>6, <1>7, <1>8 DEF Hooked

\* What the caller does with the cell that is free.
LEMMA QForgetFields ==
  ASSUME NEW l \in Links, NEW x \in Cell
  PROVE  /\ Q!Forget(l, x) \in Links
         /\ \A y \in Cell \ {x} : Q!Forget(l, x).next[y] = l.next[y]
         /\ \A y \in Cell \ {x} : Q!Forget(l, x).prev[y] = l.prev[y]
BY DEF Links, Q!Forget

\* qp_queue_remove, of a node that is not its own neighbour.
LEMMA RemoveFields ==
  ASSUME NEW l \in Links, NEW n \in Cell, NEW a \in Cell, a = l.prev[n], NEW b \in Cell, b = l.next[n],
         a # n, b # n
  PROVE  /\ Q!Forget(Q!qp_queue_remove(l, n), n) \in Links
         /\ Unhooked(l, Q!Forget(Q!qp_queue_remove(l, n), n), a, n, b)
<1> DEFINE r1 == Q!SetPrev(l, b, a)
           r2 == Q!SetNext(r1, r1.prev[n], r1.next[n])
           r3 == Q!Forget(r2, n)
<1>1. Q!Forget(Q!qp_queue_remove(l, n), n) = r3
  BY DEF Q!qp_queue_remove
<1>2. r1 \in Links /\ r1.next = l.next /\ r1.prev = [l.prev EXCEPT ![b] = a]
  BY DEF Links, Q!SetPrev, Q!SetNext
<1> HIDE DEF r1
<1>3. r1.prev[n] = a /\ r1.next[n] = b
  BY <1>2 DEF Links
<1>4. r2 \in Links /\ r2.prev = r1.prev /\ r2.next = [r1.next EXCEPT ![a] = b]
  BY <1>2, <1>3 DEF Links, Q!SetPrev, Q!SetNext
<1> HIDE DEF r2
<1>5. /\ r3 \in Links
      /\ \A y \in Cell \ {n} : r3.next[y] = r2.next[y]
      /\ \A y \in Cell \ {n} : r3.prev[y] = r2.prev[y]
  BY <1>4, QForgetFields
<1> HIDE DEF r3
<1>6. l.next \in [Cell -> Cell \cup {Null}] /\ l.prev \in [Cell -> Cell \cup {Null}]
  BY DEF Links
<1>7. \A y \in Cell \ {n} : r3.next[y] = IF y = a THEN b ELSE l.next[y]
  BY <1>2, <1>4, <1>5, <1>6
<1>8. \A y \in Cell \ {n} : r3.prev[y] = IF y = b THEN a ELSE l.prev[y]
  BY <1>2, <1>4, <1>5, <1>6
<1>9. QED
  BY <1>1, <1>5, <1>7, <1>8 DEF Unhooked

\* qp_queue_split, of a queue before its i-th node.
LEMMA SplitFields ==
  ASSUME NEW l \in Links, NEW N, NEW f, Round(f, N), Linked(l, f, N),
         NEW i \in 1..N, NEW p \in Cell, \A k \in 0..N : f[k] # p
  PROVE  /\ Q!qp_queue_split(l, f[0], f[i], p) \in Links
         /\ Divided(l, Q!qp_queue_split(l, f[0], f[i], p), f, N, i, p)
<1>1. N \in Nat /\ f[N + 1] = f[0] /\ \A k \in 0..N : f[k] \in Cell
  BY DEF Round
<1>2. l.prev[f[0]] = f[N] /\ l.prev[f[i]] = f[i - 1]
  BY <1>1 DEF Linked
<1> DEFINE q == f[0]
           n == f[i]
           y == f[i - 1]
           z == f[N]
           r1 == Q!SetPrev(l, p, l.prev[q])
           r2 == Q!SetNext(r1, r1.prev[p], p)
           r3 == Q!SetNext(r2, p, n)
           r4 == Q!SetPrev(r3, q, r3.prev[n])
           r5 == Q!SetNext(r4, r4.prev[q], q)
           r6 == Q!SetPrev(r5, n, p)
<1>3. Q!qp_queue_split(l, f[0], f[i], p) = r6
  BY DEF Q!qp_queue_split
<1>4. q \in Cell /\ n \in Cell /\ y \in Cell /\ z \in Cell /\ n # p /\ q # p
  BY <1>1
<1>5. n # q
  BY <1>1 DEF Round
<1>6. l.prev[q] = z /\ l.prev[n] = y
  BY <1>2
<1>7. Divided(l, r6, f, N, i, p) <=>
        /\ \A x \in Cell : r6.next[x] = IF x = y THEN q ELSE IF x = p THEN n ELSE IF x = z THEN p ELSE l.next[x]
        /\ \A x \in Cell : r6.prev[x] = IF x = n THEN p ELSE IF x = q THEN y ELSE IF x = p THEN z ELSE l.prev[x]
  BY DEF Divided
<1> HIDE DEF q, n, y, z
<1>8. r1 \in Links /\ r1.next = l.next /\ r1.prev = [l.prev EXCEPT ![p] = z]
  BY <1>4, <1>6 DEF Links, Q!SetPrev
<1> HIDE DEF r1
<1>9. r1.prev[p] = z /\ r1.prev[n] = y
  BY <1>4, <1>6, <1>8 DEF Links
<1>10. r2 \in Links /\ r2.prev = r1.prev /\ r2.next = [r1.next EXCEPT ![z] = p]
  BY <1>4, <1>8, <1>9 DEF Links, Q!SetNext
<1> HIDE DEF r2
<1>11. r3 \in Links /\ r3.prev = r2.prev /\ r3.next = [r2.next EXCEPT ![p] = n]
  BY <1>4, <1>10 DEF Links, Q!SetNext
<1> HIDE DEF r3
<1>12. r3.prev[n] = y
  BY <1>9, <1>10, <1>11
<1>13. r4 \in Links /\ r4.next = r3.next /\ r4.prev = [r3.prev EXCEPT ![q] = y]
  BY <1>4, <1>11, <1>12 DEF Links, Q!SetPrev
<1> HIDE DEF r4
<1>14. r4.prev[q] = y
  BY <1>4, <1>11, <1>13 DEF Links
<1>15. r5 \in Links /\ r5.prev = r4.prev /\ r5.next = [r4.next EXCEPT ![y] = q]
  BY <1>4, <1>13, <1>14 DEF Links, Q!SetNext
<1> HIDE DEF r5
<1>16. r6 \in Links /\ r6.next = r5.next /\ r6.prev = [r5.prev EXCEPT ![n] = p]
  BY <1>4, <1>15 DEF Links, Q!SetPrev
<1> HIDE DEF r6
<1>17. r6.next = [l.next EXCEPT ![z] = p, ![p] = n, ![y] = q]
  BY <1>8, <1>10, <1>11, <1>13, <1>15, <1>16
<1>18. r6.prev = [l.prev EXCEPT ![p] = z, ![q] = y, ![n] = p]
  BY <1>8, <1>10, <1>11, <1>13, <1>15, <1>16
<1>19. l.next \in [Cell -> Cell \cup {Null}] /\ l.prev \in [Cell -> Cell \cup {Null}]
  BY DEF Links
<1>20. \A x \in Cell : r6.next[x] = IF x = y THEN q ELSE IF x = p THEN n ELSE IF x = z THEN p ELSE l.next[x]
  BY <1>17, <1>19
<1>21. \A x \in Cell : r6.prev[x] = IF x = n THEN p ELSE IF x = q THEN y ELSE IF x = p THEN z ELSE l.prev[x]
  BY <1>18, <1>19
<1>22. QED
  BY <1>3, <1>7, <1>16, <1>20, <1>21

\* qp_queue_merge: a is the last of q, b the first of p, z what ends up last.
LEMMA MergeFields ==
  ASSUME NEW l \in Links, NEW q \in Cell, NEW p \in Cell, q # p,
         NEW a \in Cell, a = l.prev[q], a # p, NEW b \in Cell, b = l.next[p], b # q,
         NEW z \in Cell, z = IF b = p THEN a ELSE l.prev[p]
  PROVE  LET r == Q!Forget(Q!qp_queue_merge(l, q, p), p)
         IN  /\ r \in Links
             /\ \A x \in Cell \ {p} : r.next[x] = IF x = z THEN q ELSE IF x = a THEN b ELSE l.next[x]
             /\ \A x \in Cell \ {p} : r.prev[x] = IF x = q THEN z ELSE IF x = b THEN a ELSE l.prev[x]
<1> DEFINE r1 == Q!SetNext(l, a, b)
           r2 == Q!SetPrev(r1, r1.next[p], r1.prev[q])
           r3 == Q!SetPrev(r2, q, r2.prev[p])
           r4 == Q!SetNext(r3, r3.prev[q], q)
           r5 == Q!Forget(r4, p)
<1>1. Q!Forget(Q!qp_queue_merge(l, q, p), p) = r5
  BY DEF Q!qp_queue_merge
<1>2. r1 \in Links /\ r1.prev = l.prev /\ r1.next = [l.next EXCEPT ![a] = b]
  BY DEF Links, Q!SetNext
<1> HIDE DEF r1
<1>3. r1.next[p] = b /\ r1.prev[q] = a
  BY <1>2 DEF Links
<1>4. r2 \in Links /\ r2.next = r1.next /\ r2.prev = [r1.prev EXCEPT ![b] = a]
  BY <1>2, <1>3 DEF Links, Q!SetPrev
<1> HIDE DEF r2
<1>5. r2.prev[p] = z
  BY <1>2, <1>4 DEF Links
<1>6. r3 \in Links /\ r3.next = r2.next /\ r3.prev = [r2.prev EXCEPT ![q] = z]
  BY <1>4, <1>5 DEF Links, Q!SetPrev
<1> HIDE DEF r3
<1>7. r3.prev[q] = z
  BY <1>4, <1>6 DEF Links
<1>8. r4 \in Links /\ r4.prev = r3.prev /\ r4.next = [r3.next EXCEPT ![z] = q]
  BY <1>6, <1>7 DEF Links, Q!SetNext
<1> HIDE DEF r4
<1>9. /\ r5 \in Links
      /\ \A y \in Cell \ {p} : r5.next[y] = r4.next[y]
      /\ \A y \in Cell \ {p} : r5.prev[y] = r4.prev[y]
  BY <1>8, QForgetFields
<1> HIDE DEF r5
<1>10. l.next \in [Cell -> Cell \cup {Null}] /\ l.prev \in [Cell -> Cell \cup {Null}]
  BY DEF Links
<1>11. r4.next = [l.next EXCEPT ![a] = b, ![z] = q] /\ r4.prev = [l.prev EXCEPT ![b] = a, ![q] = z]
  BY <1>2, <1>4, <1>6, <1>8
<1>12. \A x \in Cell \ {p} : r5.next[x] = IF x = z THEN q ELSE IF x = a THEN b ELSE l.next[x]
  BY <1>9, <1>10, <1>11
<1>13. \A x \in Cell \ {p} : r5.prev[x] = IF x = q THEN z ELSE IF x = b THEN a ELSE l.prev[x]
  BY <1>9, <1>10, <1>11
<1>14. QED
  BY <1>1, <1>9, <1>12, <1>13

-----------------------------------------------------------------------------
(***************************************************************************)
(* The invariant of the queues: no node is in two places, a head that is   *)
(* not initialised leads to nothing, and the links of every other lead     *)
(* round its nodes.                                                        *)
(***************************************************************************)
WellQueued ==
  /\ queues \subseteq QHead
  /\ sequence \in [QHead -> Seq(Node)]
  /\ \A p, q \in QHead : \A i \in 1..Len(sequence[p]), j \in 1..Len(sequence[q]) :
       sequence[p][i] = sequence[q][j] => p = q /\ i = j
  /\ \A q \in QHead \ queues : sequence[q] = <<>>

Rings == \A q \in queues : Ring(links, q, sequence[q])

QueueInv == links \in Links /\ WellQueued /\ Rings

\* The way round a queue.
LEMMA QueueRound ==
  ASSUME WellQueued, NEW q \in QHead
  PROVE  /\ sequence[q] \in Seq(Node) /\ Len(sequence[q]) \in Nat
         /\ Round(Around(q, sequence[q]), Len(sequence[q]))
         /\ Around(q, sequence[q])[0] = q
         /\ \A k \in 1..Len(sequence[q]) : sequence[q][k] \in Node /\ Around(q, sequence[q])[k] = sequence[q][k]
<1>1. sequence[q] \in Seq(Node) /\ Len(sequence[q]) \in Nat
  BY LenProperties DEF WellQueued
<1>2. \A i, j \in 1..Len(sequence[q]) : sequence[q][i] = sequence[q][j] => i = j
  BY DEF WellQueued
<1>3. Round(Around(q, sequence[q]), Len(sequence[q]))
  BY <1>1, <1>2, AroundRound
<1>4. \A k \in 1..Len(sequence[q]) : sequence[q][k] \in Node
  BY <1>1, LenProperties
<1>5. QED
  BY <1>1, <1>3, <1>4 DEF Around

\* The ways round two queues have no cell in common.
LEMMA QueuesApart ==
  ASSUME WellQueued, NEW p \in QHead, NEW q \in QHead, p # q
  PROVE  \A j \in 0..Len(sequence[p]), k \in 0..Len(sequence[q]) :
           Around(p, sequence[p])[j] # Around(q, sequence[q])[k]
<1>1. \A i \in 1..Len(sequence[p]), j \in 1..Len(sequence[q]) : sequence[p][i] # sequence[q][j]
  BY DEF WellQueued
<1>2. Len(sequence[p]) \in Nat /\ Len(sequence[q]) \in Nat
  BY QueueRound
<1>3. \A i \in 1..Len(sequence[p]) : sequence[p][i] # q
  BY QueueRound, ContainersAssumption
<1>4. \A i \in 1..Len(sequence[q]) : sequence[q][i] # p
  BY QueueRound, ContainersAssumption
<1>5. QED
  BY <1>1, <1>2, <1>3, <1>4 DEF Around

\* A cell in no queue is on the way round none.
LEMMA LooseApart ==
  ASSUME WellQueued, NEW q \in QHead, NEW n,
         n \in Q!Loose \/ n \in QHead \ {q}
  PROVE  n \in Cell /\ \A k \in 0..Len(sequence[q]) : Around(q, sequence[q])[k] # n
<1>1. \A k \in 1..Len(sequence[q]) : sequence[q][k] # n
  <2>1. CASE n \in Q!Loose
    BY <2>1 DEF Q!Loose, Q!Queued
  <2>2. CASE n \in QHead
    BY <2>2, QueueRound, ContainersAssumption
  <2>3. QED
    BY <2>1, <2>2
<1>2. n # q /\ n \in Cell
  BY ContainersAssumption DEF Q!Loose, Cell
<1>3. Len(sequence[q]) \in Nat
  BY QueueRound
<1>4. QED
  BY <1>1, <1>2, <1>3 DEF Around

\* A queue whose own cells keep their links stays as it is.
LEMMA RingFrame ==
  ASSUME WellQueued, NEW q \in QHead, NEW l, NEW r, Ring(l, q, sequence[q]),
         \A k \in 0..Len(sequence[q]) :
           /\ r.next[Around(q, sequence[q])[k]] = l.next[Around(q, sequence[q])[k]]
           /\ r.prev[Around(q, sequence[q])[k]] = l.prev[Around(q, sequence[q])[k]]
  PROVE  Ring(r, q, sequence[q])
<1> DEFINE f == Around(q, sequence[q])
           N == Len(sequence[q])
<1>1. Round(f, N)
  BY QueueRound
<1>2. Linked(l, f, N)
  BY DEF Ring
<1>3. \A k \in 0..N : r.next[f[k]] = l.next[f[k]] /\ r.prev[f[k]] = l.prev[f[k]]
  OBVIOUS
<1> HIDE DEF f, N
<1>4. Linked(r, f, N)
  BY <1>1, <1>2, <1>3, LinkedFrame
<1>5. QED
  BY <1>4 DEF Ring, f, N

\* The index of a node in its queue.
LEMMA IndexFits ==
  ASSUME NEW q, NEW n \in Q!Queued(q)
  PROVE  Q!Index(q, n) \in 1..Len(sequence[q]) /\ sequence[q][Q!Index(q, n)] = n
<1>1. \E k \in 1..Len(sequence[q]) : sequence[q][k] = n
  BY DEF Q!Queued
<1>2. QED
  BY <1>1 DEF Q!Index

-----------------------------------------------------------------------------
(* The steps. *)

\* A queue that none of the cells in X is on the way round.
LEMMA OthersKeep ==
  ASSUME QueueInv, NEW p \in queues, NEW X,
         \A x \in Cell \ X : links'.next[x] = links.next[x] /\ links'.prev[x] = links.prev[x],
         \A k \in 0..Len(sequence[p]) : Around(p, sequence[p])[k] \notin X
  PROVE  Ring(links', p, sequence[p])
<1>1. p \in QHead /\ WellQueued /\ Ring(links, p, sequence[p])
  BY DEF QueueInv, WellQueued, Rings
<1>2. Len(sequence[p]) \in Nat /\ Round(Around(p, sequence[p]), Len(sequence[p]))
  BY <1>1, QueueRound
<1>3. \A k \in 0..Len(sequence[p]) : Around(p, sequence[p])[k] \in Cell
  BY <1>2 DEF Round
<1>4. QED
  BY <1>1, <1>3, RingFrame

\* t is s with n at i.
Inserted(s, i, n, t) ==
  /\ t \in Seq(Node)
  /\ Len(t) = Len(s) + 1
  /\ \A k \in 1..(Len(s) + 1) : t[k] = IF k < i THEN s[k] ELSE IF k = i THEN n ELSE s[k - 1]

\* A node that was in no queue is linked in at the i-th place of q.
LEMMA HookStep ==
  ASSUME QueueInv, NEW q \in queues, NEW n \in Q!Loose, NEW i \in 1..(Len(sequence[q]) + 1),
         NEW t, Inserted(sequence[q], i, n, t), links' \in Links,
         Hooked(links, links', Around(q, sequence[q])[i - 1], n, Around(q, sequence[q])[i]),
         sequence' = [sequence EXCEPT ![q] = t], queues' = queues
  PROVE  QueueInv'
<1> DEFINE s == sequence[q]
           N == Len(s)
           f == Around(q, s)
           g == Around(q, t)
<1>1. WellQueued /\ q \in QHead /\ links \in Links /\ n \in Node
  BY DEF QueueInv, WellQueued, Q!Loose
<1>2. /\ s \in Seq(Node) /\ N \in Nat /\ Round(f, N) /\ f[0] = q
      /\ \A k \in 1..N : s[k] \in Node /\ f[k] = s[k]
  BY <1>1, QueueRound
<1>3. n \in Cell /\ \A k \in 0..N : f[k] # n
  BY <1>1, LooseApart
<1>4. t \in Seq(Node) /\ Len(t) = N + 1
  BY DEF Inserted
<1>5. \A k \in 1..(N + 1) : t[k] = IF k < i THEN s[k] ELSE IF k = i THEN n ELSE s[k - 1]
  BY DEF Inserted
<1>6. \A k \in 0..(N + 2) : g[k] = IF k < i THEN f[k] ELSE IF k = i THEN n ELSE f[k - 1]
  <2>1. SUFFICES ASSUME NEW k \in 0..(N + 2)
                 PROVE  g[k] = IF k < i THEN f[k] ELSE IF k = i THEN n ELSE f[k - 1]
    OBVIOUS
  <2>2. g[k] = IF k \in 1..(N + 1) THEN t[k] ELSE q
    BY <1>2, <1>4 DEF Around
  <2>3. f[N + 1] = q
    BY <1>2 DEF Round
  <2>4. CASE k = 0 \/ k = N + 2
    BY <1>2, <2>2, <2>3, <2>4
  <2>5. CASE k \in 1..(N + 1)
    BY <1>2, <1>5, <2>2, <2>5
  <2>6. QED
    BY <1>2, <2>4, <2>5
<1>7. Linked(links, f, N)
  BY DEF QueueInv, Rings, Ring
<1>8. Linked(links', g, N + 1)
  <2>1. i \in 1..(N + 1) /\ Hooked(links, links', f[i - 1], n, f[i])
    OBVIOUS
  <2> HIDE DEF f, g, N, s
  <2>2. QED
    BY <1>1, <1>2, <1>3, <1>6, <1>7, <2>1, HookedRing
<1>9. Ring(links', q, t)
  BY <1>4, <1>8 DEF Ring
<1>10. sequence' \in [QHead -> Seq(Node)] /\ sequence'[q] = t
       /\ \A p \in QHead \ {q} : sequence'[p] = sequence[p]
  BY <1>1, <1>4 DEF WellQueued
<1>11. ASSUME NEW p \in queues, p # q
       PROVE  Ring(links', p, sequence[p])
  <2>1. p \in QHead /\ Ring(links, p, sequence[p])
    BY DEF QueueInv, WellQueued, Rings
  <2>2. \A k \in 0..Len(sequence[p]) : Around(p, sequence[p])[k] # n
    BY <1>1, <2>1, LooseApart
  <2>3. f[i - 1] \in {f[k] : k \in 0..N} /\ f[i] \in {f[k] : k \in 0..N}
    BY <1>2 DEF Round
  <2>4. \A k \in 0..Len(sequence[p]) : Around(p, sequence[p])[k] \notin {f[j] : j \in 0..N}
    BY <1>1, <2>1, <1>11, QueuesApart
  <2>5. \A x \in Cell \ {n, f[i - 1], f[i]} : links'.next[x] = links.next[x] /\ links'.prev[x] = links.prev[x]
    BY <1>1 DEF Hooked, Links
  <2> HIDE DEF f, N
  <2>6. \A k \in 0..Len(sequence[p]) : Around(p, sequence[p])[k] \notin {n, f[i - 1], f[i]}
    BY <2>2, <2>3, <2>4
  <2>7. QED
    BY <2>5, <2>6, OthersKeep
<1>12. Rings'
  BY <1>1, <1>9, <1>10, <1>11 DEF Rings, WellQueued
<1>13. \A p \in QHead \ queues' : sequence'[p] = <<>>
  BY <1>1, <1>10 DEF WellQueued
<1>14. ASSUME NEW p \in QHead, NEW r \in QHead,
              NEW j \in 1..Len(sequence'[p]), NEW k \in 1..Len(sequence'[r]),
              sequence'[p][j] = sequence'[r][k]
       PROVE  p = r /\ j = k
  <2>1. \A x \in QHead : \A m \in 1..Len(sequence[x]) : sequence[x][m] # n
    BY <1>1 DEF Q!Loose, Q!Queued
  <2>2. \A x, y \in QHead : \A m \in 1..Len(sequence[x]), o \in 1..Len(sequence[y]) :
          sequence[x][m] = sequence[y][o] => x = y /\ m = o
    BY <1>1 DEF WellQueued
  <2>3. \A m \in 1..(N + 1) : m # i => \E o \in 1..N : t[m] = s[o] /\ (m < i => o = m) /\ (m > i => o = m - 1)
    BY <1>2, <1>5
  <2>4. t[i] = n
    BY <1>2, <1>5
  <2>5. CASE p = q /\ r = q
    <3>1. j \in 1..(N + 1) /\ k \in 1..(N + 1) /\ t[j] = t[k]
      BY <1>4, <1>10, <1>14, <2>5
    <3>2. CASE j = i \/ k = i
      <4>1. \A m \in 1..N : s[m] # n
        BY <1>1, <2>1
      <4>2. \A m \in 1..(N + 1) : m # i => t[m] # n
        BY <2>3, <4>1
      <4>3. QED
        BY <2>4, <2>5, <3>1, <3>2, <4>2
    <3>3. CASE j # i /\ k # i
      <4>1. PICK o \in 1..N : t[j] = s[o] /\ (j < i => o = j) /\ (j > i => o = j - 1)
        BY <2>3, <3>1, <3>3
      <4>2. PICK u \in 1..N : t[k] = s[u] /\ (k < i => u = k) /\ (k > i => u = k - 1)
        BY <2>3, <3>1, <3>3
      <4>3. o = u
        <5>1. s[o] = s[u]
          BY <3>1, <4>1, <4>2
        <5>2. QED
          BY <1>1, <2>2, <5>1
      <4>4. QED
        BY <1>2, <2>5, <3>1, <3>3, <4>1, <4>2, <4>3
    <3>4. QED
      BY <3>2, <3>3
  <2>6. CASE p # q /\ r # q
    BY <1>10, <1>14, <2>2, <2>6
  <2>7. CASE p = q /\ r # q
    <3>1. j \in 1..(N + 1) /\ k \in 1..Len(sequence[r]) /\ t[j] = sequence[r][k]
      BY <1>4, <1>10, <1>14, <2>7
    <3>2. j # i
      BY <2>1, <2>4, <3>1
    <3>3. QED
      BY <1>1, <2>2, <2>3, <2>7, <3>1, <3>2
  <2>8. CASE p # q /\ r = q
    <3>1. k \in 1..(N + 1) /\ j \in 1..Len(sequence[p]) /\ t[k] = sequence[p][j]
      BY <1>4, <1>10, <1>14, <2>8
    <3>2. k # i
      BY <2>1, <2>4, <3>1
    <3>3. QED
      BY <1>1, <2>2, <2>3, <2>8, <3>1, <3>2
  <2>9. QED
    BY <2>5, <2>6, <2>7, <2>8
<1>15. WellQueued'
  BY <1>1, <1>10, <1>13, <1>14 DEF WellQueued
<1>16. QED
  BY <1>12, <1>15 DEF QueueInv

\* Behind the head or behind a node.
LEMMA InsertAfterStep ==
  ASSUME QueueInv, NEW q \in queues, NEW n \in Q!Loose, NEW place \in {q} \cup Q!Queued(q),
         Q!InsertAfter(q, place, n)
  PROVE  QueueInv'
<1> DEFINE s == sequence[q]
           N == Len(s)
           f == Around(q, s)
           i == Q!Behind(q, place)
           t == Q!InsertAt(s, i, n)
<1>1. WellQueued /\ q \in QHead /\ links \in Links /\ n \in Node
  BY DEF QueueInv, WellQueued, Q!Loose
<1>2. /\ s \in Seq(Node) /\ N \in Nat /\ Round(f, N) /\ f[0] = q
      /\ \A k \in 1..N : s[k] \in Node /\ f[k] = s[k]
  BY <1>1, QueueRound
<1>3. n \in Cell /\ \A k \in 0..N : f[k] # n
  BY <1>1, LooseApart
<1>4. i \in 1..(N + 1) /\ f[i - 1] = place
  <2>1. CASE place = q
    BY <1>2, <2>1 DEF Q!Behind
  <2>2. CASE place # q
    <3>1. Q!Index(q, place) \in 1..N /\ s[Q!Index(q, place)] = place
      BY <2>2, IndexFits
    <3>2. i = 1 + Q!Index(q, place)
      BY <2>2 DEF Q!Behind
    <3>3. QED
      BY <1>2, <3>1, <3>2
  <2>3. QED
    BY <2>1, <2>2
<1>5. Linked(links, f, N)
  BY DEF QueueInv, Rings, Ring
<1>6. f[i] = links.next[place] /\ f[i] \in Cell /\ place \in Cell
  <2> HIDE DEF i, f, N
  <2>1. i - 1 \in 0..N /\ i \in 0..(N + 1) /\ i - 1 \in 0..(N + 1) /\ (i - 1) + 1 = i
    BY <1>2, <1>4
  <2>2. QED
    BY <1>4, <1>5, <2>1, <1>2 DEF Linked, Round
<1>7. f[i] # n /\ place # n
  <2> HIDE DEF i, f, N
  <2>1. CASE i = N + 1
    BY <1>2, <1>3, <1>4, <2>1 DEF Round
  <2>2. CASE i # N + 1
    BY <1>2, <1>3, <1>4, <2>2
  <2>3. QED
    BY <2>1, <2>2
<1>8. links' = Q!qp_queue_insert_after_head(links, place, n)
  BY DEF Q!InsertAfter
<1>9. links' \in Links /\ Hooked(links, links', f[i - 1], n, f[i])
  <2> HIDE DEF i, f
  <2>1. QED
    BY <1>1, <1>3, <1>4, <1>6, <1>7, <1>8, InsertHeadFields
<1>10. Inserted(s, i, n, t)
  <2>1. s \in Seq(Node) /\ i \in 1..(Len(s) + 1) /\ n \in Node
    BY <1>1, <1>2, <1>4
  <2> HIDE DEF s, i
  <2>2. /\ t \in Seq(Node) /\ Len(t) = Len(s) + 1
        /\ \A k \in 1..(Len(s) + 1) : t[k] = IF k < i THEN s[k] ELSE IF k = i THEN n ELSE s[k - 1]
    BY <2>1, InsertAtElements
  <2> HIDE DEF t
  <2>3. QED
    BY <2>2 DEF Inserted
<1>11. sequence' = [sequence EXCEPT ![q] = t] /\ queues' = queues
  BY DEF Q!InsertAfter
<1> HIDE DEF i, t
<1>12. QED
  BY <1>4, <1>9, <1>10, <1>11, HookStep

\* In front of the head.
LEMMA InsertTailStep ==
  ASSUME QueueInv, NEW q \in queues, NEW n \in Q!Loose, Q!InsertTail(q, n)
  PROVE  QueueInv'
<1> DEFINE s == sequence[q]
           N == Len(s)
           f == Around(q, s)
           i == N + 1
           t == Append(s, n)
<1>1. WellQueued /\ q \in QHead /\ links \in Links /\ n \in Node
  BY DEF QueueInv, WellQueued, Q!Loose
<1>2. s \in Seq(Node) /\ N \in Nat /\ Round(f, N) /\ f[0] = q
  BY <1>1, QueueRound
<1>3. n \in Cell /\ \A k \in 0..N : f[k] # n
  BY <1>1, LooseApart
<1>4. Linked(links, f, N)
  BY DEF QueueInv, Rings, Ring
<1>5. f[i] = q /\ f[N] = links.prev[q] /\ f[N] \in Cell /\ q \in Cell /\ q # n /\ f[N] # n
  <2> HIDE DEF f, N
  <2>1. QED
    BY <1>2, <1>3, <1>4 DEF Round, Linked
<1>6. links' = Q!qp_queue_insert_after_tail(links, q, n)
  BY DEF Q!InsertTail
<1>7. i - 1 = N /\ i \in 1..(N + 1)
  BY <1>2
<1>8. links' \in Links /\ Hooked(links, links', f[i - 1], n, f[i])
  <2>1. links' \in Links /\ Hooked(links, links', f[N], n, q)
    <3> HIDE DEF f, N
    <3>1. QED
      BY <1>1, <1>3, <1>5, <1>6, InsertTailFields
  <2>2. QED
    BY <1>5, <1>7, <2>1
<1>9. Inserted(s, i, n, t)
  <2>1. /\ t \in Seq(Node) /\ Len(t) = N + 1 /\ t[N + 1] = n
        /\ \A k \in 1..N : t[k] = s[k]
    BY <1>1, <1>2, AppendProperties
  <2> HIDE DEF t
  <2>2. QED
    BY <1>2, <2>1 DEF Inserted
<1>10. sequence' = [sequence EXCEPT ![q] = t] /\ queues' = queues
  BY DEF Q!InsertTail
<1> HIDE DEF i, t
<1>11. QED
  BY <1>7, <1>8, <1>9, <1>10, HookStep

\* A node is taken out.
LEMMA RemoveStep ==
  ASSUME QueueInv, NEW q \in queues, NEW n \in Q!Queued(q), Q!RemoveNode(q, n)
  PROVE  QueueInv'
<1> DEFINE s == sequence[q]
           N == Len(s)
           f == Around(q, s)
           i == Q!Index(q, n)
           t == Q!RemoveAt(s, i)
           g == Around(q, t)
<1>1. WellQueued /\ q \in QHead /\ links \in Links
  BY DEF QueueInv, WellQueued
<1>2. /\ s \in Seq(Node) /\ N \in Nat /\ Round(f, N) /\ f[0] = q
      /\ \A k \in 1..N : s[k] \in Node /\ f[k] = s[k]
  BY <1>1, QueueRound
<1>3. i \in 1..N /\ s[i] = n
  BY IndexFits
<1>4. Linked(links, f, N)
  BY DEF QueueInv, Rings, Ring
<1>5. /\ t \in Seq(Node) /\ Len(t) = N - 1
      /\ \A k \in 1..(N - 1) : t[k] = IF k < i THEN s[k] ELSE s[k + 1]
  BY <1>2, <1>3, RemoveAtElements
<1>6. sequence' = [sequence EXCEPT ![q] = t] /\ queues' = queues
      /\ links' = Q!Forget(Q!qp_queue_remove(links, n), n)
  BY DEF Q!RemoveNode
<1> HIDE DEF i, t
<1>7. f[i] = n /\ n \in Cell /\ f[N + 1] = q
  BY <1>2, <1>3 DEF Cell, Round
<1>8. /\ f[i - 1] = links.prev[n] /\ f[i + 1] = links.next[n]
      /\ f[i - 1] \in Cell /\ f[i + 1] \in Cell /\ f[i - 1] # n /\ f[i + 1] # n
  <2> HIDE DEF f, N, s
  <2>1. i - 1 \in 0..N /\ i \in 0..N /\ (i - 1) + 1 = i /\ i \in 1..(N + 1) /\ i + 1 \in 1..(N + 1)
    BY <1>2, <1>3
  <2>2. links.next[f[i]] = f[i + 1] /\ links.prev[f[(i - 1) + 1]] = f[i - 1]
    BY <1>4, <2>1 DEF Linked
  <2>3. f[i - 1] # f[i] /\ f[i - 1] \in Cell /\ f[i + 1] \in Cell
    BY <1>2, <2>1 DEF Round
  <2>4. f[i + 1] # f[i]
    BY <1>2, <2>1, RoundBack
  <2>5. QED
    BY <1>7, <2>1, <2>2, <2>3, <2>4
<1>9. links' \in Links /\ Unhooked(links, links', f[i - 1], f[i], f[i + 1])
  <2> HIDE DEF f
  <2>1. QED
    BY <1>1, <1>6, <1>7, <1>8, RemoveFields
<1>10. \A k \in 0..N : g[k] = IF k < i THEN f[k] ELSE f[k + 1]
  <2>1. SUFFICES ASSUME NEW k \in 0..N
                 PROVE  g[k] = IF k < i THEN f[k] ELSE f[k + 1]
    OBVIOUS
  <2>2. g[k] = IF k \in 1..(N - 1) THEN t[k] ELSE q
    BY <1>2, <1>5 DEF Around
  <2>3. CASE k = 0 \/ k = N
    BY <1>2, <1>3, <1>7, <2>2, <2>3
  <2>4. CASE k \in 1..(N - 1)
    BY <1>2, <1>3, <1>5, <2>2, <2>4
  <2>5. QED
    BY <1>2, <2>3, <2>4
<1>11. Ring(links', q, t)
  <2>1. Linked(links', g, N - 1)
    <3> HIDE DEF f, g, N, s
    <3>1. QED
      BY <1>2, <1>3, <1>4, <1>9, <1>10, UnhookedRing
  <2>2. QED
    BY <1>5, <2>1 DEF Ring
<1>12. sequence' \in [QHead -> Seq(Node)] /\ sequence'[q] = t
       /\ \A p \in QHead \ {q} : sequence'[p] = sequence[p]
  BY <1>1, <1>5, <1>6 DEF WellQueued
<1>13. ASSUME NEW p \in queues, p # q
       PROVE  Ring(links', p, sequence[p])
  <2>1. p \in QHead
    BY <1>1 DEF WellQueued
  <2>2. f[i - 1] \in {f[k] : k \in 0..N} /\ f[i] \in {f[k] : k \in 0..N} /\ f[i + 1] \in {f[k] : k \in 0..N}
    BY <1>2, <1>3, <1>7
  <2>3. \A k \in 0..Len(sequence[p]) : Around(p, sequence[p])[k] \notin {f[j] : j \in 0..N}
    BY <1>1, <2>1, <1>13, QueuesApart
  <2>4. \A x \in Cell \ {f[i - 1], f[i], f[i + 1]} : links'.next[x] = links.next[x] /\ links'.prev[x] = links.prev[x]
    BY <1>9 DEF Unhooked
  <2> HIDE DEF f, N
  <2>5. \A k \in 0..Len(sequence[p]) : Around(p, sequence[p])[k] \notin {f[i - 1], f[i], f[i + 1]}
    BY <2>2, <2>3
  <2>6. QED
    BY <2>4, <2>5, OthersKeep
<1>14. Rings'
  BY <1>1, <1>6, <1>11, <1>12, <1>13 DEF Rings, WellQueued
<1>15. \A p \in QHead \ queues' : sequence'[p] = <<>>
  BY <1>1, <1>6, <1>12 DEF WellQueued
<1>16. ASSUME NEW p \in QHead, NEW r \in QHead,
              NEW j \in 1..Len(sequence'[p]), NEW k \in 1..Len(sequence'[r]),
              sequence'[p][j] = sequence'[r][k]
       PROVE  p = r /\ j = k
  <2>1. \A x, y \in QHead : \A m \in 1..Len(sequence[x]), o \in 1..Len(sequence[y]) :
          sequence[x][m] = sequence[y][o] => x = y /\ m = o
    BY <1>1 DEF WellQueued
  <2>2. \A m \in 1..(N - 1) : \E o \in 1..N : t[m] = s[o] /\ (m < i => o = m) /\ (m >= i => o = m + 1)
    <3>1. SUFFICES ASSUME NEW m \in 1..(N - 1)
                   PROVE  \E o \in 1..N : t[m] = s[o] /\ (m < i => o = m) /\ (m >= i => o = m + 1)
      OBVIOUS
    <3>2. CASE m < i
      BY <1>2, <1>3, <1>5, <3>2
    <3>3. CASE m >= i
      <4>1. m + 1 \in 1..N /\ t[m] = s[m + 1]
        BY <1>2, <1>3, <1>5, <3>3
      <4>2. QED
        BY <1>2, <1>3, <3>3, <4>1
    <3>4. QED
      BY <1>3, <3>2, <3>3
  <2>3. CASE p = q /\ r = q
    <3>1. j \in 1..(N - 1) /\ k \in 1..(N - 1) /\ t[j] = t[k]
      BY <1>5, <1>12, <1>16, <2>3
    <3>2. PICK o \in 1..N : t[j] = s[o] /\ (j < i => o = j) /\ (j >= i => o = j + 1)
      BY <2>2, <3>1
    <3>3. PICK u \in 1..N : t[k] = s[u] /\ (k < i => u = k) /\ (k >= i => u = k + 1)
      BY <2>2, <3>1
    <3>4. o = u
      <4>1. s[o] = s[u]
        BY <3>1, <3>2, <3>3
      <4>2. QED
        BY <1>1, <2>1, <4>1
    <3>5. QED
      BY <1>2, <1>3, <2>3, <3>1, <3>2, <3>3, <3>4
  <2>4. CASE p # q /\ r # q
    BY <1>12, <1>16, <2>1, <2>4
  <2>5. CASE p = q /\ r # q
    <3>1. j \in 1..(N - 1) /\ k \in 1..Len(sequence[r]) /\ t[j] = sequence[r][k]
      BY <1>5, <1>12, <1>16, <2>5
    <3>2. QED
      BY <1>1, <2>1, <2>2, <2>5, <3>1
  <2>6. CASE p # q /\ r = q
    <3>1. k \in 1..(N - 1) /\ j \in 1..Len(sequence[p]) /\ t[k] = sequence[p][j]
      BY <1>5, <1>12, <1>16, <2>6
    <3>2. QED
      BY <1>1, <2>1, <2>2, <2>6, <3>1
  <2>7. QED
    BY <2>3, <2>4, <2>5, <2>6
<1>17. WellQueued'
  BY <1>1, <1>6, <1>12, <1>15, <1>16 DEF WellQueued
<1>18. QED
  BY <1>9, <1>14, <1>17 DEF QueueInv

\* A queue is split.
LEMMA SplitStep ==
  ASSUME QueueInv, NEW q \in queues, NEW n \in Q!Queued(q), NEW p \in QHead, Q!Split(q, n, p)
  PROVE  QueueInv'
<1> DEFINE s == sequence[q]
           N == Len(s)
           f == Around(q, s)
           i == Q!Index(q, n)
           s1 == SubSeq(s, 1, i - 1)
           s2 == SubSeq(s, i, N)
           g1 == Around(q, s1)
           g2 == Around(p, s2)
<1>1. WellQueued /\ q \in QHead /\ links \in Links /\ p # q /\ sequence[p] = <<>> /\ p \notin queues
  BY DEF QueueInv, WellQueued, Q!Split
<1>2. /\ s \in Seq(Node) /\ N \in Nat /\ Round(f, N) /\ f[0] = q
      /\ \A k \in 1..N : s[k] \in Node /\ f[k] = s[k]
  BY <1>1, QueueRound
<1>3. i \in 1..N /\ s[i] = n
  BY IndexFits
<1>4. Linked(links, f, N)
  BY DEF QueueInv, Rings, Ring
<1>5. /\ queues' = queues \cup {p}
      /\ links' = Q!qp_queue_split(links, q, n, p)
      /\ sequence' = [sequence EXCEPT ![q] = s1, ![p] = s2]
  BY DEF Q!Split
<1>6. s1 \in Seq(Node) /\ Len(s1) = i - 1 /\ \A k \in 1..(i - 1) : s1[k] = s[k]
  <2> HIDE DEF i
  <2>1. QED
    BY <1>2, <1>3, SubSeqProperties
<1>7. s2 \in Seq(Node) /\ Len(s2) = N - i + 1 /\ \A k \in 1..(N - i + 1) : s2[k] = s[i + k - 1]
  <2> HIDE DEF i
  <2>1. QED
    BY <1>2, <1>3, SubSeqProperties
<1> HIDE DEF i, s1, s2
<1>8. p \in Cell /\ \A k \in 0..N : f[k] # p
  BY <1>1, LooseApart
<1>9. links' \in Links /\ Divided(links, links', f, N, i, p)
  <2>1. links' = Q!qp_queue_split(links, f[0], f[i], p)
    BY <1>2, <1>3, <1>5
  <2> HIDE DEF f, N, s
  <2>2. QED
    BY <1>1, <1>2, <1>3, <1>4, <1>8, <2>1, SplitFields
<1>10. Ring(links', q, s1)
  <2>1. \A k \in 0..i : g1[k] = IF k < i THEN f[k] ELSE f[0]
    BY <1>2, <1>3, <1>6 DEF Around
  <2>2. Linked(links', g1, i - 1)
    <3> HIDE DEF f, g1, N, s
    <3>1. QED
      BY <1>2, <1>3, <1>4, <1>8, <1>9, <2>1, DividedFront
  <2>3. QED
    BY <1>6, <2>2 DEF Ring
<1>11. Ring(links', p, s2)
  <2>1. \A k \in 0..(N - i + 2) : g2[k] = IF k \in 1..(N - i + 1) THEN f[i + k - 1] ELSE p
    <3>1. SUFFICES ASSUME NEW k \in 0..(N - i + 2)
                   PROVE  g2[k] = IF k \in 1..(N - i + 1) THEN f[i + k - 1] ELSE p
      OBVIOUS
    <3>2. g2[k] = IF k \in 1..(N - i + 1) THEN s2[k] ELSE p
      BY <1>2, <1>3, <1>7 DEF Around
    <3>3. ASSUME k \in 1..(N - i + 1) PROVE s2[k] = f[i + k - 1]
      <4>1. i + k - 1 \in 1..N
        BY <1>2, <1>3, <3>3
      <4>2. QED
        BY <1>2, <1>7, <3>3, <4>1
    <3>4. QED
      BY <3>2, <3>3
  <2>2. Linked(links', g2, N - i + 1)
    <3> HIDE DEF f, g2, N, s
    <3>1. QED
      BY SMTT(30), <1>2, <1>3, <1>4, <1>8, <1>9, <2>1, DividedBack
  <2>3. QED
    BY <1>7, <2>2 DEF Ring
<1>12. sequence' \in [QHead -> Seq(Node)] /\ sequence'[q] = s1 /\ sequence'[p] = s2
       /\ \A x \in QHead \ {q, p} : sequence'[x] = sequence[x]
  BY <1>1, <1>5, <1>6, <1>7 DEF WellQueued
<1>13. ASSUME NEW x \in queues, x # q
       PROVE  Ring(links', x, sequence[x])
  <2>1. x \in QHead /\ p # x
    BY <1>1 DEF WellQueued
  <2>2. f[i - 1] \in {f[k] : k \in 0..N} /\ f[i] \in {f[k] : k \in 0..N} /\ f[0] \in {f[k] : k \in 0..N}
        /\ f[N] \in {f[k] : k \in 0..N}
    BY <1>2, <1>3
  <2>3. \A k \in 0..Len(sequence[x]) : Around(x, sequence[x])[k] \notin {f[j] : j \in 0..N}
    BY <1>1, <2>1, <1>13, QueuesApart
  <2>4. \A k \in 0..Len(sequence[x]) : Around(x, sequence[x])[k] # p
    BY <1>1, <2>1, LooseApart
  <2>5. \A y \in Cell \ {f[i - 1], f[i], f[0], f[N], p} :
          links'.next[y] = links.next[y] /\ links'.prev[y] = links.prev[y]
    BY <1>9 DEF Divided
  <2> HIDE DEF f, N
  <2>6. \A k \in 0..Len(sequence[x]) : Around(x, sequence[x])[k] \notin {f[i - 1], f[i], f[0], f[N], p}
    BY <2>2, <2>3, <2>4
  <2>7. QED
    BY <2>5, <2>6, OthersKeep
<1>14. Rings'
  <2>1. SUFFICES ASSUME NEW x \in queues' PROVE Ring(links', x, sequence'[x])
    BY DEF Rings
  <2>2. CASE x = q
    BY <1>10, <1>12, <2>2
  <2>3. CASE x = p
    BY <1>11, <1>12, <2>3
  <2>4. CASE x # q /\ x # p
    BY <1>1, <1>5, <1>12, <1>13, <2>4 DEF WellQueued
  <2>5. QED
    BY <2>2, <2>3, <2>4
<1>15. \A x \in QHead \ queues' : sequence'[x] = <<>>
  BY <1>1, <1>5, <1>12 DEF WellQueued
<1>16. ASSUME NEW x \in QHead, NEW y \in QHead,
              NEW j \in 1..Len(sequence'[x]), NEW k \in 1..Len(sequence'[y]),
              sequence'[x][j] = sequence'[y][k]
       PROVE  x = y /\ j = k
  <2> DEFINE From(w, h, v, m) ==
        \/ w \notin {q, p} /\ v = w /\ m = h
        \/ w = q /\ v = q /\ m = h /\ m < i
        \/ w = p /\ v = q /\ m = i + h - 1
  <2>1. ASSUME NEW w \in QHead, NEW h \in 1..Len(sequence'[w])
        PROVE  \E v \in QHead : \E m \in 1..Len(sequence[v]) : sequence'[w][h] = sequence[v][m] /\ From(w, h, v, m)
    <3>1. CASE w \notin {q, p}
      BY <1>12, <2>1, <3>1
    <3>2. CASE w = q
      <4>1. h \in 1..N /\ h < i /\ sequence'[w][h] = s[h]
        BY <1>2, <1>3, <1>6, <1>12, <2>1, <3>2
      <4>2. QED
        BY <1>1, <3>2, <4>1
    <3>3. CASE w = p
      <4>1. i + h - 1 \in 1..N /\ sequence'[w][h] = s[i + h - 1]
        BY <1>2, <1>3, <1>7, <1>12, <2>1, <3>3
      <4>2. QED
        BY <1>1, <3>3, <4>1
    <3>4. QED
      BY <3>1, <3>2, <3>3
  <2>2. PICK v \in QHead : \E m \in 1..Len(sequence[v]) : sequence'[x][j] = sequence[v][m] /\ From(x, j, v, m)
    BY <2>1
  <2>3. PICK m \in 1..Len(sequence[v]) : sequence'[x][j] = sequence[v][m] /\ From(x, j, v, m)
    BY <2>2
  <2>4. PICK u \in QHead : \E o \in 1..Len(sequence[u]) : sequence'[y][k] = sequence[u][o] /\ From(y, k, u, o)
    BY <2>1
  <2>5. PICK o \in 1..Len(sequence[u]) : sequence'[y][k] = sequence[u][o] /\ From(y, k, u, o)
    BY <2>4
  <2>6. v = u /\ m = o
    <3>1. sequence[v][m] = sequence[u][o]
      BY <1>16, <2>3, <2>5
    <3>2. QED
      BY <1>1, <3>1 DEF WellQueued
  <2>7. Len(sequence'[x]) \in Nat /\ Len(sequence'[y]) \in Nat
    BY <1>12, LenProperties
  <2>8. j \in Nat /\ k \in Nat /\ j >= 1 /\ k >= 1
    BY <2>7
  <2>9. QED
    BY <1>1, <1>3, <2>3, <2>5, <2>6, <2>8
<1>17. WellQueued'
  BY <1>1, <1>5, <1>12, <1>15, <1>16 DEF WellQueued
<1>18. QED
  BY <1>9, <1>14, <1>17 DEF QueueInv

\* A queue is merged into another.
LEMMA MergeStep ==
  ASSUME QueueInv, NEW q \in queues, NEW p \in QHead, Q!Merge(q, p)
  PROVE  QueueInv'
<1> DEFINE s == sequence[q]
           t == sequence[p]
           N == Len(s)
           M == Len(t)
           f == Around(q, s)
           h == Around(p, t)
           c == s \o t
           g == Around(q, c)
           z == IF M = 0 THEN f[N] ELSE h[M]
<1>1. WellQueued /\ q \in QHead /\ links \in Links /\ p # q /\ p \in queues
  BY DEF QueueInv, WellQueued, Q!Merge
<1>2. /\ s \in Seq(Node) /\ N \in Nat /\ Round(f, N) /\ f[0] = q
      /\ \A k \in 1..N : s[k] \in Node /\ f[k] = s[k]
  BY <1>1, QueueRound
<1>3. /\ t \in Seq(Node) /\ M \in Nat /\ Round(h, M) /\ h[0] = p
      /\ \A k \in 1..M : t[k] \in Node /\ h[k] = t[k]
  BY <1>1, QueueRound
<1>4. Linked(links, f, N) /\ Linked(links, h, M)
  BY <1>1 DEF QueueInv, Rings, Ring
<1>5. \A j \in 0..N, k \in 0..M : f[j] # h[k]
  BY <1>1, QueuesApart
<1>6. /\ queues' = queues \ {p}
      /\ links' = Q!Forget(Q!qp_queue_merge(links, q, p), p)
      /\ sequence' = [sequence EXCEPT ![q] = c, ![p] = <<>>]
  BY DEF Q!Merge
<1>7. /\ c \in Seq(Node) /\ Len(c) = N + M
      /\ \A k \in 1..(N + M) : c[k] = IF k <= N THEN s[k] ELSE t[k - N]
  <2>1. s \in Seq(Node) /\ t \in Seq(Node)
    BY <1>2, <1>3
  <2> HIDE DEF s, t
  <2>2. QED
    BY <2>1, ConcatProperties
<1> HIDE DEF c
<1>8. f[N] = links.prev[q] /\ f[N] \in Cell /\ q \in Cell /\ f[N] # p /\ f[N + 1] = q
  <2> HIDE DEF f, N, h, M
  <2>1. N \in 0..N /\ 0 \in 0..M
    BY <1>2, <1>3
  <2>2. f[N] # p
    BY <1>3, <1>5, <2>1
  <2>3. /\ f[0] \in Cell /\ f[N] \in Cell /\ f[N + 1] = f[0] /\ links.prev[f[0]] = f[N]
    BY <1>2, <1>4, HeadLinks
  <2>4. QED
    BY <1>2, <2>2, <2>3
<1>9. h[1] = links.next[p] /\ h[M] = links.prev[p] /\ h[1] \in Cell /\ h[M] \in Cell /\ p \in Cell /\ h[M + 1] = p
  <2> HIDE DEF f, N, h, M
  <2>1. QED
    BY <1>3, <1>4, HeadLinks
<1>10. h[1] # q /\ (h[1] = p <=> M = 0)
  <2> HIDE DEF f, N, h, M
  <2>1. CASE M = 0
    BY <1>1, <1>9, <2>1
  <2>2. CASE M # 0
    BY <1>2, <1>3, <1>5, <2>2 DEF Round
  <2>3. QED
    BY <2>1, <2>2
<1>11. z \in Cell /\ z = IF h[1] = p THEN f[N] ELSE links.prev[p]
  BY <1>8, <1>9, <1>10
<1>12. /\ links' \in Links
       /\ \A x \in Cell \ {p} : links'.next[x] = IF x = z THEN q ELSE IF x = f[N] THEN h[1] ELSE links.next[x]
       /\ \A x \in Cell \ {p} : links'.prev[x] = IF x = q THEN z ELSE IF x = h[1] THEN f[N] ELSE links.prev[x]
  <2> HIDE DEF f, N, h, M, z
  <2>1. QED
    BY <1>1, <1>6, <1>8, <1>9, <1>10, <1>11, MergeFields
<1>13. Ring(links', q, c)
  <2>1. \A k \in 0..(N + M + 1) : g[k] = IF k <= N THEN f[k] ELSE IF k <= N + M THEN h[k - N] ELSE f[0]
    <3>1. SUFFICES ASSUME NEW k \in 0..(N + M + 1)
                   PROVE  g[k] = IF k <= N THEN f[k] ELSE IF k <= N + M THEN h[k - N] ELSE f[0]
      OBVIOUS
    <3>2. g[k] = IF k \in 1..(N + M) THEN c[k] ELSE q
      BY <1>2, <1>3, <1>7 DEF Around
    <3> HIDE DEF f, g, h, s, t, N, M
    <3>3. CASE k = 0 \/ k = N + M + 1
      BY <1>2, <1>3, <3>2, <3>3
    <3>4. CASE k \in 1..N
      BY <1>2, <1>3, <1>7, <3>2, <3>4
    <3>5. CASE k \in (N + 1)..(N + M)
      <4>1. k - N \in 1..M /\ c[k] = t[k - N]
        BY <1>2, <1>3, <1>7, <3>5
      <4>2. QED
        BY <1>2, <1>3, <3>2, <3>5, <4>1
    <3>6. k = 0 \/ k = N + M + 1 \/ k \in 1..N \/ k \in (N + 1)..(N + M)
      <4>1. N \in Nat /\ M \in Nat
        BY <1>2, <1>3
      <4>2. QED
        BY <4>1
    <3>7. QED
      BY <3>3, <3>4, <3>5, <3>6
  <2>2. CASE M = 0
    <3>1. \A k \in 0..N : f[k] \in Cell \ {p}
      <4>1. 0 \in 0..M
        BY <1>3
      <4>2. \A k \in 0..N : f[k] # h[0]
        BY <1>5, <4>1
      <4>3. \A k \in 0..N : f[k] \in Cell
        BY <1>2 DEF Round
      <4>4. QED
        BY <1>3, <4>2, <4>3
    <3>2. z = f[N] /\ h[1] = p
      BY <1>10, <2>2
    <3>3. links.next[f[N]] = q
      BY <1>2, <1>4, <1>8 DEF Linked
    <3>4. \A k \in 0..N : links'.next[f[k]] = links.next[f[k]] /\ links'.prev[f[k]] = links.prev[f[k]]
      BY <1>8, <1>12, <3>1, <3>2, <3>3
    <3>5. Linked(links', f, N)
      <4> HIDE DEF f, N
      <4>1. QED
        BY <1>2, <1>4, <3>4, LinkedFrame
    <3>6. \A k \in 0..(N + 1) : g[k] = f[k]
      BY <1>2, <1>8, <2>1, <2>2
    <3>7. Linked(links', g, N)
      <4> HIDE DEF f, g, N
      <4>1. QED
        BY SMTT(30), <1>2, <3>5, <3>6 DEF Linked
    <3>8. QED
      BY <1>2, <1>7, <2>2, <3>7 DEF Ring
  <2>3. CASE M # 0
    <3>1. Joined(links, links', f, N, h, M)
      BY <1>2, <1>3, <1>12, <2>3 DEF Joined
    <3>2. Linked(links', g, N + M)
      <4> HIDE DEF f, g, h, N, M
      <4>1. QED
        BY ZenonT(40), <1>2, <1>3, <1>4, <1>5, <2>1, <2>3, <3>1, JoinedRing
    <3>3. QED
      BY <1>7, <3>2 DEF Ring
  <2>4. QED
    BY <2>2, <2>3
<1>14. sequence' \in [QHead -> Seq(Node)] /\ sequence'[q] = c /\ sequence'[p] = <<>>
       /\ \A x \in QHead \ {q, p} : sequence'[x] = sequence[x]
  <2>1. <<>> \in Seq(Node)
    OBVIOUS
  <2>2. QED
    BY <1>1, <1>6, <1>7, <2>1 DEF WellQueued
<1>15. ASSUME NEW x \in queues, x # q, x # p
       PROVE  Ring(links', x, sequence[x])
  <2>1. x \in QHead
    BY <1>1 DEF WellQueued
  <2>2. f[0] \in {f[k] : k \in 0..N} /\ f[N] \in {f[k] : k \in 0..N}
    BY <1>2
  <2>3. h[0] \in {h[k] : k \in 0..M} /\ h[M] \in {h[k] : k \in 0..M} /\ h[1] \in {h[k] : k \in 0..M}
    BY <1>3, <1>9
  <2>4. \A k \in 0..Len(sequence[x]) : Around(x, sequence[x])[k] \notin {f[j] : j \in 0..N}
    BY <1>1, <2>1, <1>15, QueuesApart
  <2>5. \A k \in 0..Len(sequence[x]) : Around(x, sequence[x])[k] \notin {h[j] : j \in 0..M}
    BY <1>1, <2>1, <1>15, QueuesApart
  <2>6. \A y \in Cell \ {f[0], f[N], h[0], h[1], h[M]} :
          links'.next[y] = links.next[y] /\ links'.prev[y] = links.prev[y]
    BY <1>2, <1>3, <1>12
  <2> HIDE DEF f, N, h, M
  <2>7. \A k \in 0..Len(sequence[x]) : Around(x, sequence[x])[k] \notin {f[0], f[N], h[0], h[1], h[M]}
    BY <2>2, <2>3, <2>4, <2>5
  <2>8. QED
    BY <2>6, <2>7, OthersKeep
<1>16. Rings'
  <2>1. SUFFICES ASSUME NEW x \in queues' PROVE Ring(links', x, sequence'[x])
    BY DEF Rings
  <2>2. CASE x = q
    BY <1>13, <1>14, <2>2
  <2>3. CASE x # q
    BY <1>1, <1>6, <1>14, <1>15, <2>3 DEF WellQueued
  <2>4. QED
    BY <2>2, <2>3
<1>17. \A x \in QHead \ queues' : sequence'[x] = <<>>
  BY <1>1, <1>6, <1>14 DEF WellQueued
<1>18. ASSUME NEW x \in QHead, NEW y \in QHead,
              NEW j \in 1..Len(sequence'[x]), NEW k \in 1..Len(sequence'[y]),
              sequence'[x][j] = sequence'[y][k]
       PROVE  x = y /\ j = k
  <2> DEFINE From(w, i, v, m) ==
        \/ w \notin {q, p} /\ v = w /\ m = i
        \/ w = q /\ v = q /\ m = i
        \/ w = q /\ v = p /\ m = i - N
  <2>1. ASSUME NEW w \in QHead, NEW i \in 1..Len(sequence'[w])
        PROVE  \E v \in QHead : \E m \in 1..Len(sequence[v]) : sequence'[w][i] = sequence[v][m] /\ From(w, i, v, m)
    <3>1. CASE w \notin {q, p}
      BY <1>14, <2>1, <3>1
    <3>2. CASE w = q /\ i <= N
      <4>1. i \in 1..N /\ sequence'[w][i] = s[i]
        <5> HIDE DEF s, t, N, M
        <5>1. QED
          BY SMTT(30), <1>2, <1>3, <1>7, <1>14, <2>1, <3>2
      <4>2. QED
        BY <1>1, <3>2, <4>1
    <3>3. CASE w = q /\ ~(i <= N)
      <4>1. i - N \in 1..M /\ sequence'[w][i] = t[i - N]
        <5> HIDE DEF s, t, N, M
        <5>1. QED
          BY SMTT(30), <1>2, <1>3, <1>7, <1>14, <2>1, <3>3
      <4>2. QED
        BY <1>1, <3>3, <4>1
    <3>4. CASE w = p
      BY <1>14, <2>1, <3>4
    <3>5. QED
      BY <3>1, <3>2, <3>3, <3>4
  <2>2. PICK v \in QHead : \E m \in 1..Len(sequence[v]) : sequence'[x][j] = sequence[v][m] /\ From(x, j, v, m)
    BY <2>1
  <2>3. PICK m \in 1..Len(sequence[v]) : sequence'[x][j] = sequence[v][m] /\ From(x, j, v, m)
    BY <2>2
  <2>4. PICK u \in QHead : \E o \in 1..Len(sequence[u]) : sequence'[y][k] = sequence[u][o] /\ From(y, k, u, o)
    BY <2>1
  <2>5. PICK o \in 1..Len(sequence[u]) : sequence'[y][k] = sequence[u][o] /\ From(y, k, u, o)
    BY <2>4
  <2>6. v = u /\ m = o
    <3>1. sequence[v][m] = sequence[u][o]
      BY <1>18, <2>3, <2>5
    <3>2. QED
      BY <1>1, <3>1 DEF WellQueued
  <2>7. Len(sequence'[x]) \in Nat /\ Len(sequence'[y]) \in Nat
    BY <1>14, LenProperties
  <2>8. j \in Nat /\ k \in Nat /\ j >= 1 /\ k >= 1
    BY <2>7
  <2>9. N \in Nat
    BY <1>2
  <2> HIDE DEF N
  <2>10. QED
    BY <1>1, <2>3, <2>5, <2>6, <2>8, <2>9
<1>19. WellQueued'
  BY <1>1, <1>6, <1>14, <1>17, <1>18 DEF WellQueued
<1>20. QED
  BY <1>12, <1>16, <1>19 DEF QueueInv

\* A head is initialised.
LEMMA InitQueueStep ==
  ASSUME QueueInv, NEW q \in QHead, Q!InitQueue(q)
  PROVE  QueueInv'
<1>1. WellQueued /\ links \in Links /\ q \in Cell /\ sequence[q] = <<>> /\ q \notin queues
  BY DEF QueueInv, WellQueued, Q!InitQueue, Cell
<1>2. queues' = queues \cup {q} /\ links' = Q!qp_queue_init(links, q) /\ sequence' = sequence
  BY DEF Q!InitQueue
<1>3. /\ links' \in Links /\ links'.next[q] = q /\ links'.prev[q] = q
      /\ \A x \in Cell \ {q} : links'.next[x] = links.next[x] /\ links'.prev[x] = links.prev[x]
  BY <1>1, <1>2 DEF Links, Q!qp_queue_init, Q!SetPrev, Q!SetNext
<1>4. Ring(links', q, sequence[q])
  BY <1>1, <1>3 DEF Ring, Linked, Around
<1>5. ASSUME NEW p \in queues
      PROVE  Ring(links', p, sequence[p])
  <2>1. p \in QHead /\ q \in QHead \ {p}
    BY <1>1 DEF WellQueued
  <2>2. \A k \in 0..Len(sequence[p]) : Around(p, sequence[p])[k] \notin {q}
    BY <1>1, <2>1, LooseApart
  <2>3. QED
    BY <1>3, <2>2, OthersKeep
<1>6. Rings'
  BY <1>2, <1>4, <1>5 DEF Rings
<1>7. WellQueued'
  BY <1>1, <1>2 DEF WellQueued
<1>8. QED
  BY <1>3, <1>6, <1>7 DEF QueueInv

\* Every call on a queue keeps the invariant.
LEMMA QueueStep == QueueInv /\ [Q!Next]_queueVars => QueueInv'
<1> SUFFICES ASSUME QueueInv, [Q!Next]_queueVars PROVE QueueInv'
  OBVIOUS
<1>1. ASSUME NEW q \in QHead, Q!InitQueue(q) PROVE QueueInv'
  BY <1>1, InitQueueStep
<1>2. ASSUME NEW q \in queues, NEW n \in Q!Loose, Q!InsertTail(q, n) PROVE QueueInv'
  BY <1>2, InsertTailStep
<1>3. ASSUME NEW q \in queues, NEW n \in Q!Loose, NEW place \in {q} \cup Q!Queued(q),
             Q!InsertAfter(q, place, n)
      PROVE  QueueInv'
  BY <1>3, InsertAfterStep
<1>4. ASSUME NEW q \in queues, NEW n \in Q!Queued(q), Q!RemoveNode(q, n) PROVE QueueInv'
  BY <1>4, RemoveStep
<1>5. ASSUME NEW q \in queues, NEW n \in Q!Queued(q), NEW p \in QHead, Q!Split(q, n, p) PROVE QueueInv'
  BY <1>5, SplitStep
<1>6. ASSUME NEW q \in queues, NEW p \in QHead, Q!Merge(q, p) PROVE QueueInv'
  BY <1>6, MergeStep
<1>7. CASE UNCHANGED queueVars
  BY SMTT(30), <1>7 DEF queueVars, QueueInv, WellQueued, Rings, Ring, Linked, Around
<1>8. QED
  BY <1>1, <1>2, <1>3, <1>4, <1>5, <1>6, <1>7 DEF Q!Next

\* Before any head is initialised it holds.
LEMMA InitQueues == Q!Init => QueueInv
BY DEF Q!Init, QueueInv, WellQueued, Rings, Links, Cell

\* The rings are what RingExact says.
LEMMA QueueInvRing == QueueInv => RingExact
<1> SUFFICES ASSUME QueueInv, NEW q \in queues
             PROVE  LET ring == <<q>> \o sequence[q] \o <<q>>
                    IN  /\ \A k \in 1..(Len(ring) - 1) :
                             links.next[ring[k]] = ring[k + 1] /\ links.prev[ring[k + 1]] = ring[k]
                        /\ Q!qp_queue_first(links, q) = IF sequence[q] = <<>> THEN Null ELSE ring[2]
                        /\ Q!qp_queue_last(links, q) =
                             IF sequence[q] = <<>> THEN Null ELSE sequence[q][Len(sequence[q])]
  BY Zenon DEF RingExact, Q!RingExact
<1> DEFINE s == sequence[q]
           N == Len(s)
           f == Around(q, s)
           ring == <<q>> \o s \o <<q>>
<1>1. WellQueued /\ q \in QHead /\ Linked(links, f, N)
  BY DEF QueueInv, WellQueued, Rings, Ring
<1>2. /\ s \in Seq(Node) /\ N \in Nat /\ Round(f, N) /\ f[0] = q
      /\ \A k \in 1..N : s[k] \in Node /\ f[k] = s[k]
  BY <1>1, QueueRound
<1>3. Len(ring) = N + 2 /\ \A k \in 1..(N + 2) : ring[k] = f[k - 1]
  <2>1. <<q>> \in Seq(Cell) /\ Len(<<q>>) = 1 /\ <<q>>[1] = q /\ s \in Seq(Cell)
    BY <1>1, <1>2 DEF Cell
  <2> DEFINE a == <<q>> \o s
  <2>2. a \in Seq(Cell) /\ Len(a) = 1 + N /\ \A k \in 1..(1 + N) : a[k] = IF k <= 1 THEN <<q>>[k] ELSE s[k - 1]
    BY <2>1, ConcatProperties
  <2>3. \A k \in 1..(1 + N) : a[k] = f[k - 1]
    BY <1>2, <2>1, <2>2
  <2> HIDE DEF a
  <2>4. ring = a \o <<q>>
    BY DEF a
  <2>5. /\ Len(a \o <<q>>) = N + 2
        /\ \A k \in 1..(N + 2) : (a \o <<q>>)[k] = IF k <= N + 1 THEN a[k] ELSE <<q>>[k - (N + 1)]
    BY <1>2, <2>1, <2>2, ConcatProperties
  <2>6. f[N + 1] = q
    BY <1>2 DEF Round
  <2>7. QED
    BY <1>2, <2>1, <2>3, <2>4, <2>5, <2>6
<1> HIDE DEF ring
<1>4. \A k \in 1..(Len(ring) - 1) : links.next[ring[k]] = ring[k + 1] /\ links.prev[ring[k + 1]] = ring[k]
  <2>1. SUFFICES ASSUME NEW k \in 1..(N + 1)
                 PROVE  links.next[ring[k]] = ring[k + 1] /\ links.prev[ring[k + 1]] = ring[k]
    BY <1>2, <1>3
  <2>2. k - 1 \in 0..N /\ (k - 1) + 1 = k /\ (k + 1) - 1 = k /\ k \in 1..(N + 2) /\ k + 1 \in 1..(N + 2)
    BY <1>2
  <2>3. ring[k] = f[k - 1] /\ ring[k + 1] = f[k]
    BY <1>3, <2>2
  <2>4. links.next[f[k - 1]] = f[(k - 1) + 1] /\ links.prev[f[(k - 1) + 1]] = f[k - 1]
    BY <1>1, <2>2 DEF Linked
  <2>5. QED
    BY <2>2, <2>3, <2>4
<1>5. links.prev[q] = f[N] /\ links.next[q] = f[1] /\ ring[2] = f[1]
  <2>1. links.prev[f[0]] = f[N] /\ links.next[f[0]] = f[1]
    BY <1>1, <1>2, HeadLinks
  <2>2. 2 \in 1..(N + 2) /\ 2 - 1 = 1
    BY <1>2
  <2>3. ring[2] = f[1]
    BY <1>3, <2>2
  <2>4. QED
    BY <1>2, <2>1, <2>3
<1>6. N = 0 <=> s = <<>>
  BY <1>2, EmptySeq
<1>7. q = links.prev[q] <=> N = 0
  BY <1>2, <1>5 DEF Round
<1>8. Q!qp_queue_first(links, q) = IF s = <<>> THEN Null ELSE ring[2]
  BY <1>5, <1>6, <1>7 DEF Q!qp_queue_first, Q!qp_queue_is_empty
<1>9. Q!qp_queue_last(links, q) = IF s = <<>> THEN Null ELSE s[N]
  BY <1>2, <1>5, <1>6, <1>7 DEF Q!qp_queue_last, Q!qp_queue_is_empty
<1>10. QED
  BY <1>4, <1>8, <1>9 DEF ring

-----------------------------------------------------------------------------
(* The containers.  A caller of one leaves the other alone. *)

(***************************************************************************)
(* The tree's invariant holds in every step of every call.                 *)
(***************************************************************************)
THEOREM TreeInvariant == CSpec => []TreeInv
<1>1. CInit => TreeInv
  BY InitTree DEF CInit
<1>2. TreeInv /\ [CNext]_cvars => TreeInv'
  <2>1. [CNext]_cvars => [Next]_vars
    BY DEF CNext, cvars
  <2> QED
    BY <2>1, TreeStep
<1> QED
  BY <1>1, <1>2, PTL DEF CSpec

(***************************************************************************)
(* After any calls, and in every step of each, the links of the tree are a *)
(* search tree of exactly the nodes the caller put in: rotations, the fix  *)
(* of an insertion and the relinking of a deletion lose no node, leave no  *)
(* parent link stale and keep the keys in order, for any number of nodes   *)
(* and keys.                                                               *)
(***************************************************************************)
THEOREM TreeIsSearchTree == CSpec => []SearchTree
  BY TreeInvariant, TreeInvSearch, PTL

(***************************************************************************)
(* Whenever a call has returned the tree is balanced: qp_rbtree_insert_fix *)
(* and qp_rbtree_delete_fix remove the fault they were called for and make *)
(* no other.                                                               *)
(***************************************************************************)
THEOREM TreeIsRedBlack == CSpec => []RedBlack
  BY TreeInvariant, TreeInvBalanced, PTL

(***************************************************************************)
(* The tree holds what was inserted and not deleted, with its data, and    *)
(* qp_rbtree_find, qp_rbtree_min and qp_rbtree_max return the right node.  *)
(***************************************************************************)
THEOREM TreeLookupsExact == CSpec => []LookupsExact
  BY TreeInvariant, TreeInvLookups, PTL

(***************************************************************************)
(* The queues' invariant holds after every call.                           *)
(***************************************************************************)
THEOREM QueueInvariant == CSpec => []QueueInv
<1>1. CInit => QueueInv
  BY InitQueues DEF CInit
<1>2. QueueInv /\ [CNext]_cvars => QueueInv'
  <2>1. [CNext]_cvars => [Q!Next]_queueVars
    BY DEF CNext, cvars
  <2> QED
    BY <2>1, QueueStep
<1> QED
  BY <1>1, <1>2, PTL DEF CSpec

(***************************************************************************)
(* After any inserts, removals, splits and merges the links of every queue *)
(* lead through exactly its nodes, in order, both ways, and first and last *)
(* tell its ends, for any number of heads and nodes.                       *)
(***************************************************************************)
THEOREM QueueRingExact == CSpec => []RingExact
  BY QueueInvariant, QueueInvRing, PTL
=============================================================================
