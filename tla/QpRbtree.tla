------------------------------ MODULE QpRbtree ------------------------------
(***************************************************************************)
(* The red-black tree of core/qp_memory_core.c.  Nodes belong to the       *)
(* caller, who sets their keys; the tree links them through left, right    *)
(* and parent, with one sentinel for every missing node.  The tree is a    *)
(* record and its helpers are operators on it.  The code takes no lock and *)
(* is used by one thread: a call runs to its end before the next begins.   *)
(* Each turn of a loop is a step, its locals are in call.                  *)
(*                                                                         *)
(* The code writes each rebalancing case twice, once per side; here the    *)
(* side is a parameter.                                                    *)
(***************************************************************************)
EXTENDS Integers, FiniteSets

CONSTANTS
  Node,       \* the caller's nodes
  Nil,        \* the sentinel
  MaxKey,     \* bound: keys are 0 .. MaxKey
  FindRange   \* 2^32 for the code: qp_rbtree_find takes a 32-bit key, node
              \* keys have 64 bits

ASSUME RbtreeAssumption ==
  /\ Nil \notin Node /\ IsFiniteSet(Node)
  /\ MaxKey \in Nat /\ FindRange \in Nat \ {0}

VARIABLES
  tree,      \* the links, colours, keys and data
  linked,    \* nodes the caller has put in the tree and not got back
  content,   \* history: the keys that should be in the tree
  call       \* the call that runs and its locals

vars == <<tree, linked, content, call>>

Key == 0..MaxKey
Place == Node \cup {Nil}
Side == {"left", "right"}
Other(side) == IF side = "left" THEN "right" ELSE "left"

-----------------------------------------------------------------------------
qp_rbtree_init ==
  [root |-> Nil,
   child |-> [side \in Side |-> [n \in Place |-> Nil]],
   parent |-> [n \in Place |-> Nil],
   red |-> {},
   key |-> [n \in Node |-> 0],
   data |-> [n \in Node |-> 0]]

Red(T, n) == n \in T.red
SetRed(T, n) == [T EXCEPT !.red = @ \cup {n}]
SetBlack(T, n) == [T EXCEPT !.red = @ \ {n}]
Grandpa(T, n) == T.parent[T.parent[n]]

\* qp_rbtree_is_left, told from qp_rbtree_is_right by the left link only.
SideOf(T, n) == IF n = T.child["left"][T.parent[n]] THEN "left" ELSE "right"

Uncle(T, n) == T.child[Other(SideOf(T, T.parent[n]))][Grandpa(T, n)]
Brother(T, n) == T.child[Other(SideOf(T, n))][T.parent[n]]

\* Mutant: the subtree that changes sides keeps its old parent.
Rotate_StaleParent(T, n, side) ==
  LET up == T.child[Other(side)][n]
      inner == T.child[side][up]
      above == T.parent[n]
      at == SideOf(T, n)
      hung == IF n = T.root THEN T.child ELSE [T.child EXCEPT ![at][above] = up]
  IN  [T EXCEPT
         !.root = IF n = T.root THEN up ELSE @,
         !.parent = [@ EXCEPT ![up] = above, ![n] = up],
         !.child = [hung EXCEPT ![Other(side)][n] = inner, ![side][up] = n]]

\* qp_rbtree_left_rotate (side = "left") and qp_rbtree_right_rotate: the child
\* on the other side comes up, its inner subtree moves to n.
Rotate(T, n, side) ==
  LET up == T.child[Other(side)][n]
      inner == T.child[side][up]
      above == T.parent[n]
      at == SideOf(T, n)
      hung == IF n = T.root THEN T.child ELSE [T.child EXCEPT ![at][above] = up]
      parent == [T.parent EXCEPT ![up] = above, ![n] = up]
  IN  [T EXCEPT
         !.root = IF n = T.root THEN up ELSE @,
         !.parent = IF inner = Nil THEN parent ELSE [parent EXCEPT ![inner] = n],
         !.child = [hung EXCEPT ![Other(side)][n] = inner, ![side][up] = n]]

-----------------------------------------------------------------------------
(* Calls.                                                                  *)

\* Nothing runs.
Returned == [op |-> "none", at |-> "returned", node |-> Nil, cur |-> Nil, key |-> 0]
Idle == call = Returned

\* A call begins on its way down from a node.
Begin(op, n, from, k) ==
  call' = [op |-> op, at |-> "descend", node |-> n, cur |-> from, key |-> k]

Descending(op) == call.op = op /\ call.at = "descend"
Fixing(op) == call.op = op /\ call.at = "fix"
Toward(T, n, k) == IF k < T.key[n] THEN "left" ELSE "right"
Down(side) == call' = [call EXCEPT !.cur = tree.child[side][call.cur]]

Init ==
  /\ tree = qp_rbtree_init
  /\ linked = {}
  /\ content = {}
  /\ call = Returned

-----------------------------------------------------------------------------
(* qp_rbtree_insert.  The caller has set the node's key and data.          *)

Insert(n, k) ==
  /\ Idle
  /\ n \in Node \ linked
  /\ Begin("insert", n, tree.root, k)
  /\ UNCHANGED <<tree, linked, content>>

\* The new leaf's key and links; it is the caller's node no more.
Leaf(T, n, above, k) ==
  [T EXCEPT !.key[n] = k, !.data[n] = k, !.parent[n] = above,
            !.child = [side \in Side |-> [@[side] EXCEPT ![n] = Nil]]]

Join ==
  /\ linked' = linked \cup {call.node}
  /\ content' = content \cup {call.key}

InsertRoot ==
  /\ Descending("insert") /\ call.cur = Nil
  /\ tree' = [SetBlack(Leaf(tree, call.node, Nil, call.key), call.node) EXCEPT !.root = call.node]
  /\ Join
  /\ call' = Returned

InsertDescend ==
  LET cur == call.cur
      side == Toward(tree, cur, call.key)
  IN  /\ Descending("insert") /\ cur # Nil
      /\ call.key # tree.key[cur] /\ tree.child[side][cur] # Nil
      /\ Down(side)
      /\ UNCHANGED <<tree, linked, content>>

\* NULL comes back, the node stays with the caller.
InsertDuplicate ==
  /\ Descending("insert") /\ call.cur # Nil
  /\ call.key = tree.key[call.cur]
  /\ call' = Returned
  /\ UNCHANGED <<tree, linked, content>>

\* Mutant: the fix is left out.
InsertLeaf_Unfixed ==
  LET cur == call.cur
      n == call.node
      side == Toward(tree, cur, call.key)
  IN  /\ Descending("insert") /\ cur # Nil
      /\ call.key # tree.key[cur] /\ tree.child[side][cur] = Nil
      /\ tree' = SetRed([Leaf(tree, n, cur, call.key) EXCEPT !.child[side][cur] = n], n)
      /\ Join
      /\ call' = Returned

InsertLeaf ==
  LET cur == call.cur
      n == call.node
      side == Toward(tree, cur, call.key)
  IN  /\ Descending("insert") /\ cur # Nil
      /\ call.key # tree.key[cur] /\ tree.child[side][cur] = Nil
      /\ tree' = SetRed([Leaf(tree, n, cur, call.key) EXCEPT !.child[side][cur] = n], n)
      /\ Join
      /\ call' = IF Red(tree, cur) THEN [call EXCEPT !.at = "fix", !.cur = n] ELSE Returned

(* qp_rbtree_insert_fix *)
InsertFixed == call.cur = tree.root \/ ~Red(tree, tree.parent[call.cur])

InsertFixEnds ==
  /\ Fixing("insert") /\ InsertFixed
  /\ tree' = SetBlack(tree, tree.root)
  /\ call' = Returned
  /\ UNCHANGED <<linked, content>>

InsertFixRecolours ==
  LET n == call.cur
      g == Grandpa(tree, n)
  IN  /\ Fixing("insert") /\ ~InsertFixed
      /\ Red(tree, Uncle(tree, n))
      /\ tree' = SetRed(SetBlack(SetBlack(tree, tree.parent[n]), Uncle(tree, n)), g)
      /\ call' = [call EXCEPT !.cur = g]
      /\ UNCHANGED <<linked, content>>

InsertFixRotates ==
  LET n == call.cur
      side == SideOf(tree, tree.parent[n])
      bent == n = tree.child[Other(side)][tree.parent[n]]
      m == IF bent THEN tree.parent[n] ELSE n
      T1 == IF bent THEN Rotate(tree, m, side) ELSE tree
      T2 == SetRed(SetBlack(T1, T1.parent[m]), Grandpa(T1, m))
  IN  /\ Fixing("insert") /\ ~InsertFixed
      /\ ~Red(tree, Uncle(tree, n))
      /\ tree' = Rotate(T2, Grandpa(T2, m), Other(side))
      /\ call' = [call EXCEPT !.cur = m]
      /\ UNCHANGED <<linked, content>>

-----------------------------------------------------------------------------
(* qp_rbtree_delete.  The caller passes a node of the tree.                *)

\* The node that leaves is n, or its successor when n has two children.
Delete(n) ==
  /\ Idle
  /\ n \in linked
  /\ Begin("delete", n, IF \E side \in Side : tree.child[side][n] = Nil
                        THEN n ELSE tree.child["right"][n], 0)
  /\ UNCHANGED <<tree, linked, content>>

DeleteDescend ==
  /\ Descending("delete") /\ call.cur # call.node
  /\ tree.child["left"][call.cur] # Nil
  /\ Down("left")
  /\ UNCHANGED <<tree, linked, content>>

Only(T, n) == IF T.child["left"][n] # Nil THEN T.child["left"][n] ELSE T.child["right"][n]

\* Mutant: the successor's key moves to n, its data does not.
Unlink_KeyOnly(T, n, subst) ==
  LET tmp == Only(T, subst)
      above == T.parent[subst]
      T1 == [T EXCEPT !.parent[tmp] = above, !.key[n] = T.key[subst]]
  IN  IF above = Nil THEN [T1 EXCEPT !.root = tmp]
      ELSE [T1 EXCEPT !.child[SideOf(T, subst)][above] = tmp]

\* subst's only child takes its place; its key and data go to n.
Unlink(T, n, subst) ==
  LET tmp == Only(T, subst)
      above == T.parent[subst]
      T1 == [T EXCEPT !.parent[tmp] = above,
                      !.key[n] = T.key[subst], !.data[n] = T.data[subst]]
  IN  IF above = Nil THEN [T1 EXCEPT !.root = tmp]
      ELSE [T1 EXCEPT !.child[SideOf(T, subst)][above] = tmp]

\* subst goes back to the caller, and what it holds is the caller's business.
Forget(T, n) ==
  [T EXCEPT !.child = [side \in Side |-> [@[side] EXCEPT ![n] = Nil]],
            !.parent[n] = Nil, !.red = @ \ {n}, !.key[n] = 0, !.data[n] = 0]

DeleteUnlinks ==
  LET subst == call.cur
  IN  /\ Descending("delete")
      /\ subst = call.node \/ tree.child["left"][subst] = Nil
      /\ tree' = Forget(Unlink(tree, call.node, subst), subst)
      /\ linked' = linked \ {subst}
      /\ content' = content \ {tree.key[call.node]}
      /\ call' = IF Red(tree, subst) THEN Returned
                 ELSE [call EXCEPT !.at = "fix", !.node = Nil, !.cur = Only(tree, subst)]

(* qp_rbtree_delete_fix *)
DeleteFixed == call.cur = tree.root \/ Red(tree, call.cur)

\* A red brother first changes places with the parent.
BlackBrother(T, n) ==
  LET p == T.parent[n]
  IN  IF ~Red(T, Brother(T, n)) THEN T
      ELSE Rotate(SetRed(SetBlack(T, Brother(T, n)), p), p, SideOf(T, n))

DeleteFixEnds ==
  /\ Fixing("delete") /\ DeleteFixed
  /\ tree' = SetBlack(tree, call.cur)
  /\ call' = Returned
  /\ UNCHANGED <<linked, content>>

DeleteFixRecolours ==
  LET n == call.cur
      T1 == BlackBrother(tree, n)
      b == Brother(T1, n)
  IN  /\ Fixing("delete") /\ ~DeleteFixed
      /\ \A side \in Side : ~Red(T1, T1.child[side][b])
      /\ tree' = SetRed(T1, b)
      /\ call' = [call EXCEPT !.cur = T1.parent[n]]
      /\ UNCHANGED <<linked, content>>

DeleteFixRotates ==
  LET n == call.cur
      T1 == BlackBrother(tree, n)
      side == SideOf(T1, n)
      b == Brother(T1, n)
      near == T1.child[side][b]
      p == T1.parent[n]
      T2 == IF Red(T1, T1.child[Other(side)][b]) THEN T1
            ELSE Rotate(SetRed(SetBlack(T1, near), b), b, Other(side))
      b2 == T2.child[Other(side)][p]
      T3 == IF Red(T2, p) THEN SetRed(T2, b2) ELSE SetBlack(T2, b2)
      T4 == SetBlack(SetBlack(T3, p), T3.child[Other(side)][b2])
  IN  /\ Fixing("delete") /\ ~DeleteFixed
      /\ \E s \in Side : Red(T1, T1.child[s][b])
      /\ tree' = Rotate(T4, p, side)
      /\ call' = [call EXCEPT !.cur = tree'.root]
      /\ UNCHANGED <<linked, content>>

-----------------------------------------------------------------------------
(* Lookups.                                                                *)

\* The key arrives as a qp_uint32_t.
Find(k) ==
  /\ Idle
  /\ Begin("find", Nil, tree.root, k % FindRange)
  /\ UNCHANGED <<tree, linked, content>>

FindDescend ==
  /\ Descending("find")
  /\ call.cur # Nil /\ tree.key[call.cur] # call.key
  /\ Down(Toward(tree, call.cur, call.key))
  /\ UNCHANGED <<tree, linked, content>>

FindEnds == Descending("find") /\ (call.cur # Nil => tree.key[call.cur] = call.key)

FindReturns ==
  /\ FindEnds
  /\ call' = Returned
  /\ UNCHANGED <<tree, linked, content>>

\* qp_rbtree_min ("left") and qp_rbtree_max ("right"), of the nodes under n;
\* a caller who passes NULL asks for the root.
MinMax(side, n) ==
  /\ Idle
  /\ n \in linked
  /\ Begin(side, n, n, 0)
  /\ UNCHANGED <<tree, linked, content>>

MinMaxDescend(side) ==
  /\ Descending(side)
  /\ tree.child[side][call.cur] # Nil
  /\ Down(side)
  /\ UNCHANGED <<tree, linked, content>>

MinMaxEnds(side) == Descending(side) /\ tree.child[side][call.cur] = Nil

MinMaxReturns(side) ==
  /\ MinMaxEnds(side)
  /\ call' = Returned
  /\ UNCHANGED <<tree, linked, content>>

-----------------------------------------------------------------------------
Next ==
  \/ \E n \in Node, k \in Key : Insert(n, k)
  \/ InsertRoot \/ InsertDescend \/ InsertDuplicate \/ InsertLeaf
  \/ InsertFixEnds \/ InsertFixRecolours \/ InsertFixRotates
  \/ \E n \in Node : Delete(n)
  \/ DeleteDescend \/ DeleteUnlinks
  \/ DeleteFixEnds \/ DeleteFixRecolours \/ DeleteFixRotates
  \/ \E k \in Key : Find(k)
  \/ FindDescend \/ FindReturns
  \/ \E side \in Side : \/ \E n \in Node : MinMax(side, n)
                        \/ MinMaxDescend(side) \/ MinMaxReturns(side)

Spec == Init /\ [][Next]_vars

-----------------------------------------------------------------------------
\* The sets of nodes that have with a node its children.
Closed == {S \in SUBSET linked : \A n \in S, side \in Side : tree.child[side][n] \in S \cup {Nil}}

\* n and what is below it; nothing is below the sentinel.
Subtree(n) == {m \in linked : \A S \in Closed : n \in S \cup {Nil} => m \in S}

\* The black nodes on the way from the root down to n.
BlackPath(n) == {m \in linked : n \in Subtree(m) /\ ~Red(tree, m)}

(***************************************************************************)
(* The links form a search tree of exactly the nodes the caller has put    *)
(* in, in every step of every call: every node is under the root, its      *)
(* parent link leads back to the node above it, and its key separates its  *)
(* two subtrees.                                                           *)
(***************************************************************************)
SearchTree ==
  /\ Subtree(tree.root) = linked
  /\ tree.root # Nil => tree.parent[tree.root] = Nil
  /\ \A n \in linked :
       /\ \A side \in Side : tree.child[side][n] # Nil => tree.parent[tree.child[side][n]] = n
       /\ \A m \in Subtree(tree.child["left"][n]) : tree.key[m] < tree.key[n]
       /\ \A m \in Subtree(tree.child["right"][n]) : tree.key[m] > tree.key[n]

(***************************************************************************)
(* When a call has returned the tree is balanced: the root and the         *)
(* sentinel are black, a red node has no red child, and every path from    *)
(* the root to the sentinel has as many black nodes.                       *)
(***************************************************************************)
RedBlack ==
  Idle =>
    /\ ~Red(tree, tree.root) /\ ~Red(tree, Nil)
    /\ \A n \in linked : Red(tree, n) => ~Red(tree, tree.parent[n])
    /\ LET Ends == {n \in linked : \E side \in Side : tree.child[side][n] = Nil}
       IN  \A m, n \in Ends : Cardinality(BlackPath(m)) = Cardinality(BlackPath(n))

(***************************************************************************)
(* The keys in the tree are those inserted and not deleted, each with the  *)
(* data it came with although deletion moves both between nodes, and the   *)
(* lookups agree: "find node with [key] in [rbtree]" gives the node with   *)
(* the key if there is one and NULL if there is none, where the key is     *)
(* what is left of it in 32 bits (a key of the tree that is wider is never *)
(* found); qp_rbtree_min and qp_rbtree_max give the node with the least    *)
(* and the greatest key under the node they are asked about.               *)
(***************************************************************************)
LookupsExact ==
  /\ {tree.key[n] : n \in linked} = content
  /\ \A n \in linked : tree.data[n] = tree.key[n]
  /\ FindEnds =>
       IF call.key \in content THEN call.cur \in linked /\ tree.key[call.cur] = call.key
       ELSE call.cur = Nil
  /\ \A side \in Side : MinMaxEnds(side) =>
       /\ call.cur \in Subtree(call.node)
       /\ \A m \in Subtree(call.node) :
            IF side = "left" THEN tree.key[call.cur] <= tree.key[m]
            ELSE tree.key[call.cur] >= tree.key[m]
=============================================================================
