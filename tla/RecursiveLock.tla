---------------------------- MODULE RecursiveLock ----------------------------
(***************************************************************************)
(* What a recursive, owner-checked lock promises its callers, and nothing  *)
(* of how it is built: depth[t] is the number of acquisitions thread t has *)
(* been granted and not yet given back.  A grant is possible only while    *)
(* nobody else has one, and only the thread that has a grant can return it.*)
(* QpLock is shown to implement this specification.                        *)
(***************************************************************************)
EXTENDS Naturals

CONSTANT Thread

VARIABLE depth

Init == depth = [t \in Thread |-> 0]

\* A successful lock or trylock of t.
Grant(t) ==
  /\ \A u \in Thread \ {t} : depth[u] = 0
  /\ depth' = [depth EXCEPT ![t] = @ + 1]

\* A successful unlock by t.
GiveBack(t) ==
  /\ depth[t] > 0
  /\ depth' = [depth EXCEPT ![t] = @ - 1]

Next == \E t \in Thread : Grant(t) \/ GiveBack(t)

Spec == Init /\ [][Next]_depth
=============================================================================
