---------------------------- MODULE MCQpManager ----------------------------
(* Instances of QpManager.  Pool addresses, and managers, are alike. *)
EXTENDS QpManager, TLC

Alike == Permutations(PoolId) \cup Permutations(Manager)
=============================================================================
