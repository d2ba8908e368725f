--------------------------- MODULE MCQpContainers ---------------------------
(* Instances of QpContainers.  The caller's nodes are alike. *)
EXTENDS QpContainers, TLC

Alike == Permutations(Node)
=============================================================================
