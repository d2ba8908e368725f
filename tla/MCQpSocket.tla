----------------------------- MODULE MCQpSocket -----------------------------
(* Instances of QpSocket: the structures are interchangeable. *)
EXTENDS QpSocket, TLC

Alike == Permutations(Skt)
=============================================================================
