----------------------------- MODULE MCQpCond -----------------------------
(* Instances of QpCond: threads of one process. *)
EXTENDS QpCond

OneProcessTid == [t \in Thread |-> <<"tid", t>>]
OneProcessPid == [t \in Thread |-> "pid1"]
=============================================================================
