------------------------------ MODULE MCQpIpc ------------------------------
(* Instances of QpIpc: threads of one process. *)
EXTENDS QpIpc

OneProcessTid == [t \in Thread |-> <<"tid", t>>]
OneProcessPid == [t \in Thread |-> "pid1"]
=============================================================================
