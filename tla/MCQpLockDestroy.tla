-------------------------- MODULE MCQpLockDestroy --------------------------
(* Instances of QpLockDestroy: threads of one process. *)
EXTENDS QpLockDestroy

OneProcessTid == [t \in Thread |-> <<"tid", t>>]
OneProcessPid == [t \in Thread |-> "pid1"]
=============================================================================
