------------------------------ MODULE MCQpLock ------------------------------
(***************************************************************************)
(* An instance of QpLock: a process with threads t1 and t2, and t3 the     *)
(* child that t1 forked, which has t1's pthread_t and a pid of its own.    *)
(***************************************************************************)
EXTENDS QpLock

CONSTANTS t1, t2, t3

MixedTid == [t \in Thread |-> IF t = t2 THEN "tid2" ELSE "tid1"]
MixedPid == [t \in Thread |-> IF t = t3 THEN "pid2" ELSE "pid1"]
=============================================================================
