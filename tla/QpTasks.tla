------------------------------ MODULE QpTasks ------------------------------
(***************************************************************************)
(* The two kinds of task of qp_process.c, a thread (QpThread) and a child  *)
(* process (QpProcess).  A client's structure is one or the other; task    *)
(* says which.  Both kinds have the flags is_inited and is_running.        *)
(***************************************************************************)
EXTENDS QpThread, Integers

CONSTANT MaxChildren

ASSUME TasksAssumption == MaxChildren \in Nat \ {0}

VARIABLES
  task,
  type, pid, stack, child, home, forks, at, signalled, restarted, adrift

P == INSTANCE QpProcess

threadVars == <<is_detach, tid, handler, ret, runner, calls, detached, starts, client,
                result, shared>>
processVars == <<type, pid, stack, child, home, forks, at, signalled, restarted,
                 adrift>>
tvars == <<vars, processVars, task>>

TInit == Init /\ P!Init /\ task \in {"thread", "process"}

OnThread(A) == task = "thread" /\ A /\ UNCHANGED <<processVars, task>>
OnProcess(A) == task = "process" /\ A /\ UNCHANGED <<threadVars, task>>

TNext == OnThread(Next) \/ OnProcess(P!Next)

TSpec == TInit /\ [][TNext]_tvars

\* The fairness of the two modules.
TFairSpec ==
  /\ TSpec
  /\ \A r \in Run : WF_tvars(OnThread(Runner(r) /\ runner[r] # "return"))
  /\ WF_tvars(OnThread(StopJoined \/ DestroyJoined))
  /\ \A c \in 1..MaxChildren : WF_tvars(OnProcess(child[c] = "dying" /\ P!ChildExits(c)))
  /\ WF_tvars(OnProcess(P!WaitReaps))

-----------------------------------------------------------------------------
(* What the modules state of their kind of task. *)

\* A child that waitpid has not taken, and that the structure was not made to
\* give up, is the one the structure names.
NoChildLost == P!NoChildLost

\* qp_process_kill and qp_process_stop signal the structure's child only.
SignalsItsChildOnly == P!SignalsItsChildOnly

\* A clone that is alive, and that the structure was not made to give up, runs
\* on a stack that has not been freed.
StackOutlivesChild == P!StackOutlivesChild

\* A child that a forced stop or a destroy has killed is waited for in the end,
\* unless a signal interrupts the wait.
KilledIsReaped == P!KilledIsReaped

\* Every qp_thread_stop and qp_thread_destroy that waits ends if no handler
\* runs for ever, and so does every forced stop and every destroy of a process.
EveryWaitEnds == WaitsEnd /\ P!ForcedStopEnds
=============================================================================
