------------------------------ MODULE QpThread ------------------------------
(***************************************************************************)
(* qp_thread_t of qp_process.c: one thread structure, the client that      *)
(* starts, stops and destroys it, and the threads pthread_create makes,    *)
(* which run qp_thread_runner and share the structure's is_running,        *)
(* is_detach, tid and handler with the client and with each other without  *)
(* a lock.  The client may start a structure whose run is not over.        *)
(* pthread_create stores the tid before the new thread runs.               *)
(***************************************************************************)
EXTENDS Naturals

CONSTANTS
  MaxStarts,   \* bound: calls of qp_thread_start on the structure
  Detach,      \* the values of qp_thread_init's detach argument
  Patient      \* TRUE: the client does not stop or destroy the structure
               \* before the handler of its last start has begun

ASSUME ThreadAssumption ==
  MaxStarts \in Nat \ {0} /\ Detach \in SUBSET BOOLEAN /\ Patient \in BOOLEAN

VARIABLES
  is_inited, is_detach, is_running,   \* the structure's flags
  tid,      \* the run it was last started for, 0 for QP_THREAD_INVALID
  handler,  \* the start whose handler and argument it holds, 0 for NULL
  ret,      \* handler.ret: the start whose handler's result was stored last
  runner,   \* where each run of qp_thread_runner is
  calls,    \* the start whose handler each run called, 0 for none
  detached, \* the runs pthread_detach has detached
  starts,   \* calls of qp_thread_start so far; the run each makes has its number
  client,   \* what the client is doing: "ready", "creating", "joining", "destroying"
  result,   \* what its last call returned
  shared    \* history: runs that did not have the structure to themselves,
            \* because it was started again while they were not over

vars == <<is_inited, is_detach, is_running, tid, handler, ret, runner, calls, detached,
          starts, client, result, shared>>

Run == 1..MaxStarts
Over == {"none", "exited"}
Alive(r) == runner[r] \notin Over

Init ==
  /\ is_inited = TRUE
  /\ is_detach \in Detach
  /\ is_running = FALSE
  /\ tid = 0
  /\ handler = 0
  /\ ret = 0
  /\ runner = [r \in Run |-> "none"]
  /\ calls = [r \in Run |-> 0]
  /\ detached = {}
  /\ starts = 0
  /\ client = "ready"
  /\ result = "none"
  /\ shared = {}

-----------------------------------------------------------------------------
(* qp_thread_runner.                                                       *)

RunnerGoto(r, from, to) ==
  /\ runner[r] = from
  /\ runner' = [runner EXCEPT ![r] = to]
  /\ UNCHANGED <<is_inited, tid, handler, starts, client, result, shared>>

\* Mutant: the comparison is inverted.
RunnerCheckTid_Inverted(r) ==
  /\ RunnerGoto(r, "created", IF tid = r THEN "end" ELSE "detach")
  /\ UNCHANGED <<is_detach, is_running, ret, calls, detached>>

\* if (thread->tid != pthread_self()) goto end
RunnerCheckTid(r) ==
  /\ RunnerGoto(r, "created", IF tid # r THEN "end" ELSE "detach")
  /\ UNCHANGED <<is_detach, is_running, ret, calls, detached>>

\* pthread_detach of the thread the structure names now; its failure, which is
\* sure if there is no such thread, clears is_detach.
RunnerDetach(r) ==
  /\ RunnerGoto(r, "detach", "setRunning")
  /\ \/ is_detach /\ tid \in Run \ detached /\ detached' = detached \cup {tid}
        /\ UNCHANGED is_detach
     \/ is_detach' = FALSE /\ UNCHANGED detached
  /\ UNCHANGED <<is_running, ret, calls>>

\* Mutant: the flag is never raised.
RunnerSetRunning_Forgotten(r) ==
  /\ RunnerGoto(r, "setRunning", "call")
  /\ UNCHANGED <<is_detach, is_running, ret, calls, detached>>

RunnerSetRunning(r) ==
  /\ RunnerGoto(r, "setRunning", "call")
  /\ is_running' = TRUE
  /\ UNCHANGED <<is_detach, ret, calls, detached>>

\* The handler the structure holds now is called, if it holds one.
RunnerCall(r) ==
  /\ RunnerGoto(r, "call", IF handler # 0 THEN "return" ELSE "end")
  /\ calls' = [calls EXCEPT ![r] = handler]
  /\ UNCHANGED <<is_detach, is_running, ret, detached>>

\* thread->handler.ret = what the handler returned
RunnerReturn(r) ==
  /\ RunnerGoto(r, "return", "end")
  /\ ret' = calls[r]
  /\ UNCHANGED <<is_detach, is_running, calls, detached>>

\* Mutant: the runner goes round again.
RunnerEnd_Loops(r) ==
  /\ RunnerGoto(r, "end", "call")
  /\ UNCHANGED <<is_detach, is_running, ret, calls, detached>>

\* The last access to the structure, then pthread_exit.
RunnerEnd(r) ==
  /\ RunnerGoto(r, "end", "exited")
  /\ is_running' = FALSE
  /\ UNCHANGED <<is_detach, ret, calls, detached>>

Runner(r) ==
  \/ RunnerCheckTid(r) \/ RunnerDetach(r) \/ RunnerSetRunning(r)
  \/ RunnerCall(r) \/ RunnerReturn(r) \/ RunnerEnd(r)

-----------------------------------------------------------------------------
(* The client.                                                             *)

\* The handler of start r was called, by whichever run.
Begun(r) == \E q \in Run : calls[q] = r

\* A patient client stops and destroys a thread when it knows the handler it
\* started last has begun.
MayProceed == Patient => tid = 0 \/ Begun(tid)

\* qp_thread_start stores the handler and its argument, whether or not the
\* structure's last run is over, ...
StartSets ==
  /\ client = "ready" /\ is_inited
  /\ starts < MaxStarts
  /\ starts' = starts + 1
  /\ handler' = starts + 1
  /\ client' = "creating"
  /\ result' = "none"
  /\ shared' = IF \E r \in Run : Alive(r)
                 THEN shared \cup {r \in Run : Alive(r)} \cup {starts + 1} ELSE shared
  /\ UNCHANGED <<is_inited, is_detach, is_running, tid, ret, runner, calls, detached>>

\* ... creates the thread, ...
StartCreates ==
  /\ client = "creating"
  /\ tid' = starts
  /\ runner' = [runner EXCEPT ![starts] = "created"]
  /\ client' = "ready"
  /\ result' = "QP_SUCCESS"
  /\ UNCHANGED <<is_inited, is_detach, is_running, handler, ret, calls, detached, starts, shared>>

\* ... or forgets both the handler and whatever thread it had.
StartFails ==
  /\ client = "creating"
  /\ tid' = 0
  /\ handler' = 0
  /\ client' = "ready"
  /\ result' = "QP_ERROR"
  /\ UNCHANGED <<is_inited, is_detach, is_running, ret, runner, calls, detached, starts, shared>>

\* qp_thread_stop: a detached thread is refused while it runs, ...
StopDetached ==
  /\ client = "ready" /\ is_inited /\ MayProceed
  /\ is_detach
  /\ \/ is_running /\ result' = "QP_ERROR" /\ UNCHANGED tid
     \/ ~is_running /\ result' = "QP_SUCCESS" /\ tid' = 0
  /\ UNCHANGED <<is_inited, is_detach, is_running, handler, ret, runner, calls, detached,
                 starts, client, shared>>

\* ... a joinable one is waited for.
StopJoin ==
  /\ client = "ready" /\ is_inited /\ MayProceed
  /\ ~is_detach
  /\ client' = "joining"
  /\ result' = "none"
  /\ UNCHANGED <<is_inited, is_detach, is_running, tid, handler, ret, runner, calls, detached,
                 starts, shared>>

\* Mutant: the thread need not be over.
JoinReturns_AtOnce == TRUE

\* pthread_join waits for a thread that can be joined; for any other tid it
\* fails at once, which the code ignores (or ends the program).
JoinReturns == tid \in Run => runner[tid] = "exited" \/ tid \in detached

StopJoined ==
  /\ client = "joining" /\ JoinReturns
  /\ client' = "ready"
  /\ tid' = 0
  /\ result' = "QP_SUCCESS"
  /\ UNCHANGED <<is_inited, is_detach, is_running, handler, ret, runner, calls, detached,
                 starts, shared>>

\* qp_thread_destroy stops the thread if is_running says so; a detached thread
\* that runs makes it fail.
DestroyRunning ==
  /\ client = "ready" /\ is_inited /\ MayProceed
  /\ is_running
  /\ \/ is_detach /\ result' = "QP_ERROR" /\ UNCHANGED client
     \/ ~is_detach /\ client' = "destroying" /\ UNCHANGED result
  /\ UNCHANGED <<is_inited, is_detach, is_running, tid, handler, ret, runner, calls, detached,
                 starts, shared>>

DestroyJoined ==
  /\ client = "destroying" /\ JoinReturns
  /\ client' = "ready"
  /\ tid' = 0
  /\ is_inited' = FALSE
  /\ result' = "QP_SUCCESS"
  /\ UNCHANGED <<is_detach, is_running, handler, ret, runner, calls, detached, starts, shared>>

\* The structure may be freed at once.
DestroyIdle ==
  /\ client = "ready" /\ is_inited /\ MayProceed
  /\ ~is_running
  /\ is_inited' = FALSE
  /\ result' = "QP_SUCCESS"
  /\ UNCHANGED <<is_detach, is_running, tid, handler, ret, runner, calls, detached, starts,
                 client, shared>>

Client ==
  \/ StartSets \/ StartCreates \/ StartFails
  \/ StopDetached \/ StopJoin \/ StopJoined
  \/ DestroyRunning \/ DestroyJoined \/ DestroyIdle

Next == Client \/ \E r \in Run : Runner(r)

Spec == Init /\ [][Next]_vars

\* Created threads run and a join of an exited thread returns; whether a
\* handler returns is its own business.
FairSpec ==
  /\ Spec
  /\ \A r \in Run : WF_vars(Runner(r) /\ runner[r] # "return")
  /\ WF_vars(StopJoined \/ DestroyJoined)

-----------------------------------------------------------------------------
TypeOK ==
  /\ is_inited \in BOOLEAN /\ is_detach \in BOOLEAN /\ is_running \in BOOLEAN
  /\ tid \in 0..MaxStarts /\ handler \in 0..MaxStarts
  /\ ret \in 0..MaxStarts /\ starts \in 0..MaxStarts
  /\ runner \in [Run -> {"none", "created", "detach", "setRunning", "call", "return",
                         "end", "exited"}]
  /\ calls \in [Run -> 0..MaxStarts]
  /\ detached \subseteq Run /\ shared \subseteq Run
  /\ client \in {"ready", "creating", "joining", "destroying"}
  /\ result \in {"none", "QP_SUCCESS", "QP_ERROR"}

(***************************************************************************)
(* "Destroy a thread struct. If thread is running it will wait for": once  *)
(* the structure is destroyed, no run that had it to itself still has to   *)
(* touch it, whatever runs the structure had before.  A run that shares it *)
(* with another is not waited for: the end of either clears is_running,    *)
(* and tid names one of them.                                              *)
(***************************************************************************)
NoRunAfterDestroy ==
  ~is_inited => \A r \in Run \ shared : ~Alive(r)

(***************************************************************************)
(* When qp_thread_stop returns success for a joinable thread that had the  *)
(* structure to itself, the run is over, it called the handler it was      *)
(* started with, and qp_thread_return gives what that handler returned.    *)
(***************************************************************************)
StoppedMeansDone ==
  [][(client = "joining" /\ client' = "ready" /\ tid \in Run \ shared)
        => runner[tid] = "exited" /\ calls[tid] = tid /\ ret = tid]_vars

(***************************************************************************)
(* The handler of every successful start is called, also when runs of      *)
(* earlier starts are not over, unless the structure is started again:     *)
(* then the new tid may make the earlier run end without calling anything. *)
(***************************************************************************)
EveryStartRuns == \A r \in Run : (runner[r] = "created") ~> (Begun(r) \/ starts > r)

(***************************************************************************)
(* Every stop or destroy that waits comes to an end, provided that no      *)
(* handler runs for ever.                                                  *)
(***************************************************************************)
WaitsEnd ==
  (\A r \in Run : []<>(runner[r] # "return"))
     => ((client \in {"joining", "destroying"}) ~> (client = "ready"))
=============================================================================
