---------------------------- MODULE QpTasksProof ----------------------------
(***************************************************************************)
(* Proofs about the tasks of qp_process.c, for any number of starts and of *)
(* children.  What is said of threads assumes a client that waits until    *)
(* the handler it started last has begun before it stops or destroys       *)
(* (Patient); without that it is false, as the run thread_destroy shows.   *)
(* The client may start a structure whose run is not over.  Nothing is     *)
(* assumed of the client of a process.                                     *)
(***************************************************************************)
EXTENDS QpTasks, TLAPS

-----------------------------------------------------------------------------
(* Threads *)

(***************************************************************************)
(* Which runs there are, and what the structure may name.                  *)
(***************************************************************************)
Numbers ==
  /\ \A r \in Run : r > starts => runner[r] = "none"
  /\ \A r \in Run : calls[r] <= starts
  /\ \A r \in Run : calls[r] # 0 => runner[r] \in {"return", "end", "exited"}
  /\ \A r \in detached : runner[r] # "none"
  /\ tid # 0 => runner[tid] # "none"
  /\ tid <= starts /\ handler <= starts
  /\ client # "ready" => is_inited
  /\ client \in {"joining", "destroying"} => ~is_detach
  /\ client = "creating" => starts # 0 /\ runner[starts] = "none" /\ handler = starts

(***************************************************************************)
(* A run that had the structure to itself is the one the structure names,  *)
(* with its own handler, and no other run is alive or has called that      *)
(* handler; while the client creates a thread it holds for the run to be.  *)
(***************************************************************************)
Alone ==
  /\ \A r \in Run \ shared : Alive(r) => tid = r /\ handler = r
  /\ tid \in Run \ shared => \A q \in Run : q # tid => ~Alive(q) /\ calls[q] # tid
  /\ client = "creating" => \A q \in Run : Alive(q) => q \in shared
  /\ client = "creating" /\ starts \notin shared
        => \A q \in Run : ~Alive(q) /\ calls[q] # starts

(***************************************************************************)
(* What the flags and the stored result say of such a run.                 *)
(***************************************************************************)
FlagsTrue ==
  \A r \in Run \ shared :
    /\ runner[r] \in {"call", "return", "end"} => is_running
    /\ runner[r] \in {"return", "end", "exited"} => calls[r] = r
    /\ tid = r /\ runner[r] \in {"end", "exited"} => ret = r
    /\ tid = r /\ r \in detached => is_detach /\ runner[r] \notin {"created", "detach"}
    /\ ~is_inited => ~Alive(r)

ThreadInv ==
  /\ TypeOK
  /\ task = "thread" => Numbers /\ Alone /\ FlagsTrue
  /\ task = "process" => client = "ready" /\ \A r \in Run : runner[r] = "none"

(***************************************************************************)
(* A structure that was never started.                                     *)
(***************************************************************************)
LEMMA ThreadInitInv == TInit => ThreadInv
<1>1. ASSUME TInit
      PROVE  TypeOK
  <2>1. is_detach \in BOOLEAN
    BY <1>1, ThreadAssumption DEF TInit, Init
  <2>2. is_inited \in BOOLEAN /\ is_running \in BOOLEAN
    BY <1>1 DEF TInit, Init
  <2>3. /\ tid \in 0..MaxStarts /\ handler \in 0..MaxStarts
        /\ ret \in 0..MaxStarts /\ starts \in 0..MaxStarts
        /\ runner \in [Run -> {"none", "created", "detach", "setRunning", "call", "return",
                               "end", "exited"}]
        /\ calls \in [Run -> 0..MaxStarts]
        /\ detached \subseteq Run /\ shared \subseteq Run
        /\ client \in {"ready", "creating", "joining", "destroying"}
        /\ result \in {"none", "QP_SUCCESS", "QP_ERROR"}
    BY <1>1, ThreadAssumption DEF TInit, Init, Run
  <2> QED
    BY <2>1, <2>2, <2>3 DEF TypeOK
<1>2. ASSUME TInit
      PROVE  Numbers /\ Alone /\ FlagsTrue
  BY <1>2, ThreadAssumption DEF TInit, Init, Numbers, Alone, FlagsTrue, Alive, Over, Run
<1> QED
  BY <1>1, <1>2 DEF TInit, Init, ThreadInv

(***************************************************************************)
(* Every step of the runner keeps the invariant of the thread.             *)
(***************************************************************************)
LEMMA RunnerInv ==
  ASSUME ThreadInv, task = "thread", UNCHANGED task, NEW r \in Run, Runner(r)
  PROVE  ThreadInv'
<1> USE ThreadAssumption DEF ThreadInv, TypeOK, Run, Alive, Over, RunnerGoto
<1>0. /\ Alive(r)
      /\ UNCHANGED <<is_inited, tid, handler, starts, client, result, shared>>
      /\ \A q \in Run : q # r => runner'[q] = runner[q]
      /\ runner'[r] # "none"
      /\ \A q \in Run : Alive(q)' => Alive(q)
  BY DEF Runner, RunnerCheckTid, RunnerDetach, RunnerSetRunning, RunnerCall, RunnerReturn, RunnerEnd
<1>A. /\ detached' = detached \/ (tid \in Run /\ detached' = detached \cup {tid})
      /\ is_detach' => is_detach
  BY DEF Runner, RunnerCheckTid, RunnerDetach, RunnerSetRunning, RunnerCall, RunnerReturn, RunnerEnd
<1>1. r \notin shared => tid = r /\ handler = r
  BY <1>0 DEF Alone
<1>2. TypeOK'
  <2>1. is_detach' \in BOOLEAN /\ is_running' \in BOOLEAN
    BY DEF Runner, RunnerCheckTid, RunnerDetach, RunnerSetRunning, RunnerCall, RunnerReturn,
       RunnerEnd
  <2>2. runner' \in [Run -> {"none", "created", "detach", "setRunning", "call", "return",
                            "end", "exited"}]
    BY DEF Runner, RunnerCheckTid, RunnerDetach, RunnerSetRunning, RunnerCall, RunnerReturn,
       RunnerEnd
  <2>3. ret' \in 0..MaxStarts /\ calls' \in [Run -> 0..MaxStarts]
    <3>1. CASE RunnerCall(r)
      BY <3>1 DEF RunnerCall
    <3>2. CASE RunnerReturn(r)
      BY <3>2 DEF RunnerReturn
    <3>3. CASE ~RunnerCall(r) /\ ~RunnerReturn(r)
      BY <3>3 DEF Runner, RunnerCheckTid, RunnerDetach, RunnerSetRunning, RunnerEnd
    <3> QED
      BY <3>1, <3>2, <3>3
  <2>5. detached' \subseteq Run
    BY <1>A
  <2>4. is_inited' \in BOOLEAN
    BY <1>0
  <2> QED
    BY <1>0, <2>1, <2>2, <2>3, <2>4, <2>5
<1>3. Numbers'
  <2>1. /\ \A q \in Run : calls'[q] <= starts
        /\ \A q \in Run : calls'[q] # 0 => runner'[q] \in {"return", "end", "exited"}
    <3>1. CASE RunnerCall(r)
      BY <3>1, <1>0 DEF RunnerCall, Numbers
    <3>2. CASE ~RunnerCall(r)
      BY <3>2, <1>0 DEF Numbers, Runner, RunnerCheckTid, RunnerDetach, RunnerSetRunning,
         RunnerReturn, RunnerEnd
    <3> QED
      BY <3>1, <3>2
  <2>2. \A q \in detached' : runner'[q] # "none"
    <3>1. \A q \in Run : runner[q] # "none" => runner'[q] # "none"
      BY <1>0
    <3>2. \A q \in detached' : q \in Run /\ runner[q] # "none"
      <4>1. tid \in Run => runner[tid] # "none"
        BY DEF Numbers
      <4>2. \A q \in detached : q \in Run /\ runner[q] # "none"
        BY DEF Numbers
      <4> QED
        BY <1>A, <4>1, <4>2, Zenon
    <3> QED
      BY <3>1, <3>2
  <2> QED
    BY <1>0, <1>A, <2>1, <2>2 DEF Numbers
<1>4. Alone'
  <2>1. CASE RunnerCall(r)
    BY <2>1, <1>0, <1>1 DEF RunnerCall, Alone
  <2>2. CASE ~RunnerCall(r)
    BY <2>2, <1>0, <1>1 DEF Alone, Runner, RunnerCheckTid, RunnerDetach, RunnerSetRunning,
       RunnerReturn, RunnerEnd
  <2> QED
    BY <2>1, <2>2
<1>5. FlagsTrue'
  <2>1. CASE RunnerCheckTid(r)
    BY <2>1, <1>0, <1>1 DEF RunnerCheckTid, FlagsTrue
  <2>2. CASE RunnerDetach(r)
    BY <2>2, <1>0, <1>1 DEF RunnerDetach, FlagsTrue, Alone
  <2>3. CASE RunnerSetRunning(r)
    BY <2>3, <1>0, <1>1 DEF RunnerSetRunning, FlagsTrue
  <2>4. CASE RunnerCall(r)
    BY <2>4, <1>0, <1>1 DEF RunnerCall, FlagsTrue
  <2>5. CASE RunnerReturn(r)
    BY <2>5, <1>0, <1>1 DEF RunnerReturn, FlagsTrue, Alone
  <2>6. CASE RunnerEnd(r)
    BY <2>6, <1>0, <1>1 DEF RunnerEnd, FlagsTrue, Alone
  <2> QED
    BY <2>1, <2>2, <2>3, <2>4, <2>5, <2>6 DEF Runner
<1> QED
  BY <1>2, <1>3, <1>4, <1>5

(***************************************************************************)
(* When a patient client finds is_running cleared, a run that had the      *)
(* structure to itself is over.                                            *)
(***************************************************************************)
LEMMA NotRunningIsOver ==
  ASSUME ThreadInv, task = "thread", Patient, MayProceed, ~is_running, NEW r \in Run \ shared
  PROVE  ~Alive(r)
<1> SUFFICES ASSUME Alive(r) PROVE FALSE
  OBVIOUS
<1>1. tid = r /\ r # 0
  BY ThreadAssumption DEF ThreadInv, Alone, Run
<1>2. calls[r] = r
  BY <1>1 DEF ThreadInv, Alone, MayProceed, Begun
<1>3. runner[r] \in {"return", "end"}
  BY <1>1, <1>2 DEF ThreadInv, Numbers, Alive, Over
<1> QED
  BY <1>3 DEF ThreadInv, FlagsTrue

(***************************************************************************)
(* When pthread_join returns, a run that had the structure to itself is    *)
(* over: it cannot have been detached.                                     *)
(***************************************************************************)
LEMMA JoinedIsOver ==
  ASSUME ThreadInv, task = "thread", client \in {"joining", "destroying"}, JoinReturns,
         NEW r \in Run \ shared
  PROVE  /\ ~Alive(r)
         /\ tid = r => runner[r] = "exited"
<1>1. ~is_detach
  BY DEF ThreadInv, Numbers
<1>2. tid = r => runner[r] = "exited"
  BY <1>1 DEF ThreadInv, FlagsTrue, JoinReturns
<1> QED
  BY <1>2 DEF ThreadInv, Alone, Alive, Over

(***************************************************************************)
(* A call that leaves the runs alone, and gives up the thread or the       *)
(* structure only when no run that had it to itself is alive, keeps the    *)
(* invariant.                                                              *)
(***************************************************************************)
LEMMA StopInv ==
  ASSUME ThreadInv, task = "thread", UNCHANGED task, client \in {"ready", "joining", "destroying"},
         UNCHANGED <<is_detach, is_running, handler, ret, runner, calls, detached, starts, shared>>,
         result' \in {"none", "QP_SUCCESS", "QP_ERROR"},
         client' \in {"ready", "joining", "destroying"},
         client' # "ready" => is_inited' /\ ~is_detach,
         UNCHANGED <<tid, is_inited>> \/ \A r \in Run \ shared : ~Alive(r),
         tid' \in {0, tid}, is_inited' \in {is_inited, FALSE}
  PROVE  ThreadInv'
<1> USE ThreadAssumption DEF ThreadInv, TypeOK, Run, Alive, Over
<1>1. TypeOK'
  <2>1. is_inited' \in BOOLEAN
    BY Zenon
  <2>2. tid' \in 0..MaxStarts
    OBVIOUS
  <2> QED
    BY <2>1, <2>2
<1>2. Numbers'
  BY DEF Numbers
<1>3. Alone'
  BY DEF Alone
<1>4. FlagsTrue'
  BY DEF FlagsTrue
<1> QED
  BY <1>1, <1>2, <1>3, <1>4

(***************************************************************************)
(* Every start, also of a structure that runs, keeps the invariant.        *)
(***************************************************************************)
LEMMA ThreadStartInv ==
  ASSUME ThreadInv, task = "thread", UNCHANGED task, StartSets \/ StartCreates \/ StartFails
  PROVE  ThreadInv'
<1> USE ThreadAssumption DEF ThreadInv, TypeOK, Run, Alive, Over
<1>1. CASE StartSets
  <2>1. TypeOK'
    <3>1. shared' \subseteq Run
      <4>1. starts + 1 \in Run
        BY <1>1 DEF StartSets
      <4>2. shared' \subseteq shared \cup {q \in Run : Alive(q)} \cup {starts + 1}
        BY <1>1, Zenon DEF StartSets
      <4> QED
        BY <4>1, <4>2
    <3>2. starts' \in 0..MaxStarts /\ handler' \in 0..MaxStarts
      BY <1>1 DEF StartSets
    <3> QED
      BY <1>1, <3>1, <3>2 DEF StartSets
  <2>2. Numbers'
    BY <1>1 DEF StartSets, Numbers
  <2>3. /\ \A q \in Run : Alive(q) => q \in shared'
        /\ starts' \notin shared' => \A q \in Run : ~Alive(q)
        /\ shared \subseteq shared'
    BY <1>1 DEF StartSets
  <2>4. \A q \in Run : calls[q] # starts'
    BY <1>1 DEF StartSets, Numbers
  <2>5. Alone'
    BY <1>1, <2>3, <2>4 DEF StartSets, Alone
  <2>6. FlagsTrue'
    BY <1>1, <2>3 DEF StartSets, FlagsTrue
  <2> QED
    BY <1>1, <2>1, <2>2, <2>5, <2>6 DEF StartSets
<1>2. CASE StartCreates
  <2>1. TypeOK'
    BY <1>2 DEF StartCreates, Numbers
  <2>2. Numbers'
    BY <1>2 DEF StartCreates, Numbers
  <2>3. Alone'
    BY <1>2 DEF StartCreates, Alone, Numbers
  <2>4. FlagsTrue'
    BY <1>2 DEF StartCreates, FlagsTrue, Alone, Numbers
  <2> QED
    BY <1>2, <2>1, <2>2, <2>3, <2>4 DEF StartCreates
<1>3. CASE StartFails
  <2>1. TypeOK'
    BY <1>3 DEF StartFails
  <2>2. Numbers'
    BY <1>3 DEF StartFails, Numbers
  <2>3. Alone'
    BY <1>3 DEF StartFails, Alone
  <2>4. FlagsTrue'
    BY <1>3 DEF StartFails, FlagsTrue
  <2> QED
    BY <1>3, <2>1, <2>2, <2>3, <2>4 DEF StartFails
<1> QED
  BY <1>1, <1>2, <1>3

(***************************************************************************)
(* Every call of a patient client keeps the invariant of the thread.       *)
(***************************************************************************)
LEMMA ClientInv ==
  ASSUME ThreadInv, task = "thread", UNCHANGED task, Patient, Client
  PROVE  ThreadInv'
<1>1. CASE StartSets \/ StartCreates \/ StartFails
  BY <1>1, ThreadStartInv
<1>2. CASE StopDetached
  <2>1. UNCHANGED <<tid, is_inited>> \/ \A r \in Run \ shared : ~Alive(r)
    BY <1>2, NotRunningIsOver DEF StopDetached
  <2> QED
    BY <1>2, <2>1, StopInv DEF StopDetached
<1>3. CASE StopJoin
  BY <1>3, StopInv DEF StopJoin
<1>4. CASE StopJoined
  <2>1. \A r \in Run \ shared : ~Alive(r)
    BY <1>4, JoinedIsOver DEF StopJoined
  <2> QED
    BY <1>4, <2>1, StopInv DEF StopJoined
<1>5. CASE DestroyRunning
  BY <1>5, StopInv DEF DestroyRunning, ThreadInv, TypeOK
<1>6. CASE DestroyJoined
  <2>1. \A r \in Run \ shared : ~Alive(r)
    BY <1>6, JoinedIsOver DEF DestroyJoined
  <2> QED
    BY <1>6, <2>1, StopInv DEF DestroyJoined
<1>7. CASE DestroyIdle
  <2>1. \A r \in Run \ shared : ~Alive(r)
    BY <1>7, NotRunningIsOver DEF DestroyIdle
  <2> QED
    BY <1>7, <2>1, StopInv DEF DestroyIdle
<1> QED
  BY <1>1, <1>2, <1>3, <1>4, <1>5, <1>6, <1>7 DEF Client

(***************************************************************************)
(* What a process task does to the flags both kinds share keeps them       *)
(* flags.                                                                  *)
(***************************************************************************)
LEMMA ProcessKeepsFlags ==
  ASSUME is_inited \in BOOLEAN, is_running \in BOOLEAN, P!Next
  PROVE  is_inited' \in BOOLEAN /\ is_running' \in BOOLEAN
  BY DEF P!Next, P!qp_process_set, P!StartFork, P!StartClone, P!StartExec, P!NewChild,
     P!qp_process_kill, P!StopIdle, P!Stop, P!DestroyRunning, P!DestroyUnkilled, P!DestroyIdle,
     P!Clear, P!WaitReaps, P!WaitFails, P!AfterWait, P!ChildExits

(***************************************************************************)
(* The invariant of the thread holds in every reachable state.             *)
(***************************************************************************)
THEOREM ThreadInvariant ==
  ASSUME Patient
  PROVE  TSpec => []ThreadInv
<1>1. ASSUME ThreadInv, [TNext]_tvars
      PROVE  ThreadInv'
  <2>1. CASE OnThread(Next)
    BY <1>1, <2>1, RunnerInv, ClientInv DEF OnThread, Next
  <2>2. CASE OnProcess(P!Next)
    <3>1. is_inited' \in BOOLEAN /\ is_running' \in BOOLEAN
      BY <1>1, <2>2, ProcessKeepsFlags DEF OnProcess, ThreadInv, TypeOK
    <3> QED
      BY <1>1, <2>2, <3>1 DEF OnProcess, threadVars, ThreadInv, TypeOK
  <2>3. CASE UNCHANGED tvars
    BY <1>1, <2>3 DEF tvars, vars, ThreadInv, TypeOK, Numbers, Alone, FlagsTrue, Alive
  <2> QED
    BY <1>1, <2>1, <2>2, <2>3 DEF TNext
<1> QED
  BY <1>1, ThreadInitInv, PTL DEF TSpec

(***************************************************************************)
(* Once qp_thread_destroy has succeeded no run that had the structure to   *)
(* itself touches it, however often the structure was restarted before.    *)
(***************************************************************************)
THEOREM ThreadNoRunAfterDestroy ==
  ASSUME Patient
  PROVE  TSpec => []NoRunAfterDestroy
<1>1. TInit => task \in {"thread", "process"}
  BY DEF TInit
<1>2. task \in {"thread", "process"} /\ [TNext]_tvars => (task \in {"thread", "process"})'
  BY DEF TNext, OnThread, OnProcess, tvars
<1>3. ThreadInv /\ task \in {"thread", "process"} => NoRunAfterDestroy
  BY DEF ThreadInv, FlagsTrue, Alive, Over, NoRunAfterDestroy
<1> QED
  BY <1>1, <1>2, <1>3, ThreadInvariant, PTL DEF TSpec

(***************************************************************************)
(* When qp_thread_stop returns success for a joinable thread that had the  *)
(* structure to itself, that run is over, it called its own handler and    *)
(* the result stored is that handler's.                                    *)
(***************************************************************************)
THEOREM ThreadStoppedMeansDone ==
  ASSUME Patient
  PROVE  TSpec => StoppedMeansDone
<1> DEFINE A == (client = "joining" /\ client' = "ready" /\ tid \in Run \ shared)
                   => runner[tid] = "exited" /\ calls[tid] = tid /\ ret = tid
<1>1. ASSUME ThreadInv, Next, task = "thread", client = "joining", client' = "ready",
             tid \in Run \ shared
      PROVE  runner[tid] = "exited" /\ calls[tid] = tid /\ ret = tid
  <2>1. StopJoined
    BY <1>1 DEF Next, Client, StartSets, StartCreates, StartFails, StopDetached, StopJoin,
       DestroyRunning, DestroyJoined, DestroyIdle, Runner, RunnerCheckTid, RunnerDetach,
       RunnerSetRunning, RunnerCall, RunnerReturn, RunnerEnd, RunnerGoto
  <2>2. runner[tid] = "exited"
    BY <1>1, <2>1, JoinedIsOver DEF StopJoined
  <2> QED
    BY <1>1, <2>2 DEF ThreadInv, FlagsTrue
<1>2. ThreadInv /\ [TNext]_tvars => [A]_vars
  BY <1>1 DEF TNext, OnThread, OnProcess, threadVars, tvars
<1> QED
  BY <1>2, ThreadInvariant, PTL DEF TSpec, StoppedMeansDone

-----------------------------------------------------------------------------
(* Processes *)

ProcessTypeOK ==
  /\ child \in [P!Child -> P!Unreaped \cup {"none", "reaped"}]
  /\ home \in [P!Child -> 0..MaxChildren]
  /\ forks \in 0..MaxChildren

(***************************************************************************)
(* A structure that says it runs, and was not started twice, names a child *)
(* that nobody has waited for; this survives interrupted waits and failed  *)
(* kills.                                                                  *)
(***************************************************************************)
RunningHasChild ==
  ~restarted /\ is_inited /\ is_running => pid \in P!Child /\ child[pid] \in P!Unreaped

ProcessInv ==
  /\ ProcessTypeOK
  /\ P!NoChildLost /\ P!SignalsItsChildOnly /\ P!StackOutlivesChild
  /\ task \in {"thread", "process"}
  /\ task = "process" => RunningHasChild
  /\ task = "thread" => signalled = {} /\ \A c \in P!Child : child[c] = "none"

(***************************************************************************)
(* A structure that was never started.                                     *)
(***************************************************************************)
LEMMA ProcessInitInv == TInit => ProcessInv
  BY TasksAssumption
  DEF TInit, P!Init, ProcessInv, ProcessTypeOK, RunningHasChild, P!NoChildLost,
      P!SignalsItsChildOnly, P!StackOutlivesChild, P!Child, P!Unreaped, P!NONE

(***************************************************************************)
(* SIGKILL leaves a child that was not waited for one, on its stack, and   *)
(* reaches the child of a structure that runs and was not started twice.   *)
(***************************************************************************)
LEMMA SigKillInv ==
  ASSUME ProcessInv, task = "process", is_running,
         \/ P!SigKill
         \/ signalled' \in {{}, P!Target} /\ UNCHANGED child,
         UNCHANGED <<task, is_inited, is_running, pid, stack, home, forks, restarted, adrift>>
  PROVE  ProcessInv'
<1> USE TasksAssumption DEF ProcessInv, ProcessTypeOK, P!Child, P!Unreaped
<1>1. ASSUME NEW c \in P!Child
      PROVE  /\ child'[c] \in P!Unreaped <=> child[c] \in P!Unreaped
             /\ child'[c] \in {"alive", "dying"} <=> child[c] \in {"alive", "dying"}
  BY DEF P!SigKill, P!Killed
<1>2. ProcessTypeOK'
  BY DEF P!SigKill
<1>3. P!NoChildLost'
  BY <1>1 DEF P!NoChildLost
<1>4. P!StackOutlivesChild'
  BY <1>1 DEF P!StackOutlivesChild
<1>5. RunningHasChild'
  BY <1>1 DEF RunningHasChild
<1>6. P!SignalsItsChildOnly'
  <2>1. ~restarted /\ is_inited => P!Target = {pid}
    BY DEF RunningHasChild, P!Target
  <2> QED
    BY <1>1, <2>1 DEF RunningHasChild, P!SigKill, P!SignalsItsChildOnly
<1> QED
  BY <1>2, <1>3, <1>4, <1>5, <1>6

(***************************************************************************)
(* A new child keeps the invariant: it is the only one that was not given  *)
(* up before or by this start.                                             *)
(***************************************************************************)
LEMMA NewChildInv ==
  ASSUME ProcessInv, task = "process", UNCHANGED task, NEW types, P!CanStart(types),
         NEW block \in {0, forks + 1}, P!NewChild(block), signalled' = {},
         block = 0 \/ stack' = block
  PROVE  ProcessInv'
<1> USE TasksAssumption DEF ProcessInv, ProcessTypeOK, P!CanStart, P!NewChild
<1>1. /\ ProcessTypeOK'
      /\ pid' \in P!Child /\ child'[pid'] = "alive" /\ home'[pid'] = block
      /\ \A c \in P!Child : c # pid' => child'[c] = child[c] /\ home'[c] = home[c]
  BY DEF P!Child, P!Unreaped
<1>3. \A c \in P!Child \ adrift' : c # pid' => child'[c] \notin P!Unreaped
  BY <1>1 DEF P!NoChildLost
<1>4. P!NoChildLost'
  BY <1>3 DEF P!NoChildLost
<1>5. P!StackOutlivesChild'
  BY <1>1, <1>3 DEF P!StackOutlivesChild, P!Unreaped, P!NONE
<1>6. P!SignalsItsChildOnly' /\ RunningHasChild'
  BY <1>1 DEF P!SignalsItsChildOnly, RunningHasChild, P!Unreaped
<1> QED
  BY <1>1, <1>4, <1>5, <1>6

(***************************************************************************)
(* A start without a new child may change pid and stack: if the structure  *)
(* was running it gives up its child.                                      *)
(***************************************************************************)
LEMMA NoNewChildInv ==
  ASSUME ProcessInv, task = "process", UNCHANGED task, NEW types, P!CanStart(types),
         UNCHANGED <<forks, child, home, is_running>>, signalled' = {}
  PROVE  ProcessInv'
<1> USE DEF ProcessInv, ProcessTypeOK, P!CanStart
<1>1. ~restarted' => ~restarted /\ ~is_running
  OBVIOUS
<1>2. \A c \in P!Child \ adrift' : child'[c] \notin P!Unreaped
  BY DEF P!NoChildLost
<1>3. P!NoChildLost' /\ P!StackOutlivesChild'
  BY <1>2 DEF P!NoChildLost, P!StackOutlivesChild, P!Unreaped
<1>4. P!SignalsItsChildOnly' /\ RunningHasChild'
  BY <1>1 DEF P!SignalsItsChildOnly, RunningHasChild
<1> QED
  BY <1>3, <1>4

(***************************************************************************)
(* Every start of a process, failed or not, keeps the invariant.           *)
(***************************************************************************)
LEMMA StartInv ==
  ASSUME ProcessInv, task = "process", UNCHANGED task,
         P!StartFork \/ P!StartClone \/ P!StartExec
  PROVE  ProcessInv'
<1>1. CASE P!StartFork
  BY <1>1, NewChildInv, NoNewChildInv DEF P!StartFork, P!NONE
<1>2. CASE P!StartClone
  BY <1>2, NewChildInv, NoNewChildInv DEF P!StartClone
<1>3. CASE P!StartExec
  BY <1>3, NoNewChildInv DEF P!StartExec
<1> QED
  BY <1>1, <1>2, <1>3

(***************************************************************************)
(* The end of a wait keeps the invariant: the child was taken, or given    *)
(* up.                                                                     *)
(***************************************************************************)
LEMMA WaitInv ==
  ASSUME ProcessInv, task = "process", UNCHANGED task, P!WaitReaps \/ P!WaitFails
  PROVE  ProcessInv'
<1> USE TasksAssumption DEF ProcessInv, ProcessTypeOK, P!Child, P!Unreaped, P!AfterWait
<1>1. CASE P!WaitReaps
  <2>1. PICK c \in P!Child :
          child[c] = "zombie" /\ P!Names(c) /\ child' = [child EXCEPT ![c] = "reaped"]
    BY <1>1 DEF P!WaitReaps
  <2>2. \A d \in P!Child \ adrift : child'[d] \notin P!Unreaped
    BY <2>1 DEF P!NoChildLost, P!Names, P!INVALID, P!ERROR
  <2>3. ProcessTypeOK'
    BY <1>1, <2>1 DEF P!WaitReaps
  <2> QED
    BY <1>1, <2>2, <2>3 DEF P!WaitReaps, P!history, P!NoChildLost, P!SignalsItsChildOnly,
       P!StackOutlivesChild, RunningHasChild
<1>2. CASE P!WaitFails
  BY <1>2 DEF P!WaitFails, P!NoChildLost, P!SignalsItsChildOnly, P!StackOutlivesChild,
     RunningHasChild
<1> QED
  BY <1>1, <1>2

(***************************************************************************)
(* Every step of a process task keeps its invariant.                       *)
(***************************************************************************)
LEMMA ProcessStepInv ==
  ASSUME ProcessInv, task = "process", UNCHANGED task, P!Next
  PROVE  ProcessInv'
<1>1. CASE P!StartFork \/ P!StartClone \/ P!StartExec
  BY <1>1, StartInv
<1>2. CASE P!WaitReaps \/ P!WaitFails
  BY <1>2, WaitInv
<1>3. CASE \/ P!qp_process_kill \/ P!DestroyRunning
           \/ \E force \in BOOLEAN : P!Stop(force)
  BY <1>3, SigKillInv DEF P!qp_process_kill, P!DestroyRunning, P!Stop, P!KillFails
<1>4. CASE \/ \E ty \in {"EXEC", "FORK_EXEC", "CLONE"} : P!qp_process_set(ty)
           \/ P!StopIdle \/ P!DestroyIdle
  BY <1>4 DEF P!qp_process_set, P!StopIdle, P!DestroyIdle, P!Clear, ProcessInv, ProcessTypeOK,
     P!NoChildLost, P!SignalsItsChildOnly, P!StackOutlivesChild, RunningHasChild, P!Unreaped
<1>5. ASSUME NEW c \in P!Child, P!ChildExits(c)
      PROVE  ProcessInv'
  BY <1>5 DEF P!ChildExits, ProcessInv, ProcessTypeOK, P!NoChildLost, P!SignalsItsChildOnly,
     P!StackOutlivesChild, RunningHasChild, P!Unreaped
<1>6. CASE P!DestroyUnkilled
  BY <1>6 DEF P!DestroyUnkilled, P!KillFails, P!Clear, ProcessInv, ProcessTypeOK,
     P!NoChildLost, P!SignalsItsChildOnly, P!StackOutlivesChild, RunningHasChild, P!Unreaped
<1> QED
  BY <1>1, <1>2, <1>3, <1>4, <1>5, <1>6 DEF P!Next

(***************************************************************************)
(* The invariant of the process holds in every reachable state.            *)
(***************************************************************************)
THEOREM ProcessInvariant == TSpec => []ProcessInv
<1>1. ASSUME ProcessInv, [TNext]_tvars
      PROVE  ProcessInv'
  <2>1. CASE OnThread(Next)
    BY <1>1, <2>1 DEF OnThread, processVars, ProcessInv, ProcessTypeOK, P!NoChildLost,
       P!SignalsItsChildOnly, P!StackOutlivesChild, P!Unreaped, P!Child
  <2>2. CASE OnProcess(P!Next)
    BY <1>1, <2>2, ProcessStepInv DEF OnProcess
  <2>3. CASE UNCHANGED tvars
    BY <1>1, <2>3 DEF tvars, vars, processVars, ProcessInv, ProcessTypeOK, P!NoChildLost,
       P!SignalsItsChildOnly, P!StackOutlivesChild, RunningHasChild
  <2> QED
    BY <1>1, <2>1, <2>2, <2>3 DEF TNext
<1> QED
  BY <1>1, ProcessInitInv, PTL DEF TSpec

(***************************************************************************)
(* A child that nobody has waited for is the one the structure names and   *)
(* says is running, unless it was given up: by a start of the running      *)
(* structure, an interrupted wait, or a destroy whose kill failed.         *)
(***************************************************************************)
THEOREM ProcessNoChildLost == TSpec => []NoChildLost
<1>1. ProcessInv => NoChildLost
  BY DEF ProcessInv, NoChildLost
<1> QED
  BY <1>1, ProcessInvariant, PTL

(***************************************************************************)
(* A signal reaches the structure's own child and no other process, unless *)
(* the client starts a running structure or signals a destroyed one.       *)
(***************************************************************************)
THEOREM ProcessSignalsItsChildOnly == TSpec => []SignalsItsChildOnly
<1>1. ProcessInv => SignalsItsChildOnly
  BY DEF ProcessInv, SignalsItsChildOnly
<1> QED
  BY <1>1, ProcessInvariant, PTL

(***************************************************************************)
(* The stack a clone runs on is not freed or replaced while it is alive,   *)
(* unless the structure was made to give it up.                            *)
(***************************************************************************)
THEOREM ProcessStackOutlivesChild == TSpec => []StackOutlivesChild
<1>1. ProcessInv => StackOutlivesChild
  BY DEF ProcessInv, StackOutlivesChild
<1> QED
  BY <1>1, ProcessInvariant, PTL

=============================================================================
