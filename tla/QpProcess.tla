----------------------------- MODULE QpProcess -----------------------------
(***************************************************************************)
(* qp_process_t of qp_process.c: one process structure, the client that    *)
(* starts, signals, stops and destroys it, and the children the kernel     *)
(* keeps for it.  A child dies on its own or of a signal and stays a       *)
(* zombie until waitpid takes it.  The client blocks in waitpid, so the    *)
(* functions that call it are split there.  Children of clone share the    *)
(* client's memory (CLONE_VM) and run on the stack the structure owns.     *)
(***************************************************************************)
EXTENDS Integers

CONSTANTS
  MaxChildren   \* bound: children created in all

VARIABLES
  is_inited, is_running, type,   \* the structure
  pid,         \* its child, INVALID, or ERROR after a fork that failed
  stack,       \* the stack block it owns, 0 for NULL
  child,       \* the kernel's view of each child
  home,        \* the stack block each child runs on, 0 for one of its own
  forks,       \* children created so far
  at,          \* the client: "ready", in waitpid ("stop", "forcedStop",
               \* "destroy"), or its program "replaced" by execv
  signalled,   \* whom the kill of the last step reached
  restarted,   \* history: the structure was started while it was running
  adrift       \* history: children the structure was made to give up without
               \* waiting for them

history == <<restarted, adrift>>
vars == <<is_inited, is_running, type, pid, stack, child, home, forks, at,
          signalled, restarted, adrift>>

Child == 1..MaxChildren
INVALID == 0     \* QP_PROCESS_INVALID
ERROR == -1      \* QP_ERROR
NONE == 0        \* NULL
Everyone == 0..MaxChildren   \* 0 for the processes that are not its children
Unreaped == {"alive", "dying", "zombie"}

\* qp_process_create and qp_process_init.
Init ==
  /\ is_inited = TRUE
  /\ is_running = FALSE
  /\ type = "FORK"
  /\ pid = INVALID
  /\ stack = NONE
  /\ child = [c \in Child |-> "none"]
  /\ home = [c \in Child |-> NONE]
  /\ forks = 0
  /\ at = "ready"
  /\ signalled = {}
  /\ restarted = FALSE /\ adrift = {}

\* qp_process_set_exec, qp_process_set_vfork_exec, qp_process_set_clone.
qp_process_set(ty) ==
  /\ at = "ready" /\ is_inited
  /\ type' = ty
  /\ signalled' = {}
  /\ UNCHANGED <<is_inited, is_running, pid, stack, child, home, forks, at, restarted, adrift>>

-----------------------------------------------------------------------------
(* qp_process_start.                                                       *)

\* Nothing keeps the client from starting a structure that is running, whose
\* child it gives up that way.
CanStart(types) ==
  /\ at = "ready" /\ is_inited /\ type \in types
  /\ restarted' = (restarted \/ is_running)
  /\ adrift' = IF is_running /\ pid \in Child THEN adrift \cup {pid} ELSE adrift

\* Mutant: the structure is not marked running.
NewChild_NotRunning(block) ==
  /\ forks < MaxChildren
  /\ forks' = forks + 1
  /\ pid' = forks + 1
  /\ child' = [child EXCEPT ![forks + 1] = "alive"]
  /\ home' = [home EXCEPT ![forks + 1] = block]
  /\ UNCHANGED is_running

\* The kernel makes a child, which runs on the given block.
NewChild(block) ==
  /\ forks < MaxChildren
  /\ forks' = forks + 1
  /\ pid' = forks + 1
  /\ child' = [child EXCEPT ![forks + 1] = "alive"]
  /\ home' = [home EXCEPT ![forks + 1] = block]
  /\ is_running' = TRUE

\* fork or vfork; the child of vfork calls execv, or exit if that fails.
StartFork ==
  /\ CanStart({"FORK", "FORK_EXEC"})
  /\ \/ NewChild(NONE)
     \/ pid' = ERROR /\ UNCHANGED <<forks, child, home, is_running>>
  /\ signalled' = {}
  /\ UNCHANGED <<is_inited, type, stack, at>>

\* The old stack is freed, a new one allocated, clone called; the second and
\* the third may fail.
StartClone ==
  /\ CanStart({"CLONE"})
  /\ \/ /\ stack' = forks + 1
        /\ NewChild(forks + 1)
     \/ /\ stack' = forks + 1 /\ pid' = ERROR
        /\ UNCHANGED <<forks, child, home, is_running>>
     \/ /\ stack' = NONE
        /\ UNCHANGED <<pid, forks, child, home, is_running>>
  /\ signalled' = {}
  /\ UNCHANGED <<is_inited, type, at>>

\* execv returns only if it fails.
StartExec ==
  /\ CanStart({"EXEC"})
  /\ at' \in {"ready", "replaced"}
  /\ signalled' = {}
  /\ UNCHANGED <<is_inited, is_running, type, pid, stack, child, home, forks>>

-----------------------------------------------------------------------------
(* The kernel.                                                             *)

ChildExits(c) ==
  /\ child[c] \in {"alive", "dying"}
  /\ child' = [child EXCEPT ![c] = "zombie"]
  /\ signalled' = {}
  /\ UNCHANGED <<is_inited, is_running, type, pid, stack, home, forks, at, restarted, adrift>>

\* What kill and waitpid take a pid for: -1 means every process, 0 the
\* caller's group, which its children belong to.
Names(c) == pid \in {c, INVALID, ERROR}

Target == IF pid \in Child THEN {pid} ELSE Everyone

Killed(c) == child[c] = "alive" /\ Names(c)

SigKill ==
  /\ child' = [c \in Child |-> IF Killed(c) THEN "dying" ELSE child[c]]
  /\ signalled' = Target

\* kill(2) fails, for want of permission or of a process.
KillFails == signalled' = {} /\ UNCHANGED child

-----------------------------------------------------------------------------
\* Mutant: any structure is signalled.
qp_process_kill_Always ==
  /\ at = "ready"
  /\ \/ SigKill
     \/ signalled' = Target /\ UNCHANGED child
     \/ KillFails
  /\ UNCHANGED <<is_inited, is_running, type, pid, stack, home, forks, at, restarted, adrift>>

\* qp_process_kill with a signal that need not be fatal.
qp_process_kill ==
  /\ at = "ready" /\ is_running
  /\ \/ SigKill
     \/ signalled' = Target /\ UNCHANGED child
     \/ KillFails
  /\ UNCHANGED <<is_inited, is_running, type, pid, stack, home, forks, at, restarted, adrift>>

\* qp_process_stop of a structure that is not running.
StopIdle ==
  /\ at = "ready" /\ is_inited /\ ~is_running
  /\ pid' = INVALID
  /\ signalled' = {}
  /\ UNCHANGED <<is_inited, is_running, type, stack, child, home, forks, at, restarted, adrift>>

\* qp_process_stop up to waitpid, which a failing kill keeps it from.
Stop(force) ==
  /\ at = "ready" /\ is_inited /\ is_running
  /\ \/ force /\ SigKill /\ at' = "forcedStop"
     \/ force /\ KillFails /\ at' = at
     \/ ~force /\ signalled' = {} /\ at' = "stop" /\ UNCHANGED child
  /\ UNCHANGED <<is_inited, is_running, type, pid, stack, home, forks, restarted, adrift>>

\* What follows waitpid, whatever it returned: qp_process_stop's end and, if
\* it was called from there, that of qp_process_destroy.
AfterWait ==
  /\ is_running' = FALSE
  /\ pid' = INVALID
  /\ at' = "ready"
  /\ signalled' = {}
  /\ is_inited' = (at # "destroy")
  /\ stack' = IF at = "destroy" THEN NONE ELSE stack
  /\ type' = IF at = "destroy" THEN "UNKNOW" ELSE type
  /\ UNCHANGED <<home, forks>>

InWait == at \in {"stop", "forcedStop", "destroy"}

\* Mutant: waitpid is called with WNOHANG.
WaitReaps_NoHang ==
  /\ InWait
  /\ \E c \in Child :
       /\ child[c] \in Unreaped /\ Names(c)
       /\ child' = [child EXCEPT ![c] = IF @ = "zombie" THEN "reaped" ELSE @]
  /\ AfterWait
  /\ UNCHANGED history

\* waitpid(pid) takes that child, waitpid(-1) any.
WaitReaps ==
  /\ InWait
  /\ \E c \in Child :
       /\ child[c] = "zombie" /\ Names(c)
       /\ child' = [child EXCEPT ![c] = "reaped"]
  /\ AfterWait
  /\ UNCHANGED history

\* EINTR: the child is taken for stopped.
WaitFails ==
  /\ InWait
  /\ adrift' = adrift \cup (Child \cap {pid})
  /\ AfterWait
  /\ UNCHANGED <<child, restarted>>

\* Mutant: the stack is freed before the child is stopped.
DestroyRunning_FreesFirst ==
  /\ at = "ready" /\ is_inited /\ is_running
  /\ SigKill
  /\ at' = "destroy"
  /\ stack' = NONE
  /\ UNCHANGED <<is_inited, is_running, type, pid, home, forks, restarted, adrift>>

\* qp_process_destroy up to waitpid, ...
DestroyRunning ==
  /\ at = "ready" /\ is_inited /\ is_running
  /\ SigKill
  /\ at' = "destroy"
  /\ UNCHANGED <<is_inited, is_running, type, pid, stack, home, forks, restarted, adrift>>

\* What qp_process_destroy does when the stop is over, or was none.
Clear ==
  /\ is_inited' = FALSE
  /\ type' = "UNKNOW"
  /\ pid' = INVALID
  /\ stack' = NONE

\* ... to its end if kill(2) fails: the stop's QP_ERROR is not looked at, ...
DestroyUnkilled ==
  /\ at = "ready" /\ is_inited /\ is_running
  /\ KillFails
  /\ adrift' = adrift \cup (Child \cap {pid})
  /\ Clear
  /\ UNCHANGED <<is_running, home, forks, at, restarted>>

\* ... or if nothing runs.
DestroyIdle ==
  /\ at = "ready" /\ is_inited /\ ~is_running
  /\ Clear
  /\ signalled' = {}
  /\ UNCHANGED <<is_running, child, home, forks, at, restarted, adrift>>

-----------------------------------------------------------------------------
Next ==
  \/ \E ty \in {"EXEC", "FORK_EXEC", "CLONE"} : qp_process_set(ty)
  \/ StartFork \/ StartClone \/ StartExec
  \/ qp_process_kill
  \/ StopIdle \/ \E force \in BOOLEAN : Stop(force)
  \/ DestroyRunning \/ DestroyUnkilled \/ DestroyIdle
  \/ WaitReaps \/ WaitFails
  \/ \E c \in Child : ChildExits(c)

Spec == Init /\ [][Next]_vars

\* A child that was sent SIGKILL dies, and waitpid returns when it can take
\* a child; other children live as long as they like, and nobody has to
\* interrupt.
FairSpec ==
  /\ Spec
  /\ \A c \in Child : WF_vars(child[c] = "dying" /\ ChildExits(c))
  /\ WF_vars(WaitReaps)

-----------------------------------------------------------------------------
TypeOK ==
  /\ is_inited \in BOOLEAN /\ is_running \in BOOLEAN
  /\ type \in IF is_inited THEN {"FORK", "EXEC", "FORK_EXEC", "CLONE"} ELSE {"UNKNOW"}
  /\ pid \in -1..MaxChildren /\ stack \in 0..MaxChildren + 1 /\ forks \in 0..MaxChildren
  /\ child \in [Child -> Unreaped \cup {"none", "reaped"}]
  /\ home \in [Child -> 0..MaxChildren]
  /\ at \in {"ready", "stop", "forcedStop", "destroy", "replaced"}
  /\ signalled \subseteq Everyone
  /\ restarted \in BOOLEAN /\ adrift \subseteq Child

(***************************************************************************)
(* No child is lost: one that waitpid has not taken is the child the       *)
(* structure names and says is running, so it can be stopped, whatever     *)
(* became of children before it.  The structure gives up a child in three  *)
(* ways only: it is started again while the child runs, a signal           *)
(* interrupts the wait for it, or destroy's kill of it fails.              *)
(***************************************************************************)
NoChildLost ==
  \A c \in Child \ adrift : child[c] \in Unreaped => is_running /\ pid = c

(***************************************************************************)
(* "Wait for stopped process": a child that a forced stop or a destroy has *)
(* killed is dead and waited for in the end, whatever the client does in   *)
(* between and whatever other children there are; only an interrupted wait *)
(* leaves it a zombie.                                                     *)
(***************************************************************************)
KilledIsReaped ==
  \A c \in Child :
    (at \in {"forcedStop", "destroy"} /\ pid = c) ~> (child[c] = "reaped" \/ c \in adrift)

(***************************************************************************)
(* "Send a signal to process": a signal reaches the structure's own child, *)
(* dead or alive but not yet waited for, and no other process, also after  *)
(* interrupted waits and failed kills.  Only a start of a running          *)
(* structure, which may fail and leave pid -1 behind is_running, breaks    *)
(* this, and a kill after a destroy that left is_running behind.           *)
(***************************************************************************)
SignalsItsChildOnly ==
  ~restarted /\ is_inited => \A c \in signalled : c \in Child /\ child[c] \in Unreaped

(***************************************************************************)
(* A clone that is alive, and that the structure was not made to give up,  *)
(* runs on a stack that has not been freed.                                *)
(***************************************************************************)
StackOutlivesChild ==
  \A c \in Child \ adrift :
    child[c] \in {"alive", "dying"} /\ home[c] # NONE => stack = home[c]

(***************************************************************************)
(* "If force is true, it will kill the child process if it is not          *)
(* stopped": whatever the client has done before, a forced stop, and a     *)
(* destroy, come to an end.                                                *)
(***************************************************************************)
ForcedStopEnds == (at \in {"forcedStop", "destroy"}) ~> (at = "ready")
=============================================================================
