-------------------------------- MODULE QpIpc --------------------------------
(***************************************************************************)
(* The objects of qp_ipc_core.c besides the lock, each with its clients: a *)
(* condition (QpCond), a read-write lock, a semaphore and shared memory.   *)
(* They share no state, so a behaviour is one of one object; kind says     *)
(* which.                                                                  *)
(***************************************************************************)
EXTENDS QpCond, Integers

CONSTANTS
  Null,
  MaxValue, MaxObjects, MaxFd    \* see QpSem and QpShm

ASSUME IpcAssumption ==
  /\ MaxValue \in Nat /\ MaxObjects \in Nat /\ MaxFd \in Nat
  /\ \A n \in 1..MaxObjects : Null # <<"object", n>>

VARIABLES
  kind,
  readers, writer, rwflags, rwheap, rwheld, rwpc, since,
  value, waiting, semflags, sempc, called, left, stolen,
  linked, objects, fds, shm, shmpc, stale, failed

Rw == INSTANCE QpRwlock
Sem == INSTANCE QpSem
Shm == INSTANCE QpShm WITH Process <- Thread

rwVars == <<readers, writer, rwflags, rwheap, rwheld, rwpc, since>>
semVars == <<value, waiting, semflags, sempc, called, left, stolen>>
shmVars == <<linked, objects, fds, shm, shmpc, stale, failed>>
ipcVars == <<cvars, kind, rwVars, semVars, shmVars>>

IpcInit ==
  /\ kind \in {"cond", "rwlock", "sem", "shm"}
  /\ CInit /\ Rw!Init /\ Sem!Init /\ Shm!Init

OnCond(A) == kind = "cond" /\ A /\ UNCHANGED <<kind, rwVars, semVars, shmVars>>
OnRwlock(A) == kind = "rwlock" /\ A /\ UNCHANGED <<cvars, kind, semVars, shmVars>>
OnSem(A) == kind = "sem" /\ A /\ UNCHANGED <<cvars, kind, rwVars, shmVars>>
OnShm(A) == kind = "shm" /\ A /\ UNCHANGED <<cvars, kind, rwVars, semVars>>

IpcNext == OnCond(CNext) \/ OnRwlock(Rw!Next) \/ OnSem(Sem!Next) \/ OnShm(Shm!Next)

IpcSpec == IpcInit /\ [][IpcNext]_ipcVars

\* The kernel wakes a waiter of a semaphore whose count is not zero.
IpcFairSpec == IpcSpec /\ WF_ipcVars(\E t \in Thread : OnSem(Sem!Wake(t)))

-----------------------------------------------------------------------------
(* What the modules state of their objects, besides QpCond's invariants. *)

\* A thread that holds a read-write lock when qp_rwlock_destroy is called, and
\* keeps it, never finds it destroyed.
DestroyRespectsHolders == Rw!DestroyRespectsHolders

\* The probes of qp_rwlock_destroy are given back, also when it is refused.
ProbesGivenBack == Rw!ProbesGivenBack

\* The post of qp_sem_destroy lets a waiter return, unless others take every
\* post or the memory is freed.
DestroyFreesAWaiter == Sem!DestroyFreesAWaiter

\* Processes attached by qp_shm_init to one name see the same memory.
SameNameSameMemory == Shm!SameNameSameMemory

\* qp_shm_destroy leaves no descriptor open.
DescriptorsAccounted == Shm!DescriptorsAccounted
=============================================================================
