------------------------------- MODULE QpLock -------------------------------
(***************************************************************************)
(* qp_lock_t of core/qp_ipc_core.c: a recursive lock built from a word     *)
(* (an error-checking pthread mutex, or a spin word set by compare and     *)
(* swap) and an ownership record (hold_counter, hold_thread, hold_process) *)
(* that callers read WITHOUT holding the word.  Every read and every write *)
(* of that shared memory is an action of its own, in program order, so     *)
(* threads interleave at any of them.  qp_lock_destroy is added by         *)
(* QpLockDestroy, condition variables by QpCond.                           *)
(*                                                                         *)
(* A thread is identified by the pair (pthread_self(), getpid()).  The two *)
(* are functions of the thread: threads of one process share the pid, and  *)
(* after fork the child's only thread keeps the pthread_t of the thread    *)
(* that called fork.                                                       *)
(***************************************************************************)
EXTENDS Naturals

CONSTANTS
  Thread,    \* the threads, of all processes, that use the lock
  Tid,       \* Tid[t]: what pthread_self() returns in t
  Pid,       \* Pid[t]: what getpid() returns in t
  Nobody,    \* the 0 stored in hold_thread and hold_process, and a free word
  Spin,      \* is_spin: TRUE for the spin word, FALSE for the mutex
  MaxDepth   \* bound: nested acquisitions one thread makes

ASSUME ThreadAssumption ==
  /\ \A t \in Thread : Tid[t] # Nobody /\ Pid[t] # Nobody
  /\ Nobody \notin Thread

ASSUME SpinAssumption == Spin \in BOOLEAN

ASSUME MaxDepthAssumption == MaxDepth \in Nat \ {0}

VARIABLES
  word,          \* lock.mutex / lock.spin: the thread that has it, or Nobody
  hold_thread,   \* the ownership record
  hold_process,
  hold_counter,
  pc,            \* where each thread is inside the lock's functions
  op,            \* which function it is in
  ret,           \* what its last call returned
  held           \* grants a thread was told of and has not given back

lockVars == <<word, hold_thread, hold_process, hold_counter>>
threadVars == <<pc, op, ret, held>>
vars == <<word, hold_thread, hold_process, hold_counter, pc, op, ret, held>>

QP_SUCCESS == "QP_SUCCESS"
QP_ERROR == "QP_ERROR"

LockPc == {"readCounter", "readThread", "readProcess", "acquire",
           "setThread", "setProcess", "increment"}
UnlockPc == {"checkCounter", "checkThread", "checkProcess", "decrement",
             "reread", "clearThread", "clearProcess", "release"}

Goto(t, label) == pc' = [pc EXCEPT ![t] = label]

Return(t, result) ==
  /\ pc' = [pc EXCEPT ![t] = "idle"]
  /\ op' = [op EXCEPT ![t] = "none"]
  /\ ret' = [ret EXCEPT ![t] = result]

-----------------------------------------------------------------------------
\* qp_lock_create leaves a zeroed record and a free word.
Init ==
  /\ word = Nobody
  /\ hold_thread = Nobody
  /\ hold_process = Nobody
  /\ hold_counter = 0
  /\ pc = [t \in Thread |-> "idle"]
  /\ op = [t \in Thread |-> "none"]
  /\ ret = [t \in Thread |-> QP_SUCCESS]
  /\ held = [t \in Thread |-> 0]

\* The client of the lock: any thread may call any function at any time, an
\* unlock of a lock it does not hold included.
Call(t, f) ==
  /\ pc[t] = "idle"
  /\ f \in {"lock", "trylock"} => held[t] < MaxDepth
  /\ Goto(t, IF f = "unlock" THEN "checkCounter" ELSE "readCounter")
  /\ op' = [op EXCEPT ![t] = f]
  /\ UNCHANGED <<word, hold_thread, hold_process, hold_counter, ret, held>>

-----------------------------------------------------------------------------
(* qp_lock_lock and qp_lock_trylock.                                       *)

\* if (0 != lock->hold_counter)
ReadCounter(t) ==
  /\ pc[t] = "readCounter"
  /\ Goto(t, IF hold_counter # 0 THEN "readThread" ELSE "acquire")
  /\ UNCHANGED <<word, hold_thread, hold_process, hold_counter, op, ret, held>>

\* Mutant: nested acquisition decided by the pid alone.
ReadThread_PidOnly(t) ==
  /\ pc[t] = "readThread"
  /\ Goto(t, "readProcess")
  /\ UNCHANGED <<word, hold_thread, hold_process, hold_counter, op, ret, held>>

\* lock->hold_thread == pthread_self()
ReadThread(t) ==
  /\ pc[t] = "readThread"
  /\ Goto(t, IF hold_thread = Tid[t] THEN "readProcess" ELSE "acquire")
  /\ UNCHANGED <<word, hold_thread, hold_process, hold_counter, op, ret, held>>

\* && lock->hold_process == getpid()
ReadProcess(t) ==
  /\ pc[t] = "readProcess"
  /\ Goto(t, IF hold_process = Pid[t] THEN "increment" ELSE "acquire")
  /\ UNCHANGED <<word, hold_thread, hold_process, hold_counter, op, ret, held>>

\* Mutant: the word is set without comparing it.
Acquire_NoCompare(t) ==
  /\ pc[t] = "acquire"
  /\ word' = t
  /\ Goto(t, "setThread")
  /\ UNCHANGED <<hold_thread, hold_process, hold_counter, op, ret, held>>

\* The compare-and-swap or the pthread call takes a free word.  A lock call
\* that finds it taken tries again (spin) or sleeps (mutex): it stays here.
Acquire(t) ==
  /\ pc[t] = "acquire"
  /\ word = Nobody
  /\ word' = t
  /\ Goto(t, "setThread")
  /\ UNCHANGED <<hold_thread, hold_process, hold_counter, op, ret, held>>

\* trylock gives up with EBUSY; the error-checking mutex refuses its owner
\* with EDEADLK.
AcquireFails(t) ==
  /\ pc[t] = "acquire"
  /\ word # Nobody
  /\ op[t] = "trylock" \/ (~Spin /\ word = t)
  /\ Return(t, QP_ERROR)
  /\ UNCHANGED <<word, hold_thread, hold_process, hold_counter, held>>

SetThread(t) ==
  /\ pc[t] = "setThread"
  /\ hold_thread' = Tid[t]
  /\ Goto(t, "setProcess")
  /\ UNCHANGED <<word, hold_process, hold_counter, op, ret, held>>

\* Mutant: the owner's pid is not recorded.
SetProcess_Forgotten(t) ==
  /\ pc[t] = "setProcess"
  /\ Goto(t, "increment")
  /\ UNCHANGED <<word, hold_thread, hold_process, hold_counter, op, ret, held>>

SetProcess(t) ==
  /\ pc[t] = "setProcess"
  /\ hold_process' = Pid[t]
  /\ Goto(t, "increment")
  /\ UNCHANGED <<word, hold_thread, hold_counter, op, ret, held>>

\* qp_atom_fetch_add(&lock->hold_counter, 1); return QP_SUCCESS: the end of a
\* first acquisition and of a nested one alike.
Increment(t) ==
  /\ pc[t] = "increment"
  /\ hold_counter' = hold_counter + 1
  /\ held' = [held EXCEPT ![t] = @ + 1]
  /\ Return(t, QP_SUCCESS)
  /\ UNCHANGED <<word, hold_thread, hold_process>>

-----------------------------------------------------------------------------
(* qp_lock_unlock.                                                         *)

\* A check of the ownership record that refuses the unlock when it fails.
CheckOwner(t, label, ok, next) ==
  /\ pc[t] = label
  /\ \/ /\ ok
        /\ Goto(t, next)
        /\ UNCHANGED <<op, ret>>
     \/ /\ ~ok
        /\ Return(t, QP_ERROR)
  /\ UNCHANGED <<word, hold_thread, hold_process, hold_counter, held>>

CheckCounter(t) == CheckOwner(t, "checkCounter", hold_counter >= 1, "checkThread")

\* Mutant: any thread of the owner's process may unlock.
CheckThread_Dropped(t) == CheckOwner(t, "checkThread", TRUE, "checkProcess")

CheckThread(t) == CheckOwner(t, "checkThread", hold_thread = Tid[t], "checkProcess")

CheckProcess(t) == CheckOwner(t, "checkProcess", hold_process = Pid[t], "decrement")

\* qp_atom_fetch_sub(&lock->hold_counter, 1)
Decrement(t) ==
  /\ pc[t] = "decrement"
  /\ hold_counter' = hold_counter - 1
  /\ Goto(t, "reread")
  /\ UNCHANGED <<word, hold_thread, hold_process, op, ret, held>>

\* The counter is read again: a nested unlock keeps the word.
RereadCounter(t) ==
  /\ pc[t] = "reread"
  /\ \/ /\ hold_counter # 0
        /\ held' = [held EXCEPT ![t] = @ - 1]
        /\ Return(t, QP_SUCCESS)
     \/ /\ hold_counter = 0
        /\ Goto(t, "clearThread")
        /\ UNCHANGED <<op, ret, held>>
  /\ UNCHANGED <<word, hold_thread, hold_process, hold_counter>>

ClearThread(t) ==
  /\ pc[t] = "clearThread"
  /\ hold_thread' = Nobody
  /\ Goto(t, "clearProcess")
  /\ UNCHANGED <<word, hold_process, hold_counter, op, ret, held>>

ClearProcess(t) ==
  /\ pc[t] = "clearProcess"
  /\ hold_process' = Nobody
  /\ Goto(t, "release")
  /\ UNCHANGED <<word, hold_thread, hold_counter, op, ret, held>>

\* The compare-and-swap releases a spin word whoever took it; the mutex is
\* released by its owner only (EPERM otherwise).
CanRelease(t) == IF Spin THEN word # Nobody ELSE word = t

\* Mutant: the last unlock clears the record and forgets the word.
Release_KeepsWord(t) ==
  /\ pc[t] = "release"
  /\ held' = [held EXCEPT ![t] = @ - 1]
  /\ Return(t, QP_SUCCESS)
  /\ UNCHANGED lockVars

Release(t) ==
  /\ pc[t] = "release"
  /\ \/ /\ CanRelease(t)
        /\ word' = Nobody
        /\ held' = [held EXCEPT ![t] = @ - 1]
        /\ Return(t, QP_SUCCESS)
     \/ /\ ~CanRelease(t)
        /\ Return(t, QP_ERROR)
        /\ UNCHANGED <<word, held>>
  /\ UNCHANGED <<hold_thread, hold_process, hold_counter>>

-----------------------------------------------------------------------------
Lock(t) ==
  \/ ReadCounter(t) \/ ReadThread(t) \/ ReadProcess(t)
  \/ Acquire(t) \/ AcquireFails(t)
  \/ SetThread(t) \/ SetProcess(t) \/ Increment(t)

Unlock(t) ==
  \/ CheckCounter(t) \/ CheckThread(t) \/ CheckProcess(t)
  \/ Decrement(t) \/ RereadCounter(t)
  \/ ClearThread(t) \/ ClearProcess(t) \/ Release(t)

Step(t) == Lock(t) \/ Unlock(t)

Next ==
  \E t \in Thread :
    \/ \E f \in {"lock", "trylock", "unlock"} : Call(t, f)
    \/ Step(t)

Spec == Init /\ [][Next]_vars

-----------------------------------------------------------------------------
TypeOK ==
  /\ word \in Thread \cup {Nobody}
  /\ hold_thread \in {Tid[t] : t \in Thread} \cup {Nobody}
  /\ hold_process \in {Pid[t] : t \in Thread} \cup {Nobody}
  /\ hold_counter \in Nat
  /\ pc \in [Thread -> LockPc \cup UnlockPc \cup {"idle"}]
  /\ op \in [Thread -> {"lock", "trylock", "unlock", "none"}]
  /\ ret \in [Thread -> {QP_SUCCESS, QP_ERROR}]
  /\ held \in [Thread -> 0..MaxDepth]

(***************************************************************************)
(* Two threads never both have a grant, whatever the interleaving of their *)
(* unprotected reads of the ownership record with the owner's writes.      *)
(***************************************************************************)
MutualExclusion ==
  \A t, u \in Thread : held[t] > 0 /\ held[u] > 0 => t = u

(***************************************************************************)
(* qp_lock_counter tells a holder that is not inside a call exactly how    *)
(* many unlocks it still owes.                                             *)
(***************************************************************************)
CounterIsDepth ==
  \A t \in Thread : held[t] > 0 /\ pc[t] = "idle" => hold_counter = held[t]

(***************************************************************************)
(* A call to lock never fails, and neither does a holder's unlock: no      *)
(* interleaving makes the record of a holder look like someone else's, or  *)
(* sends a holder to its own mutex.                                        *)
(***************************************************************************)
HolderNeverRefused ==
  [][\A t \in Thread :
       (ret'[t] = QP_ERROR /\ op[t] # "none" /\ op'[t] = "none")
          => op[t] = "trylock" \/ (op[t] = "unlock" /\ held[t] = 0)]_vars

(***************************************************************************)
(* "May be unlocked by another thread": an unlock by a thread that has no  *)
(* grant writes nothing of the lock, at any of its steps.                  *)
(***************************************************************************)
StrangerWritesNothing ==
  [][\A t \in Thread :
       (op[t] = "unlock" /\ held[t] = 0 /\ pc'[t] # pc[t])
          => UNCHANGED lockVars]_vars

(***************************************************************************)
(* The grants and returns callers see are those of a recursive lock.       *)
(***************************************************************************)
Abstract == INSTANCE RecursiveLock WITH depth <- held
ImplementsRecursiveLock == Abstract!Spec

(***************************************************************************)
(* When the lock can be trusted: each thread has a pthread_t or a pid that *)
(* no other thread using the lock has.                                     *)
(***************************************************************************)
OwnerIdentifiable ==
  \A u \in Thread :
    \/ \A v \in Thread \ {u} : Tid[v] # Tid[u]
    \/ \A v \in Thread \ {u} : Pid[v] # Pid[u]

-----------------------------------------------------------------------------
(***************************************************************************)
(* The strengthening that makes mutual exclusion inductive, given          *)
(* OwnerIdentifiable: the word belongs to the thread that has a grant or   *)
(* is between taking and releasing it; the record is what that thread      *)
(* last wrote; and a thread that recognised its own pthread_t, when no     *)
(* other has it, is the owner.                                             *)
(***************************************************************************)
Inside == {"setThread", "setProcess", "increment", "decrement", "reread",
           "clearThread", "clearProcess", "release"}

OwnsWord(t) == held[t] > 0 \/ pc[t] \in Inside

TidUnique(t) == \A v \in Thread \ {t} : Tid[v] # Tid[t]

WordInv == \A t \in Thread : OwnsWord(t) <=> word = t

FreeRecordInv ==
  word = Nobody => hold_thread = Nobody /\ hold_process = Nobody /\ hold_counter = 0

RecordInv ==
  \A t \in Thread : word = t =>
    /\ hold_thread = IF pc[t] \in {"setThread", "clearProcess", "release"}
                     THEN Nobody ELSE Tid[t]
    /\ hold_process = IF pc[t] \in {"setThread", "setProcess", "release"}
                      THEN Nobody ELSE Pid[t]
    /\ hold_counter = IF pc[t] \in {"reread", "clearThread", "clearProcess", "release"}
                      THEN held[t] - 1 ELSE held[t]

PcInv ==
  \A t \in Thread :
    /\ pc[t] = "idle" => op[t] = "none"
    /\ pc[t] \in LockPc => op[t] \in {"lock", "trylock"} /\ held[t] < MaxDepth
    /\ pc[t] \in UnlockPc => op[t] = "unlock"
    /\ pc[t] \in {"setThread", "setProcess", "acquire"} => held[t] = 0
    /\ pc[t] \in {"decrement", "reread"} => held[t] > 0
    /\ pc[t] \in {"clearThread", "clearProcess", "release"} => held[t] = 1
    /\ pc[t] \in {"readProcess", "checkProcess"} /\ TidUnique(t) => held[t] > 0

IInv == TypeOK /\ WordInv /\ FreeRecordInv /\ RecordInv /\ PcInv
=============================================================================
