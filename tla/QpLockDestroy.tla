---------------------------- MODULE QpLockDestroy ----------------------------
(***************************************************************************)
(* qp_lock_destroy running against the other users of the lock.  It is     *)
(* built from the lock's own functions: a trylock, an unlock whatever the  *)
(* trylock said, then the destruction of the word.  The model ends when    *)
(* the lock is destroyed: what a later call does with a destroyed pthread  *)
(* mutex is undefined.                                                     *)
(***************************************************************************)
EXTENDS QpLock

VARIABLES
  is_inited,   \* the flag qp_lock_destroy tests and clears
  destroying   \* how far each thread is in qp_lock_destroy

dvars == <<word, hold_thread, hold_process, hold_counter, pc, op, ret, held,
           is_inited, destroying>>

\* What the result of the trylock is compared with: an errno value.
\* qp_lock_trylock returns QP_SUCCESS or QP_ERROR and leaves EBUSY in errno.
EBUSY == "EBUSY"

DInit ==
  /\ Init
  /\ is_inited = TRUE
  /\ destroying = [t \in Thread |-> "no"]

\* qp_lock_trylock(lock)
DestroyTry(t) ==
  /\ is_inited
  /\ destroying[t] = "no"
  /\ Call(t, "trylock")
  /\ destroying' = [destroying EXCEPT ![t] = "try"]
  /\ UNCHANGED is_inited

\* The early return is taken only if the result equals EBUSY; otherwise
\* qp_lock_unlock(lock), its result ignored.
DestroyUnlock(t) ==
  /\ destroying[t] = "try"
  /\ ret[t] # EBUSY
  /\ Call(t, "unlock")
  /\ destroying' = [destroying EXCEPT ![t] = "unlock"]
  /\ UNCHANGED is_inited

\* pthread_mutex_destroy refuses a mutex that is locked; a spin word is not
\* looked at.
WordDestroyable == Spin \/ word = Nobody

\* Mutant: the result of pthread_mutex_destroy is ignored.
DestroyWord_Ignored(t) ==
  /\ destroying[t] = "unlock"
  /\ pc[t] = "idle"
  /\ destroying' = [destroying EXCEPT ![t] = "no"]
  /\ is_inited' = FALSE
  /\ ret' = [ret EXCEPT ![t] = QP_SUCCESS]
  /\ UNCHANGED <<word, hold_thread, hold_process, hold_counter, pc, op, held>>

DestroyWord(t) ==
  /\ destroying[t] = "unlock"
  /\ pc[t] = "idle"
  /\ destroying' = [destroying EXCEPT ![t] = "no"]
  /\ is_inited' = ~WordDestroyable
  /\ ret' = [ret EXCEPT ![t] = IF WordDestroyable THEN QP_SUCCESS ELSE QP_ERROR]
  /\ UNCHANGED <<word, hold_thread, hold_process, hold_counter, pc, op, held>>

\* The lock's functions, called by clients that are not destroying it or from
\* within qp_lock_destroy.
Use(t) ==
  /\ \/ /\ destroying[t] = "no"
        /\ \E f \in {"lock", "trylock", "unlock"} : Call(t, f)
     \/ Step(t)
  /\ UNCHANGED <<is_inited, destroying>>

DNext ==
  /\ is_inited
  /\ \E t \in Thread : Use(t) \/ DestroyTry(t) \/ DestroyUnlock(t) \/ DestroyWord(t)

DSpec == DInit /\ [][DNext]_dvars

\* A thread inside a function keeps running: the scheduler runs every thread,
\* but no waiter has priority.
Runs(t) ==
  /\ is_inited
  /\ Step(t)
  /\ UNCHANGED <<is_inited, destroying>>

DFairSpec == DSpec /\ \A t \in Thread : WF_dvars(Runs(t))

-----------------------------------------------------------------------------
(***************************************************************************)
(* The trylock is there "incase the lock still locked": qp_lock_destroy    *)
(* never destroys a lock that some thread holds, however the destroyer's   *)
(* trylock and unlock interleave with other threads' calls.                *)
(***************************************************************************)
NeverDestroyedWhileHeld ==
  [][is_inited /\ ~is_inited' => \A t \in Thread : held[t] = 0]_dvars

(***************************************************************************)
(* As long as the lock is not destroyed and no thread keeps it for ever, a *)
(* blocked lock call means the lock is handed on: its word is taken again, *)
(* by that caller or by another.  (Which one is not promised: neither the  *)
(* spin loop nor the mutex is fair.)                                       *)
(***************************************************************************)
Handover ==
  []is_inited /\ (\A t \in Thread : []<>(held[t] = 0))
     => ((\E t \in Thread : pc[t] = "acquire" /\ op[t] = "lock")
            ~> (\E t \in Thread : pc[t] = "setThread"))
=============================================================================
