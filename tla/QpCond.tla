------------------------------- MODULE QpCond -------------------------------
(***************************************************************************)
(* qp_cond_t of core/qp_ipc_core.c: a counter nready guarded by a qp_lock  *)
(* (cond_lock, always the mutex kind) and a pthread condition variable.    *)
(* The threads run the lock's own steps, taken from QpLock.  What          *)
(* pthread_cond_wait does to the mutex is modelled here: it releases and   *)
(* takes back the word of cond_lock and knows nothing of the ownership     *)
(* record kept beside it.                                                  *)
(***************************************************************************)
EXTENDS QpLock

CONSTANTS
  Waiter,      \* the threads that call qp_cond_wait
  Signaller,   \* the threads that call qp_cond_signal
  MaxCalls     \* bound: calls of one thread

ASSUME CondAssumption ==
  /\ ~Spin
  /\ Waiter \subseteq Thread /\ Signaller \subseteq Thread
  /\ MaxCalls \in Nat

VARIABLES
  nready,   \* signals not yet consumed
  at,       \* where each thread is in qp_cond_signal or qp_cond_wait
  stat,     \* the local of qp_cond_signal: nready was 0
  calls     \* calls each thread has made

condVars == <<nready, at, stat, calls>>
cvars == <<word, hold_thread, hold_process, hold_counter, pc, op, ret, held,
           nready, at, stat, calls>>

Arrive(t, place) == at' = [at EXCEPT ![t] = place]

CInit ==
  /\ Init
  /\ nready = 0
  /\ at = [t \in Thread |-> "out"]
  /\ stat = [t \in Thread |-> FALSE]
  /\ calls = [t \in Thread |-> 0]

Enter(t, place) ==
  /\ at[t] = "out"
  /\ calls[t] < MaxCalls
  /\ calls' = [calls EXCEPT ![t] = @ + 1]
  /\ Call(t, "lock")
  /\ Arrive(t, place)
  /\ UNCHANGED <<nready, stat>>

-----------------------------------------------------------------------------
(* qp_cond_signal.                                                         *)

SignalLock(t) == Enter(t, "signalLocking")

\* stat = (0 == nready); nready++; the callback runs next.  The result of
\* qp_lock_lock is not looked at.
SignalReady(t) ==
  /\ at[t] = "signalLocking" /\ pc[t] = "idle"
  /\ stat' = [stat EXCEPT ![t] = (nready = 0)]
  /\ nready' = nready + 1
  /\ Arrive(t, "signalCallback")
  /\ UNCHANGED <<vars, calls>>

SignalUnlock(t) ==
  /\ at[t] = "signalCallback"
  /\ Call(t, "unlock")
  /\ Arrive(t, "signalUnlocking")
  /\ UNCHANGED <<nready, stat, calls>>

\* pthread_cond_signal, only if nready was 0: it wakes a sleeper if there is
\* one.
SignalWake(t) ==
  /\ at[t] = "signalUnlocking" /\ pc[t] = "idle"
  /\ \/ /\ stat[t]
        /\ \E u \in Thread :
             /\ at[u] = "asleep"
             /\ at' = [at EXCEPT ![t] = "out", ![u] = "woken"]
     \/ /\ stat[t] => \A u \in Thread : at[u] # "asleep"
        /\ Arrive(t, "out")
  /\ UNCHANGED <<vars, nready, stat, calls>>

-----------------------------------------------------------------------------
(* qp_cond_wait.                                                           *)

WaitLock(t) == Enter(t, "waitLocking")

\* while (0 == nready) pthread_cond_wait(&cond, &cond_lock.lock.mutex): the
\* mutex is released, the ownership record is not touched.  Its error path
\* (EPERM: the caller does not own the mutex) is left out: QpIpcProof proves
\* that a thread here owns the word.
WaitSleep(t) ==
  /\ at[t] = "waitLocking" /\ pc[t] = "idle"
  /\ nready = 0
  /\ word = t
  /\ word' = Nobody
  /\ Arrive(t, "asleep")
  /\ UNCHANGED <<hold_thread, hold_process, hold_counter, pc, op, ret, held,
                 nready, stat, calls>>

\* A sleeper may wake without a signal.
SpuriousWake(t) ==
  /\ at[t] = "asleep"
  /\ Arrive(t, "woken")
  /\ UNCHANGED <<vars, nready, stat, calls>>

\* pthread_cond_wait returns only with the mutex taken again.
WaitReacquire(t) ==
  /\ at[t] = "woken"
  /\ word = Nobody
  /\ word' = t
  /\ Arrive(t, "waitLocking")
  /\ UNCHANGED <<hold_thread, hold_process, hold_counter, pc, op, ret, held,
                 nready, stat, calls>>

\* nready--; the callback runs next.
WaitReady(t) ==
  /\ at[t] = "waitLocking" /\ pc[t] = "idle"
  /\ nready > 0
  /\ nready' = nready - 1
  /\ Arrive(t, "waitCallback")
  /\ UNCHANGED <<vars, stat, calls>>

WaitUnlock(t) ==
  /\ at[t] = "waitCallback"
  /\ Call(t, "unlock")
  /\ Arrive(t, "waitUnlocking")
  /\ UNCHANGED <<nready, stat, calls>>

WaitReturn(t) ==
  /\ at[t] = "waitUnlocking" /\ pc[t] = "idle"
  /\ Arrive(t, "out")
  /\ UNCHANGED <<vars, nready, stat, calls>>

-----------------------------------------------------------------------------
LockStep(t) == Step(t) /\ UNCHANGED condVars

Signal(t) == SignalReady(t) \/ SignalUnlock(t) \/ SignalWake(t)

Wait(t) ==
  \/ WaitSleep(t) \/ WaitReacquire(t) \/ WaitReady(t)
  \/ WaitUnlock(t) \/ WaitReturn(t)

CNext ==
  \/ \E t \in Thread : LockStep(t) \/ Signal(t) \/ Wait(t) \/ SpuriousWake(t)
  \/ \E t \in Signaller : SignalLock(t)
  \/ \E t \in Waiter : WaitLock(t)

CSpec == CInit /\ [][CNext]_cvars

\* Threads inside a function keep running; nobody has to call or to wake.
CFairSpec == CSpec /\ \A t \in Thread : WF_cvars(LockStep(t) \/ Signal(t) \/ Wait(t))

-----------------------------------------------------------------------------
CTypeOK ==
  /\ TypeOK
  /\ nready \in Nat
  /\ at \in [Thread -> {"out", "signalLocking", "signalCallback", "signalUnlocking",
                        "waitLocking", "asleep", "woken", "waitCallback",
                        "waitUnlocking"}]
  /\ stat \in [Thread -> BOOLEAN]
  /\ calls \in [Thread -> 0..MaxCalls]

(***************************************************************************)
(* "If signal_to is not NULL, it will call it atomic", and the same for    *)
(* wait_for: no two callbacks run at the same time, also when cond_lock's  *)
(* ownership record is stale because a waiter went to sleep.               *)
(***************************************************************************)
CallbacksAtomic ==
  \A t, u \in Thread :
    /\ at[t] \in {"signalCallback", "waitCallback"}
    /\ at[u] \in {"signalCallback", "waitCallback"}
    => t = u

(***************************************************************************)
(* "Signal waiting cond": a thread asleep in qp_cond_wait that has been    *)
(* signalled returns from it.                                              *)
(***************************************************************************)
SignalledWaiterReturns ==
  \A t \in Waiter : (at[t] = "asleep" /\ nready > 0) ~> (at[t] = "out")
=============================================================================
