----------------------------- MODULE QpIpcProof -----------------------------
(***************************************************************************)
(* Proofs about qp_ipc_core.c, for any number of threads and any bounds.   *)
(* The lock (QpLock), whenever OwnerIdentifiable holds of the threads that *)
(* use it, and its destruction (QpLockDestroy); then the objects of QpIpc, *)
(* the read-write lock, the condition and the shared memory.  Each object  *)
(* has its inductive invariant; a step of another object leaves it alone.  *)
(***************************************************************************)
EXTENDS QpIpc, QpLockDestroy, TLAPS, FiniteSetTheorems, WellFoundedInduction

-----------------------------------------------------------------------------
(* The lock *)

(***************************************************************************)
(* The zeroed lock satisfies the inductive invariant.                      *)
(***************************************************************************)
LEMMA InitIInv == Init => IInv
  BY ThreadAssumption, MaxDepthAssumption
  DEF Init, IInv, TypeOK, WordInv, FreeRecordInv, RecordInv, PcInv, OwnsWord,
      Inside, LockPc, UnlockPc, QP_SUCCESS, QP_ERROR

(***************************************************************************)
(* A thread whose nested-acquisition test succeeds is the owner: whichever *)
(* of its two names is its own alone decides.                              *)
(***************************************************************************)
LEMMA RecognisedIsOwner ==
  ASSUME OwnerIdentifiable, IInv, NEW t \in Thread,
         pc[t] \in {"readProcess", "checkProcess"}, hold_process = Pid[t]
  PROVE  held[t] > 0 /\ word = t
<1>1. CASE TidUnique(t)
  BY <1>1 DEF IInv, PcInv, WordInv, OwnsWord
<1>2. CASE ~TidUnique(t)
  <2>1. \A v \in Thread \ {t} : Pid[v] # Pid[t]
    BY <1>2 DEF OwnerIdentifiable, TidUnique
  <2>2. word # Nobody
    BY ThreadAssumption DEF IInv, FreeRecordInv
  <2>3. word \in Thread
    BY <2>2 DEF IInv, TypeOK
  <2>4. hold_process = Pid[word]
    BY <2>3, ThreadAssumption DEF IInv, RecordInv
  <2>5. word = t
    BY <2>1, <2>3, <2>4
  <2> QED
    BY <2>5 DEF IInv, WordInv, OwnsWord, Inside
<1> QED BY <1>1, <1>2

(***************************************************************************)
(* A thread that finds its own pthread_t in the record, when no other      *)
(* thread has it, is the owner.                                            *)
(***************************************************************************)
LEMMA TidMatchIsOwner ==
  ASSUME IInv, NEW t \in Thread, TidUnique(t), hold_thread = Tid[t],
         pc[t] \in {"readThread", "checkThread"}
  PROVE  held[t] > 0 /\ word = t
<1>1. word \in Thread
  BY ThreadAssumption DEF IInv, FreeRecordInv, TypeOK
<1>2. hold_thread = Tid[word]
  BY <1>1, ThreadAssumption DEF IInv, RecordInv
<1>3. word = t
  BY <1>1, <1>2 DEF TidUnique
<1> QED
  BY <1>3 DEF IInv, WordInv, OwnsWord, Inside

(***************************************************************************)
(* Every step keeps the inductive invariant.                               *)
(***************************************************************************)
LEMMA StepIInv ==
  ASSUME OwnerIdentifiable, IInv, [Next]_vars
  PROVE  IInv'
<1> USE ThreadAssumption, MaxDepthAssumption
    DEF IInv, TypeOK, WordInv, FreeRecordInv, RecordInv, PcInv, OwnsWord,
        Inside, LockPc, UnlockPc, QP_SUCCESS, QP_ERROR
<1>1. CASE UNCHANGED vars
  BY <1>1 DEF vars, TidUnique
<1>2. ASSUME NEW t \in Thread, NEW f \in {"lock", "trylock", "unlock"}, Call(t, f)
      PROVE  IInv'
  BY <1>2 DEF Call, Goto, TidUnique
<1>3. ASSUME NEW t \in Thread, ReadCounter(t)
      PROVE  IInv'
  BY <1>3 DEF ReadCounter, Goto, TidUnique
<1>4. ASSUME NEW t \in Thread, ReadThread(t)
      PROVE  IInv'
  BY <1>4, TidMatchIsOwner DEF ReadThread, Goto, TidUnique
<1>5. ASSUME NEW t \in Thread, ReadProcess(t)
      PROVE  IInv'
  BY <1>5, RecognisedIsOwner DEF ReadProcess, Goto, TidUnique
<1>6. ASSUME NEW t \in Thread, Acquire(t)
      PROVE  IInv'
  BY <1>6 DEF Acquire, Goto, TidUnique
<1>7. ASSUME NEW t \in Thread, AcquireFails(t)
      PROVE  IInv'
  BY <1>7 DEF AcquireFails, Return, TidUnique
<1>8. ASSUME NEW t \in Thread, SetThread(t)
      PROVE  IInv'
  BY <1>8 DEF SetThread, Goto, TidUnique
<1>9. ASSUME NEW t \in Thread, SetProcess(t)
      PROVE  IInv'
  BY <1>9 DEF SetProcess, Goto, TidUnique
<1>10. ASSUME NEW t \in Thread, Increment(t)
      PROVE  IInv'
  BY <1>10 DEF Increment, Return, TidUnique
<1>11. ASSUME NEW t \in Thread, CheckCounter(t)
      PROVE  IInv'
  BY <1>11 DEF CheckCounter, CheckOwner, Goto, Return, TidUnique
<1>12. ASSUME NEW t \in Thread, CheckThread(t)
      PROVE  IInv'
  BY <1>12, TidMatchIsOwner DEF CheckThread, CheckOwner, Goto, Return, TidUnique
<1>13. ASSUME NEW t \in Thread, CheckProcess(t)
      PROVE  IInv'
  BY <1>13, RecognisedIsOwner DEF CheckProcess, CheckOwner, Goto, Return, TidUnique
<1>14. ASSUME NEW t \in Thread, Decrement(t)
      PROVE  IInv'
  BY <1>14 DEF Decrement, Goto, TidUnique
<1>15. ASSUME NEW t \in Thread, RereadCounter(t)
      PROVE  IInv'
  BY <1>15 DEF RereadCounter, Goto, Return, TidUnique
<1>16. ASSUME NEW t \in Thread, ClearThread(t)
      PROVE  IInv'
  BY <1>16 DEF ClearThread, Goto, TidUnique
<1>17. ASSUME NEW t \in Thread, ClearProcess(t)
      PROVE  IInv'
  BY <1>17 DEF ClearProcess, Goto, TidUnique
<1>18. ASSUME NEW t \in Thread, Release(t)
      PROVE  IInv'
  BY <1>18 DEF Release, CanRelease, Goto, Return, TidUnique
<1> HIDE DEF IInv
<1> QED
  BY <1>1, <1>2, <1>3, <1>4, <1>5, <1>6, <1>7, <1>8, <1>9, <1>10, <1>11, <1>12,
     <1>13, <1>14, <1>15, <1>16, <1>17, <1>18 DEF Next, Step, Lock, Unlock

(***************************************************************************)
(* The inductive invariant holds in every reachable state.                 *)
(***************************************************************************)
THEOREM LockInvariant ==
  ASSUME OwnerIdentifiable
  PROVE  Spec => []IInv
<1>1. Init => IInv
  BY InitIInv
<1>2. IInv /\ [Next]_vars => IInv'
  BY StepIInv, OwnerIdentifiable
<1> QED
  BY <1>1, <1>2, PTL DEF Spec

(***************************************************************************)
(* The state of the lock and of its threads keeps its type; in particular  *)
(* the counter never wraps below zero.                                     *)
(***************************************************************************)
THEOREM LockTypeCorrect ==
  ASSUME OwnerIdentifiable
  PROVE  Spec => []TypeOK
<1>1. IInv => TypeOK
  BY DEF IInv
<1> QED
  BY <1>1, LockInvariant, PTL

(***************************************************************************)
(* No two threads are ever both told they have the lock.                   *)
(***************************************************************************)
THEOREM LockMutualExclusion ==
  ASSUME OwnerIdentifiable
  PROVE  Spec => []MutualExclusion
<1>1. IInv => MutualExclusion
  BY DEF IInv, WordInv, OwnsWord, MutualExclusion
<1> QED
  BY <1>1, LockInvariant, PTL

(***************************************************************************)
(* A holder reads in qp_lock_counter the number of unlocks it owes.        *)
(***************************************************************************)
THEOREM LockCounterIsDepth ==
  ASSUME OwnerIdentifiable
  PROVE  Spec => []CounterIsDepth
<1>1. IInv => CounterIsDepth
  BY DEF IInv, WordInv, OwnsWord, RecordInv, CounterIsDepth
<1> QED
  BY <1>1, LockInvariant, PTL

(***************************************************************************)
(* An unlock by a thread without a grant never writes to the lock.         *)
(***************************************************************************)
THEOREM LockStrangerWritesNothing ==
  ASSUME OwnerIdentifiable
  PROVE  Spec => StrangerWritesNothing
<1> DEFINE A == \A t \in Thread :
                  (op[t] = "unlock" /\ held[t] = 0 /\ pc'[t] # pc[t])
                     => UNCHANGED lockVars
<1>1. ASSUME IInv, Next
      PROVE  A
  <2>1. SUFFICES ASSUME NEW u \in Thread, op[u] = "unlock", held[u] = 0, pc'[u] # pc[u]
                 PROVE  UNCHANGED lockVars
    OBVIOUS
  <2>2. pc[u] \in {"checkCounter", "checkThread", "checkProcess"}
    BY <1>1, <2>1 DEF IInv, TypeOK, PcInv, LockPc, UnlockPc
  <2>3. ASSUME NEW t \in Thread, NEW f \in {"lock", "trylock", "unlock"}, Call(t, f)
        PROVE  UNCHANGED lockVars
    BY <2>3 DEF Call, lockVars
  <2>4. ASSUME NEW t \in Thread, Step(t)
        PROVE  t = u
    BY <1>1, <2>1, <2>4 DEF Step, Lock, Unlock, ReadCounter, ReadThread, ReadProcess,
       Acquire, AcquireFails, SetThread, SetProcess, Increment, CheckCounter,
       CheckThread, CheckProcess, CheckOwner, Decrement, RereadCounter, ClearThread,
       ClearProcess, Release, Goto, Return, IInv, TypeOK
  <2>5. ASSUME Step(u)
        PROVE  UNCHANGED lockVars
    BY <2>2, <2>5 DEF Step, Lock, Unlock, ReadCounter, ReadThread, ReadProcess,
       Acquire, AcquireFails, SetThread, SetProcess, Increment, CheckCounter,
       CheckThread, CheckProcess, CheckOwner, Decrement, RereadCounter, ClearThread,
       ClearProcess, Release, lockVars
  <2> QED
    BY <1>1, <2>3, <2>4, <2>5 DEF Next
<1>2. IInv /\ [Next]_vars => [A]_vars
  BY <1>1
<1> QED
  BY <1>2, LockInvariant, PTL DEF Spec, StrangerWritesNothing

(***************************************************************************)
(* A lock call never fails, and neither does a holder's unlock.            *)
(***************************************************************************)
THEOREM LockHolderNeverRefused ==
  ASSUME OwnerIdentifiable
  PROVE  Spec => HolderNeverRefused
<1> DEFINE A == \A t \in Thread :
                  (ret'[t] = QP_ERROR /\ op[t] # "none" /\ op'[t] = "none")
                     => op[t] = "trylock" \/ (op[t] = "unlock" /\ held[t] = 0)
<1>1. ASSUME IInv, Next
      PROVE  A
  <2>1. SUFFICES ASSUME NEW u \in Thread,
                        ret'[u] = QP_ERROR, op[u] # "none", op'[u] = "none"
                 PROVE  op[u] = "trylock" \/ (op[u] = "unlock" /\ held[u] = 0)
    OBVIOUS
  <2>2. ASSUME NEW t \in Thread, NEW f \in {"lock", "trylock", "unlock"}, Call(t, f)
        PROVE  FALSE
    BY <1>1, <2>1, <2>2 DEF Call, IInv, TypeOK
  <2>3. ASSUME NEW t \in Thread, Lock(t)
        PROVE  op[u] = "trylock"
    BY <1>1, <2>1, <2>3 DEF Lock, ReadCounter, ReadThread, ReadProcess, Acquire,
       AcquireFails, SetThread, SetProcess, Increment, Goto, Return, IInv, TypeOK,
       PcInv, WordInv, OwnsWord, Inside, LockPc, QP_SUCCESS, QP_ERROR
  <2>4. ASSUME NEW t \in Thread, Unlock(t)
        PROVE  op[u] = "unlock" /\ held[u] = 0
    <3>1. u = t /\ pc[t] \in {"checkCounter", "checkThread", "checkProcess", "release"}
      BY <1>1, <2>1, <2>4 DEF Unlock, CheckCounter, CheckThread, CheckProcess,
         CheckOwner, Decrement, RereadCounter, ClearThread, ClearProcess, Release,
         Goto, Return, IInv, TypeOK, QP_SUCCESS, QP_ERROR
    <3>2. op[u] = "unlock"
      BY <1>1, <3>1 DEF IInv, PcInv, UnlockPc
    <3>3. SUFFICES ASSUME held[t] > 0
                   PROVE  FALSE
      BY <1>1, <3>1, <3>2 DEF IInv, TypeOK
    <3>4. word = t
      BY <1>1, <3>3 DEF IInv, WordInv, OwnsWord
    <3>5. CASE pc[t] = "release"
      BY <1>1, <2>1, <2>4, <3>1, <3>4, <3>5, ThreadAssumption, SpinAssumption
      DEF Unlock, CheckCounter, CheckThread, CheckProcess, CheckOwner, Decrement,
          RereadCounter, ClearThread, ClearProcess, Release, CanRelease, Return, IInv,
          TypeOK, QP_SUCCESS, QP_ERROR
    <3>6. CASE pc[t] # "release"
      <4>1. hold_thread = Tid[t] /\ hold_process = Pid[t] /\ hold_counter >= 1
        BY <1>1, <3>1, <3>3, <3>4, <3>6 DEF IInv, RecordInv, TypeOK
      <4> QED
        BY <1>1, <2>1, <2>4, <3>1, <3>6, <4>1
        DEF Unlock, CheckCounter, CheckThread, CheckProcess, CheckOwner, Decrement,
            RereadCounter, ClearThread, ClearProcess, Release, Goto, IInv, TypeOK,
            PcInv, UnlockPc
    <3> QED BY <3>5, <3>6
  <2> QED
    BY <1>1, <2>2, <2>3, <2>4 DEF Next, Step
<1>2. IInv /\ [Next]_vars => [A]_vars
  BY <1>1
<1> QED
  BY <1>2, LockInvariant, PTL DEF Spec, HolderNeverRefused

(***************************************************************************)
(* The lock implements the abstract recursive lock: its grants and returns,*)
(* as callers see them, are steps of RecursiveLock and all else stutters.  *)
(***************************************************************************)
THEOREM LockRefinement ==
  ASSUME OwnerIdentifiable
  PROVE  Spec => ImplementsRecursiveLock
<1>1. Init => Abstract!Init
  BY DEF Init, Abstract!Init
<1>2. ASSUME IInv, [Next]_vars
      PROVE  [Abstract!Next]_held
  <2>1. ASSUME NEW t \in Thread, pc[t] = "increment",
               held' = [held EXCEPT ![t] = @ + 1]
        PROVE  Abstract!Grant(t)
    BY <1>2, <2>1 DEF Abstract!Grant, IInv, TypeOK, WordInv, OwnsWord, Inside
  <2>2. ASSUME NEW t \in Thread, pc[t] \in {"reread", "release"},
               held' = [held EXCEPT ![t] = @ - 1]
        PROVE  Abstract!GiveBack(t)
    BY <1>2, <2>2 DEF Abstract!GiveBack, IInv, PcInv, TypeOK
  <2>3. ASSUME NEW t \in Thread, Step(t)
        PROVE  UNCHANGED held \/ Abstract!Next
    BY <2>1, <2>2, <2>3 DEF Step, Lock, Unlock, ReadCounter, ReadThread, ReadProcess,
       Acquire, AcquireFails, SetThread, SetProcess, Increment, CheckCounter,
       CheckThread, CheckProcess, CheckOwner, Decrement, RereadCounter, ClearThread,
       ClearProcess, Release, Abstract!Next
  <2> QED
    BY <1>2, <2>3 DEF Next, Call, vars
<1> QED
  BY <1>1, <1>2, LockInvariant, PTL DEF Spec, ImplementsRecursiveLock, Abstract!Spec

-----------------------------------------------------------------------------
(***************************************************************************)
(* qp_lock_destroy is made of the lock's own calls, so the lock's          *)
(* inductive invariant survives it, also when its trylock fails and its    *)
(* unlock is a stranger's.                                                 *)
(***************************************************************************)
THEOREM LockInvariantUnderDestroy ==
  ASSUME OwnerIdentifiable
  PROVE  DSpec => []IInv
<1>1. DInit => IInv
  BY InitIInv DEF DInit
<1>2. ASSUME IInv, [DNext]_dvars
      PROVE  IInv'
  <2>1. ASSUME NEW t \in Thread, Use(t) \/ DestroyTry(t) \/ DestroyUnlock(t)
        PROVE  IInv'
    <3>1. Next
      BY <2>1 DEF Use, DestroyTry, DestroyUnlock, Next
    <3> QED
      BY <1>2, <3>1, StepIInv
  <2>2. ASSUME NEW t \in Thread, DestroyWord(t)
        PROVE  IInv'
    BY <1>2, <2>2 DEF DestroyWord, IInv, TypeOK, WordInv, FreeRecordInv, RecordInv, PcInv,
       OwnsWord, TidUnique, QP_SUCCESS, QP_ERROR
  <2>3. CASE UNCHANGED dvars
    <3>1. UNCHANGED vars
      BY <2>3 DEF dvars, vars
    <3> QED
      BY <1>2, <3>1, StepIInv
  <2> QED
    BY <1>2, <2>1, <2>2, <2>3 DEF DNext
<1> QED
  BY <1>1, <1>2, PTL DEF DSpec

(***************************************************************************)
(* A mutex that any thread holds is never destroyed: the result of the     *)
(* trylock is compared with the wrong value, but pthread_mutex_destroy     *)
(* refuses a locked mutex, and a grant always comes with the mutex.        *)
(***************************************************************************)
THEOREM LockNeverDestroyedWhileHeld ==
  ASSUME OwnerIdentifiable, ~Spin
  PROVE  DSpec => NeverDestroyedWhileHeld
<1> DEFINE A == is_inited /\ ~is_inited' => \A t \in Thread : held[t] = 0
<1>1. ASSUME IInv, DNext, is_inited, ~is_inited'
      PROVE  \A t \in Thread : held[t] = 0
  <2>1. PICK t \in Thread : DestroyWord(t)
    BY <1>1 DEF DNext, Use, DestroyTry, DestroyUnlock
  <2>2. word = Nobody
    BY <1>1, <2>1 DEF DestroyWord, WordDestroyable
  <2>3. \A u \in Thread : ~(held[u] > 0)
    BY <1>1, <2>2, ThreadAssumption DEF IInv, WordInv, OwnsWord
  <2> QED
    BY <1>1, <2>3 DEF IInv, TypeOK
<1>2. IInv /\ [DNext]_dvars => [A]_dvars
  BY <1>1
<1> QED
  BY <1>2, LockInvariantUnderDestroy, PTL DEF DSpec, NeverDestroyedWhileHeld

-----------------------------------------------------------------------------
(* The read-write lock *)

RwPc == {"idle", "tryrd", "gotrd", "trywr", "gotwr", "destroy"}

RwTypeOK ==
  /\ readers \in [Thread -> Nat]
  /\ writer \in Thread \cup {Nobody}
  /\ rwheld \in [Thread -> {"none", "rd", "wr"}]
  /\ rwpc \in [Thread -> RwPc]
  /\ since \in [Thread -> SUBSET Thread]

(***************************************************************************)
(* What the pthread lock knows of a thread is what the thread's own calls  *)
(* took and the probe it is making; readers exclude a writer.              *)
(***************************************************************************)
RwExact ==
  /\ \A t \in Thread :
       readers[t] = (IF rwheld[t] = "rd" THEN 1 ELSE 0) + (IF rwpc[t] = "gotrd" THEN 1 ELSE 0)
  /\ \A t \in Thread : writer = t <=> (rwheld[t] = "wr" \/ rwpc[t] = "gotwr")
  /\ \A t \in Thread : ~(rwheld[t] = "wr" /\ rwpc[t] = "gotwr")
  /\ writer # Nobody => \A t \in Thread : readers[t] = 0

(***************************************************************************)
(* Those a destroyer has to respect hold the lock, and there are none      *)
(* once its probe for writing has succeeded.                               *)
(***************************************************************************)
RwRespected ==
  \A d \in Thread :
    /\ \A t \in since[d] : rwheld[t] # "none"
    /\ rwpc[d] \in {"gotwr", "destroy"} => since[d] = {}

RwInv == RwTypeOK /\ RwExact /\ RwRespected

(***************************************************************************)
(* A lock nobody uses satisfies the invariant.                             *)
(***************************************************************************)
LEMMA RwInitInv == Rw!Init => RwInv
  BY ThreadAssumption
  DEF Rw!Init, RwInv, RwTypeOK, RwExact, RwRespected, RwPc

(***************************************************************************)
(* Every step of the read-write lock keeps its invariant.                  *)
(***************************************************************************)
LEMMA RwStepInv ==
  ASSUME RwInv, Rw!Next
  PROVE  RwInv'
<1> USE ThreadAssumption DEF RwInv, RwTypeOK, RwPc
<1>1. ASSUME NEW alloc \in BOOLEAN, NEW shared \in BOOLEAN, Rw!qp_rwlock_create(alloc, shared)
      PROVE  RwInv'
  BY <1>1 DEF Rw!qp_rwlock_create, RwExact, RwRespected
<1>2. ASSUME NEW t \in Thread, Rw!qp_rwlock_rdlock(t)
      PROVE  RwInv'
  BY <1>2 DEF Rw!qp_rwlock_rdlock, Rw!Took, Rw!User, Rw!qp_rwlock_tryrdlock, Rw!RdFree,
     RwExact, RwRespected
<1>3. ASSUME NEW t \in Thread, Rw!qp_rwlock_wrlock(t)
      PROVE  RwInv'
  BY <1>3 DEF Rw!qp_rwlock_wrlock, Rw!Took, Rw!User, Rw!qp_rwlock_trywrlock, Rw!WrFree,
     RwExact, RwRespected
<1>4. ASSUME NEW t \in Thread, Rw!Unlock(t)
      PROVE  RwInv'
  BY <1>4 DEF Rw!Unlock, Rw!User, Rw!qp_rwlock_unlock, RwExact, RwRespected
<1>5. ASSUME NEW t \in Thread, Rw!DestroyCall(t)
      PROVE  RwInv'
  BY <1>5 DEF Rw!DestroyCall, Rw!At, RwExact, RwRespected
<1>6. ASSUME NEW t \in Thread, Rw!DestroyRefused(t)
      PROVE  RwInv'
  BY <1>6 DEF Rw!DestroyRefused, Rw!At, RwExact, RwRespected
<1>7. ASSUME NEW t \in Thread, Rw!DestroyTryRd(t)
      PROVE  RwInv'
  BY <1>7 DEF Rw!DestroyTryRd, Rw!At, Rw!qp_rwlock_tryrdlock, Rw!RdFree, RwExact, RwRespected
<1>8. ASSUME NEW t \in Thread, Rw!DestroyUnlockRd(t)
      PROVE  RwInv'
  BY <1>8 DEF Rw!DestroyUnlockRd, Rw!At, Rw!qp_rwlock_unlock, RwExact, RwRespected
<1>9. ASSUME NEW t \in Thread, Rw!DestroyTryWr(t)
      PROVE  RwInv'
  <2>1. \A u \in Thread : rwheld[u] = "none"
    BY <1>9 DEF Rw!DestroyTryWr, Rw!qp_rwlock_trywrlock, Rw!WrFree, RwExact
  <2> QED
    BY <1>9, <2>1 DEF Rw!DestroyTryWr, Rw!At, Rw!qp_rwlock_trywrlock, Rw!WrFree, RwExact,
       RwRespected
<1>10. ASSUME NEW t \in Thread, Rw!DestroyUnlockWr(t)
      PROVE  RwInv'
  BY <1>10 DEF Rw!DestroyUnlockWr, Rw!At, Rw!qp_rwlock_unlock, RwExact, RwRespected
<1>11. ASSUME NEW t \in Thread, Rw!DestroyWord(t)
      PROVE  RwInv'
  BY <1>11 DEF Rw!DestroyWord, Rw!At, RwExact, RwRespected
<1>12. ASSUME NEW t \in Thread, Rw!DestroyFails(t)
      PROVE  RwInv'
  BY <1>12 DEF Rw!DestroyFails, Rw!At, RwExact, RwRespected
<1> QED
  BY <1>1, <1>2, <1>3, <1>4, <1>5, <1>6, <1>7, <1>8, <1>9, <1>10, <1>11, <1>12
  DEF Rw!Next, Rw!Destroy

(***************************************************************************)
(* The invariant of the read-write lock holds in every reachable state.    *)
(***************************************************************************)
THEOREM RwInvariant == IpcSpec => []RwInv
<1>1. IpcInit => RwInv
  BY RwInitInv DEF IpcInit
<1>2. RwInv /\ [IpcNext]_ipcVars => RwInv'
  <2>1. RwInv /\ UNCHANGED rwVars => RwInv'
    BY DEF rwVars, RwInv, RwTypeOK, RwExact, RwRespected
  <2> QED
    BY <2>1, RwStepInv DEF IpcNext, OnCond, OnRwlock, OnSem, OnShm, ipcVars
<1> QED
  BY <1>1, <1>2, PTL DEF IpcSpec

(***************************************************************************)
(* The probes of qp_rwlock_destroy leave no trace, however it ends.        *)
(***************************************************************************)
THEOREM RwProbesGivenBack == IpcSpec => []ProbesGivenBack
<1>1. RwInv => ProbesGivenBack
  BY DEF RwInv, RwTypeOK, RwExact, ProbesGivenBack, Rw!ProbesGivenBack
<1> QED
  BY <1>1, RwInvariant, PTL

(***************************************************************************)
(* A thread that holds the lock when qp_rwlock_destroy is called and keeps *)
(* it makes that call fail.                                                *)
(***************************************************************************)
THEOREM RwDestroyRespectsHolders == IpcSpec => DestroyRespectsHolders
<1> DEFINE A == \A t \in Thread :
                  rwflags.is_inited /\ ~rwflags'.is_inited /\ rwpc[t] # rwpc'[t] => since[t] = {}
<1>1. ASSUME RwInv, Rw!Next
      PROVE  A
  <2>1. SUFFICES ASSUME NEW t \in Thread, rwflags.is_inited, ~rwflags'.is_inited,
                        rwpc[t] # rwpc'[t]
                 PROVE  since[t] = {}
    OBVIOUS
  <2>2. PICK u \in Thread : Rw!DestroyWord(u)
    BY <1>1, <2>1 DEF Rw!Next, Rw!qp_rwlock_create, Rw!qp_rwlock_rdlock, Rw!qp_rwlock_wrlock,
       Rw!Took, Rw!Unlock, Rw!Destroy, Rw!DestroyCall, Rw!DestroyRefused, Rw!DestroyTryRd,
       Rw!DestroyUnlockRd, Rw!DestroyTryWr, Rw!DestroyUnlockWr, Rw!DestroyFails
  <2>3. u = t /\ rwpc[t] = "destroy"
    BY <1>1, <2>1, <2>2 DEF Rw!DestroyWord, Rw!At, RwInv, RwTypeOK
  <2> QED
    BY <1>1, <2>3 DEF RwInv, RwRespected
<1>2. RwInv /\ [IpcNext]_ipcVars => [A]_(Rw!rwVars)
  <2>1. [IpcNext]_ipcVars => Rw!Next \/ UNCHANGED (Rw!rwVars)
    BY DEF IpcNext, OnCond, OnRwlock, OnSem, OnShm, ipcVars, rwVars, Rw!rwVars
  <2> QED
    BY <1>1, <2>1
<1> QED
  BY <1>2, RwInvariant, PTL DEF IpcSpec, DestroyRespectsHolders, Rw!DestroyRespectsHolders

-----------------------------------------------------------------------------
(* The condition *)

AtPlaces == {"out", "signalLocking", "signalCallback", "signalUnlocking",
             "waitLocking", "asleep", "woken", "waitCallback", "waitUnlocking"}

Locking == {"signalLocking", "waitLocking"}
Callback == {"signalCallback", "waitCallback"}
Unlocking == {"signalUnlocking", "waitUnlocking"}

CondTypeOK ==
  /\ word \in Thread \cup {Nobody}
  /\ pc \in [Thread -> LockPc \cup UnlockPc \cup {"idle"}]
  /\ op \in [Thread -> {"lock", "trylock", "unlock", "none"}]
  /\ at \in [Thread -> AtPlaces]

(***************************************************************************)
(* Where a thread can be in the lock's functions, by its place in          *)
(* qp_cond_signal or qp_cond_wait.                                         *)
(***************************************************************************)
CondPlaces ==
  \A t \in Thread :
    /\ at[t] \notin Locking \cup Unlocking => pc[t] = "idle"
    /\ at[t] \in Locking => pc[t] \in LockPc \cup {"idle"}
    /\ at[t] \in Locking /\ pc[t] # "idle" => op[t] = "lock"
    /\ at[t] \in Unlocking => pc[t] \in UnlockPc \cup {"idle"}

(***************************************************************************)
(* From the return of qp_lock_lock, whatever it returned, to the end of    *)
(* the unlock a thread owns the word, except where it sleeps.              *)
(***************************************************************************)
CondWord ==
  \A t \in Thread :
    /\ at[t] \in Callback => word = t
    /\ at[t] \in Locking /\ pc[t] = "idle" => word = t
    /\ at[t] \in Unlocking /\ pc[t] # "idle" => word = t
    /\ pc[t] \in Inside => word = t

PidUnique(t) == \A v \in Thread \ {t} : Pid[v] # Pid[t]

(***************************************************************************)
(* The record may be stale, but it names a thread that owns the word or    *)
(* sleeps: none that could take it for a nested acquisition.               *)
(***************************************************************************)
CondRecord ==
  \A t \in Thread :
    /\ \/ TidUnique(t) /\ hold_thread = Tid[t]
       \/ PidUnique(t) /\ hold_process = Pid[t]
       => word = t \/ at[t] \in {"asleep", "woken"}
    /\ pc[t] = "readProcess" /\ TidUnique(t) => word = t
    /\ pc[t] \in {"clearProcess", "release"} => hold_thread = Nobody
    /\ pc[t] = "release" => hold_process = Nobody

CondInv == CondTypeOK /\ CondPlaces /\ CondWord /\ CondRecord

(***************************************************************************)
(* A condition nobody uses satisfies the invariant.                        *)
(***************************************************************************)
LEMMA CondInitInv == CInit => CondInv
  BY ThreadAssumption
  DEF CInit, Init, CondInv, CondTypeOK, CondPlaces, CondWord, CondRecord, AtPlaces, Locking,
      Callback, Unlocking, Inside

(***************************************************************************)
(* A nested acquisition is granted to the owner of the word only.          *)
(***************************************************************************)
LEMMA CondNestedIsOwner ==
  ASSUME OwnerIdentifiable, CondInv, NEW t \in Thread,
         pc[t] = "readProcess", hold_process = Pid[t]
  PROVE  word = t
<1>1. CASE TidUnique(t)
  BY <1>1 DEF CondInv, CondRecord
<1>2. CASE ~TidUnique(t)
  <2>1. PidUnique(t)
    BY <1>2 DEF OwnerIdentifiable, TidUnique, PidUnique
  <2>2. at[t] \notin {"asleep", "woken"}
    BY DEF CondInv, CondTypeOK, CondPlaces, Locking, Unlocking
  <2> QED
    BY <2>1, <2>2 DEF CondInv, CondRecord
<1> QED BY <1>1, <1>2

(***************************************************************************)
(* Every step of the lock inside qp_cond_signal and qp_cond_wait keeps the *)
(* invariant of the condition.                                             *)
(***************************************************************************)
LEMMA CondLockStepInv ==
  ASSUME OwnerIdentifiable, CondInv, NEW t \in Thread, LockStep(t)
  PROVE  CondInv'
<1> USE ThreadAssumption, CondAssumption
    DEF CondInv, CondTypeOK, CondPlaces, CondWord, CondRecord, Locking, Callback, Unlocking,
        Inside, LockPc, UnlockPc, Goto, Return, TidUnique, PidUnique
<1>0. UNCHANGED at
  BY DEF LockStep, condVars
<1>1. CASE ReadCounter(t)
  BY <1>0, <1>1 DEF ReadCounter
<1>2. CASE ReadThread(t)
  BY <1>0, <1>2 DEF ReadThread
<1>3. CASE ReadProcess(t)
  BY <1>0, <1>3, CondNestedIsOwner DEF ReadProcess
<1>4. CASE Acquire(t)
  BY <1>0, <1>4 DEF Acquire
<1>5. CASE AcquireFails(t)
  BY <1>0, <1>5 DEF AcquireFails
<1>6. CASE SetThread(t)
  BY <1>0, <1>6 DEF SetThread
<1>7. CASE SetProcess(t)
  BY <1>0, <1>7 DEF SetProcess
<1>8. CASE Increment(t)
  BY <1>0, <1>8 DEF Increment
<1>9. CASE CheckCounter(t) \/ CheckThread(t) \/ CheckProcess(t)
  BY <1>0, <1>9 DEF CheckCounter, CheckThread, CheckProcess, CheckOwner
<1>10. CASE Decrement(t)
  BY <1>0, <1>10 DEF Decrement
<1>11. CASE RereadCounter(t)
  BY <1>0, <1>11 DEF RereadCounter
<1>12. CASE ClearThread(t)
  BY <1>0, <1>12 DEF ClearThread
<1>13. CASE ClearProcess(t)
  BY <1>0, <1>13 DEF ClearProcess
<1>14. CASE Release(t)
  BY <1>0, <1>14 DEF Release, CanRelease
<1> QED
  BY <1>1, <1>2, <1>3, <1>4, <1>5, <1>6, <1>7, <1>8, <1>9, <1>10, <1>11, <1>12, <1>13, <1>14
  DEF LockStep, Step, Lock, Unlock

(***************************************************************************)
(* Every step of the condition keeps its invariant.                        *)
(***************************************************************************)
LEMMA CondStepInv ==
  ASSUME OwnerIdentifiable, CondInv, CNext
  PROVE  CondInv'
<1> USE ThreadAssumption
    DEF CondInv, CondTypeOK, CondPlaces, CondWord, CondRecord, AtPlaces, Locking, Callback,
        Unlocking, Inside, LockPc, UnlockPc, Goto, TidUnique, PidUnique, Arrive, vars
<1>1. ASSUME NEW t \in Thread, LockStep(t)
      PROVE  CondInv'
  BY <1>1, CondLockStepInv
<1>2. ASSUME NEW t \in Thread, SignalLock(t) \/ WaitLock(t)
      PROVE  CondInv'
  BY <1>2 DEF SignalLock, WaitLock, Enter, Call
<1>3. ASSUME NEW t \in Thread, SignalReady(t) \/ WaitReady(t) \/ WaitReturn(t)
      PROVE  CondInv'
  BY <1>3 DEF SignalReady, WaitReady, WaitReturn
<1>4. ASSUME NEW t \in Thread, SignalUnlock(t) \/ WaitUnlock(t)
      PROVE  CondInv'
  BY <1>4 DEF SignalUnlock, WaitUnlock, Call
<1>5. ASSUME NEW t \in Thread, SignalWake(t)
      PROVE  CondInv'
  BY <1>5 DEF SignalWake
<1>6. ASSUME NEW t \in Thread, WaitSleep(t)
      PROVE  CondInv'
  BY <1>6 DEF WaitSleep
<1>7. ASSUME NEW t \in Thread, SpuriousWake(t)
      PROVE  CondInv'
  BY <1>7 DEF SpuriousWake
<1>8. ASSUME NEW t \in Thread, WaitReacquire(t)
      PROVE  CondInv'
  BY <1>8 DEF WaitReacquire
<1> QED
  BY <1>1, <1>2, <1>3, <1>4, <1>5, <1>6, <1>7, <1>8, CondAssumption DEF CNext, Signal, Wait

(***************************************************************************)
(* The invariant of the condition holds in every reachable state.  In      *)
(* particular a thread that calls pthread_cond_wait owns the mutex.        *)
(***************************************************************************)
THEOREM CondInvariant ==
  ASSUME OwnerIdentifiable
  PROVE  IpcSpec => []CondInv
<1>1. IpcInit => CondInv
  BY CondInitInv DEF IpcInit
<1>2. CondInv /\ [IpcNext]_ipcVars => CondInv'
  <2>1. CondInv /\ UNCHANGED cvars => CondInv'
    BY DEF cvars, CondInv, CondTypeOK, CondPlaces, CondWord, CondRecord, TidUnique, PidUnique
  <2> QED
    BY <2>1, CondStepInv DEF IpcNext, OnCond, OnRwlock, OnSem, OnShm, ipcVars
<1> QED
  BY <1>1, <1>2, PTL DEF IpcSpec

(***************************************************************************)
(* No two callbacks of qp_cond_signal and qp_cond_wait ever run at the     *)
(* same time, however stale the ownership record of cond_lock is.          *)
(***************************************************************************)
THEOREM CondCallbacksAtomic ==
  ASSUME OwnerIdentifiable
  PROVE  IpcSpec => []CallbacksAtomic
<1>1. CondInv => CallbacksAtomic
  BY DEF CondInv, CondWord, Callback, CallbacksAtomic
<1> QED
  BY <1>1, CondInvariant, PTL

-----------------------------------------------------------------------------
(* Shared memory; its processes are the members of Thread *)

Object == {<<"object", n>> : n \in 1..MaxObjects}

ShmRecord == [addr : Object \cup {<<"anonymous", p>> : p \in Thread} \cup {Null},
              named : BOOLEAN, fd : -1..MaxFd, is_inited : BOOLEAN, is_alloced : BOOLEAN]

ShmTypeOK ==
  /\ objects \in 0..MaxObjects
  /\ linked \in Object \cup {Null}
  /\ fds \in [Thread -> SUBSET ((0..MaxFd) \X Object)]
  /\ shm \in [Thread -> ShmRecord]
  /\ shmpc \in [Thread -> {"idle", "create", "close", "unlink"}]
  /\ stale \subseteq Thread
  /\ failed \in [Thread -> Nat]

\* The process has a descriptor it has not closed.
HasFd(p) == shm[p].fd > -1 /\ shmpc[p] # "unlink"

(***************************************************************************)
(* A process's structure by its place in qp_shm_init or qp_shm_destroy.    *)
(***************************************************************************)
ShmPlace(p) ==
  /\ shmpc[p] = "idle" /\ ~shm[p].is_inited => shm[p].fd = -1 /\ ~shm[p].named
  /\ shmpc[p] = "create" => ~shm[p].is_inited /\ ~shm[p].named
  /\ shmpc[p] = "idle" /\ shm[p].is_inited =>
       /\ shm[p].named <=> shm[p].fd > -1
       /\ shm[p].addr \in IF shm[p].named THEN Object ELSE {<<"anonymous", p>>}
  /\ shmpc[p] \in {"close", "unlink"} => shm[p].is_inited /\ shm[p].fd > -1

(***************************************************************************)
(* A descriptor number stands for one object; the one of a structure is    *)
(* open, and for the object the name leads to, unless that was unlinked.   *)
(***************************************************************************)
ShmObject(p) ==
  /\ \A d, e \in fds[p] : d[1] = e[1] => d = e
  /\ HasFd(p) => \E d \in fds[p] : d[1] = shm[p].fd /\ (p \notin stale => d[2] = linked)
  /\ shm[p].fd > -1 /\ p \notin stale => linked # Null
  /\ shmpc[p] = "idle" /\ shm[p].named /\ p \notin stale => shm[p].addr = linked

ShmCount(p) ==
  /\ IsFiniteSet(fds[p])
  /\ Cardinality(fds[p]) = failed[p] + (IF HasFd(p) THEN 1 ELSE 0)

ShmInv ==
  /\ ShmTypeOK
  /\ \A p \in Thread : ShmPlace(p) /\ ShmObject(p) /\ ShmCount(p)

(***************************************************************************)
(* A set of natural numbers that is not empty has a least element.         *)
(***************************************************************************)
LEMMA LeastNatural ==
  ASSUME NEW S \in SUBSET Nat, S # {}
  PROVE  \E d \in S : \A e \in S : d <= e
<1> DEFINE R == OpToRel(<, Nat)
<1>1. IsWellFoundedOn(R, Nat)
  BY NatLessThanWellFounded
<1>2. PICK d \in S : \A e \in S : ~(<<e, d>> \in R)
  <2> HIDE DEF R
  <2> QED
    BY <1>1, WFMin
<1>3. \A e \in S : ~(e < d)
  BY <1>2 DEF OpToRel
<1> QED
  BY <1>3

(***************************************************************************)
(* shm_open returns a descriptor that was not open.                        *)
(***************************************************************************)
LEMMA LowestFdIsFree ==
  ASSUME ShmInv, NEW p \in Thread, Shm!FreeFds(p) # {}
  PROVE  Shm!LowestFd(p) \in 0..MaxFd /\ \A d \in fds[p] : d[1] # Shm!LowestFd(p)
<1>1. Shm!FreeFds(p) \in SUBSET Nat
  BY IpcAssumption DEF Shm!FreeFds
<1>2. \E d \in Shm!FreeFds(p) : \A e \in Shm!FreeFds(p) : d <= e
  BY <1>1, LeastNatural
<1>3. Shm!LowestFd(p) \in Shm!FreeFds(p)
  BY <1>2 DEF Shm!LowestFd
<1> QED
  BY <1>3 DEF Shm!FreeFds

(***************************************************************************)
(* Nobody is attached in the beginning.                                    *)
(***************************************************************************)
LEMMA ShmInitInv == Shm!Init => ShmInv
<1> SUFFICES ASSUME Shm!Init
             PROVE  ShmInv
  OBVIOUS
<1> USE DEF Shm!Init, Shm!NoShm, Shm!QP_IPC_INVALID
<1>1. ShmTypeOK
  <2>1. objects \in 0..MaxObjects /\ failed \in [Thread -> Nat]
    BY IpcAssumption
  <2>2. Shm!NoShm \in ShmRecord
    BY IpcAssumption DEF ShmRecord
  <2> QED
    BY <2>1, <2>2 DEF ShmTypeOK
<1>2. ASSUME NEW p \in Thread
      PROVE  ShmPlace(p) /\ ShmObject(p)
  BY DEF ShmPlace, ShmObject, HasFd
<1>3. ASSUME NEW p \in Thread
      PROVE  ShmCount(p)
  <2>1. IsFiniteSet({}) /\ Cardinality({}) = 0
    BY FS_EmptySet
  <2>2. fds[p] = {} /\ failed[p] = 0 /\ ~HasFd(p)
    BY DEF HasFd
  <2> HIDE DEF Shm!Init
  <2> QED
    BY <2>1, <2>2 DEF ShmCount
<1> QED
  BY <1>1, <1>2, <1>3 DEF ShmInv

(***************************************************************************)
(* It is enough to look at the process that makes the step, if those that  *)
(* are attached and not stale afterwards find the name unchanged.          *)
(***************************************************************************)
LEMMA ShmFrame ==
  ASSUME ShmInv, NEW p \in Thread, ShmTypeOK',
         \A q \in Thread \ {p} :
           /\ fds'[q] = fds[q] /\ shm'[q] = shm[q]
           /\ shmpc'[q] = shmpc[q] /\ failed'[q] = failed[q]
           /\ shm[q].fd > -1 /\ q \notin stale' => q \notin stale /\ linked' = linked,
         ShmPlace(p)', ShmObject(p)', ShmCount(p)'
  PROVE  ShmInv'
<1>1. ASSUME NEW q \in Thread, q # p
      PROVE  ShmPlace(q)' /\ ShmObject(q)' /\ ShmCount(q)'
  <2>1. ShmPlace(q) /\ ShmObject(q) /\ ShmCount(q)
    BY DEF ShmInv
  <2>2. ShmPlace(q)'
    BY <1>1, <2>1 DEF ShmPlace, Object
  <2>3. HasFd(q)' <=> HasFd(q)
    BY <1>1 DEF HasFd
  <2>4. ShmObject(q)'
    BY <1>1, <2>1, <2>3 DEF ShmObject, ShmPlace, HasFd
  <2>5. ShmCount(q)'
    BY <1>1, <2>1, <2>3 DEF ShmCount
  <2> QED
    BY <2>2, <2>4, <2>5
<1> QED
  BY <1>1 DEF ShmInv

(***************************************************************************)
(* qp_shm_init without a name.                                             *)
(***************************************************************************)
LEMMA ShmAnonymousInv ==
  ASSUME ShmInv, NEW p \in Thread, Shm!InitAnonymous(p)
  PROVE  ShmInv'
<1> USE DEF Shm!InitAnonymous, Shm!At, Shm!NoShm, Shm!QP_IPC_INVALID
<1>1. ShmTypeOK'
  <2>1. Shm!NoShm \in ShmRecord'
    BY IpcAssumption DEF ShmRecord, Object
  <2> QED
    BY <2>1 DEF ShmInv, ShmTypeOK, ShmRecord
<1>2. shm'[p] = Shm!NoShm /\ shmpc'[p] = "create" /\ shm[p].fd = -1
  BY DEF ShmInv, ShmTypeOK, ShmPlace
<1>3. ShmPlace(p)'
  BY <1>2 DEF ShmPlace
<1>4. ~HasFd(p) /\ ~HasFd(p)'
  BY <1>2 DEF HasFd
<1>5. ShmObject(p)'
  BY <1>2, <1>4 DEF ShmObject, ShmInv
<1>6. ShmCount(p)'
  BY <1>4 DEF ShmCount, ShmInv
<1> QED
  BY <1>1, <1>3, <1>5, <1>6, ShmFrame DEF ShmInv, ShmTypeOK

(***************************************************************************)
(* shm_open: the descriptor is new, and whoever is attached and not stale  *)
(* keeps the name.                                                         *)
(***************************************************************************)
LEMMA ShmOpenInv ==
  ASSUME ShmInv, NEW p \in Thread, Shm!ShmOpen(p)
  PROVE  ShmInv'
<1> DEFINE f == Shm!LowestFd(p)
<1>1. f \in 0..MaxFd /\ \A d \in fds[p] : d[1] # f
  BY LowestFdIsFree DEF Shm!ShmOpen
<1>2. linked' \in Object /\ objects' \in 0..MaxObjects /\ linked' # Null
  BY IpcAssumption DEF Shm!ShmOpen, ShmInv, ShmTypeOK, Object
<1> HIDE DEF f
<1>3. /\ fds' = [fds EXCEPT ![p] = fds[p] \cup {<<f, linked'>>}]
      /\ shm' = [shm EXCEPT ![p] = [Shm!NoShm EXCEPT !.fd = f]]
      /\ shmpc' = [shmpc EXCEPT ![p] = "create"]
      /\ stale' = stale \ {p} /\ UNCHANGED failed
      /\ linked = Null \/ linked' = linked
  BY DEF Shm!ShmOpen, Shm!At, f, ShmInv, ShmTypeOK
<1>4. Shm!NoShm \in ShmRecord /\ ~Shm!NoShm.is_inited /\ ~Shm!NoShm.named
  BY IpcAssumption DEF Shm!NoShm, Shm!QP_IPC_INVALID, ShmRecord
<1>5. /\ fds'[p] = fds[p] \cup {<<f, linked'>>} /\ shmpc'[p] = "create"
      /\ shm'[p].fd = f /\ ~shm'[p].is_inited /\ ~shm'[p].named
  BY <1>3, <1>4 DEF ShmInv, ShmTypeOK, ShmRecord
<1>6. ShmTypeOK'
  <2>1. [Shm!NoShm EXCEPT !.fd = f] \in ShmRecord
    BY <1>1, <1>4 DEF ShmRecord
  <2>2. <<f, linked'>> \in (0..MaxFd) \X Object
    BY <1>1, <1>2
  <2> QED
    BY <1>2, <1>3, <2>1, <2>2 DEF ShmInv, ShmTypeOK, ShmRecord, Object
<1>7. ~HasFd(p) /\ HasFd(p)'
  <2>1. shm[p].fd = -1
    BY DEF Shm!ShmOpen, Shm!At, ShmInv, ShmPlace
  <2> QED
    BY <1>1, <1>5, <2>1 DEF HasFd
<1>8. ShmPlace(p)'
  BY <1>5 DEF ShmPlace
<1>9. ShmObject(p)'
  <2>1. \A d, e \in fds'[p] : d[1] = e[1] => d = e
    BY <1>1, <1>5 DEF ShmInv, ShmObject
  <2>2. <<f, linked'>>[1] = shm'[p].fd /\ <<f, linked'>>[2] = linked' /\ <<f, linked'>> \in fds'[p]
    BY <1>5
  <2> QED
    BY <1>2, <1>5, <2>1, <2>2 DEF ShmObject
<1>10. ShmCount(p)'
  <2>1. IsFiniteSet(fds[p]) /\ Cardinality(fds[p]) = failed[p] /\ failed[p] \in Nat
    BY <1>7 DEF ShmInv, ShmCount, ShmTypeOK
  <2>2. <<f, linked'>> \notin fds[p]
    BY <1>1
  <2>3. /\ IsFiniteSet(fds[p] \cup {<<f, linked'>>})
        /\ Cardinality(fds[p] \cup {<<f, linked'>>}) = Cardinality(fds[p]) + 1
    BY <2>1, <2>2, FS_AddElement
  <2>4. IsFiniteSet(fds'[p]) /\ Cardinality(fds'[p]) = failed'[p] + 1
    BY <1>3, <1>5, <2>1, <2>3
  <2> QED
    BY <1>7, <2>4 DEF ShmCount
<1>11. ASSUME NEW q \in Thread \ {p}, shm[q].fd > -1, q \notin stale'
       PROVE  q \notin stale /\ linked' = linked
  BY <1>3, <1>11 DEF ShmInv, ShmObject
<1> QED
  BY <1>3, <1>6, <1>8, <1>9, <1>10, <1>11, ShmFrame DEF ShmInv, ShmTypeOK

(***************************************************************************)
(* qp_shm_create maps the object the descriptor stands for.                *)
(***************************************************************************)
LEMMA ShmCreateInv ==
  ASSUME ShmInv, NEW p \in Thread, NEW alloc \in BOOLEAN, Shm!qp_shm_create(p, alloc)
  PROVE  ShmInv'
<1> DEFINE r == [addr |-> Shm!Mapped(p), named |-> shm[p].fd > -1, fd |-> shm[p].fd,
                 is_inited |-> TRUE, is_alloced |-> alloc]
<1>1. /\ shmpc[p] = "create" /\ shmpc' = [shmpc EXCEPT ![p] = "idle"]
      /\ shm' = [shm EXCEPT ![p] = r]
      /\ UNCHANGED <<linked, objects, fds, stale, failed>>
  BY DEF Shm!qp_shm_create, Shm!At, Shm!QP_IPC_INVALID, ShmInv, ShmTypeOK
<1>2. shm[p].fd \in -1..MaxFd
  BY DEF ShmInv, ShmTypeOK, ShmRecord
<1>3. ASSUME shm[p].fd > -1
      PROVE  Shm!Mapped(p) \in Object /\ (p \notin stale => Shm!Mapped(p) = linked)
  <2>1. HasFd(p)
    BY <1>1, <1>3 DEF HasFd
  <2>2. PICK d \in fds[p] : d[1] = shm[p].fd /\ (p \notin stale => d[2] = linked)
    BY <2>1 DEF ShmInv, ShmObject
  <2>3. \A e \in fds[p] : e[1] = shm[p].fd => e = d
    BY <2>2 DEF ShmInv, ShmObject
  <2>4. Shm!Mapped(p) = d[2]
    BY <1>3, <2>2, <2>3 DEF Shm!Mapped, Shm!ObjectOf, Shm!QP_IPC_INVALID
  <2>5. d[2] \in Object
    BY <2>2 DEF ShmInv, ShmTypeOK
  <2> QED
    BY <2>2, <2>4, <2>5
<1>4. ~(shm[p].fd > -1) => Shm!Mapped(p) = <<"anonymous", p>>
  BY DEF Shm!Mapped, Shm!QP_IPC_INVALID
<1>5. Shm!Mapped(p) \in Object \cup {<<"anonymous", q>> : q \in Thread}
  BY <1>3, <1>4
<1> HIDE DEF r
<1>6. /\ r \in ShmRecord /\ r.fd = shm[p].fd /\ r.is_inited /\ r.named = (shm[p].fd > -1)
      /\ r.addr = Shm!Mapped(p)
  BY <1>2, <1>5 DEF r, ShmRecord
<1>7. shm'[p] = r /\ shmpc'[p] = "idle"
  BY <1>1 DEF ShmInv, ShmTypeOK
<1>8. ShmTypeOK'
  BY <1>1, <1>6 DEF ShmInv, ShmTypeOK, ShmRecord, Object
<1>9. HasFd(p)' <=> HasFd(p)
  BY <1>1, <1>6, <1>7 DEF HasFd
<1>10. ShmPlace(p)'
  BY <1>2, <1>3, <1>4, <1>6, <1>7 DEF ShmPlace, Object
<1>11. ShmObject(p)'
  BY <1>1, <1>3, <1>6, <1>7, <1>9 DEF ShmInv, ShmObject
<1>12. ShmCount(p)'
  BY <1>1, <1>9 DEF ShmInv, ShmCount
<1> QED
  BY <1>1, <1>8, <1>10, <1>11, <1>12, ShmFrame DEF ShmInv, ShmTypeOK

(***************************************************************************)
(* A failed qp_shm_create leaves the descriptor open and takes the name    *)
(* away: everybody attached under it becomes stale.                        *)
(***************************************************************************)
LEMMA ShmCreateFailsInv ==
  ASSUME ShmInv, NEW p \in Thread, Shm!CreateFails(p)
  PROVE  ShmInv'
<1>1. /\ shmpc[p] = "create" /\ shmpc' = [shmpc EXCEPT ![p] = "idle"]
      /\ shm' = [shm EXCEPT ![p] = Shm!NoShm]
      /\ UNCHANGED <<objects, fds>>
  BY DEF Shm!CreateFails, Shm!At
<1>2. \/ /\ shm[p].fd > -1 /\ linked' = Null
         /\ stale' = (stale \cup {q \in Thread : shm[q].fd > -1}) \ {p}
         /\ failed' = [failed EXCEPT ![p] = failed[p] + 1]
      \/ ~(shm[p].fd > -1) /\ UNCHANGED <<linked, stale, failed>>
  BY DEF Shm!CreateFails, Shm!Unlink, Shm!QP_IPC_INVALID, ShmInv, ShmTypeOK
<1>3. /\ Shm!NoShm \in ShmRecord /\ Shm!NoShm.fd = -1
      /\ ~Shm!NoShm.is_inited /\ ~Shm!NoShm.named
  BY IpcAssumption DEF Shm!NoShm, Shm!QP_IPC_INVALID, ShmRecord
<1>4. shm'[p] = Shm!NoShm /\ shmpc'[p] = "idle"
  BY <1>1 DEF ShmInv, ShmTypeOK
<1>5. ShmTypeOK'
  BY <1>1, <1>2, <1>3 DEF ShmInv, ShmTypeOK, ShmRecord, Object
<1>6. HasFd(p) <=> shm[p].fd > -1
  BY <1>1 DEF HasFd
<1>7. ~HasFd(p)'
  BY <1>3, <1>4 DEF HasFd
<1>8. ShmPlace(p)'
  BY <1>3, <1>4 DEF ShmPlace
<1>9. ShmObject(p)'
  BY <1>1, <1>3, <1>4, <1>7 DEF ShmInv, ShmObject
<1>10. ShmCount(p)'
  <2>1. IsFiniteSet(fds[p]) /\ Cardinality(fds[p]) = failed[p] + (IF HasFd(p) THEN 1 ELSE 0)
    BY DEF ShmInv, ShmCount
  <2>2. failed'[p] = failed[p] + (IF HasFd(p) THEN 1 ELSE 0) /\ failed'[p] \in Nat
    BY <1>2, <1>6 DEF ShmInv, ShmTypeOK
  <2> QED
    BY <1>1, <1>7, <2>1, <2>2 DEF ShmCount
<1> QED
  BY <1>1, <1>2, <1>5, <1>8, <1>9, <1>10, ShmFrame DEF ShmInv, ShmTypeOK

(***************************************************************************)
(* munmap: named memory goes on to close, anonymous memory is done.        *)
(***************************************************************************)
LEMMA ShmMunmapInv ==
  ASSUME ShmInv, NEW p \in Thread, Shm!Munmap(p)
  PROVE  ShmInv'
<1> DEFINE r == IF shm[p].named THEN [shm[p] EXCEPT !.addr = Null] ELSE Shm!NoShm
<1>1. /\ shm[p].is_inited /\ shmpc[p] = "idle"
      /\ shmpc' = [shmpc EXCEPT ![p] = IF shm[p].named THEN "close" ELSE "idle"]
      /\ shm' = [shm EXCEPT ![p] = r]
      /\ UNCHANGED <<linked, objects, fds, stale, failed>>
  BY DEF Shm!Munmap, Shm!At, ShmInv, ShmTypeOK
<1>2. /\ Shm!NoShm \in ShmRecord /\ Shm!NoShm.fd = -1
      /\ ~Shm!NoShm.is_inited /\ ~Shm!NoShm.named
  BY IpcAssumption DEF Shm!NoShm, Shm!QP_IPC_INVALID, ShmRecord
<1>3. shm[p] \in ShmRecord /\ (shm[p].named <=> shm[p].fd > -1)
  BY <1>1 DEF ShmInv, ShmTypeOK, ShmPlace
<1> HIDE DEF r
<1>4. /\ r \in ShmRecord
      /\ shm[p].named => r.fd = shm[p].fd /\ r.is_inited
      /\ ~shm[p].named => r.fd = -1 /\ ~r.is_inited /\ ~r.named
  BY <1>1, <1>2, <1>3 DEF r, ShmRecord
<1>5. shm'[p] = r /\ shmpc'[p] = IF shm[p].named THEN "close" ELSE "idle"
  BY <1>1 DEF ShmInv, ShmTypeOK
<1>6. ShmTypeOK'
  BY <1>1, <1>4 DEF ShmInv, ShmTypeOK, ShmRecord, Object
<1>7. HasFd(p)' <=> HasFd(p)
  BY <1>1, <1>3, <1>4, <1>5 DEF HasFd
<1>8. ShmPlace(p)'
  BY <1>3, <1>4, <1>5 DEF ShmPlace
<1>9. ShmObject(p)'
  <2>1. CASE shm[p].named
    BY <1>1, <1>4, <1>5, <1>7, <2>1 DEF ShmInv, ShmObject
  <2>2. CASE ~shm[p].named
    <3>1. ~HasFd(p)'
      BY <1>4, <1>5, <2>2 DEF HasFd
    <3> QED
      BY <1>1, <1>4, <1>5, <2>2, <3>1 DEF ShmInv, ShmObject
  <2> QED BY <2>1, <2>2
<1>10. ShmCount(p)'
  BY <1>1, <1>7 DEF ShmInv, ShmCount
<1> QED
  BY <1>1, <1>6, <1>8, <1>9, <1>10, ShmFrame DEF ShmInv, ShmTypeOK

(***************************************************************************)
(* close takes exactly the structure's descriptor away.                    *)
(***************************************************************************)
LEMMA ShmCloseInv ==
  ASSUME ShmInv, NEW p \in Thread, Shm!Close(p)
  PROVE  ShmInv'
<1>1. /\ shmpc[p] = "close" /\ shmpc' = [shmpc EXCEPT ![p] = "unlink"]
      /\ fds' = [fds EXCEPT ![p] = {d \in fds[p] : d[1] # shm[p].fd}]
      /\ UNCHANGED <<linked, objects, shm, stale, failed>>
  BY DEF Shm!Close, Shm!At, ShmInv, ShmTypeOK
<1>2. HasFd(p) /\ ~HasFd(p)'
  BY <1>1 DEF HasFd, ShmInv, ShmTypeOK, ShmPlace
<1>3. PICK d \in fds[p] : d[1] = shm[p].fd
  BY <1>2 DEF ShmInv, ShmObject
<1>4. fds'[p] = fds[p] \ {d}
  BY <1>1, <1>3 DEF ShmInv, ShmTypeOK, ShmObject
<1>5. ShmTypeOK'
  BY <1>1 DEF ShmInv, ShmTypeOK, ShmRecord, Object
<1>6. ShmPlace(p)'
  BY <1>1 DEF ShmInv, ShmTypeOK, ShmPlace
<1>7. ShmObject(p)'
  BY <1>1, <1>2, <1>4 DEF ShmInv, ShmTypeOK, ShmObject
<1>8. ShmCount(p)'
  <2>1. /\ IsFiniteSet(fds[p]) /\ Cardinality(fds[p]) = failed[p] + 1
        /\ failed[p] \in Nat
    BY <1>2 DEF ShmInv, ShmCount, ShmTypeOK
  <2>2. IsFiniteSet(fds[p] \ {d}) /\ Cardinality(fds[p] \ {d}) = Cardinality(fds[p]) - 1
    BY <2>1, FS_RemoveElement
  <2>3. failed'[p] = failed[p]
    BY <1>1
  <2>4. IsFiniteSet(fds'[p]) /\ Cardinality(fds'[p]) = failed[p]
    BY <1>4, <2>1, <2>2
  <2> QED
    BY <1>2, <2>1, <2>3, <2>4 DEF ShmCount
<1> QED
  BY <1>1, <1>5, <1>6, <1>7, <1>8, ShmFrame DEF ShmInv, ShmTypeOK

(***************************************************************************)
(* shm_unlink makes everybody else who is attached stale.                  *)
(***************************************************************************)
LEMMA ShmUnlinkInv ==
  ASSUME ShmInv, NEW p \in Thread, Shm!ShmUnlink(p)
  PROVE  ShmInv'
<1>1. /\ shmpc[p] = "unlink" /\ shmpc' = [shmpc EXCEPT ![p] = "idle"]
      /\ shm' = [shm EXCEPT ![p] = Shm!NoShm]
      /\ linked' = Null /\ stale' = (stale \cup {q \in Thread : shm[q].fd > -1}) \ {p}
      /\ UNCHANGED <<objects, fds, failed>>
  BY DEF Shm!ShmUnlink, Shm!At, Shm!Unlink, Shm!QP_IPC_INVALID
<1>2. /\ Shm!NoShm \in ShmRecord /\ Shm!NoShm.fd = -1
      /\ ~Shm!NoShm.is_inited /\ ~Shm!NoShm.named
  BY IpcAssumption DEF Shm!NoShm, Shm!QP_IPC_INVALID, ShmRecord
<1>3. shm'[p] = Shm!NoShm /\ shmpc'[p] = "idle"
  BY <1>1 DEF ShmInv, ShmTypeOK
<1>4. ShmTypeOK'
  BY <1>1, <1>2 DEF ShmInv, ShmTypeOK, ShmRecord, Object
<1>5. ~HasFd(p) /\ ~HasFd(p)'
  BY <1>1, <1>2, <1>3 DEF HasFd
<1>6. ShmPlace(p)'
  BY <1>2, <1>3 DEF ShmPlace
<1>7. ShmObject(p)'
  BY <1>1, <1>2, <1>3, <1>5 DEF ShmInv, ShmObject
<1>8. ShmCount(p)'
  BY <1>1, <1>5 DEF ShmInv, ShmCount
<1> QED
  BY <1>1, <1>4, <1>6, <1>7, <1>8, ShmFrame DEF ShmInv, ShmTypeOK

(***************************************************************************)
(* The invariant of the shared memory holds in every reachable state.      *)
(***************************************************************************)
THEOREM ShmInvariant == IpcSpec => []ShmInv
<1>1. IpcInit => ShmInv
  BY ShmInitInv DEF IpcInit
<1>2. ASSUME ShmInv, [IpcNext]_ipcVars
      PROVE  ShmInv'
  <2>1. CASE UNCHANGED shmVars
    BY <1>2, <2>1 DEF shmVars, ShmInv, ShmTypeOK, ShmRecord, Object, ShmPlace, ShmObject,
       ShmCount, HasFd
  <2>2. CASE Shm!Next
    BY <1>2, <2>2, ShmAnonymousInv, ShmOpenInv, ShmCreateInv, ShmCreateFailsInv,
       ShmMunmapInv, ShmCloseInv, ShmUnlinkInv DEF Shm!Next
  <2> QED
    BY <1>2, <2>1, <2>2 DEF IpcNext, OnCond, OnRwlock, OnSem, OnShm, ipcVars
<1> QED
  BY <1>1, <1>2, PTL DEF IpcSpec

(***************************************************************************)
(* Processes attached under one name see the same memory as long as the    *)
(* name is not unlinked, and anonymous memory is nobody else's.            *)
(***************************************************************************)
THEOREM ShmSameNameSameMemory == IpcSpec => []SameNameSameMemory
<1>1. ASSUME ShmInv
      PROVE  SameNameSameMemory
  <2>1. ASSUME NEW p \in Thread, Shm!qp_shm_start(p) # Null
        PROVE  /\ shmpc[p] = "idle" /\ shm[p].is_inited
               /\ Shm!qp_shm_start(p) = shm[p].addr
               /\ shm[p].named /\ p \notin stale => shm[p].addr = linked
               /\ shm[p].named => shm[p].addr \in Object
               /\ ~shm[p].named => shm[p].addr = <<"anonymous", p>>
    BY <1>1, <2>1 DEF Shm!qp_shm_start, ShmInv, ShmPlace, ShmObject
  <2>2. ASSUME NEW p \in Thread
        PROVE  <<"anonymous", p>> \notin Object
    BY DEF Object
  <2> QED
    BY <2>1, <2>2 DEF SameNameSameMemory, Shm!SameNameSameMemory
<1> QED
  BY <1>1, ShmInvariant, PTL

(***************************************************************************)
(* Between its calls a process has open the descriptor of the memory it is *)
(* attached to and the ones that failed attempts left, and no other.       *)
(***************************************************************************)
THEOREM ShmDescriptorsAccounted == IpcSpec => []DescriptorsAccounted
<1>1. ASSUME ShmInv, NEW p \in Thread, shmpc[p] = "idle"
      PROVE  HasFd(p) <=> shm[p].named
  <2>1. ShmPlace(p) /\ shm[p].named \in BOOLEAN
    BY <1>1 DEF ShmInv, ShmTypeOK, ShmRecord
  <2>2. shm[p].named <=> shm[p].fd > -1
    BY <1>1, <2>1 DEF ShmPlace
  <2> QED
    BY <1>1, <2>2 DEF HasFd
<1>2. ASSUME ShmInv, NEW p \in Thread, shmpc[p] = "idle"
      PROVE  Cardinality(fds[p]) = failed[p] + (IF shm[p].named THEN 1 ELSE 0)
  BY <1>1, <1>2 DEF ShmInv, ShmCount
<1>3. ASSUME ShmInv
      PROVE  DescriptorsAccounted
  <2>1. \A S : Shm!Cardinality(S) = Cardinality(S)
    BY DEF Shm!Cardinality, Cardinality, Shm!IsFiniteSet, IsFiniteSet
  <2> QED
    BY <1>2, <1>3, <2>1 DEF DescriptorsAccounted, Shm!DescriptorsAccounted
<1> QED
  BY <1>3, ShmInvariant, PTL
=============================================================================
