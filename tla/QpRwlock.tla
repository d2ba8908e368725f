------------------------------ MODULE QpRwlock ------------------------------
(***************************************************************************)
(* qp_rwlock_t: a pthread read-write lock with flags, created, used by     *)
(* several threads, destroyed and created again.  qp_rwlock_destroy probes *)
(* the lock for reading and for writing with the same calls the users make *)
(* before it destroys the word; each call is a step here.  Threads use a   *)
(* lock that is initialised, and one hold at a time.                       *)
(***************************************************************************)
EXTENDS Naturals

CONSTANTS
  Thread,
  Nobody

VARIABLES
  readers,    \* rwlock: how often each thread has it for reading
  writer,     \* rwlock: the thread that has it for writing, or Nobody
  rwflags,    \* is_inited, is_alloced, is_shared
  rwheap,     \* the structure lies in memory from qp_alloc
  rwheld,       \* what each thread's own calls took: "none", "rd" or "wr"
  rwpc,       \* how far each thread is in qp_rwlock_destroy
  since       \* for each destroyer: the threads that hold the lock since
              \* before it called qp_rwlock_destroy

rwVars == <<readers, writer, rwflags, rwheap, rwheld, rwpc, since>>

NoFlags == [is_inited |-> FALSE, is_alloced |-> FALSE, is_shared |-> FALSE]

Init ==
  /\ readers = [t \in Thread |-> 0]
  /\ writer = Nobody
  /\ rwflags = NoFlags
  /\ rwheap = FALSE
  /\ rwheld = [t \in Thread |-> "none"]
  /\ rwpc = [t \in Thread |-> "idle"]
  /\ since = [t \in Thread |-> {}]

\* The pthread lock behind the calls: each is refused (a try call with EBUSY)
\* or blocks while its condition is false.
RdFree == writer = Nobody
WrFree == writer = Nobody /\ \A t \in Thread : readers[t] = 0

qp_rwlock_tryrdlock(t) ==
  RdFree /\ readers' = [readers EXCEPT ![t] = @ + 1] /\ UNCHANGED writer

qp_rwlock_trywrlock(t) ==
  WrFree /\ writer' = t /\ UNCHANGED readers

qp_rwlock_unlock(t) ==
  IF writer = t
  THEN writer' = Nobody /\ UNCHANGED readers
  ELSE readers' = [readers EXCEPT ![t] = @ - 1] /\ UNCHANGED writer

-----------------------------------------------------------------------------
(* qp_rwlock_create and qp_rwlock_init *)

\* The memory is cleared or allocated; the allocation, the attribute, its
\* process-shared setting and the lock itself can each fail, and then an
\* allocated structure is freed again.
qp_rwlock_create(alloc, shared) ==
  /\ ~rwflags.is_inited
  /\ \A t \in Thread : rwpc[t] = "idle" /\ rwheld[t] = "none"
  /\ readers' = [t \in Thread |-> 0]
  /\ writer' = Nobody
  /\ \/ /\ rwflags' = [is_inited |-> TRUE, is_alloced |-> alloc, is_shared |-> shared]
        /\ rwheap' = alloc
     \/ /\ rwflags' = NoFlags
        /\ rwheap' = FALSE
  /\ UNCHANGED <<rwheld, rwpc, since>>

-----------------------------------------------------------------------------
(* The calls of a thread: qp_rwlock_rdlock and qp_rwlock_wrlock wait for   *)
(* what the try calls ask; a try call that is refused changes nothing.     *)

User(t) == rwflags.is_inited /\ rwpc[t] = "idle"

Took(t, mode) ==
  /\ User(t)
  /\ rwheld[t] = "none"
  /\ rwheld' = [rwheld EXCEPT ![t] = mode]
  /\ UNCHANGED <<rwflags, rwheap, rwpc, since>>

qp_rwlock_rdlock(t) == Took(t, "rd") /\ qp_rwlock_tryrdlock(t)

qp_rwlock_wrlock(t) == Took(t, "wr") /\ qp_rwlock_trywrlock(t)

Unlock(t) ==
  /\ User(t)
  /\ rwheld[t] # "none"
  /\ qp_rwlock_unlock(t)
  /\ rwheld' = [rwheld EXCEPT ![t] = "none"]
  /\ since' = [d \in Thread |-> since[d] \ {t}]
  /\ UNCHANGED <<rwflags, rwheap, rwpc>>

-----------------------------------------------------------------------------
(* qp_rwlock_destroy *)

At(t, from, to) == rwpc[t] = from /\ rwpc' = [rwpc EXCEPT ![t] = to]

\* The flag is tested.
DestroyCall(t) ==
  /\ rwflags.is_inited
  /\ At(t, "idle", "tryrd")
  /\ since' = [since EXCEPT ![t] = {u \in Thread : rwheld[u] # "none"}]
  /\ UNCHANGED <<readers, writer, rwflags, rwheap, rwheld>>

\* A probe finds EBUSY: QP_ERROR is returned.
DestroyRefused(t) ==
  /\ \/ ~RdFree /\ At(t, "tryrd", "idle")
     \/ ~WrFree /\ At(t, "trywr", "idle")
  /\ UNCHANGED <<readers, writer, rwflags, rwheap, rwheld, since>>

DestroyTryRd(t) ==
  /\ At(t, "tryrd", "gotrd")
  /\ qp_rwlock_tryrdlock(t)
  /\ UNCHANGED <<rwflags, rwheap, rwheld, since>>

\* Mutant: the probe for reading is not given back.
DestroyUnlockRd_Kept(t) ==
  /\ At(t, "gotrd", "trywr")
  /\ UNCHANGED <<readers, writer, rwflags, rwheap, rwheld, since>>

\* qp_rwlock_unlock between the two probes
DestroyUnlockRd(t) ==
  /\ At(t, "gotrd", "trywr")
  /\ qp_rwlock_unlock(t)
  /\ UNCHANGED <<rwflags, rwheap, rwheld, since>>

\* Mutant: only the probe for reading is made.
DestroyTryWr_Skipped(t) ==
  /\ At(t, "trywr", "destroy")
  /\ UNCHANGED <<readers, writer, rwflags, rwheap, rwheld, since>>

DestroyTryWr(t) ==
  /\ At(t, "trywr", "gotwr")
  /\ qp_rwlock_trywrlock(t)
  /\ UNCHANGED <<rwflags, rwheap, rwheld, since>>

\* qp_rwlock_unlock after the second probe
DestroyUnlockWr(t) ==
  /\ At(t, "gotwr", "destroy")
  /\ qp_rwlock_unlock(t)
  /\ UNCHANGED <<rwflags, rwheap, rwheld, since>>

\* pthread_rwlock_destroy fails: QP_ERROR is returned and the lock stays.
DestroyFails(t) ==
  /\ At(t, "destroy", "idle")
  /\ UNCHANGED <<readers, writer, rwflags, rwheap, rwheld, since>>

\* pthread_rwlock_destroy need not look at the lock; the flags are cleared and
\* the structure is freed if it was allocated.
DestroyWord(t) ==
  /\ At(t, "destroy", "idle")
  /\ rwflags' = [rwflags EXCEPT !.is_inited = FALSE, !.is_shared = FALSE]
  /\ rwheap' = (rwheap /\ ~rwflags.is_alloced)
  /\ UNCHANGED <<readers, writer, rwheld, since>>

Destroy(t) ==
  \/ DestroyCall(t) \/ DestroyRefused(t) \/ DestroyTryRd(t) \/ DestroyUnlockRd(t)
  \/ DestroyTryWr(t) \/ DestroyUnlockWr(t) \/ DestroyFails(t) \/ DestroyWord(t)

\* What threads do with a lock another thread has destroyed is undefined:
\* destroying it ends the use of the lock, until it is created again.
Next ==
  \/ \E alloc, shared \in BOOLEAN : qp_rwlock_create(alloc, shared)
  \/ /\ rwflags.is_inited
     /\ \E t \in Thread : \/ qp_rwlock_rdlock(t) \/ qp_rwlock_wrlock(t)
                          \/ Unlock(t) \/ Destroy(t)

-----------------------------------------------------------------------------
(***************************************************************************)
(* The two probes are there "incase the lock still locked": a thread that  *)
(* holds the lock when qp_rwlock_destroy is called, and does not release   *)
(* it, never finds it destroyed, however the probes interleave with other  *)
(* threads' calls.  (A thread that takes the lock after the second probe   *)
(* was given back is not noticed.)                                         *)
(***************************************************************************)
DestroyRespectsHolders ==
  [][\A t \in Thread : rwflags.is_inited /\ ~rwflags'.is_inited /\ rwpc[t] # rwpc'[t]
                          => since[t] = {}]_rwVars

(***************************************************************************)
(* The probes of qp_rwlock_destroy leave no trace: whether it succeeds or  *)
(* is refused, outside of it a thread has of the pthread lock exactly what *)
(* its own calls took.                                                     *)
(***************************************************************************)
ProbesGivenBack ==
  \A t \in Thread :
    rwpc[t] = "idle" =>
      /\ readers[t] = IF rwheld[t] = "rd" THEN 1 ELSE 0
      /\ (writer = t) <=> (rwheld[t] = "wr")
=============================================================================
