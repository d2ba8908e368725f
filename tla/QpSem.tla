-------------------------------- MODULE QpSem --------------------------------
(***************************************************************************)
(* qp_sem_t: a POSIX semaphore with flags.  qp_sem_destroy posts once, in  *)
(* case somebody still waits, and destroys the semaphore in its next step. *)
(***************************************************************************)
EXTENDS Naturals

CONSTANTS
  Thread,
  MaxValue    \* bound: the posts the clients leave untaken

VARIABLES
  value,      \* sem: its count
  waiting,    \* the threads blocked in qp_sem_wait
  semflags,   \* is_inited, is_alloced, is_shared
  sempc,      \* how far the destroyer is: "idle", "posted" or "gone"
  called,     \* the threads that were waiting when qp_sem_destroy was called
  left,       \* one of them has returned since
  stolen      \* a thread that was not waiting then has taken a post since

history == <<called, left, stolen>>
semVars == <<value, waiting, semflags, sempc, history>>

NoFlags == [is_inited |-> FALSE, is_alloced |-> FALSE, is_shared |-> FALSE]

Init ==
  /\ value = 0
  /\ waiting = {}
  /\ semflags = NoFlags
  /\ sempc = "idle"
  /\ called = {}
  /\ left = FALSE
  /\ stolen = FALSE

\* Allocated or cleared, its count 0; when sem_init (or the allocation)
\* fails nothing is left.
qp_sem_create(alloc, shared) ==
  /\ ~semflags.is_inited
  /\ sempc = "idle"
  /\ semflags' \in {NoFlags, [is_inited |-> TRUE, is_alloced |-> alloc, is_shared |-> shared]}
  /\ value' = 0
  /\ UNCHANGED <<waiting, sempc, history>>

qp_sem_post ==
  /\ semflags.is_inited
  /\ value < MaxValue
  /\ value' = value + 1
  /\ UNCHANGED <<waiting, semflags, sempc, history>>

\* What qp_sem_trywait does, and qp_sem_wait where it finds a post.
TakePost ==
  /\ value > 0
  /\ value' = value - 1
  /\ stolen' = (called # {})
  /\ UNCHANGED <<waiting, called, left>>

\* A caller that finds the count at zero blocks.
qp_sem_wait(t) ==
  /\ semflags.is_inited
  /\ t \notin waiting
  /\ \/ TakePost
     \/ value = 0 /\ waiting' = waiting \cup {t} /\ UNCHANGED <<value, history>>
  /\ UNCHANGED <<semflags, sempc>>

\* At zero qp_sem_trywait fails and changes nothing.
qp_sem_trywait(t) ==
  /\ semflags.is_inited
  /\ t \notin waiting
  /\ TakePost
  /\ UNCHANGED <<semflags, sempc>>

\* A blocked waiter takes a post.  It still touches the semaphore when that
\* was destroyed meanwhile, which works as long as its memory is there.
Wake(t) ==
  /\ t \in waiting
  /\ value > 0
  /\ sempc = "gone" => ~semflags.is_alloced
  /\ value' = value - 1
  /\ waiting' = waiting \ {t}
  /\ left' = (left \/ t \in called)
  /\ stolen' = (stolen \/ (called # {} /\ t \notin called))
  /\ UNCHANGED <<semflags, sempc, called>>

\* What the histories say from this call of qp_sem_destroy on.
Called == called' = waiting /\ left' = FALSE /\ stolen' = FALSE

\* Mutant: nothing is posted.
DestroyPost_Missing(t) ==
  /\ semflags.is_inited
  /\ sempc = "idle"
  /\ t \notin waiting
  /\ sempc' = "posted"
  /\ Called
  /\ UNCHANGED <<value, waiting, semflags>>

\* qp_sem_destroy: qp_sem_post
DestroyPost(t) ==
  /\ semflags.is_inited
  /\ sempc = "idle"
  /\ t \notin waiting
  /\ value <= MaxValue
  /\ sempc' = "posted"
  /\ value' = value + 1
  /\ Called
  /\ UNCHANGED <<waiting, semflags>>

\* sem_destroy fails: QP_ERROR is returned, the post stays made.
DestroyFails ==
  /\ sempc = "posted"
  /\ sempc' = "idle"
  /\ UNCHANGED <<value, waiting, semflags, history>>

\* sem_destroy does not look at waiters; the flags are cleared and an
\* allocated structure is freed.
DestroySem ==
  /\ sempc = "posted"
  /\ sempc' = "gone"
  /\ semflags' = [semflags EXCEPT !.is_inited = FALSE, !.is_shared = FALSE]
  /\ UNCHANGED <<value, waiting, history>>

Next ==
  \/ \E alloc, shared \in BOOLEAN : qp_sem_create(alloc, shared)
  \/ qp_sem_post
  \/ \E t \in Thread : \/ qp_sem_wait(t) \/ qp_sem_trywait(t) \/ Wake(t)
                       \/ DestroyPost(t)
  \/ DestroyFails \/ DestroySem

-----------------------------------------------------------------------------
(***************************************************************************)
(* The post of qp_sem_destroy is there "incase it still wait for signal":  *)
(* when threads are waiting at that call, one of them returns, also when   *)
(* sem_destroy comes first or fails.  Two things can come between: other   *)
(* threads, by qp_sem_trywait or a later qp_sem_wait, take all there is to *)
(* take, and the waiters stay blocked; or the memory is freed under them.  *)
(* Nothing is said of a second waiter: one post frees one.                 *)
(***************************************************************************)
DestroyFreesAWaiter ==
  called # {} ~> \/ left
                 \/ stolen /\ value = 0
                 \/ sempc = "gone" /\ semflags.is_alloced
=============================================================================
