------------------------------ MODULE QpManager ------------------------------
(***************************************************************************)
(* qp_manager_t of core/qp_pool_core.c: a growing set of pools of ecount   *)
(* elements each.  available_pools lists the pools that still have a free  *)
(* element; a pool is allocated when that list is empty, and released when *)
(* it is unused and first in the list.  The functions take no lock: one    *)
(* thread uses a manager, so each call is one action.                      *)
(*                                                                         *)
(* pools_queue is a ring in the code (QpQueue models the ring).  Nothing   *)
(* reads its order, so here it is the set of the pools that are in it.     *)
(***************************************************************************)
EXTENDS QpPool, FiniteSets, Functions

CONSTANTS
  Manager,   \* the managers
  PoolId,    \* the addresses malloc can give to a pool; it reuses freed ones
  ECount     \* ecount, elements per pool

ASSUME ManagerAssumption ==
  /\ ECount \in Nat \ {0} /\ IsFiniteSet(PoolId)
  /\ NULL \notin PoolId /\ NULL \notin 1..ECount /\ NULL # "element"

VARIABLES
  is_inited,         \* per manager
  pools_queue,       \* per manager: its pools
  available_pools,   \* per manager: the list of pools with a free element
  pool_count,        \* per manager
  nfree,             \* per manager: free elements in all its pools
  pool,              \* the pool at each address
  owner,             \* elm->manager of that pool
  linked,            \* FALSE: elm->link is linked to itself
  live,              \* elements the clients hold, <<pool address, index>>
  peak,              \* history: the most elements of a manager ever held at once
  last               \* the last call: its function, manager and result

vars == <<is_inited, pools_queue, available_pools, pool_count, nfree, pool,
          owner, linked, live, peak, last>>

Result == {NULL, "element", "QP_SUCCESS", "QP_ERROR"}

Called(f, m, result) == last' = [call |-> f, manager |-> m, result |-> result]

\* The elements clients hold from manager m.
LiveOf(m) == {e \in live : owner[e[1]] = m}

\* The free elements of its pools.
FreeOf(m) ==
  {e \in pools_queue[m] \X (1..ECount) : e[2] \in Range(pool[e[1]].free)}

Allocated == UNION {pools_queue[m] : m \in Manager}

-----------------------------------------------------------------------------
Init ==
  /\ is_inited = [m \in Manager |-> FALSE]
  /\ pools_queue = [m \in Manager |-> {}]
  /\ available_pools = [m \in Manager |-> <<>>]
  /\ pool_count = [m \in Manager |-> 0]
  /\ nfree = [m \in Manager |-> 0]
  /\ pool = [p \in PoolId |-> qp_pool_init(ECount)]
  /\ owner = [p \in PoolId |-> NULL]
  /\ linked = [p \in PoolId |-> FALSE]
  /\ live = {}
  /\ peak = [m \in Manager |-> 0]
  /\ last = [call |-> "none", manager |-> NULL, result |-> NULL]

\* qp_manager_create zeroes the structure; pools come with the first alloc.
qp_manager_init(m) ==
  /\ ~is_inited[m]
  /\ is_inited' = [is_inited EXCEPT ![m] = TRUE]
  /\ pools_queue' = [pools_queue EXCEPT ![m] = {}]
  /\ available_pools' = [available_pools EXCEPT ![m] = <<>>]
  /\ pool_count' = [pool_count EXCEPT ![m] = 0]
  /\ nfree' = [nfree EXCEPT ![m] = 0]
  /\ peak' = [peak EXCEPT ![m] = 0]
  /\ Called("init", m, "QP_SUCCESS")
  /\ UNCHANGED <<pool, owner, linked, live>>

-----------------------------------------------------------------------------
(* qp_manager_alloc.                                                       *)

\* The rest of the call, once pool p of m is first in the available list avail:
\* take an element of pl, its contents, and unlink the pool when that was the
\* last one.
TakeFrom(m, p, pl, avail, free) ==
  LET e == <<p, qp_pool_element(pl)>>
      after == qp_pool_alloc(pl)
      exhausted == qp_pool_available(after) < 1
  IN  /\ qp_pool_can_alloc(pl)
      /\ pool' = [pool EXCEPT ![p] = after]
      /\ nfree' = [nfree EXCEPT ![m] = free - 1]
      /\ available_pools' =
           [available_pools EXCEPT ![m] = IF exhausted THEN qp_list_pop(avail) ELSE avail]
      /\ linked' = [linked EXCEPT ![p] = ~exhausted]
      /\ live' = live \cup {e}
      /\ peak' = [peak EXCEPT
           ![m] = LET n == Cardinality(LiveOf(m)) + 1 IN IF n > @ THEN n ELSE @]
      /\ Called("alloc", m, "element")

\* Some pool has a free element.
AllocFromAvailable(m) ==
  /\ is_inited[m]
  /\ ~qp_list_is_empty(available_pools[m])
  /\ LET p == qp_list_first(available_pools[m])
     IN  TakeFrom(m, p, pool[p], available_pools[m], nfree[m])
  /\ UNCHANGED <<is_inited, pools_queue, pool_count, owner>>

\* None has: malloc gives memory for a new one.
AllocFromNewPool(m, p) ==
  /\ is_inited[m]
  /\ qp_list_is_empty(available_pools[m])
  /\ p \notin Allocated
  /\ owner' = [owner EXCEPT ![p] = m]
  /\ pools_queue' = [pools_queue EXCEPT ![m] = @ \cup {p}]
  /\ pool_count' = [pool_count EXCEPT ![m] = @ + 1]
  /\ TakeFrom(m, p, qp_pool_init(ECount), qp_list_push(available_pools[m], p),
              nfree[m] + ECount)
  /\ UNCHANGED is_inited

\* The size does not fit, or malloc fails for the pool or for its elements:
\* NULL, and nothing is kept.
AllocFails(m, toobig) ==
  /\ is_inited[m]
  /\ toobig \/ qp_list_is_empty(available_pools[m])
  /\ Called(IF toobig THEN "allocBig" ELSE "alloc", m, NULL)
  /\ UNCHANGED <<is_inited, pools_queue, available_pools, pool_count, nfree,
                 pool, owner, linked, live, peak>>

-----------------------------------------------------------------------------
(* qp_manager_free(manager, ptr), ptr an element of some manager.          *)

\* elm->manager != manager.
FreeRefused(m, e) ==
  /\ is_inited[m]
  /\ owner[e[1]] # m
  /\ Called("free", m, "QP_ERROR")
  /\ UNCHANGED <<is_inited, pools_queue, available_pools, pool_count, nfree,
                 pool, owner, linked, live, peak>>

\* Mutant: the exhausted pool is forgotten.
Relink_Forgotten(m, p) ==
  /\ ~linked[p]
  /\ nfree' = [nfree EXCEPT ![m] = @ + 1]
  /\ UNCHANGED <<pools_queue, pool_count, linked, available_pools>>

\* The pool was exhausted: it goes to the head of the list again.
Relink(m, p) ==
  /\ ~linked[p]
  /\ linked' = [linked EXCEPT ![p] = TRUE]
  /\ available_pools' = [available_pools EXCEPT ![m] = qp_list_push(@, p)]
  /\ nfree' = [nfree EXCEPT ![m] = @ + 1]
  /\ UNCHANGED <<pools_queue, pool_count>>

\* A pool without users that is first in the list goes back to malloc (what
\* its memory holds from then on does not matter; linked is reset).
Releasable(m, p) ==
  /\ linked[p]
  /\ qp_pool_used(pool'[p]) < 1
  /\ p = qp_list_first(available_pools[m])

ReleasePool(m, p) ==
  /\ Releasable(m, p)
  /\ available_pools' = [available_pools EXCEPT ![m] = qp_list_pop(@)]
  /\ pools_queue' = [pools_queue EXCEPT ![m] = @ \ {p}]
  /\ pool_count' = [pool_count EXCEPT ![m] = @ - 1]
  /\ nfree' = [nfree EXCEPT ![m] = @ + 1 - ECount]
  /\ linked' = [linked EXCEPT ![p] = FALSE]

KeepPool(m, p) ==
  /\ linked[p] /\ ~Releasable(m, p)
  /\ nfree' = [nfree EXCEPT ![m] = @ + 1]
  /\ UNCHANGED <<available_pools, pools_queue, pool_count, linked>>

\* Mutant: elm->manager is not compared with the manager.
Free_AnyManager(m, e) ==
  LET p == e[1]
  IN  /\ is_inited[m]
      /\ pool' = [pool EXCEPT ![p] = qp_pool_free(@, e[2])]
      /\ Relink(m, p) \/ ReleasePool(m, p) \/ KeepPool(m, p)
      /\ live' = live \ {e}
      /\ Called("free", m, "QP_SUCCESS")
      /\ UNCHANGED <<is_inited, owner, peak>>

Free(m, e) ==
  LET p == e[1]
  IN  /\ is_inited[m]
      /\ owner[p] = m
      /\ pool' = [pool EXCEPT ![p] = qp_pool_free(@, e[2])]
      /\ Relink(m, p) \/ ReleasePool(m, p) \/ KeepPool(m, p)
      /\ live' = live \ {e}
      /\ Called("free", m, "QP_SUCCESS")
      /\ UNCHANGED <<is_inited, owner, peak>>

-----------------------------------------------------------------------------
\* qp_manager_destroy refuses unless forced, for ecount is never 0 here; when
\* forced it releases every pool, the elements in use with them.
qp_manager_destroy(m, force) ==
  /\ is_inited[m]
  /\ \/ /\ force
        /\ is_inited' = [is_inited EXCEPT ![m] = FALSE]
        /\ pools_queue' = [pools_queue EXCEPT ![m] = {}]
        /\ linked' = [p \in PoolId |-> linked[p] /\ owner[p] # m]
        /\ live' = live \ LiveOf(m)
        /\ Called("destroy", m, "QP_SUCCESS")
     \/ /\ ~force /\ ECount > 0
        /\ Called("destroy", m, "QP_ERROR")
        /\ UNCHANGED <<is_inited, pools_queue, linked, live>>
  /\ UNCHANGED <<available_pools, pool_count, nfree, pool, owner, peak>>

Next ==
  \E m \in Manager :
    \/ qp_manager_init(m)
    \/ AllocFromAvailable(m)
    \/ \E p \in PoolId : AllocFromNewPool(m, p)
    \/ \E toobig \in BOOLEAN : AllocFails(m, toobig)
    \/ \E e \in live : FreeRefused(m, e) \/ Free(m, e)
    \/ \E force \in BOOLEAN : qp_manager_destroy(m, force)

Spec == Init /\ [][Next]_vars

-----------------------------------------------------------------------------
TypeOK ==
  /\ is_inited \in [Manager -> BOOLEAN]
  /\ \A m \in Manager :
       /\ pools_queue[m] \subseteq PoolId
       /\ Range(available_pools[m]) \subseteq PoolId
       /\ pool_count[m] \in Nat /\ nfree[m] \in Nat /\ peak[m] \in Nat
  /\ \A p \in PoolId :
       /\ Range(pool[p].free) \subseteq 1..ECount
       /\ pool[p].nfree \in 0..ECount /\ pool[p].nsize = ECount
  /\ owner \in [PoolId -> Manager \cup {NULL}]
  /\ linked \in [PoolId -> BOOLEAN]
  /\ live \subseteq PoolId \X (1..ECount)
  /\ last.result \in Result

(***************************************************************************)
(* Every element of an allocated pool is either held by a client or once   *)
(* in the pool's free list, so no element is handed out twice and none is  *)
(* lost; and every element a client holds lies in a pool that is still     *)
(* allocated.                                                              *)
(***************************************************************************)
ElementsExact ==
  /\ \A e \in live : e[1] \in Allocated
  /\ \A p \in Allocated :
       LET free == pool[p].free
       IN  /\ IsInjective(free)
           /\ Range(free) = {i \in 1..ECount : <<p, i>> \notin live}
           /\ pool[p].nfree = Len(free)

qp_manager_used(m) == pool_count[m] * ECount - nfree[m]

(***************************************************************************)
(* The manager's books are true.  available_pools is exactly the list,     *)
(* without repetition, of its pools that have a free element, and a pool's *)
(* link says whether it is there, so no free element is out of reach of an *)
(* allocation; the counters behind qp_manager_available and                *)
(* qp_manager_used count what is free and what clients hold; and an        *)
(* allocation that fits has failed only if nothing was free.               *)
(***************************************************************************)
BooksExact ==
  /\ last.call = "alloc" /\ last.result = NULL => nfree[last.manager] = 0
  /\ \A m \in Manager : is_inited[m] =>
       /\ IsInjective(available_pools[m])
       /\ Range(available_pools[m]) = {p \in pools_queue[m] : pool[p].nfree > 0}
       /\ \A p \in pools_queue[m] :
            /\ linked[p] <=> pool[p].nfree > 0
            /\ owner[p] = m
       /\ pool_count[m] = Cardinality(pools_queue[m])
       /\ nfree[m] = Cardinality(FreeOf(m))
       /\ qp_manager_used(m) = Cardinality(LiveOf(m))

(***************************************************************************)
(* The manager never holds more pools than the most elements ever in use   *)
(* at once needed, however allocations and frees are mixed.                *)
(***************************************************************************)
NoOvergrowth ==
  \A m \in Manager : is_inited[m] => pool_count[m] * ECount < peak[m] + ECount
=============================================================================
