------------------------------- MODULE QpPool -------------------------------
(***************************************************************************)
(* qp_pool_t of core/qp_pool_core.c: one block of nsize elements whose     *)
(* free elements are chained in an intrusive list.  A pool is a value,     *)
(* its operations are operators on it; QpManager keeps pools as state.     *)
(* An element is its index in the block (its address is derived from it).  *)
(***************************************************************************)
EXTENDS Naturals, Sequences

CONSTANT NULL

(* The ring of core/qp_memory_core.h: a header whose next node is the head  *)
(* of the sequence.  A pop of an empty ring leaves it empty.                *)
qp_list_push(list, node) == <<node>> \o list
qp_list_is_empty(list) == list = <<>>
qp_list_pop(list) == IF qp_list_is_empty(list) THEN list ELSE Tail(list)
qp_list_first(list) == IF qp_list_is_empty(list) THEN NULL ELSE Head(list)

\* Elements are pushed in address order, so the last is allocated first.
qp_pool_init(count) ==
  [free |-> [i \in 1..count |-> count + 1 - i], nfree |-> count, nsize |-> count]

qp_pool_available(pool) == pool.nfree

qp_pool_used(pool) == pool.nsize - pool.nfree

\* qp_pool_alloc returns an element (of a size that fits) or NULL ...
qp_pool_can_alloc(pool) ==
  qp_pool_available(pool) > 0 /\ qp_list_first(pool.free) # NULL

qp_pool_element(pool) == qp_list_first(pool.free)

\* ... and leaves this pool.
qp_pool_alloc(pool) ==
  [pool EXCEPT !.free = qp_list_pop(@), !.nfree = @ - 1]

\* Mutant: the counter is kept, the element is not chained again.
qp_pool_free_CountOnly(pool, elm) == [pool EXCEPT !.nfree = @ + 1]

\* The element goes back whatever it was: a second free of it is not noticed.
qp_pool_free(pool, elm) ==
  [pool EXCEPT !.free = qp_list_push(@, elm), !.nfree = @ + 1]
=============================================================================
