------------------------------- MODULE QpQueue -------------------------------
(***************************************************************************)
(* The circular doubly linked queue of core/qp_memory_core.h, the links    *)
(* that the memory pools and the event loop are strung on.  Heads and      *)
(* nodes are the caller's; every function is a few assignments to prev and *)
(* next, in an order that matters where head and node are neighbours or    *)
(* the same.  The record links holds both; each operator is one function,  *)
(* its assignments one after the other.                                    *)
(***************************************************************************)
EXTENDS Naturals, Sequences, SequencesExt

CONSTANTS
  QHead,    \* the heads of queues
  Node,    \* the nodes
  Null

VARIABLES
  links,     \* prev and next of every head and node
  queues,    \* the heads that are initialised
  sequence   \* history: the nodes each head should lead to, in order

queueVars == <<links, queues, sequence>>

SetPrev(l, n, to) == [l EXCEPT !.prev[n] = to]
SetNext(l, n, to) == [l EXCEPT !.next[n] = to]

qp_queue_init(l, q) == SetNext(SetPrev(l, q, q), q, q)

qp_queue_is_empty(l, q) == q = l.prev[q]
qp_queue_first(l, q) == IF qp_queue_is_empty(l, q) THEN Null ELSE l.next[q]
qp_queue_last(l, q) == IF qp_queue_is_empty(l, q) THEN Null ELSE l.prev[q]

\* place is a head, or a node behind which n is inserted.
qp_queue_insert_after_head(l, place, n) ==
  LET a == SetNext(l, n, l.next[place])
      b == SetPrev(a, a.next[n], n)
      c == SetPrev(b, n, place)
  IN  SetNext(c, place, n)

qp_queue_insert_after_tail(l, place, n) ==
  LET a == SetPrev(l, n, l.prev[place])
      b == SetNext(a, a.prev[n], n)
      c == SetNext(b, n, place)
  IN  SetPrev(c, place, n)

qp_queue_remove(l, n) ==
  LET a == SetPrev(l, l.next[n], l.prev[n])
  IN  SetNext(a, a.prev[n], a.next[n])

\* newq takes over everything from node on.
qp_queue_split(l, q, n, newq) ==
  LET a == SetPrev(l, newq, l.prev[q])
      b == SetNext(a, a.prev[newq], newq)
      c == SetNext(b, newq, n)
      d == SetPrev(c, q, c.prev[n])
      e == SetNext(d, d.prev[q], q)
  IN  SetPrev(e, n, newq)

\* Mutant: the head's own link is moved before it is used.
qp_queue_merge_Swapped(l, q, newq) ==
  LET a == SetNext(l, l.prev[q], l.next[newq])
      b == SetPrev(a, q, a.prev[newq])
      c == SetPrev(b, b.next[newq], b.prev[q])
  IN  SetNext(c, c.prev[q], q)

\* What newq leads to is appended; newq itself is left as it was, except
\* that an empty newq has its prev overwritten.
qp_queue_merge(l, q, newq) ==
  LET a == SetNext(l, l.prev[q], l.next[newq])
      b == SetPrev(a, a.next[newq], a.prev[q])
      c == SetPrev(b, q, b.prev[newq])
  IN  SetNext(c, c.prev[q], q)

-----------------------------------------------------------------------------
(* The caller *)

Init ==
  /\ links = [prev |-> [x \in QHead \cup Node |-> Null],
              next |-> [x \in QHead \cup Node |-> Null]]
  /\ queues = {}
  /\ sequence = [q \in QHead |-> <<>>]

Queued(q) == {sequence[q][k] : k \in 1..Len(sequence[q])}
Loose == Node \ UNION {Queued(q) : q \in QHead}

\* Where in the sequence of q the node n is, and where something inserted
\* behind place goes.
Index(q, n) == CHOOSE k \in 1..Len(sequence[q]) : sequence[q][k] = n
Behind(q, place) == IF place = q THEN 1 ELSE 1 + Index(q, place)

\* What lies in a node or a head that is in no queue is the caller's business.
Forget(l, x) == [l EXCEPT !.prev[x] = Null, !.next[x] = Null]

InitQueue(q) ==
  /\ q \notin queues
  /\ queues' = queues \cup {q}
  /\ links' = qp_queue_init(links, q)
  /\ UNCHANGED sequence

\* Behind the head or behind a node, which the code also calls
\* qp_queue_insert_after.
InsertAfter(q, place, n) ==
  /\ links' = qp_queue_insert_after_head(links, place, n)
  /\ sequence' = [sequence EXCEPT ![q] = InsertAt(@, Behind(q, place), n)]
  /\ UNCHANGED queues

InsertTail(q, n) ==
  /\ links' = qp_queue_insert_after_tail(links, q, n)
  /\ sequence' = [sequence EXCEPT ![q] = Append(@, n)]
  /\ UNCHANGED queues

RemoveNode(q, n) ==
  /\ links' = Forget(qp_queue_remove(links, n), n)
  /\ sequence' = [sequence EXCEPT ![q] = RemoveAt(@, Index(q, n))]
  /\ UNCHANGED queues

\* newq need not be initialised.
Split(q, n, newq) ==
  /\ newq \notin queues
  /\ queues' = queues \cup {newq}
  /\ links' = qp_queue_split(links, q, n, newq)
  /\ LET from == Index(q, n)
     IN  sequence' = [sequence EXCEPT ![q] = SubSeq(@, 1, from - 1),
                                      ![newq] = SubSeq(sequence[q], from, Len(sequence[q]))]

\* The caller initialises newq again before it uses it.
Merge(q, newq) ==
  /\ newq \in queues \ {q}
  /\ queues' = queues \ {newq}
  /\ links' = Forget(qp_queue_merge(links, q, newq), newq)
  /\ sequence' = [sequence EXCEPT ![q] = @ \o sequence[newq], ![newq] = <<>>]

Next ==
  \/ \E q \in QHead : InitQueue(q)
  \/ \E q \in queues :
       \/ \E n \in Loose : \/ InsertTail(q, n)
                           \/ \E place \in {q} \cup Queued(q) : InsertAfter(q, place, n)
       \/ \E n \in Queued(q) : RemoveNode(q, n) \/ \E newq \in QHead : Split(q, n, newq)
       \/ \E newq \in QHead : Merge(q, newq)

-----------------------------------------------------------------------------
(***************************************************************************)
(* After any inserts, removals, splits and merges (of empty queues too),   *)
(* from every head the next links lead through exactly the nodes it should *)
(* have, in their order, and back to the head, and the prev links through  *)
(* the same nodes backwards; first and last tell the two ends.             *)
(***************************************************************************)
RingExact ==
  \A q \in queues :
    LET ring == <<q>> \o sequence[q] \o <<q>>
    IN  /\ \A k \in 1..(Len(ring) - 1) :
             /\ links.next[ring[k]] = ring[k + 1]
             /\ links.prev[ring[k + 1]] = ring[k]
        /\ qp_queue_first(links, q) = IF sequence[q] = <<>> THEN Null ELSE ring[2]
        /\ qp_queue_last(links, q) =
             IF sequence[q] = <<>> THEN Null ELSE sequence[q][Len(sequence[q])]
=============================================================================
