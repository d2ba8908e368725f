---------------------------- MODULE QpContainers ----------------------------
(***************************************************************************)
(* The intrusive containers of core/qp_memory_core: the red-black tree     *)
(* (QpRbtree) and the queue (QpQueue).  A caller's node is linked into one *)
(* or the other; container says which this caller uses.                    *)
(***************************************************************************)
EXTENDS QpRbtree

CONSTANTS QHead, Null

\* A head is a qp_queue_s of its own, never the one inside a node.
ASSUME ContainersAssumption == QHead \cap Node = {}

VARIABLES container, links, queues, sequence

Q == INSTANCE QpQueue

queueVars == <<links, queues, sequence>>
cvars == <<vars, queueVars, container>>

CInit == Init /\ Q!Init /\ container \in {"rbtree", "queue"}

CNext ==
  \/ container = "rbtree" /\ Next /\ UNCHANGED <<queueVars, container>>
  \/ container = "queue" /\ Q!Next /\ UNCHANGED <<vars, container>>

CSpec == CInit /\ [][CNext]_cvars

-----------------------------------------------------------------------------
\* The links of every queue lead through exactly its nodes, both ways.
RingExact == Q!RingExact
=============================================================================
