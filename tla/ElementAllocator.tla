-------------------------- MODULE ElementAllocator --------------------------
(***************************************************************************)
(* What managers promise their clients, and nothing of pools, lists or     *)
(* counters: which elements each manager has handed out, and what a call   *)
(* answers.  An element is handed out only while no client of any manager  *)
(* has it; a manager takes back what it has handed out itself and refuses  *)
(* the rest; only a forced destruction takes elements from their holders.  *)
(* QpManager is shown to implement this specification.                     *)
(***************************************************************************)
CONSTANTS Manager, Element, NULL

VARIABLES ready, held, answer

vars == <<ready, held, answer>>

Answer(f, m, result) == answer' = [call |-> f, manager |-> m, result |-> result]

Init ==
  /\ ready = [m \in Manager |-> FALSE]
  /\ held = [m \in Manager |-> {}]
  /\ answer = [call |-> "none", manager |-> NULL, result |-> NULL]

Open(m) ==
  /\ ~ready[m]
  /\ ready' = [ready EXCEPT ![m] = TRUE]
  /\ Answer("init", m, "QP_SUCCESS")
  /\ UNCHANGED held

Grant(m, e) ==
  /\ ready[m]
  /\ \A n \in Manager : e \notin held[n]
  /\ held' = [held EXCEPT ![m] = @ \cup {e}]
  /\ Answer("alloc", m, "element")
  /\ UNCHANGED ready

NoGrant(m, f) ==
  /\ ready[m]
  /\ Answer(f, m, NULL)
  /\ UNCHANGED <<ready, held>>

\* e is an element that some manager, o, has handed out.
TakeBack(m, o, e) ==
  /\ ready[m]
  /\ e \in held[o]
  /\ held' = IF o = m THEN [held EXCEPT ![m] = @ \ {e}] ELSE held
  /\ Answer("free", m, IF o = m THEN "QP_SUCCESS" ELSE "QP_ERROR")
  /\ UNCHANGED ready

Close(m) ==
  /\ ready[m]
  /\ ready' = [ready EXCEPT ![m] = FALSE]
  /\ held' = [held EXCEPT ![m] = {}]
  /\ Answer("destroy", m, "QP_SUCCESS")

StayOpen(m) ==
  /\ ready[m]
  /\ Answer("destroy", m, "QP_ERROR")
  /\ UNCHANGED <<ready, held>>

Next ==
  \E m \in Manager :
    \/ Open(m) \/ Close(m) \/ StayOpen(m)
    \/ \E e \in Element : Grant(m, e)
    \/ \E f \in {"alloc", "allocBig"} : NoGrant(m, f)
    \/ \E o \in Manager, e \in Element : TakeBack(m, o, e)

Spec == Init /\ [][Next]_vars
=============================================================================
