------------------------------- MODULE Mirror -------------------------------
(***************************************************************************)
(* What event delivery promises: Reconciliation's projection is a lagging  *)
(* copy of the Ledger's facts.  A fact is recorded once per operation,     *)
(* observed only if it was recorded, and retired from the outbox only once *)
(* it has been observed.  Nothing is ever taken back.                      *)
(***************************************************************************)
CONSTANTS Events, EventBook, EventOp

VARIABLES
  facts,    \* the events the Ledger has committed
  seen,     \* the events Reconciliation has durably projected
  retired   \* the events the Ledger will not deliver again

vars == <<facts, seen, retired>>

Init == facts = {} /\ seen = {} /\ retired = {}

Record(e) ==
  /\ e \notin facts
  /\ \A f \in facts : EventBook[f] # EventBook[e] \/ EventOp[f] # EventOp[e]
  /\ facts' = facts \cup {e}
  /\ UNCHANGED <<seen, retired>>

Observe(e) ==
  /\ e \in facts \ seen
  /\ seen' = seen \cup {e}
  /\ UNCHANGED <<facts, retired>>

Retire(e) ==
  /\ e \in seen \ retired
  /\ retired' = retired \cup {e}
  /\ UNCHANGED <<facts, seen>>

Next == \E e \in Events : Record(e) \/ Observe(e) \/ Retire(e)

Spec == Init /\ [][Next]_vars
=============================================================================
