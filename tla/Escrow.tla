------------------------------- MODULE Escrow -------------------------------
(***************************************************************************)
(* What the Ledger promises about payments, with nothing of how it keeps   *)
(* its books: no journals, totals, versions, controls, limits, receipts or *)
(* clocks.  There is what each account can still spend, and the payments,  *)
(* each of which is decided once and moves its deal's money once.          *)
(*                                                                         *)
(* A deal: source pays principal to payee and fee to feeAccount.  Of a     *)
(* payout the payee is the provider pool it is paid out of, whose means to *)
(* pay out shrink with it.  Module Ledger implements this specification.   *)
(***************************************************************************)
EXTENDS Integers

CONSTANTS Accounts, Payments, Deals, NoDeal

VARIABLES
  status,     \* of each payment
  deal,       \* what a payout has set aside
  spendable   \* by account

vars == <<status, deal, spendable>>

Init ==
  /\ status = [p \in Payments |-> "ABSENT"]
  /\ deal = [p \in Payments |-> NoDeal]
  /\ spendable \in [Accounts -> Nat]

Due(d) == d.principal + d.fee

Decide(p, new) ==
  /\ status[p] = "ABSENT"
  /\ status' = [status EXCEPT ![p] = new]

Become(p, old, new) ==
  /\ status[p] \in old
  /\ status' = [status EXCEPT ![p] = new]
  /\ UNCHANGED deal

Refuse(p) == Decide(p, "REJECTED") /\ UNCHANGED <<deal, spendable>>

Pay(p, d) ==
  /\ Decide(p, "APPLIED")
  /\ spendable[d.source] >= Due(d)
  /\ spendable' = [a \in Accounts |->
                     spendable[a] - (IF a = d.source THEN Due(d) ELSE 0)
                       + (IF a = d.payee THEN d.principal ELSE 0)
                       + (IF a = d.feeAccount THEN d.fee ELSE 0)]
  /\ UNCHANGED deal

SetAside(p, d) ==
  /\ Decide(p, "RESERVED")
  /\ spendable[d.source] >= Due(d) /\ spendable[d.payee] >= d.principal
  /\ deal' = [deal EXCEPT ![p] = d]
  /\ spendable' = [spendable EXCEPT ![d.source] = @ - Due(d), ![d.payee] = @ - d.principal]

Expose(p) == Become(p, {"RESERVED"}, "EXPOSED") /\ UNCHANGED spendable

PayOut(p) ==
  /\ Become(p, {"EXPOSED"}, "CAPTURED")
  /\ spendable' = [spendable EXCEPT ![deal[p].feeAccount] = @ + deal[p].fee]

GiveBack(p) ==
  /\ Become(p, {"RESERVED", "EXPOSED"}, "RELEASED")
  /\ spendable' = [spendable EXCEPT ![deal[p].source] = @ + Due(deal[p]),
                                    ![deal[p].payee] = @ + deal[p].principal]

Next ==
  \E p \in Payments :
    \/ Refuse(p) \/ Expose(p) \/ PayOut(p) \/ GiveBack(p)
    \/ \E d \in Deals : Pay(p, d) \/ SetAside(p, d)

Spec == Init /\ [][Next]_vars
=============================================================================
