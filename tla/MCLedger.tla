------------------------------ MODULE MCLedger ------------------------------
(***************************************************************************)
(* Small books for TLC.  Every request has its own operation id and so is  *)
(* decided at most once: a run explores all orders of its requests at all  *)
(* clock readings.  The time unit is three hours: day 8, Nairobi offset 1, *)
(* so that 6 and 7 lie on the two sides of a Nairobi midnight.             *)
(***************************************************************************)
EXTENDS Ledger, TLC

CONSTANTS A, B, C, Pool, Fee, OwnerA, OwnerB, System

MCAccounts == {A, B, C, Pool, Fee}
MCOwners   == {OwnerA, OwnerB, System}
MCFixtureOwner == (A :> OwnerA) @@ (B :> OwnerB) @@ (C :> NoOwner)
                    @@ (Pool :> System) @@ (Fee :> System)
MCPolicies == [p \in {"fee1", "free"} |->
                 [fee |-> IF p = "fee1" THEN 1 ELSE 0, feeAccount |-> Fee,
                  pool |-> Pool, maxHold |-> 2]]

Anyone == [permissions |-> {"spend", "resolve", "control", "provision"}, subjects |-> {}]
OnlyB  == [Anyone EXCEPT !.subjects = {OwnerB}]

OwnerOf(a) == IF a = A THEN OwnerA ELSE IF a \in {B, C} THEN OwnerB ELSE System

\* A spend authorised under the given control epochs, valid from time 0 to 8.
Spend(p, from, to, amount, policy, epoch) ==
  [payment |-> p, source |-> from, beneficiary |-> to, principal |-> amount,
   fee |-> IF policy = "free" THEN 0 ELSE 1, policy |-> policy,
   grant |-> [id |-> "g", genuine |-> TRUE, subject |-> OwnerOf(from),
              subjectEpoch |-> epoch, accountEpoch |-> 1, notBefore |-> 0, expiresAt |-> 8]]

Transfer(op, terms) ==
  [kind |-> "TRANSFER_INTERNAL", op |-> op, caller |-> Anyone, terms |-> terms]
ReserveFor(op, terms, h, attempt, expiry) ==
  [kind |-> "RESERVE_PAYOUT", op |-> op, caller |-> Anyone, terms |-> terms, hold |-> h,
   attempt |-> attempt, pool |-> Pool, expiresAt |-> expiry]
Ref(p, h, attempt, version) ==
  [payment |-> p, hold |-> h, attempt |-> attempt, expectedVersion |-> version]
Expose(op, ref) ==
  [kind |-> "MARK_HOLD_EXPOSED", op |-> op, caller |-> Anyone, ref |-> ref, grant |-> "g"]
Proof(id, ref, amount, final, fenced) ==
  [id |-> id, genuine |-> TRUE, routed |-> TRUE, payment |-> ref.payment, hold |-> ref.hold,
   attempt |-> ref.attempt, beneficiary |-> B, principal |-> amount, final |-> final,
   fenced |-> fenced, observedAt |-> 6]
Capture(op, ref, proof) ==
  [kind |-> "CAPTURE_PAYOUT", op |-> op, caller |-> Anyone, ref |-> ref, evidence |-> proof]
Release(op, ref, reason, proof) ==
  [kind |-> "RELEASE_PAYOUT", op |-> op, caller |-> Anyone, ref |-> ref,
   reason |-> reason, evidence |-> proof]
SetControl(op, key, version, frozen, cap, revoke) ==
  [kind |-> "SET_ACCOUNT_CONTROL", op |-> op, caller |-> Anyone, key |-> key,
   expectedVersion |-> version, debitFrozen |-> frozen, creditFrozen |-> frozen,
   dailyCap |-> cap, revokeGrants |-> revoke]
Create(op, account, o) ==
  [kind |-> "CREATE_ACCOUNT", op |-> op, caller |-> Anyone, account |-> account, owner |-> o]

MCHolds == {"h1", "h2"}
MCPayments == {"p1", "p2", "p3"}
MCAttempts == {"t1", "t2"}
MCGrants == {"g", "stale"}
MCEvidenceIds == {"e1", "e2"}
MCPolicyIds == {"fee1", "free", "unknown"}

H1(version) == Ref("p1", "h1", "t1", version)

-----------------------------------------------------------------------------
(***************************************************************************)
(* Payouts: two reservations that exhaust the wallet together, a second    *)
(* admission of the first payment, every resolution of the first hold,     *)
(* and controls that freeze, revoke on the owner or on the account, and    *)
(* lower the cap under them.                                               *)
(***************************************************************************)
PayoutReserves ==
  {ReserveFor("r1", Spend("p1", A, B, 4, "fee1", 1), "h1", "t1", 7),
   ReserveFor("r2", Spend("p2", A, B, 4, "fee1", 1), "h2", "t2", 8),
   ReserveFor("r3", Spend("p1", A, B, 3, "free", 1), "h2", "t2", 7)}
PayoutTransfers == {Transfer("s1", Spend("p3", A, B, 2, "free", 1))}
PayoutExposes == {Expose("x1", H1(1))}
PayoutCaptures ==
  {Capture("c1", H1(2), Proof("e1", H1(2), 4, "FINAL_SUCCESS", FALSE))}
PayoutReleases ==
  {Release("l1", H1(2), "FINAL_FAILURE", Proof("e2", H1(2), 4, "FINAL_FAILURE", TRUE)),
   Release("l2", H1(1), "CANCEL", NoEvidence),
   Release("l3", H1(1), "EXPIRY", NoEvidence)}
PayoutControls ==
  {SetControl("k1", <<"SUBJECT", OwnerA>>, 1, TRUE, 8, FALSE),
   SetControl("k2", <<"SUBJECT", OwnerA>>, 2, FALSE, 2, TRUE),
   SetControl("k3", <<"ACCOUNT", A>>, 1, FALSE, 0, TRUE)}
PayoutOps == {"fixture", "r1", "r2", "r3", "x1", "c1", "l1", "l2", "l3",
              "s1", "k1", "k2", "k3"}
None == {}

-----------------------------------------------------------------------------
(***************************************************************************)
(* Spending: transfers that compete for one wallet's funds and cap with    *)
(* each other and with a payout, on two days, while accounts appear and    *)
(* controls change.  Each way to be refused before or after admission is   *)
(* in reach.                                                               *)
(***************************************************************************)
SpendTransfers ==
  {Transfer("s1", Spend("p1", A, B, 4, "fee1", 1)),
   Transfer("s2", Spend("p1", A, B, 3, "free", 1)),
   Transfer("s3", Spend("p2", B, A, 2, "fee1", 1)),
   Transfer("s4", Spend("p3", A, C, 4, "free", 1)),
   Transfer("s5", Spend("p4", A, A, 1, "free", 1)),
   Transfer("s6", Spend("p4", Pool, A, 1, "free", 1)),
   [Transfer("s7", Spend("p4", A, B, 1, "free", 1)) EXCEPT !.caller = OnlyB]}
SpendReserves ==
  {ReserveFor("r1", Spend("p2", A, B, 3, "fee1", 1), "h1", "t1", 7)}
SpendExposes == {Expose("x1", Ref("p2", "h1", "t1", 1))}
SpendCaptures ==
  {Capture("c1", Ref("p2", "h1", "t1", 2),
           Proof("e1", Ref("p2", "h1", "t1", 2), 3, "FINAL_SUCCESS", FALSE))}
SpendCreates == {Create("n1", C, OwnerB)}
SpendControls == {SetControl("k1", <<"SUBJECT", OwnerA>>, 1, FALSE, 5, FALSE),
                  SetControl("k2", <<"ACCOUNT", B>>, 1, TRUE, 0, FALSE)}
SpendPayments == {"p1", "p2", "p3", "p4"}
SpendOps == {"fixture", "s1", "s2", "s3", "s4", "s5", "s6", "s7", "r1", "x1", "c1",
             "n1", "k1", "k2"}

-----------------------------------------------------------------------------
(***************************************************************************)
(* Limits: the same totals when they cannot grow past the funding, so that *)
(* money going back and forth meets NUMERIC_LIMIT while a hold is open.    *)
(* Capture and failure proofs share an evidence id: the first one binds;   *)
(* a third proof fails without fencing.                                    *)
(***************************************************************************)
LimitTransfers ==
  {Transfer("s1", Spend("p2", A, B, 3, "fee1", 1)),
   Transfer("s2", Spend("p3", B, A, 2, "fee1", 1)),
   Transfer("s3", Spend("p4", A, B, 2, "free", 1))}
LimitReserves == {ReserveFor("r1", Spend("p1", A, B, 4, "fee1", 1), "h1", "t1", 7)}
LimitOps == {"fixture", "s1", "s2", "s3", "r1", "x1", "c1", "l1", "l2", "l3", "n1", "n2",
            "k1"}
LimitReleases ==
  {Release("l1", H1(2), "FINAL_FAILURE", Proof("e1", H1(2), 4, "FINAL_FAILURE", TRUE)),
   Release("l2", H1(1), "CANCEL", NoEvidence),
   Release("l3", H1(2), "FINAL_FAILURE", Proof("e2", H1(2), 4, "FINAL_FAILURE", FALSE))}
LimitCreates == {Create("n1", C, OwnerB), Create("n2", C, OwnerA)}
LimitControls == {SetControl("k1", <<"SUBJECT", OwnerA>>, 1, FALSE, 1, FALSE)}
=============================================================================
