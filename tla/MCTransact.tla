----------------------------- MODULE MCTransact -----------------------------
(***************************************************************************)
(* Small instances of Transact for TLC.  Accounts 1 and 2 are wallets of   *)
(* owners 1 and 2, account 3 of owner 3 does not exist yet, 8 is the       *)
(* provider pool and 9 the fee account, both of owner 9.                   *)
(***************************************************************************)
EXTENDS Transact, TLC

MCOwner == (1 :> 1) @@ (2 :> 2) @@ (3 :> 3) @@ (8 :> 9) @@ (9 :> 9)

Fixture == UNION {{<<"accounts", a>>, <<"account", a>>, <<"subject", MCOwner[a]>>,
                   <<"balance", a>>} : a \in {1, 2, 8, 9}}
Reserved == Fixture \cup {<<"claim", 1>>, <<"hold", 1>>, <<"usage", 1>>, <<"evidence", 1>>}

Cmd(op, kind, payment, account) ==
  [op |-> op, kind |-> kind, payment |-> payment, hold |-> payment, evidence |-> payment,
   account |-> account, beneficiary |-> IF account = 1 THEN 2 ELSE 1, controls |-> "subject"]

-----------------------------------------------------------------------------
\* Contention: transfers in opposite directions for one payment, and the capture of a
\* payout that needs rows of both and of the pool.
Contending == ("ab" :> Cmd(1, "TRANSFER_INTERNAL", 2, 1))
                @@ ("ba" :> Cmd(2, "TRANSFER_INTERNAL", 2, 2))
                @@ ("capture" :> Cmd(3, "CAPTURE_PAYOUT", 1, 1))
ContendingCalls == DOMAIN Contending

\* Opening: the first account of an owner is opened twice, while it is paid into and
\* a control of its owner is set.
Opening == ("open" :> Cmd(1, "CREATE_ACCOUNT", 0, 3))
             @@ ("twice" :> Cmd(2, "CREATE_ACCOUNT", 0, 3))
             @@ ("pay" :> [Cmd(3, "TRANSFER_INTERNAL", 1, 1) EXCEPT !.beneficiary = 3])
             @@ ("freeze" :> Cmd(4, "SET_ACCOUNT_CONTROL", 0, 3))
OpeningCalls == DOMAIN Opening

\* Retrying: an operation sent twice and once with another body.
Retrying == ("first" :> Cmd(1, "RESERVE_PAYOUT", 1, 1))
              @@ ("again" :> Cmd(1, "RESERVE_PAYOUT", 1, 1))
              @@ ("other" :> Cmd(1, "MARK_HOLD_EXPOSED", 1, 1))
RetryingCalls == DOMAIN Retrying
=============================================================================
