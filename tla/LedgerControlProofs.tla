------------------------ MODULE LedgerControlProofs -------------------------
(***************************************************************************)
(* Theorems about what spending controls stop: a frozen wallet pays out    *)
(* nothing more, a day's spending stays under the cap, and a revoked grant *)
(* exposes no reservation.  And about what a payment comes to: every       *)
(* command is a step of Escrow, or none.                                   *)
(***************************************************************************)
EXTENDS LedgerProofs

-----------------------------------------------------------------------------
(***************************************************************************)
(* What a command does to a balance, account by account.                   *)
(***************************************************************************)
Row == [debits : Nat, credits : Nat, held : Int, version : Nat]

\* A row of account_balances is a row of numbers.
LEMMA BalanceIsRow == Balance \subseteq Row
BY BoundsAssumption DEF Balance, Row, Wides, Versions

\* Totals.Post adds to its side and to nothing else.
LEMMA PostFields ==
  ASSUME NEW t \in Row, NEW side \in {"DEBIT", "CREDIT"}, NEW amount \in Nat
  PROVE  LET u == Touched(Post(t, side, amount))
         IN  /\ u.debits = t.debits + (IF side = "DEBIT" THEN amount ELSE 0)
             /\ u.credits = t.credits + (IF side = "CREDIT" THEN amount ELSE 0)
             /\ u.held = t.held
<1> DEFINE p == Post(t, side, amount)
<1>1. /\ p \in Row
      /\ p.debits = t.debits + (IF side = "DEBIT" THEN amount ELSE 0)
      /\ p.credits = t.credits + (IF side = "CREDIT" THEN amount ELSE 0)
      /\ p.held = t.held
  <2>1. CASE side = "DEBIT"  BY <2>1 DEF Post, Row
  <2>2. CASE side = "CREDIT"  BY <2>2 DEF Post, Row
  <2> QED BY <2>1, <2>2
<1> HIDE DEF p
<1>2. /\ Touched(p).debits = p.debits /\ Touched(p).credits = p.credits
      /\ Touched(p).held = p.held
  BY <1>1 DEF Touched, Row
<1> QED BY <1>1, <1>2 DEF p

\* Totals.Reserve and Release move what is held and nothing else.
LEMMA HeldFields ==
  ASSUME NEW t \in Row, NEW amount \in Nat
  PROVE  /\ Reserve(t, amount) \in Row /\ Reserve(t, amount).debits = t.debits
         /\ Reserve(t, amount).credits = t.credits
         /\ Reserve(t, amount).held = t.held + amount
         /\ Unreserve(t, amount) \in Row /\ Unreserve(t, amount).debits = t.debits
         /\ Unreserve(t, amount).credits = t.credits
         /\ Unreserve(t, amount).held = t.held - amount
         /\ Touched(t).debits = t.debits /\ Touched(t).credits = t.credits
         /\ Touched(t).held = t.held
BY DEF Reserve, Unreserve, Touched, Row

PostedTo(b, n, a, source, payee, feeAccount, principal, fee) ==
  /\ n[a].debits = b[a].debits + (IF a = source THEN principal + fee ELSE 0)
  /\ n[a].credits = b[a].credits + (IF a = payee THEN principal
                                    ELSE IF a = feeAccount THEN fee ELSE 0)
  /\ n[a].held = b[a].held

\* NewJournal's lines, posted: the source pays principal and fee, the payee gets
\* the principal, the fee account the fee, and no other account anything.
LEMMA PostingsEffect ==
  ASSUME NEW b \in [Accounts -> Row], NEW source \in Accounts, NEW payee \in Accounts,
         NEW feeAccount \in Accounts, source # payee, source # feeAccount,
         payee # feeAccount, NEW principal \in Nat, NEW fee \in Nat, NEW a \in Accounts
  PROVE  PostedTo(b, PostAll(b, Postings(source, payee, feeAccount, principal, fee)), a,
                  source, payee, feeAccount, principal, fee)
<1> USE DEF PostedTo
<1> DEFINE lines == Postings(source, payee, feeAccount, principal, fee)
           n == PostAll(b, lines)[a]
<1>0. b[a] \in Row /\ b[a].debits \in Nat /\ b[a].credits \in Nat  BY DEF Row
<1>1. \A l \in lines :
        \/ l.account = source /\ l.side = "DEBIT" /\ l.amount = principal + fee
        \/ l.account = payee /\ l.side = "CREDIT" /\ l.amount = principal
        \/ l.account = feeAccount /\ l.side = "CREDIT" /\ l.amount = fee
  BY DEF Postings, Line
<1>2. /\ \E l \in lines : l.account = source
      /\ \E l \in lines : l.account = payee
      /\ fee # 0 => \E l \in lines : l.account = feeAccount
  <2>1. /\ Line(source, "DEBIT", principal + fee) \in lines
        /\ Line(payee, "CREDIT", principal) \in lines
        /\ fee # 0 => Line(feeAccount, "CREDIT", fee) \in lines
    BY DEF Postings
  <2>2. \A x, side, amount : Line(x, side, amount).account = x  BY DEF Line
  <2> HIDE DEF lines
  <2> QED BY <2>1, <2>2
<1> HIDE DEF lines
<1>3. CASE \E l \in lines : l.account = a
  <2> DEFINE m == CHOOSE l \in lines : l.account = a
  <2>1. m \in lines /\ m.account = a  BY <1>3
  <2>2. n = Touched(Post(b[a], m.side, m.amount))  BY <1>3 DEF PostAll
  <2> HIDE DEF m
  <2>3. m.side \in {"DEBIT", "CREDIT"} /\ m.amount \in Nat  BY <1>1, <2>1
  <2>4. /\ n.debits = b[a].debits + (IF m.side = "DEBIT" THEN m.amount ELSE 0)
        /\ n.credits = b[a].credits + (IF m.side = "CREDIT" THEN m.amount ELSE 0)
        /\ n.held = b[a].held
    BY <1>0, <2>2, <2>3, PostFields
  <2> HIDE DEF n
  <2>5. CASE a = source
    <3>1. m.side = "DEBIT" /\ m.amount = principal + fee  BY <1>1, <2>1, <2>5
    <3> QED BY <1>0, <2>4, <2>5, <3>1 DEF n, lines
  <2>6. CASE a = payee
    <3>1. m.side = "CREDIT" /\ m.amount = principal  BY <1>1, <2>1, <2>6
    <3> QED BY <1>0, <2>4, <2>6, <3>1 DEF n, lines
  <2>7. CASE a = feeAccount
    <3>1. m.side = "CREDIT" /\ m.amount = fee  BY <1>1, <2>1, <2>7
    <3> QED BY <1>0, <2>4, <2>7, <3>1 DEF n, lines
  <2> QED BY <1>1, <2>1, <2>5, <2>6, <2>7
<1>4. CASE ~\E l \in lines : l.account = a
  <2>1. n = b[a]  BY <1>4 DEF PostAll
  <2>2. a # source /\ a # payee /\ (a = feeAccount => fee = 0)  BY <1>2, <1>4
  <2> HIDE DEF n
  <2> QED BY <1>0, <2>1, <2>2 DEF n, lines
<1> QED BY <1>3, <1>4

\* How much a step adds to an account's debits, credits and holds.
Moved(a, debit, credit, held) ==
  /\ balance'[a].debits = balance[a].debits + debit
  /\ balance'[a].credits = balance[a].credits + credit
  /\ balance'[a].held = balance[a].held + held

\* Every balance the invariant speaks of is a row of numbers.
LEMMA BalanceRows ==
  ASSUME LedgerInv
  PROVE  /\ balance \in [Accounts -> Row]
         /\ \A a \in Accounts : /\ balance[a].debits \in Nat /\ balance[a].credits \in Nat
                                /\ balance[a].held \in Int
<1>1. balance \in [Accounts -> Row]  BY BalanceIsRow DEF LedgerInv, TypeOK
<1> QED BY <1>1 DEF Row

\* TransferInternal pays the beneficiary and the fee account out of the source.
LEMMA TransferEffect ==
  ASSUME LedgerInv, NEW r \in Transfers, NEW now \in Times,
         TransferVerdict(r, now) = "APPLIED",
         balance' = PostAll(balance, TransferLines(r.terms))
  PROVE  LET t == r.terms
             fees == Policies[t.policy].feeAccount
         IN  /\ t \in Terms /\ t.source \in Accounts \ (Pools \cup FeeAccounts)
             /\ t.beneficiary \in Accounts \ (Pools \cup FeeAccounts)
             /\ t.source # t.beneficiary /\ fees \in FeeAccounts /\ fees \in Accounts
             /\ t.principal \in Nat /\ t.fee \in Nat /\ t.policy \in DOMAIN Policies
             /\ Exists(t.source) /\ ~DebitFrozen(t.source) /\ Exists(t.beneficiary)
             /\ \A a \in Accounts :
                  Moved(a, IF a = t.source THEN Total(t) ELSE 0,
                        IF a = t.beneficiary THEN t.principal ELSE IF a = fees THEN t.fee ELSE 0,
                        0)
<1> DEFINE t == r.terms
           fees == Policies[t.policy].feeAccount
<1>1. AdmitVerdict(r, now) = "APPLIED"  BY DEF TransferVerdict
<1>2. /\ t.source # t.beneficiary /\ Exists(t.beneficiary)
      /\ Purpose(t.beneficiary) = "WALLET"
  BY DEF TransferVerdict
<1>3. /\ Exists(t.source) /\ t.source \notin Pools \cup FeeAccounts
      /\ ~DebitFrozen(t.source) /\ t.policy \in DOMAIN Policies
  BY <1>1, AdmitFacts DEF LedgerInv
<1>4. /\ t \in Terms /\ t.source \in Accounts /\ t.beneficiary \in Accounts
      /\ t.principal \in Nat /\ t.fee \in Nat
  BY TermsTypes, BoundsAssumption DEF Terms, Amounts
<1>5. t.beneficiary \notin Pools \cup FeeAccounts  BY <1>2 DEF Purpose
<1>6. fees \in FeeAccounts /\ fees \in Accounts  BY <1>3, PolicyAssumption, IdAssumption
<1>7. ASSUME NEW a \in Accounts
      PROVE  Moved(a, IF a = t.source THEN Total(t) ELSE 0,
                   IF a = t.beneficiary THEN t.principal ELSE IF a = fees THEN t.fee ELSE 0, 0)
  <2>1. balance' = PostAll(balance, Postings(t.source, t.beneficiary, fees, t.principal, t.fee))
    BY DEF TransferLines
  <2>2. /\ balance \in [Accounts -> Row] /\ balance[a].held \in Int
    BY BalanceRows
  <2> HIDE DEF t, fees
  <2>3. t.source # fees /\ t.beneficiary # fees  BY <1>3, <1>5, <1>6
  <2>4. PostedTo(balance, balance', a, t.source, t.beneficiary, fees, t.principal, t.fee)
    BY <1>2, <1>4, <1>6, <2>1, <2>2, <2>3, PostingsEffect
  <2> QED BY <2>2, <2>4 DEF Moved, Total, PostedTo
<1> QED BY <1>2, <1>3, <1>4, <1>5, <1>6, <1>7

\* ReservePayout holds the total on the source and the principal on the pool.
LEMMA ReserveEffect ==
  ASSUME LedgerInv, NEW r \in Reserves, NEW now \in Times,
         ReserveVerdict(r, now) = "APPLIED",
         balance' = [balance EXCEPT ![r.terms.source] = Touched(Reserve(@, Total(r.terms))),
                                    ![r.pool] = Touched(Reserve(@, r.terms.principal))]
  PROVE  LET t == r.terms
         IN  /\ t \in Terms /\ t.source \in Accounts \ (Pools \cup FeeAccounts)
             /\ r.pool \in Pools /\ r.pool \in Accounts /\ r.pool # t.source
             /\ t.principal \in Nat /\ t.fee \in Nat /\ t.policy \in DOMAIN Policies
             /\ Exists(t.source) /\ ~DebitFrozen(t.source) /\ Exists(r.pool)
             /\ \A a \in Accounts :
                  Moved(a, 0, 0, IF a = t.source THEN Total(t)
                                 ELSE IF a = r.pool THEN t.principal ELSE 0)
<1> DEFINE t == r.terms
<1>1. AdmitVerdict(r, now) = "APPLIED"  BY DEF ReserveVerdict
<1>2. Exists(r.pool) /\ r.pool = Policies[t.policy].pool  BY DEF ReserveVerdict
<1>3. /\ Exists(t.source) /\ t.source \notin Pools \cup FeeAccounts
      /\ ~DebitFrozen(t.source) /\ t.policy \in DOMAIN Policies
  BY <1>1, AdmitFacts DEF LedgerInv
<1>4. t \in Terms /\ t.source \in Accounts /\ t.principal \in Nat /\ t.fee \in Nat
  BY TermsTypes, BoundsAssumption DEF Terms, Amounts
<1>5. r.pool \in Pools /\ r.pool \in Accounts  BY <1>2, <1>3, PolicyAssumption, IdAssumption
<1>6. ASSUME NEW a \in Accounts
      PROVE  Moved(a, 0, 0, IF a = t.source THEN Total(t)
                            ELSE IF a = r.pool THEN t.principal ELSE 0)
  <2>1. /\ balance \in [Accounts -> Row] /\ balance[a] \in Row
        /\ balance[a].debits \in Nat /\ balance[a].credits \in Nat /\ balance[a].held \in Int
    BY BalanceRows
  <2>2. Total(t) \in Nat /\ r.pool # t.source  BY <1>3, <1>4, <1>5 DEF Total
  <2>3. balance'[a] = IF a = t.source THEN Touched(Reserve(balance[a], Total(t)))
                      ELSE IF a = r.pool THEN Touched(Reserve(balance[a], t.principal))
                      ELSE balance[a]
    BY <1>4, <1>5, <2>1, <2>2
  <2>4. \A n \in Nat : /\ Touched(Reserve(balance[a], n)).debits = balance[a].debits
                       /\ Touched(Reserve(balance[a], n)).credits = balance[a].credits
                       /\ Touched(Reserve(balance[a], n)).held = balance[a].held + n
    <3> TAKE n \in Nat
    <3>1. /\ Reserve(balance[a], n) \in Row /\ Reserve(balance[a], n).debits = balance[a].debits
          /\ Reserve(balance[a], n).credits = balance[a].credits
          /\ Reserve(balance[a], n).held = balance[a].held + n
      BY <2>1, HeldFields
    <3>2. \A x \in Row : /\ Touched(x).debits = x.debits /\ Touched(x).credits = x.credits
                         /\ Touched(x).held = x.held
      BY DEF Touched, Row
    <3> QED BY <3>1, <3>2
  <2> HIDE DEF t
  <2> QED BY <1>4, <2>1, <2>2, <2>3, <2>4 DEF Moved
<1> QED BY <1>2, <1>3, <1>4, <1>5, <1>6

\* What a hold's encumbrance lifted leaves on each account.
LEMMA UnencumberedEffect ==
  ASSUME LedgerInv, NEW h \in Holds, hold[h].state # "ABSENT", NEW a \in Accounts
  PROVE  LET t == hold[h].reserve.terms
             b == Unencumbered(h)
         IN  /\ b \in [Accounts -> Row]
             /\ b[a].debits = balance[a].debits /\ b[a].credits = balance[a].credits
             /\ b[a].held = balance[a].held - (IF a = t.source THEN Total(t)
                                               ELSE IF a = hold[h].reserve.pool
                                               THEN t.principal ELSE 0)
<1> DEFINE r == hold[h].reserve
           t == r.terms
           b == Unencumbered(h)
<1>1. /\ t.source \in Accounts /\ r.pool \in Accounts /\ r.pool # t.source
      /\ t.principal \in Nat /\ Total(t) \in Nat
  BY HoldFacts DEF HoldTotal
<1>2. /\ balance \in [Accounts -> Row]
      /\ \A x \in Accounts : balance[x] \in Row /\ balance[x].held \in Int
  BY BalanceRows
<1>3. b = [balance EXCEPT ![t.source] = Unreserve(@, Total(t)),
                          ![r.pool] = Unreserve(@, t.principal)]
  BY DEF Unencumbered
<1> HIDE DEF r, t, b
<1>4. /\ b \in [Accounts -> Row]
      /\ \A x \in Accounts : b[x] = IF x = t.source THEN Unreserve(balance[x], Total(t))
                                    ELSE IF x = r.pool THEN Unreserve(balance[x], t.principal)
                                    ELSE balance[x]
  BY <1>1, <1>2, <1>3, HeldFields
<1>5. /\ b[a].debits = balance[a].debits /\ b[a].credits = balance[a].credits
      /\ b[a].held = balance[a].held - (IF a = t.source THEN Total(t)
                                        ELSE IF a = r.pool THEN t.principal ELSE 0)
  <2>0. \A n \in Nat : /\ Unreserve(balance[a], n).debits = balance[a].debits
                       /\ Unreserve(balance[a], n).credits = balance[a].credits
                       /\ Unreserve(balance[a], n).held = balance[a].held - n
    BY <1>2, HeldFields
  <2>1. CASE a = t.source
    BY <1>1, <1>4, <2>0, <2>1
  <2>2. CASE a = r.pool
    BY <1>1, <1>4, <2>0, <2>2
  <2>3. CASE a # t.source /\ a # r.pool
    BY <1>2, <1>4, <2>3
  <2> QED BY <2>1, <2>2, <2>3
<1> QED BY <1>4, <1>5 DEF r, t, b

\* CapturePayout turns what was held into what is posted.
LEMMA CaptureEffect ==
  ASSUME LedgerInv, NEW h \in Holds, hold[h].state # "ABSENT",
         balance' = PostAll(Unencumbered(h), HoldLines(h)), NEW a \in Accounts
  PROVE  LET t == hold[h].reserve.terms
             pool == hold[h].reserve.pool
             held == IF a = t.source THEN Total(t) ELSE IF a = pool THEN t.principal ELSE 0
         IN  Moved(a, IF a = t.source THEN Total(t) ELSE 0,
                   IF a = pool THEN t.principal
                   ELSE IF a = HoldFeeAccount(h) THEN t.fee ELSE 0,
                   0 - held)
<1> DEFINE r == hold[h].reserve
           t == r.terms
           fees == HoldFeeAccount(h)
           b == Unencumbered(h)
           n == PostAll(b, Postings(t.source, r.pool, fees, t.principal, t.fee))
<1>1. /\ t.source \in Accounts /\ r.pool \in Accounts /\ r.pool # t.source
      /\ t.source \notin FeeAccounts /\ r.pool \notin FeeAccounts /\ fees \in Accounts
      /\ t.principal \in Nat /\ t.fee \in Nat
  BY HoldFacts
<1>2. fees \in FeeAccounts
  BY PolicyAssumption DEF LedgerInv, HoldsWellFormed, HoldFeeAccount
<1>3. /\ b \in [Accounts -> Row]
      /\ b[a].debits = balance[a].debits /\ b[a].credits = balance[a].credits
      /\ b[a].held = balance[a].held - (IF a = t.source THEN Total(t)
                                        ELSE IF a = r.pool THEN t.principal ELSE 0)
  BY UnencumberedEffect
<1>4. balance' = n  BY DEF HoldLines
<1>5. balance[a].held \in Int  BY BalanceRows
<1> HIDE DEF b, t, r, fees
<1>6. PostedTo(b, n, a, t.source, r.pool, fees, t.principal, t.fee)
  BY <1>1, <1>2, <1>3, PostingsEffect
<1> HIDE DEF n
<1>7. Moved(a, IF a = t.source THEN Total(t) ELSE 0,
            IF a = r.pool THEN t.principal ELSE IF a = fees THEN t.fee ELSE 0,
            0 - (IF a = t.source THEN Total(t) ELSE IF a = r.pool THEN t.principal ELSE 0))
  BY <1>1, <1>3, <1>4, <1>5, <1>6 DEF Moved, Total, PostedTo
<1> QED BY <1>7 DEF t, r, fees

\* ReleasePayout lifts what was held and posts nothing.
LEMMA ReleaseEffect ==
  ASSUME LedgerInv, NEW h \in Holds, hold[h].state # "ABSENT", NEW a \in Accounts,
         balance' = [x \in Accounts |->
           IF x \in {hold[h].reserve.terms.source, hold[h].reserve.pool}
           THEN Touched(Unencumbered(h)[x]) ELSE balance[x]]
  PROVE  LET t == hold[h].reserve.terms
             held == IF a = t.source THEN Total(t)
                     ELSE IF a = hold[h].reserve.pool THEN t.principal ELSE 0
         IN  Moved(a, 0, 0, 0 - held)
<1> DEFINE r == hold[h].reserve
           t == r.terms
           b == Unencumbered(h)
<1>1. t.principal \in Nat /\ Total(t) \in Nat  BY HoldFacts DEF HoldTotal
<1>2. /\ b \in [Accounts -> Row]
      /\ b[a].debits = balance[a].debits /\ b[a].credits = balance[a].credits
      /\ b[a].held = balance[a].held - (IF a = t.source THEN Total(t)
                                        ELSE IF a = r.pool THEN t.principal ELSE 0)
  BY UnencumberedEffect
<1>3. balance'[a] = IF a \in {t.source, r.pool} THEN Touched(b[a]) ELSE balance[a]  OBVIOUS
<1>4. /\ balance[a].debits \in Nat /\ balance[a].credits \in Nat /\ balance[a].held \in Int
  BY BalanceRows
<1> HIDE DEF b, t, r
<1>5. /\ Touched(b[a]).debits = b[a].debits /\ Touched(b[a]).credits = b[a].credits
      /\ Touched(b[a]).held = b[a].held
  BY <1>2, HeldFields
<1>6. Moved(a, 0, 0,
            0 - (IF a = t.source THEN Total(t) ELSE IF a = r.pool THEN t.principal ELSE 0))
  BY <1>1, <1>2, <1>3, <1>4, <1>5 DEF Moved
<1> QED BY <1>6 DEF t, r

-----------------------------------------------------------------------------
(***************************************************************************)
(* The accounts, their controls and the owners of holds.                   *)
(***************************************************************************)
\* Every existing account has both of its control rows, the fixture's accounts
\* exist, and an account that does not exist has nothing on it.
AccountsComplete ==
  /\ \A a \in Pools \cup FeeAccounts : Exists(a)
  /\ \A a \in Accounts : Exists(a) => HasControls(a)
  /\ \A a \in Accounts : ~Exists(a) => /\ balance[a].debits = 0 /\ balance[a].credits = 0
                                       /\ balance[a].held = 0

\* A hold belongs to the owner of its source account, and its grant was never
\* ahead of that owner's epoch or of that account's.
Owned(h) ==
  LET t == hold[h].reserve.terms
  IN  /\ owner[t.source] = hold[h].owner
      /\ t.grant.subjectEpoch <= control[<<"SUBJECT", hold[h].owner>>].epoch
      /\ t.grant.accountEpoch <= control[<<"ACCOUNT", t.source>>].epoch
HoldsOwned == \A h \in Holds : hold[h].state # "ABSENT" => Owned(h)

BookInv == LedgerInv /\ AccountsComplete /\ HoldsOwned

OwnersStay == \A a \in Accounts : Exists(a) => owner'[a] = owner[a]
ControlsAdvance ==
  \A k \in ControlKeys : control[k].version > 0 =>
    control'[k].version > 0 /\ control'[k].epoch >= control[k].epoch
BalancesMove ==
  \A a \in Accounts : Moved(a, 0, 0, 0) \/ Exists(a)

\* An account and the owner of an existing one have a key in spending_controls.
LEMMA KeysOf ==
  ASSUME TypeOK
  PROVE  /\ \A a \in Accounts : <<"ACCOUNT", a>> \in ControlKeys
         /\ \A a \in Accounts : Exists(a) =>
              owner[a] \in Owners /\ <<"SUBJECT", owner[a]>> \in ControlKeys
BY DEF ControlKeys, TypeOK, Exists

\* Rows nobody writes stay as they are.
LEMMA UnchangedBook ==
  ASSUME LedgerInv
  PROVE  /\ UNCHANGED owner => OwnersStay
         /\ UNCHANGED control => ControlsAdvance
         /\ UNCHANGED balance => BalancesMove
<1>1. \A k \in ControlKeys : control[k].epoch \in Nat
  BY BoundsAssumption DEF LedgerInv, TypeOK, Control, Versions
<1>2. \A a \in Accounts : /\ balance[a].debits \in Nat /\ balance[a].credits \in Nat
                          /\ balance[a].held \in Int
  BY BalanceRows
<1> QED BY <1>1, <1>2 DEF OwnersStay, ControlsAdvance, BalancesMove, Moved

\* An update of a control advances its version and never takes its epoch back.
LEMMA SetControlAdvances ==
  ASSUME LedgerInv, NEW r \in SetControls, SetAccountControl(r)
  PROVE  ControlsAdvance /\ UNCHANGED <<owner, balance, hold>>
<1>1. r \in Requests /\ r.key \in ControlKeys /\ r.revokeGrants \in BOOLEAN
  BY RequestAssumption DEF Requests, SetControlRequest
<1>2. CASE Reject(r, SetControlVerdict(r))
  BY <1>1, <1>2, RejectEffect, UnchangedBook
<1> DEFINE c == control[r.key]
           n == [version |-> c.version + 1,
                 epoch |-> IF r.revokeGrants THEN c.epoch + 1 ELSE c.epoch,
                 debitFrozen |-> r.debitFrozen, creditFrozen |-> r.creditFrozen,
                 dailyCap |-> r.dailyCap]
<1>3. CASE /\ control' = [control EXCEPT ![r.key] = n]
           /\ UNCHANGED <<owner, hold, money>>
  <2>1. \A k \in ControlKeys : control[k].version \in Nat /\ control[k].epoch \in Nat
    BY BoundsAssumption DEF LedgerInv, TypeOK, Control, Versions
  <2>2. n.version = c.version + 1 /\ n.epoch >= c.epoch  BY <1>1, <2>1
  <2>3. \A k \in ControlKeys : control'[k] = IF k = r.key THEN n ELSE control[k]
    BY <1>1, <1>3 DEF LedgerInv, TypeOK
  <2> HIDE DEF n
  <2>4. ControlsAdvance  BY <1>1, <2>1, <2>2, <2>3 DEF ControlsAdvance
  <2> QED BY <1>3, <2>4 DEF money
<1> QED BY <1>2, <1>3 DEF SetAccountControl

\* A new account is one that did not exist; controls that exist are kept.
LEMMA CreateAdvances ==
  ASSUME BookInv, NEW r \in Creates, CreateAccount(r)
  PROVE  OwnersStay /\ ControlsAdvance /\ AccountsComplete' /\ UNCHANGED hold
<1>1. r \in Requests /\ r.account \in Accounts /\ r.owner \in Owners /\ LedgerInv
  BY RequestAssumption DEF Requests, CreateRequest, BookInv
<1>2. CASE Reject(r, CreateVerdict(r))
  <2>1. UNCHANGED <<owner, control, balance, hold>>  BY <1>1, <1>2, RejectEffect
  <2> QED BY <1>1, <2>1, UnchangedBook
          DEF BookInv, AccountsComplete, Exists, HasControls, SubjectControl, AccountControl
<1>3. CASE /\ CreateVerdict(r) = "APPLIED"
           /\ owner' = [owner EXCEPT ![r.account] = r.owner]
           /\ balance' = [balance EXCEPT ![r.account] = NewBalance]
           /\ control' = [k \in ControlKeys |->
                 IF /\ k \in {<<"SUBJECT", r.owner>>, <<"ACCOUNT", r.account>>}
                    /\ control[k].version = 0
                 THEN NewControl(k) ELSE control[k]]
           /\ UNCHANGED hold
  <2>1. ~Exists(r.account)  BY <1>3 DEF CreateVerdict
  <2>2. \A a \in Accounts : owner'[a] = IF a = r.account THEN r.owner ELSE owner[a]
    BY <1>1, <1>3 DEF LedgerInv, TypeOK
  <2>3. OwnersStay  BY <2>1, <2>2 DEF OwnersStay
  <2>4. \A k \in ControlKeys : NewControl(k).version = 1 /\ NewControl(k).epoch = 1
    BY DEF NewControl
  <2>5. \A k \in ControlKeys : control[k].version \in Nat /\ control[k].epoch \in Nat
    BY <1>1, BoundsAssumption DEF LedgerInv, TypeOK, Control, Versions
  <2>6. \A k \in ControlKeys :
          control'[k] = IF /\ k \in {<<"SUBJECT", r.owner>>, <<"ACCOUNT", r.account>>}
                           /\ control[k].version = 0
                        THEN NewControl(k) ELSE control[k]
    BY <1>3
  <2>7. ControlsAdvance  BY <2>5, <2>6 DEF ControlsAdvance
  <2>8. \A k \in ControlKeys :
          k \in {<<"SUBJECT", r.owner>>, <<"ACCOUNT", r.account>>} => control'[k].version > 0
    BY <2>4, <2>5, <2>6
  <2>9. \A a \in Pools \cup FeeAccounts : owner'[a] # NoOwner
    BY <1>1, <2>2, IdAssumption DEF BookInv, AccountsComplete, Exists
  <2>10. ASSUME NEW a \in Accounts, owner'[a] # NoOwner
         PROVE  /\ control'[<<"SUBJECT", owner'[a]>>].version > 0
                /\ control'[<<"ACCOUNT", a>>].version > 0
    <3>1. CASE a = r.account
      <4>1. owner'[a] = r.owner  BY <2>2, <3>1
      <4>2. <<"SUBJECT", r.owner>> \in ControlKeys /\ <<"ACCOUNT", r.account>> \in ControlKeys
        BY <1>1 DEF ControlKeys
      <4> QED BY <2>8, <3>1, <4>1, <4>2
    <3>2. CASE a # r.account
      <4>1. owner'[a] = owner[a] /\ Exists(a)  BY <2>2, <2>10, <3>2 DEF Exists
      <4>2. HasControls(a)  BY <4>1 DEF BookInv, AccountsComplete
      <4>3. <<"SUBJECT", owner[a]>> \in ControlKeys /\ <<"ACCOUNT", a>> \in ControlKeys
        BY <1>1, <4>1, KeysOf DEF LedgerInv
      <4> QED BY <2>7, <4>1, <4>2, <4>3
              DEF ControlsAdvance, HasControls, SubjectControl, AccountControl
    <3> QED BY <3>1, <3>2
  <2>11. ASSUME NEW a \in Accounts, owner'[a] = NoOwner
         PROVE  /\ balance'[a].debits = 0 /\ balance'[a].credits = 0
                /\ balance'[a].held = 0
    <3>1. a # r.account /\ owner[a] = NoOwner  BY <1>1, <2>2, <2>11, IdAssumption
    <3>2. balance'[a] = balance[a]  BY <1>1, <1>3, <3>1 DEF LedgerInv, TypeOK
    <3> QED BY <3>1, <3>2 DEF BookInv, AccountsComplete, Exists
  <2>12. AccountsComplete'
    BY <2>9, <2>10, <2>11
    DEF AccountsComplete, Exists, HasControls, SubjectControl, AccountControl
  <2> QED BY <1>3, <2>3, <2>7, <2>12
<1> QED BY <1>2, <1>3 DEF CreateAccount

\* Accounts stay complete while owners and controls only advance and nothing is
\* posted on or held against an account that does not exist.
LEMMA CompleteStays ==
  ASSUME BookInv, UNCHANGED owner, ControlsAdvance, BalancesMove
  PROVE  AccountsComplete'
<1>1. TypeOK  BY DEF BookInv, LedgerInv
<1>2. \A a \in Accounts : Exists(a) => HasControls(a)'
  BY <1>1, KeysOf
  DEF BookInv, AccountsComplete, HasControls, SubjectControl, AccountControl, ControlsAdvance,
      Exists
<1>3. \A a \in Accounts : ~Exists(a) => /\ balance'[a].debits = 0 /\ balance'[a].credits = 0
                                        /\ balance'[a].held = 0
  BY DEF BookInv, AccountsComplete, BalancesMove, Moved
<1> QED BY <1>2, <1>3 DEF BookInv, AccountsComplete, Exists

\* The controls a hold's grant was taken under exist, and its epochs are numbers.
LEMMA HoldEpochs ==
  ASSUME BookInv, NEW h \in Holds, hold[h].state # "ABSENT"
  PROVE  LET t == hold[h].reserve.terms
             subject == <<"SUBJECT", hold[h].owner>>
             account == <<"ACCOUNT", t.source>>
         IN  /\ t.grant.subjectEpoch \in Int /\ t.grant.accountEpoch \in Int
             /\ subject \in ControlKeys /\ control[subject].version > 0
             /\ account \in ControlKeys /\ control[account].version > 0
             /\ control[subject].epoch \in Int /\ control[account].epoch \in Int
<1> DEFINE t == hold[h].reserve.terms
           subject == <<"SUBJECT", hold[h].owner>>
           account == <<"ACCOUNT", t.source>>
<1>1. LedgerInv /\ TypeOK  BY DEF BookInv, LedgerInv
<1>2. t \in Terms /\ t.source \in Accounts /\ hold[h].owner \in Owners
  BY <1>1, HoldFacts DEF LedgerInv, HoldsWellFormed
<1>3. owner[t.source] = hold[h].owner  BY DEF BookInv, HoldsOwned, Owned
<1>4. Exists(t.source)  BY <1>2, <1>3, IdAssumption DEF Exists
<1>5. HasControls(t.source)  BY <1>2, <1>4 DEF BookInv, AccountsComplete
<1>6. subject \in ControlKeys /\ account \in ControlKeys  BY <1>2 DEF ControlKeys
<1>7. control[subject].version > 0 /\ control[account].version > 0
  BY <1>3, <1>5 DEF HasControls, SubjectControl, AccountControl
<1>8. control[subject].epoch \in Int /\ control[account].epoch \in Int
  BY <1>1, <1>6, BoundsAssumption DEF TypeOK, Control, Versions
<1>9. t.grant.subjectEpoch \in Int /\ t.grant.accountEpoch \in Int
  BY <1>2, BoundsAssumption DEF Terms, Grant, Versions
<1> QED BY <1>6, <1>7, <1>8, <1>9

\* Holds stay owned while owners and epochs only advance and holds keep their terms.
LEMMA OwnedStays ==
  ASSUME BookInv, OwnersStay, ControlsAdvance, control' \in [ControlKeys -> Control],
         NEW h \in Holds, hold[h].state # "ABSENT",
         hold'[h].reserve = hold[h].reserve, hold'[h].owner = hold[h].owner
  PROVE  Owned(h)'
<1> DEFINE r == hold[h].reserve
           subject == <<"SUBJECT", hold[h].owner>>
           account == <<"ACCOUNT", r.terms.source>>
<1>1. LedgerInv /\ TypeOK  BY DEF BookInv, LedgerInv
<1>2. r.terms.source \in Accounts /\ hold[h].owner \in Owners
  BY <1>1, HoldFacts DEF LedgerInv, HoldsWellFormed
<1>3. /\ owner[r.terms.source] = hold[h].owner
      /\ r.terms.grant.subjectEpoch <= control[subject].epoch
      /\ r.terms.grant.accountEpoch <= control[account].epoch
  BY DEF BookInv, HoldsOwned, Owned
<1>4. Exists(r.terms.source)  BY <1>2, <1>3, IdAssumption DEF Exists
<1>5. /\ r.terms.grant.subjectEpoch \in Int /\ r.terms.grant.accountEpoch \in Int
      /\ subject \in ControlKeys /\ control[subject].version > 0
      /\ account \in ControlKeys /\ control[account].version > 0
      /\ control[subject].epoch \in Int /\ control[account].epoch \in Int
  BY HoldEpochs
<1>6. /\ control'[subject].epoch >= control[subject].epoch
      /\ control'[account].epoch >= control[account].epoch
  BY <1>5 DEF ControlsAdvance
<1>7. control'[subject].epoch \in Int /\ control'[account].epoch \in Int
  BY <1>5, BoundsAssumption DEF Control, Versions
<1>8. owner'[r.terms.source] = hold[h].owner  BY <1>2, <1>3, <1>4 DEF OwnersStay
<1>9. /\ r.terms.grant.subjectEpoch <= control'[subject].epoch
      /\ r.terms.grant.accountEpoch <= control'[account].epoch
  BY <1>3, <1>5, <1>6, <1>7
<1> QED BY <1>8, <1>9 DEF Owned

\* What a command on a hold does to holds: none appears, and each keeps its terms
\* and its owner.
LEMMA MoveHoldOwners ==
  ASSUME LedgerInv, NEW r \in Exposes \cup Captures \cup Releases,
         NEW state \in {"EXPOSED", "CAPTURED", "RELEASED"},
         RefVerdict(r) = "APPLIED", MoveHold(r, state), NEW h \in Holds
  PROVE  /\ hold'[h].reserve = hold[h].reserve /\ hold'[h].owner = hold[h].owner
         /\ hold'[h].state # "ABSENT" => hold[h].state # "ABSENT"
BY MoveHoldEffect

\* A hold is new only by a reservation, from the owner's account under a grant of
\* the epochs of the owner and the account.
HoldsInherit ==
  \A h \in Holds : hold'[h].state # "ABSENT" =>
    \/ /\ hold[h].state # "ABSENT"
       /\ hold'[h].reserve = hold[h].reserve /\ hold'[h].owner = hold[h].owner
    \/ Owned(h)'

\* A transfer posts on existing accounts only.
LEMMA TransferBook ==
  ASSUME BookInv, NEW r \in Transfers, NEW now \in Times, TransferInternal(r, now)
  PROVE  UNCHANGED <<owner, control>> /\ BalancesMove /\ HoldsInherit
<1>1. LedgerInv /\ r \in Requests  BY DEF BookInv, Requests
<1>2. CASE RejectAdmission(r, TransferVerdict(r, now))
  <2>1. Reject(r, TransferVerdict(r, now))  BY <1>2 DEF RejectAdmission
  <2>2. UNCHANGED <<owner, control, hold, balance>>  BY <1>1, <2>1, RejectEffect
  <2> QED BY <1>1, <2>2, UnchangedBook DEF HoldsInherit
<1>3. CASE /\ TransferVerdict(r, now) = "APPLIED"
           /\ balance' = PostAll(balance, TransferLines(r.terms))
           /\ UNCHANGED <<owner, control, hold>>
  <2> DEFINE t == r.terms
             fees == Policies[t.policy].feeAccount
  <2>1. /\ fees \in FeeAccounts /\ Exists(t.source) /\ Exists(t.beneficiary)
        /\ \A a \in Accounts :
             Moved(a, IF a = t.source THEN Total(t) ELSE 0,
                   IF a = t.beneficiary THEN t.principal ELSE IF a = fees THEN t.fee ELSE 0, 0)
    BY <1>1, <1>3, TransferEffect
  <2>2. Exists(fees)  BY <2>1 DEF BookInv, AccountsComplete
  <2> HIDE DEF t, fees
  <2>3. BalancesMove  BY <2>1, <2>2 DEF BalancesMove
  <2> QED BY <1>3, <2>3 DEF HoldsInherit
<1> QED BY <1>2, <1>3 DEF TransferInternal

\* A reservation holds on existing accounts only, under a current grant.
LEMMA ReserveBook ==
  ASSUME BookInv, NEW r \in Reserves, NEW now \in Times, ReservePayout(r, now)
  PROVE  UNCHANGED <<owner, control>> /\ BalancesMove /\ HoldsInherit
<1>1. LedgerInv /\ r \in Requests  BY DEF BookInv, Requests
<1>2. CASE RejectAdmission(r, ReserveVerdict(r, now))
  <2>1. Reject(r, ReserveVerdict(r, now))  BY <1>2 DEF RejectAdmission
  <2>2. UNCHANGED <<owner, control, hold, balance>>  BY <1>1, <2>1, RejectEffect
  <2> QED BY <1>1, <2>2, UnchangedBook DEF HoldsInherit
<1> DEFINE n == [state |-> "RESERVED", version |-> 1, reserve |-> r,
                 owner |-> owner[r.terms.source], bucket |-> Bucket(now)]
<1>3. CASE /\ ReserveVerdict(r, now) = "APPLIED"
           /\ balance' = [balance EXCEPT
                 ![r.terms.source] = Touched(Reserve(@, Total(r.terms))),
                 ![r.pool] = Touched(Reserve(@, r.terms.principal))]
           /\ hold' = [hold EXCEPT ![r.hold] = n]
           /\ UNCHANGED <<owner, control>>
  <2> DEFINE t == r.terms
  <2>1. /\ t \in Terms /\ t.source \in Accounts /\ Exists(t.source) /\ Exists(r.pool)
        /\ \A a \in Accounts :
             Moved(a, 0, 0, IF a = t.source THEN Total(t)
                            ELSE IF a = r.pool THEN t.principal ELSE 0)
    BY <1>1, <1>3, ReserveEffect
  <2>2. BalancesMove  BY <2>1 DEF BalancesMove
  <2>3. AdmitVerdict(r, now) = "APPLIED"  BY <1>3 DEF ReserveVerdict
  <2>4. /\ t.grant.subjectEpoch = control[<<"SUBJECT", owner[t.source]>>].epoch
        /\ t.grant.accountEpoch = control[<<"ACCOUNT", t.source>>].epoch
    BY <2>3 DEF AdmitVerdict, GrantCurrent, SubjectControl, AccountControl
  <2>5. t.grant.subjectEpoch \in Int /\ t.grant.accountEpoch \in Int
    BY <2>1, BoundsAssumption DEF Terms, Grant, Versions
  <2>6. n.reserve = r /\ n.owner = owner[t.source]  OBVIOUS
  <2>7. \A h \in Holds : hold'[h] = n \/ hold'[h] = hold[h]
    BY <1>1, <1>3 DEF LedgerInv, TypeOK
  <2> HIDE DEF n
  <2>8. HoldsInherit  BY <1>3, <2>4, <2>5, <2>6, <2>7 DEF HoldsInherit, Owned
  <2> QED BY <1>3, <2>2, <2>8
<1> QED BY <1>2, <1>3 DEF ReservePayout

\* The source and the pool of a hold exist.
LEMMA HoldAccountsExist ==
  ASSUME BookInv, NEW h \in Holds, hold[h].state # "ABSENT"
  PROVE  /\ Exists(hold[h].reserve.terms.source) /\ Exists(hold[h].reserve.pool)
         /\ Exists(HoldFeeAccount(h))
<1>1. hold[h].reserve.pool \in Pools /\ hold[h].owner \in Owners
      /\ hold[h].reserve.terms.policy \in DOMAIN Policies
  BY DEF BookInv, LedgerInv, HoldsWellFormed
<1>2. HoldFeeAccount(h) \in FeeAccounts  BY <1>1, PolicyAssumption DEF HoldFeeAccount
<1> QED BY <1>1, <1>2, IdAssumption DEF BookInv, HoldsOwned, Owned, AccountsComplete, Exists

\* Exposing moves no money.
LEMMA ExposeBook ==
  ASSUME BookInv, NEW r \in Exposes, NEW now \in Times, NEW known \in BOOLEAN,
         MarkHoldExposed(r, now, known)
  PROVE  UNCHANGED <<owner, control>> /\ BalancesMove /\ HoldsInherit
<1>1. LedgerInv /\ r \in Requests  BY DEF BookInv, Requests
<1>2. CASE Reject(r, ExposeVerdict(r, now, known))
  <2>1. UNCHANGED <<owner, control, hold, balance>>  BY <1>1, <1>2, RejectEffect
  <2> QED BY <1>1, <2>1, UnchangedBook DEF HoldsInherit
<1>3. CASE /\ ExposeVerdict(r, now, known) = "APPLIED" /\ MoveHold(r, "EXPOSED")
           /\ UNCHANGED <<owner, control, money>>
  <2>1. RefVerdict(r) = "APPLIED"  BY <1>3 DEF ExposeVerdict
  <2>2. HoldsInherit  BY <1>1, <1>3, <2>1, MoveHoldOwners DEF HoldsInherit
  <2> QED BY <1>1, <1>3, <2>2, UnchangedBook DEF money
<1> QED BY <1>2, <1>3 DEF MarkHoldExposed

\* A capture posts on the source, the pool and the fee account of its hold.
LEMMA CaptureBook ==
  ASSUME BookInv, NEW r \in Captures, NEW now \in Times, CapturePayout(r, now)
  PROVE  UNCHANGED <<owner, control>> /\ BalancesMove /\ HoldsInherit
<1>1. LedgerInv /\ r \in Requests  BY DEF BookInv, Requests
<1>2. CASE Reject(r, CaptureVerdict(r, now))
  <2>1. UNCHANGED <<owner, control, hold, balance>>  BY <1>1, <1>2, RejectEffect
  <2> QED BY <1>1, <2>1, UnchangedBook DEF HoldsInherit
<1>3. CASE /\ CaptureVerdict(r, now) = "APPLIED" /\ MoveHold(r, "CAPTURED")
           /\ balance' = PostAll(Unencumbered(r.ref.hold), HoldLines(r.ref.hold))
           /\ UNCHANGED <<owner, control>>
  <2> DEFINE h == r.ref.hold
  <2>1. RefVerdict(r) = "APPLIED"  BY <1>3 DEF CaptureVerdict
  <2>2. HoldsInherit  BY <1>1, <1>3, <2>1, MoveHoldOwners DEF HoldsInherit
  <2>3. h \in Holds /\ hold[h].state # "ABSENT"  BY <2>1, RefTypes DEF RefVerdict
  <2>4. /\ Exists(hold[h].reserve.terms.source) /\ Exists(hold[h].reserve.pool)
        /\ Exists(HoldFeeAccount(h))
    BY <2>3, HoldAccountsExist
  <2>5. ASSUME NEW a \in Accounts, ~Exists(a) PROVE Moved(a, 0, 0, 0)
    <3>1. /\ a # hold[h].reserve.terms.source /\ a # hold[h].reserve.pool
          /\ a # HoldFeeAccount(h)
      BY <2>4, <2>5
    <3>2. Moved(a, 0, 0, 0 - 0)  BY <1>1, <1>3, <2>3, <3>1, CaptureEffect
    <3> QED BY <3>2
  <2>6. BalancesMove  BY <2>5 DEF BalancesMove
  <2> QED BY <1>3, <2>2, <2>6
<1> QED BY <1>2, <1>3 DEF CapturePayout

\* A release lifts the hold of the source and of the pool.
LEMMA ReleaseBook ==
  ASSUME BookInv, NEW r \in Releases, NEW now \in Times, ReleasePayout(r, now)
  PROVE  UNCHANGED <<owner, control>> /\ BalancesMove /\ HoldsInherit
<1>1. LedgerInv /\ r \in Requests  BY DEF BookInv, Requests
<1>2. CASE Reject(r, ReleaseVerdict(r, now))
  <2>1. UNCHANGED <<owner, control, hold, balance>>  BY <1>1, <1>2, RejectEffect
  <2> QED BY <1>1, <2>1, UnchangedBook DEF HoldsInherit
<1> DEFINE h == r.ref.hold
<1>3. CASE /\ ReleaseVerdict(r, now) = "APPLIED" /\ MoveHold(r, "RELEASED")
           /\ balance' = [a \in Accounts |->
                IF a \in {hold[h].reserve.terms.source, hold[h].reserve.pool}
                THEN Touched(Unencumbered(h)[a]) ELSE balance[a]]
           /\ UNCHANGED <<owner, control>>
  <2>1. RefVerdict(r) = "APPLIED"  BY <1>3 DEF ReleaseVerdict
  <2>2. HoldsInherit  BY <1>1, <1>3, <2>1, MoveHoldOwners DEF HoldsInherit
  <2>3. h \in Holds /\ hold[h].state # "ABSENT"  BY <2>1, RefTypes DEF RefVerdict
  <2>4. Exists(hold[h].reserve.terms.source) /\ Exists(hold[h].reserve.pool)
    BY <2>3, HoldAccountsExist
  <2>5. ASSUME NEW a \in Accounts, ~Exists(a) PROVE Moved(a, 0, 0, 0)
    <3>1. a # hold[h].reserve.terms.source /\ a # hold[h].reserve.pool  BY <2>4, <2>5
    <3>2. Moved(a, 0, 0, 0 - 0)  BY <1>1, <1>3, <2>3, <3>1, ReleaseEffect
    <3> QED BY <3>2
  <2>6. BalancesMove  BY <2>5 DEF BalancesMove
  <2> QED BY <1>3, <2>2, <2>6
<1> QED BY <1>2, <1>3 DEF ReleasePayout

\* Every step keeps owners, advances controls and leaves holds their owners.
LEMMA NextBook ==
  ASSUME BookInv, [Next]_vars
  PROVE  OwnersStay /\ ControlsAdvance /\ AccountsComplete' /\ HoldsInherit
<1>1. LedgerInv  BY DEF BookInv
<1>2. CASE \E r \in Creates : CreateAccount(r)
  BY <1>2, CreateAdvances DEF HoldsInherit
<1>3. CASE \E r \in SetControls : SetAccountControl(r)
  BY <1>1, <1>3, SetControlAdvances, UnchangedBook, CompleteStays DEF HoldsInherit
<1>4. CASE \/ \E r \in Transfers, now \in Times : TransferInternal(r, now)
           \/ \E r \in Reserves, now \in Times : ReservePayout(r, now)
           \/ \E r \in Exposes, now \in Times, known \in BOOLEAN :
                MarkHoldExposed(r, now, known)
           \/ \E r \in Captures, now \in Times : CapturePayout(r, now)
           \/ \E r \in Releases, now \in Times : ReleasePayout(r, now)
  <2>1. UNCHANGED <<owner, control>> /\ BalancesMove /\ HoldsInherit
    BY <1>4, TransferBook, ReserveBook, ExposeBook, CaptureBook, ReleaseBook
  <2> QED BY <1>1, <2>1, UnchangedBook, CompleteStays
<1>5. CASE UNCHANGED vars
  <2>1. UNCHANGED <<owner, control, balance, hold>>  BY <1>5 DEF vars
  <2> QED BY <1>1, <2>1, UnchangedBook, CompleteStays DEF HoldsInherit
<1> QED BY <1>2, <1>3, <1>4, <1>5 DEF Next

\* The book's accounts are complete and its holds owned, whatever is committed.
THEOREM BookInvariant == Spec => []BookInv
<1>1. Init => BookInv
  <2> SUFFICES ASSUME Init PROVE BookInv  OBVIOUS
  <2>1. LedgerInv  BY InitInv
  <2>2. \A a \in Accounts : Exists(a) => HasControls(a)
    <3> SUFFICES ASSUME NEW a \in Accounts, Exists(a) PROVE HasControls(a)  OBVIOUS
    <3>1. /\ <<"ACCOUNT", a>> \in ControlKeys /\ <<"SUBJECT", owner[a]>> \in ControlKeys
          /\ owner[a] \in Owners
      BY <2>1, KeysOf DEF LedgerInv
    <3>2. \A k \in ControlKeys : NewControl(k).version = 1  BY DEF NewControl
    <3>3. control[<<"ACCOUNT", a>>] = NewControl(<<"ACCOUNT", a>>)  BY <3>1 DEF Init
    <3>4. control[<<"SUBJECT", owner[a]>>] = NewControl(<<"SUBJECT", owner[a]>>)
      BY <3>1 DEF Init
    <3> QED BY <3>1, <3>2, <3>3, <3>4 DEF HasControls, SubjectControl, AccountControl
  <2>3. \A a \in Accounts : ~Exists(a) =>
          balance[a].debits = 0 /\ balance[a].credits = 0 /\ balance[a].held = 0
    <3> SUFFICES ASSUME NEW a \in Accounts, ~Exists(a)
                 PROVE  balance[a].debits = 0 /\ balance[a].credits = 0 /\ balance[a].held = 0
      OBVIOUS
    <3>1. a # FundedPool /\ a # FundedWallet  BY IdAssumption DEF Init, Exists
    <3> QED BY <3>1 DEF Init
  <2>4. \A a \in Pools \cup FeeAccounts : Exists(a)  BY IdAssumption DEF Init, Exists
  <2>5. HoldsOwned  BY DEF Init, HoldsOwned
  <2> QED BY <2>1, <2>2, <2>3, <2>4, <2>5 DEF BookInv, AccountsComplete
<1>2. BookInv /\ [Next]_vars => BookInv'
  <2> SUFFICES ASSUME BookInv, [Next]_vars PROVE BookInv'  OBVIOUS
  <2>1. LedgerInv'  BY NextKeeps DEF BookInv
  <2>2. control' \in [ControlKeys -> Control]  BY <2>1 DEF LedgerInv, TypeOK
  <2>3. OwnersStay /\ ControlsAdvance /\ AccountsComplete' /\ HoldsInherit  BY NextBook
  <2>4. HoldsOwned'
    <3> SUFFICES ASSUME NEW h \in Holds, hold'[h].state # "ABSENT"
                 PROVE  Owned(h)'
      BY DEF HoldsOwned
    <3> QED BY <2>2, <2>3, OwnedStays DEF HoldsInherit
  <2> QED BY <2>1, <2>3, <2>4 DEF BookInv
<1> QED BY <1>1, <1>2, PTL DEF Spec

-----------------------------------------------------------------------------
(***************************************************************************)
(* A frozen wallet.                                                        *)
(***************************************************************************)
Frozen(a) == Exists(a) /\ Purpose(a) = "WALLET" /\ DebitFrozen(a)

OutflowStops(a) ==
  /\ Outflow(a)' <= Outflow(a)
  /\ \A h \in Holds : hold'[h].state = "EXPOSED" /\ hold'[h].reserve.terms.source = a
                        => hold[h].state = "EXPOSED"

\* What moves debits and holds against each other leaves the outflow.
LEMMA MovedOutflow ==
  ASSUME LedgerInv, NEW a \in Accounts, NEW debit \in Int, NEW credit, NEW held \in Int,
         debit + held <= 0, Moved(a, debit, credit, held)
  PROVE  Outflow(a)' <= Outflow(a)
<1>1. balance[a].debits \in Int /\ balance[a].held \in Int  BY BalanceRows
<1> QED BY <1>1 DEF Moved, Outflow

\* A command that leaves balances and holds leaves the outflow.
LEMMA UntouchedOutflow ==
  ASSUME LedgerInv, NEW a \in Accounts, balance'[a] = balance[a], UNCHANGED hold
  PROVE  OutflowStops(a)
<1>1. balance[a].debits \in Int /\ balance[a].held \in Int  BY BalanceRows
<1> QED BY <1>1 DEF OutflowStops, Outflow

\* TransferInternal debits a source that is not frozen and no other account.
LEMMA TransferStops ==
  ASSUME BookInv, NEW r \in Transfers, NEW now \in Times, TransferInternal(r, now),
         NEW a \in Accounts, Frozen(a)
  PROVE  OutflowStops(a)
<1>1. LedgerInv /\ r \in Requests  BY DEF BookInv, Requests
<1>2. CASE RejectAdmission(r, TransferVerdict(r, now))
  <2>1. Reject(r, TransferVerdict(r, now))  BY <1>2 DEF RejectAdmission
  <2> QED BY <1>1, <2>1, RejectEffect, UntouchedOutflow
<1>3. CASE /\ TransferVerdict(r, now) = "APPLIED"
           /\ balance' = PostAll(balance, TransferLines(r.terms)) /\ UNCHANGED hold
  <2> DEFINE credit == IF a = r.terms.beneficiary THEN r.terms.principal
                       ELSE IF a = Policies[r.terms.policy].feeAccount THEN r.terms.fee ELSE 0
  <2>1. /\ ~DebitFrozen(r.terms.source)
        /\ Moved(a, IF a = r.terms.source THEN Total(r.terms) ELSE 0, credit, 0)
    BY <1>1, <1>3, TransferEffect
  <2> HIDE DEF credit
  <2>2. Moved(a, 0, credit, 0)  BY <2>1 DEF Frozen
  <2>3. Outflow(a)' <= Outflow(a)  BY <1>1, <2>2, MovedOutflow
  <2> QED BY <1>3, <2>3 DEF OutflowStops
<1> QED BY <1>2, <1>3 DEF TransferInternal

\* ReservePayout holds on a source that is not frozen and on a pool.
LEMMA ReserveStops ==
  ASSUME BookInv, NEW r \in Reserves, NEW now \in Times, ReservePayout(r, now),
         NEW a \in Accounts, Frozen(a)
  PROVE  OutflowStops(a)
<1>1. LedgerInv /\ r \in Requests  BY DEF BookInv, Requests
<1>2. CASE RejectAdmission(r, ReserveVerdict(r, now))
  <2>1. Reject(r, ReserveVerdict(r, now))  BY <1>2 DEF RejectAdmission
  <2> QED BY <1>1, <2>1, RejectEffect, UntouchedOutflow
<1> DEFINE n == [state |-> "RESERVED", version |-> 1, reserve |-> r,
                 owner |-> owner[r.terms.source], bucket |-> Bucket(now)]
<1>3. CASE /\ ReserveVerdict(r, now) = "APPLIED"
           /\ balance' = [balance EXCEPT
                 ![r.terms.source] = Touched(Reserve(@, Total(r.terms))),
                 ![r.pool] = Touched(Reserve(@, r.terms.principal))]
           /\ hold' = [hold EXCEPT ![r.hold] = n]
  <2>1. /\ ~DebitFrozen(r.terms.source) /\ r.pool \in Pools
        /\ Moved(a, 0, 0, IF a = r.terms.source THEN Total(r.terms)
                          ELSE IF a = r.pool THEN r.terms.principal ELSE 0)
    BY <1>1, <1>3, ReserveEffect
  <2>2. a \notin Pools  BY DEF Frozen, Purpose
  <2>3. Moved(a, 0, 0, 0)  BY <2>1, <2>2 DEF Frozen
  <2>4. Outflow(a)' <= Outflow(a)  BY <1>1, <2>3, MovedOutflow
  <2>5. n.state # "EXPOSED" /\ \A h \in Holds : hold'[h] = n \/ hold'[h] = hold[h]
    BY <1>1, <1>3 DEF LedgerInv, TypeOK
  <2> HIDE DEF n
  <2> QED BY <2>4, <2>5 DEF OutflowStops
<1> QED BY <1>2, <1>3 DEF ReservePayout

\* MarkHoldExposed asks again whether the source is frozen.
LEMMA ExposeStops ==
  ASSUME BookInv, NEW r \in Exposes, NEW now \in Times, NEW known \in BOOLEAN,
         MarkHoldExposed(r, now, known), NEW a \in Accounts, Frozen(a)
  PROVE  OutflowStops(a)
<1>1. LedgerInv /\ r \in Requests  BY DEF BookInv, Requests
<1>2. CASE Reject(r, ExposeVerdict(r, now, known))
  BY <1>1, <1>2, RejectEffect, UntouchedOutflow
<1>3. CASE /\ ExposeVerdict(r, now, known) = "APPLIED" /\ MoveHold(r, "EXPOSED")
           /\ UNCHANGED money
  <2>1. RefVerdict(r) = "APPLIED" /\ ~DebitFrozen(hold[r.ref.hold].reserve.terms.source)
    BY <1>3 DEF ExposeVerdict
  <2>2. /\ hold'[r.ref.hold].reserve = hold[r.ref.hold].reserve
        /\ \A h \in Holds \ {r.ref.hold} : hold'[h] = hold[h]
    BY <1>1, <1>3, <2>1, MoveHoldEffect
  <2>3. balance[a].debits \in Int /\ balance[a].held \in Int  BY <1>1, BalanceRows
  <2> QED BY <1>3, <2>1, <2>2, <2>3 DEF OutflowStops, Frozen, Outflow, money
<1> QED BY <1>2, <1>3 DEF MarkHoldExposed

\* A capture debits what was held already.
LEMMA CaptureStops ==
  ASSUME BookInv, NEW r \in Captures, NEW now \in Times, CapturePayout(r, now),
         NEW a \in Accounts, Frozen(a)
  PROVE  OutflowStops(a)
<1>1. LedgerInv /\ r \in Requests  BY DEF BookInv, Requests
<1>2. CASE Reject(r, CaptureVerdict(r, now))
  BY <1>1, <1>2, RejectEffect, UntouchedOutflow
<1> DEFINE h == r.ref.hold
           t == hold[h].reserve.terms
           pool == hold[h].reserve.pool
           debit == IF a = t.source THEN Total(t) ELSE 0
           credit == IF a = pool THEN t.principal ELSE IF a = HoldFeeAccount(h) THEN t.fee ELSE 0
           held == IF a = t.source THEN Total(t) ELSE IF a = pool THEN t.principal ELSE 0
<1>3. CASE /\ CaptureVerdict(r, now) = "APPLIED" /\ MoveHold(r, "CAPTURED")
           /\ balance' = PostAll(Unencumbered(h), HoldLines(h))
  <2>1. RefVerdict(r) = "APPLIED"  BY <1>3 DEF CaptureVerdict
  <2>2. h \in Holds /\ hold[h].state # "ABSENT"  BY <2>1, RefTypes DEF RefVerdict
  <2>3. t.principal \in Nat /\ Total(t) \in Nat  BY <1>1, <2>2, HoldFacts DEF HoldTotal
  <2>4. Moved(a, debit, credit, 0 - held)  BY <1>1, <1>3, <2>2, CaptureEffect
  <2>5. debit \in Int /\ held \in Int /\ debit + (0 - held) <= 0 /\ 0 - held \in Int  BY <2>3
  <2> HIDE DEF debit, held, credit
  <2>6. Outflow(a)' <= Outflow(a)  BY <1>1, <2>4, <2>5, MovedOutflow
  <2>7. /\ hold'[h].state = "CAPTURED"
        /\ \A i \in Holds \ {h} : hold'[i] = hold[i]
    BY <1>1, <1>3, <2>1, MoveHoldEffect
  <2> QED BY <2>6, <2>7 DEF OutflowStops
<1> QED BY <1>2, <1>3 DEF CapturePayout

\* A release only lifts.
LEMMA ReleaseStops ==
  ASSUME BookInv, NEW r \in Releases, NEW now \in Times, ReleasePayout(r, now),
         NEW a \in Accounts, Frozen(a)
  PROVE  OutflowStops(a)
<1>1. LedgerInv /\ r \in Requests  BY DEF BookInv, Requests
<1>2. CASE Reject(r, ReleaseVerdict(r, now))
  BY <1>1, <1>2, RejectEffect, UntouchedOutflow
<1> DEFINE h == r.ref.hold
           t == hold[h].reserve.terms
           pool == hold[h].reserve.pool
           held == IF a = t.source THEN Total(t) ELSE IF a = pool THEN t.principal ELSE 0
<1>3. CASE /\ ReleaseVerdict(r, now) = "APPLIED" /\ MoveHold(r, "RELEASED")
           /\ balance' = [x \in Accounts |->
                IF x \in {hold[h].reserve.terms.source, hold[h].reserve.pool}
                THEN Touched(Unencumbered(h)[x]) ELSE balance[x]]
  <2>1. RefVerdict(r) = "APPLIED"  BY <1>3 DEF ReleaseVerdict
  <2>2. h \in Holds /\ hold[h].state # "ABSENT"  BY <2>1, RefTypes DEF RefVerdict
  <2>3. t.principal \in Nat /\ Total(t) \in Nat  BY <1>1, <2>2, HoldFacts DEF HoldTotal
  <2>4. Moved(a, 0, 0, 0 - held)  BY <1>1, <1>3, <2>2, ReleaseEffect
  <2>5. 0 - held \in Int /\ 0 + (0 - held) <= 0  BY <2>3
  <2> HIDE DEF held
  <2>6. Outflow(a)' <= Outflow(a)  BY <1>1, <2>4, <2>5, MovedOutflow
  <2>7. /\ hold'[h].state = "RELEASED"
        /\ \A i \in Holds \ {h} : hold'[i] = hold[i]
    BY <1>1, <1>3, <2>1, MoveHoldEffect
  <2> QED BY <2>6, <2>7 DEF OutflowStops
<1> QED BY <1>2, <1>3 DEF ReleasePayout

\* A new account is not the frozen one, and a control update moves no money.
LEMMA ControlStops ==
  ASSUME BookInv, NEW a \in Accounts, Frozen(a),
         \/ \E r \in Creates : CreateAccount(r)
         \/ \E r \in SetControls : SetAccountControl(r)
  PROVE  OutflowStops(a)
<1>1. LedgerInv  BY DEF BookInv
<1>2. ASSUME NEW r \in Creates, CreateAccount(r) PROVE OutflowStops(a)
  <2>1. r \in Requests /\ UNCHANGED hold
    BY <1>1, <1>2, RejectEffect DEF Requests, CreateAccount
  <2>2. balance'[a] = balance[a]
    <3>1. CASE Reject(r, CreateVerdict(r))  BY <1>1, <2>1, <3>1, RejectEffect
    <3>2. CASE /\ CreateVerdict(r) = "APPLIED"
               /\ balance' = [balance EXCEPT ![r.account] = NewBalance]
      BY <1>1, <3>2 DEF CreateVerdict, Frozen, LedgerInv, TypeOK
    <3> QED BY <1>2, <3>1, <3>2 DEF CreateAccount
  <2> QED BY <1>1, <2>1, <2>2, UntouchedOutflow
<1>3. ASSUME NEW r \in SetControls, SetAccountControl(r) PROVE OutflowStops(a)
  BY <1>1, <1>3, SetControlAdvances, UntouchedOutflow
<1> QED BY <1>2, <1>3

\* From the moment a freeze is committed, no command of any kind lets more money
\* leave the wallet or exposes one of its holds, until the freeze is lifted.
THEOREM FreezeHolds == Spec => FreezeStopsOutflow
<1>1. BookInv /\ [Next]_vars =>
        \A a \in Accounts : Exists(a) /\ Purpose(a) = "WALLET"
             /\ (SubjectControl(a).debitFrozen \/ AccountControl(a).debitFrozen) =>
          /\ Outflow(a)' <= Outflow(a)
          /\ \A h \in Holds : /\ hold'[h].state = "EXPOSED"
                               /\ hold'[h].reserve.terms.source = a
                                 => hold[h].state = "EXPOSED"
  <2> SUFFICES ASSUME BookInv, [Next]_vars, NEW a \in Accounts, Frozen(a)
               PROVE  OutflowStops(a)
    BY DEF Frozen, OutflowStops, DebitFrozen
  <2>1. CASE Next
    BY <2>1, ControlStops, TransferStops, ReserveStops, ExposeStops, CaptureStops, ReleaseStops
    DEF Next
  <2>2. CASE UNCHANGED vars
    BY <2>2, UntouchedOutflow DEF vars, BookInv
  <2> QED BY <2>1, <2>2
<1> QED BY <1>1, BookInvariant, PTL DEF Spec, FreezeStopsOutflow

-----------------------------------------------------------------------------
(***************************************************************************)
(* A revoked grant.                                                        *)
(***************************************************************************)
\* The reservation's grant is behind its owner's epoch or its account's, or the
\* reservation is released.
GrantBehind(h) ==
  LET t == hold[h].reserve.terms
  IN  \/ t.grant.subjectEpoch < control[<<"SUBJECT", hold[h].owner>>].epoch
      \/ t.grant.accountEpoch < control[<<"ACCOUNT", t.source>>].epoch
Revoked(h) == hold[h].state = "RELEASED" \/ (hold[h].state = "RESERVED" /\ GrantBehind(h))

\* Once revoked, a reservation stays revoked: epochs only grow, and exposing it
\* asks for the current ones.
LEMMA RevokedStays ==
  ASSUME BookInv, BookInv', [Next]_vars, NEW h \in Holds, Revoked(h)
  PROVE  Revoked(h)'
<1>1. LedgerInv /\ LedgerInv' /\ TypeOK  BY DEF BookInv, LedgerInv
<1>2. hold[h].state = "RELEASED" => hold'[h] = hold[h]
  BY <1>1, NextHistory DEF HistoryKept, HoldsKept
<1>3. CASE hold[h].state = "RELEASED"  BY <1>2, <1>3 DEF Revoked
<1>4. CASE hold[h].state = "RESERVED"
  <2> DEFINE t == hold[h].reserve.terms
             subject == <<"SUBJECT", hold[h].owner>>
             account == <<"ACCOUNT", t.source>>
  <2>1. /\ owner[t.source] = hold[h].owner
        /\ t.grant.subjectEpoch < control[subject].epoch
             \/ t.grant.accountEpoch < control[account].epoch
    BY <1>4 DEF BookInv, HoldsOwned, Owned, Revoked, GrantBehind
  <2>2. /\ t.grant.subjectEpoch \in Int /\ t.grant.accountEpoch \in Int
        /\ subject \in ControlKeys /\ control[subject].version > 0
        /\ account \in ControlKeys /\ control[account].version > 0
        /\ control[subject].epoch \in Int /\ control[account].epoch \in Int
    BY <1>4, HoldEpochs
  <2>3. /\ control'[subject].epoch >= control[subject].epoch
        /\ control'[account].epoch >= control[account].epoch
    BY <2>2, NextBook DEF ControlsAdvance
  <2>4. control'[subject].epoch \in Int /\ control'[account].epoch \in Int
    BY <1>1, <2>2, BoundsAssumption DEF LedgerInv, TypeOK, Control, Versions
  <2>5. t.grant.subjectEpoch < control'[subject].epoch
          \/ t.grant.accountEpoch < control'[account].epoch
    BY <2>1, <2>2, <2>3, <2>4
  <2>6. \/ hold'[h] = hold[h]
        \/ hold'[h].state = "RELEASED"
    <3>1. CASE UNCHANGED vars  BY <3>1 DEF vars
    <3>2. CASE \/ \E x \in Creates : CreateAccount(x)
               \/ \E x \in SetControls : SetAccountControl(x)
               \/ \E x \in Transfers, now \in Times : TransferInternal(x, now)
      BY <3>2 DEF CreateAccount, SetAccountControl, TransferInternal, RejectAdmission, Reject
    <3>3. ASSUME NEW x \in Reserves, NEW now \in Times, ReservePayout(x, now)
          PROVE  hold'[h] = hold[h]
      <4>1. CASE UNCHANGED hold  BY <4>1
      <4>2. CASE /\ ReserveVerdict(x, now) = "APPLIED"
                 /\ hold' = [hold EXCEPT ![x.hold] =
                      [state |-> "RESERVED", version |-> 1, reserve |-> x,
                       owner |-> owner[x.terms.source], bucket |-> Bucket(now)]]
        <5>1. h # x.hold  BY <1>4, <4>2 DEF ReserveVerdict, HoldTaken
        <5> QED BY <1>1, <4>2, <5>1 DEF TypeOK
      <4> QED BY <3>3, <4>1, <4>2 DEF ReservePayout, RejectAdmission, Reject
    <3>4. ASSUME NEW x \in Exposes, NEW now \in Times, NEW known \in BOOLEAN,
                 MarkHoldExposed(x, now, known)
          PROVE  hold'[h] = hold[h]
      <4>1. CASE UNCHANGED hold  BY <4>1
      <4>2. CASE ExposeVerdict(x, now, known) = "APPLIED" /\ MoveHold(x, "EXPOSED")
        <5>1. /\ RefVerdict(x) = "APPLIED"
              /\ GrantCurrent(hold[x.ref.hold].reserve.terms.grant,
                              hold[x.ref.hold].reserve.terms.source)
          BY <4>2 DEF ExposeVerdict
        <5>2. x.ref.hold # h
          BY <2>1, <2>2, <5>1 DEF GrantCurrent, SubjectControl, AccountControl
        <5> QED BY <1>1, <4>2, <5>1, <5>2, MoveHoldEffect
      <4> QED BY <3>4, <4>1, <4>2 DEF MarkHoldExposed, Reject
    <3>5. ASSUME NEW x \in Captures, NEW now \in Times, CapturePayout(x, now)
          PROVE  hold'[h] = hold[h]
      <4>1. CASE UNCHANGED hold  BY <4>1
      <4>2. CASE CaptureVerdict(x, now) = "APPLIED" /\ MoveHold(x, "CAPTURED")
        <5>1. RefVerdict(x) = "APPLIED" /\ hold[x.ref.hold].state = "EXPOSED"
          BY <4>2 DEF CaptureVerdict
        <5> QED BY <1>1, <1>4, <4>2, <5>1, MoveHoldEffect
      <4> QED BY <3>5, <4>1, <4>2 DEF CapturePayout, Reject
    <3>6. ASSUME NEW x \in Releases, NEW now \in Times, ReleasePayout(x, now)
          PROVE  hold'[h] = hold[h] \/ hold'[h].state = "RELEASED"
      <4>1. CASE UNCHANGED hold  BY <4>1
      <4>2. CASE ReleaseVerdict(x, now) = "APPLIED" /\ MoveHold(x, "RELEASED")
        <5>1. RefVerdict(x) = "APPLIED"  BY <4>2 DEF ReleaseVerdict
        <5> QED BY <1>1, <4>2, <5>1, MoveHoldEffect
      <4> QED BY <3>6, <4>1, <4>2 DEF ReleasePayout, Reject
    <3> QED BY <3>1, <3>2, <3>3, <3>4, <3>5, <3>6 DEF Next
  <2> QED BY <1>4, <2>5, <2>6 DEF Revoked, GrantBehind
<1> QED BY <1>3, <1>4 DEF Revoked

\* A grant revoked, on the owner or on the account, before the payout was exposed is
\* revoked for good: nothing that is committed later, on any clock, sends that payout
\* to the provider.
THEOREM RevocationIsFinal == Spec => RevokedNeverExposed
<1> SUFFICES ASSUME NEW h \in Holds
             PROVE  Spec => [](hold[h].state = "RESERVED" /\ GrantRevoked(h)
                               => [](hold[h].state \in {"RESERVED", "RELEASED"}))
  BY DEF RevokedNeverExposed
<1>1. BookInv => (hold[h].state = "RESERVED" /\ GrantRevoked(h) => Revoked(h))
  <2> SUFFICES ASSUME BookInv, hold[h].state = "RESERVED", GrantRevoked(h) PROVE Revoked(h)
    OBVIOUS
  <2> DEFINE t == hold[h].reserve.terms
             subject == <<"SUBJECT", hold[h].owner>>
             account == <<"ACCOUNT", t.source>>
  <2>1. t.grant.subjectEpoch <= control[subject].epoch
        /\ t.grant.accountEpoch <= control[account].epoch
    BY DEF BookInv, HoldsOwned, Owned
  <2>2. /\ t.grant.subjectEpoch \in Int /\ t.grant.accountEpoch \in Int
        /\ control[subject].epoch \in Int /\ control[account].epoch \in Int
    BY HoldEpochs
  <2>3. t.grant.subjectEpoch # control[subject].epoch
          \/ t.grant.accountEpoch # control[account].epoch
    BY DEF GrantRevoked
  <2> QED BY <2>1, <2>2, <2>3 DEF Revoked, GrantBehind
<1>2. BookInv /\ BookInv' /\ [Next]_vars /\ Revoked(h) => Revoked(h)'  BY RevokedStays
<1>3. Revoked(h) => hold[h].state \in {"RESERVED", "RELEASED"}  BY DEF Revoked
<1> QED BY <1>1, <1>2, <1>3, BookInvariant, PTL DEF Spec

-----------------------------------------------------------------------------
(***************************************************************************)
(* The daily cap.                                                          *)
(***************************************************************************)
Counter == [reserved : Nat, consumed : Nat, version : Nat]

\* Usage.Admit adds the amount to the day, reserved or consumed.
LEMMA AdmitUsageTotal ==
  ASSUME NEW u \in Counter, NEW amount \in Nat, NEW reserve \in BOOLEAN
  PROVE  UsageTotal(AdmitUsage(u, amount, reserve)) = UsageTotal(u) + amount
<1> DEFINE v == IF reserve THEN [u EXCEPT !.reserved = @ + amount]
                           ELSE [u EXCEPT !.consumed = @ + amount]
<1>1. v \in Counter /\ v.reserved + v.consumed = u.reserved + u.consumed + amount
  <2>1. CASE reserve  BY <2>1 DEF Counter
  <2>2. CASE ~reserve  BY <2>2 DEF Counter
  <2> QED BY <2>1, <2>2
<1>2. AdmitUsage(u, amount, reserve) = Touched(v)  BY DEF AdmitUsage
<1> HIDE DEF v
<1>3. Touched(v).reserved = v.reserved /\ Touched(v).consumed = v.consumed
  BY <1>1 DEF Touched, Counter
<1> QED BY <1>1, <1>2, <1>3 DEF UsageTotal

\* Usage.Resolve moves the amount from reserved to consumed, or takes it off.
LEMMA ResolveUsageTotal ==
  ASSUME NEW u \in Counter, NEW amount \in Nat, NEW capture \in BOOLEAN
  PROVE  UsageTotal(ResolveUsage(u, amount, capture)) <= UsageTotal(u)
<1> DEFINE Wide == [reserved : Int, consumed : Nat, version : Nat]
           v == IF capture THEN [u EXCEPT !.reserved = @ - amount, !.consumed = @ + amount]
                           ELSE [u EXCEPT !.reserved = @ - amount]
<1>1. v \in Wide /\ v.reserved + v.consumed <= u.reserved + u.consumed
  <2>1. u.reserved \in Nat /\ u.consumed \in Nat /\ u.version \in Nat  BY DEF Counter
  <2>2. CASE capture
    <3>1. v = [reserved |-> u.reserved - amount, consumed |-> u.consumed + amount,
               version |-> u.version]
      BY <2>2 DEF Counter
    <3> HIDE DEF v
    <3>2. v.reserved = u.reserved - amount /\ v.consumed = u.consumed + amount  BY <3>1
    <3>3. v \in Wide  BY <2>1, <3>1
    <3> QED BY <2>1, <3>2, <3>3
  <2>3. CASE ~capture
    <3>1. v = [reserved |-> u.reserved - amount, consumed |-> u.consumed,
               version |-> u.version]
      BY <2>3 DEF Counter
    <3> HIDE DEF v
    <3>2. v.reserved = u.reserved - amount /\ v.consumed = u.consumed  BY <3>1
    <3>3. v \in Wide  BY <2>1, <3>1
    <3> QED BY <2>1, <3>2, <3>3
  <2> QED BY <2>2, <2>3
<1>2. ResolveUsage(u, amount, capture) = Touched(v)  BY DEF ResolveUsage
<1> HIDE DEF v
<1>3. Touched(v).reserved = v.reserved /\ Touched(v).consumed = v.consumed
  BY <1>1 DEF Touched
<1> QED BY <1>1, <1>2, <1>3 DEF UsageTotal

\* A day's total grows only under its owner's cap, and by deciding a payment.
CapBinds(o, b) ==
  DayTotal(o, b)' > DayTotal(o, b) =>
    /\ DayTotal(o, b)' <= control[<<"SUBJECT", o>>].dailyCap
    /\ \E p \in Payments : claim[p].state = "ABSENT" /\ claim'[p].state # "ABSENT"

\* Limit rows count in naturals.
LEMMA UsageCounts ==
  ASSUME LedgerInv
  PROVE  /\ usage \in [Owners \X Buckets -> Counter]
         /\ \A o \in Owners, b \in Buckets : DayTotal(o, b) \in Nat
<1>1. Usage \subseteq Counter  BY BoundsAssumption DEF Usage, Counter, Wides, Versions
<1>2. usage \in [Owners \X Buckets -> Counter]  BY <1>1 DEF LedgerInv, TypeOK
<1> QED BY <1>2 DEF Counter, DayTotal

\* A command that leaves the limit rows leaves the day.
LEMMA UntouchedUsage ==
  ASSUME LedgerInv, NEW o \in Owners, NEW b \in Buckets, usage'[<<o, b>>] = usage[<<o, b>>]
  PROVE  CapBinds(o, b)
<1>1. DayTotal(o, b) \in Nat  BY UsageCounts
<1>2. DayTotal(o, b)' = DayTotal(o, b)  BY DEF DayTotal
<1> QED BY <1>1, <1>2 DEF CapBinds

\* An applied admission counts on the day of its clock, within the cap.
LEMMA AdmissionBinds ==
  ASSUME LedgerInv, NEW r \in Transfers \cup Reserves, NEW now \in Times,
         AdmitVerdict(r, now) = "APPLIED", NEW reserve \in BOOLEAN,
         usage' = [usage EXCEPT ![<<owner[r.terms.source], Bucket(now)>>] =
                     AdmitUsage(@, r.terms.principal, reserve)],
         claim'[r.terms.payment].state # "ABSENT",
         NEW o \in Owners, NEW b \in Buckets
  PROVE  CapBinds(o, b)
<1> DEFINE t == r.terms
           k == <<owner[t.source], Bucket(now)>>
<1>1. k \in Owners \X Buckets  BY AdmitUsageType DEF LedgerInv
<1>2. t.principal \in Nat /\ t.payment \in Payments
  BY TermsTypes, BoundsAssumption DEF Terms, Amounts
<1>3. /\ claim[t.payment].state = "ABSENT"
      /\ ~(UsageTotal(usage[k]) + t.principal > SubjectControl(t.source).dailyCap)
  BY AdmitFacts DEF LedgerInv
<1>4. CASE <<o, b>> # k
  BY <1>1, <1>4, UntouchedUsage DEF LedgerInv, TypeOK
<1>5. CASE <<o, b>> = k
  <2>1. usage[k] \in Counter  BY <1>1, UsageCounts
  <2>2. usage'[<<o, b>>] = AdmitUsage(usage[k], t.principal, reserve)
    BY <1>1, <1>5 DEF LedgerInv, TypeOK
  <2>3. UsageTotal(AdmitUsage(usage[k], t.principal, reserve)) = UsageTotal(usage[k]) + t.principal
    BY <1>2, <2>1, AdmitUsageTotal
  <2>4. DayTotal(o, b)' = UsageTotal(usage[k]) + t.principal
    BY <2>2, <2>3 DEF DayTotal, UsageTotal
  <2>5. owner[t.source] = o  BY <1>5
  <2>6. control[<<"SUBJECT", o>>].dailyCap \in Nat
    BY BoundsAssumption DEF LedgerInv, TypeOK, ControlKeys, Control, Wides
  <2>7. UsageTotal(usage[k]) \in Nat  BY <2>1 DEF UsageTotal, Counter
  <2>8. DayTotal(o, b)' <= control[<<"SUBJECT", o>>].dailyCap
    BY <1>2, <1>3, <2>4, <2>5, <2>6, <2>7 DEF SubjectControl
  <2> QED BY <1>2, <1>3, <2>8 DEF CapBinds
<1> QED BY <1>4, <1>5

\* A settlement never raises the day its hold was admitted on.
LEMMA SettlementBinds ==
  ASSUME LedgerInv, NEW h \in Holds, hold[h].state # "ABSENT", NEW capture \in BOOLEAN,
         SettleUsage(h, capture), LedgerInv', NEW o \in Owners, NEW b \in Buckets
  PROVE  CapBinds(o, b)
<1> DEFINE k == <<hold[h].owner, hold[h].bucket>>
           principal == hold[h].reserve.terms.principal
<1>1. k \in Owners \X Buckets /\ principal \in Nat  BY HoldFacts
<1>2. CASE <<o, b>> # k
  BY <1>1, <1>2, UntouchedUsage DEF SettleUsage, LedgerInv, TypeOK
<1>3. CASE <<o, b>> = k
  <2>1. usage[k] \in Counter  BY <1>1, UsageCounts
  <2>2. usage'[<<o, b>>] = ResolveUsage(usage[k], principal, capture)
    BY <1>1, <1>3 DEF SettleUsage, LedgerInv, TypeOK
  <2>3. UsageTotal(ResolveUsage(usage[k], principal, capture)) <= UsageTotal(usage[k])
    BY <1>1, <2>1, ResolveUsageTotal
  <2>4. DayTotal(o, b)' <= DayTotal(o, b)
    BY <1>3, <2>2, <2>3 DEF DayTotal, UsageTotal
  <2>5. DayTotal(o, b) \in Int  BY UsageCounts
  <2>6. DayTotal(o, b)' \in Int
    <3>1. usage'[<<o, b>>] \in Usage  BY DEF LedgerInv, TypeOK
    <3> QED BY <3>1, BoundsAssumption DEF DayTotal, Usage, Wides
  <2> QED BY <2>4, <2>5, <2>6 DEF CapBinds
<1> QED BY <1>2, <1>3

\* Whatever two commands that admit on the same day read before they commit, the day
\* ends within the cap in force, and no settlement, late or early, raises it.
THEOREM CapHolds == Spec => CapBindsAdmission
<1>1. LedgerInv /\ LedgerInv' /\ [Next]_vars =>
        \A o \in Owners, b \in Buckets :
          DayTotal(o, b)' > DayTotal(o, b) =>
            /\ DayTotal(o, b)' <= control[<<"SUBJECT", o>>].dailyCap
            /\ \E p \in Payments : claim[p].state = "ABSENT" /\ claim'[p].state # "ABSENT"
  <2> SUFFICES ASSUME LedgerInv, LedgerInv', [Next]_vars, NEW o \in Owners, NEW b \in Buckets
               PROVE  CapBinds(o, b)
    BY DEF CapBinds
  <2>1. CASE UNCHANGED usage  BY <2>1, UntouchedUsage
  <2>2. ASSUME NEW r \in Transfers, NEW now \in Times, TransferInternal(r, now),
               usage' # usage
        PROVE  CapBinds(o, b)
    <3> DEFINE c == [state |-> "APPLIED", admission |-> r.op, hold |-> NoHold, result |-> r.op]
    <3>1. /\ TransferVerdict(r, now) = "APPLIED"
          /\ usage' = [usage EXCEPT ![<<owner[r.terms.source], Bucket(now)>>] =
                         AdmitUsage(@, r.terms.principal, FALSE)]
          /\ claim' = [claim EXCEPT ![r.terms.payment] =
                         c]
      BY <2>2 DEF TransferInternal, RejectAdmission, Reject, money
    <3>2. AdmitVerdict(r, now) = "APPLIED"  BY <3>1 DEF TransferVerdict
    <3>3. claim'[r.terms.payment] = c  BY <3>1, AdmissionClaim
    <3>4. claim'[r.terms.payment].state # "ABSENT"  BY <3>3
    <3> QED BY <3>1, <3>2, <3>4, AdmissionBinds
  <2>3. ASSUME NEW r \in Reserves, NEW now \in Times, ReservePayout(r, now), usage' # usage
        PROVE  CapBinds(o, b)
    <3> DEFINE c == [state |-> "RESERVED", admission |-> r.op, hold |-> r.hold, result |-> r.op]
    <3>1. /\ ReserveVerdict(r, now) = "APPLIED"
          /\ usage' = [usage EXCEPT ![<<owner[r.terms.source], Bucket(now)>>] =
                         AdmitUsage(@, r.terms.principal, TRUE)]
          /\ claim' = [claim EXCEPT ![r.terms.payment] =
                         c]
      BY <2>3 DEF ReservePayout, RejectAdmission, Reject, money
    <3>2. AdmitVerdict(r, now) = "APPLIED"  BY <3>1 DEF ReserveVerdict
    <3>3. claim'[r.terms.payment] = c  BY <3>1, AdmissionClaim
    <3>4. claim'[r.terms.payment].state # "ABSENT"  BY <3>3
    <3> QED BY <3>1, <3>2, <3>4, AdmissionBinds
  <2>4. ASSUME NEW r \in Captures, NEW now \in Times, CapturePayout(r, now), usage' # usage
        PROVE  CapBinds(o, b)
    <3>1. CaptureVerdict(r, now) = "APPLIED" /\ SettleUsage(r.ref.hold, TRUE)
      BY <2>4 DEF CapturePayout, Reject, money
    <3>2. r.ref.hold \in Holds /\ hold[r.ref.hold].state # "ABSENT"
      BY <3>1, RefTypes DEF CaptureVerdict
    <3> QED BY <3>1, <3>2, SettlementBinds
  <2>5. ASSUME NEW r \in Releases, NEW now \in Times, ReleasePayout(r, now), usage' # usage
        PROVE  CapBinds(o, b)
    <3>1. ReleaseVerdict(r, now) = "APPLIED" /\ SettleUsage(r.ref.hold, FALSE)
      BY <2>5 DEF ReleasePayout, Reject, money
    <3>2. r.ref.hold \in Holds /\ hold[r.ref.hold].state # "ABSENT"
      BY <3>1, RefTypes DEF ReleaseVerdict
    <3> QED BY <3>1, <3>2, SettlementBinds
  <2>6. CASE \/ \E r \in Creates : CreateAccount(r)
             \/ \E r \in SetControls : SetAccountControl(r)
             \/ \E r \in Exposes, now \in Times, known \in BOOLEAN :
                  MarkHoldExposed(r, now, known)
    <3>1. UNCHANGED usage
      BY <2>6 DEF CreateAccount, SetAccountControl, MarkHoldExposed, Reject, money
    <3> QED BY <3>1, UntouchedUsage
  <2>7. CASE UNCHANGED vars  BY <2>7, UntouchedUsage DEF vars
  <2> QED BY <2>1, <2>2, <2>3, <2>4, <2>5, <2>6, <2>7 DEF Next
<1> QED BY <1>1, LedgerInvariant, PTL DEF Spec, CapBindsAdmission

-----------------------------------------------------------------------------
(***************************************************************************)
(* Ledger implements Escrow.  Status, Deal and Spendable are the state of  *)
(* Escrow as Ledger's rows show it; each command is shown to be one step   *)
(* of Escrow on them, or none.                                             *)
(***************************************************************************)
Status == [p \in Payments |-> claim[p].state]
Deal == [p \in Payments |->
           IF claim[p].hold = NoHold THEN NoRequest
           ELSE DealOf(hold[claim[p].hold].reserve.terms, hold[claim[p].hold].reserve.pool)]
Spendable == [a \in Accounts |-> Available(a, balance[a])]

-----------------------------------------------------------------------------
(***************************************************************************)
(* The steps of Escrow, in terms of the mapped state.                      *)
(***************************************************************************)
\* A payment is refused: decided, and nothing moved.
LEMMA IsRefuse ==
  ASSUME NEW p \in Payments, Status[p] = "ABSENT",
         Status' = [Status EXCEPT ![p] = "REJECTED"], UNCHANGED <<Deal, Spendable>>
  PROVE  Promise!Next
<1>1. Promise!Refuse(p)  BY DEF Promise!Refuse, Promise!Decide, Status, Deal, Spendable
<1> QED BY <1>1 DEF Promise!Next

\* A transfer pays its deal.
LEMMA IsPay ==
  ASSUME NEW p \in Payments, NEW r \in Transfers, r.terms.policy \in DOMAIN Policies,
         Status[p] = "ABSENT", Status' = [Status EXCEPT ![p] = "APPLIED"], UNCHANGED Deal,
         Spendable[r.terms.source] >= r.terms.principal + r.terms.fee,
         Spendable' = [a \in Accounts |->
           Spendable[a] - (IF a = r.terms.source THEN r.terms.principal + r.terms.fee ELSE 0)
             + (IF a = r.terms.beneficiary THEN r.terms.principal ELSE 0)
             + (IF a = Policies[r.terms.policy].feeAccount THEN r.terms.fee ELSE 0)]
  PROVE  Promise!Next
<1> DEFINE d == DealOf(r.terms, r.terms.beneficiary)
           deals == {DealOf(x.terms, x.terms.beneficiary) :
                       x \in {y \in Transfers : y.terms.policy \in DOMAIN Policies}}
                    \cup {DealOf(x.terms, x.pool) :
                            x \in {y \in Reserves : y.terms.policy \in DOMAIN Policies}}
<1>1. d \in deals  OBVIOUS
<1>2. /\ d.source = r.terms.source /\ d.payee = r.terms.beneficiary
      /\ d.principal = r.terms.principal /\ d.fee = r.terms.fee
      /\ d.feeAccount = Policies[r.terms.policy].feeAccount
  BY DEF DealOf
<1> HIDE DEF d
<1>3. Promise!Pay(p, d)
  BY <1>2 DEF Promise!Pay, Promise!Decide, Promise!Due, Status, Deal, Spendable
<1> QED BY <1>1, <1>3 DEF Promise!Next

\* A reservation sets its deal aside.
LEMMA IsSetAside ==
  ASSUME NEW p \in Payments, NEW r \in Reserves, r.terms.policy \in DOMAIN Policies,
         Status[p] = "ABSENT", Status' = [Status EXCEPT ![p] = "RESERVED"],
         Deal' = [Deal EXCEPT ![p] = DealOf(r.terms, r.pool)],
         Spendable[r.terms.source] >= r.terms.principal + r.terms.fee,
         Spendable[r.pool] >= r.terms.principal,
         Spendable' = [Spendable EXCEPT ![r.terms.source] = @ - (r.terms.principal + r.terms.fee),
                                        ![r.pool] = @ - r.terms.principal]
  PROVE  Promise!Next
<1> DEFINE d == DealOf(r.terms, r.pool)
           deals == {DealOf(x.terms, x.terms.beneficiary) :
                       x \in {y \in Transfers : y.terms.policy \in DOMAIN Policies}}
                    \cup {DealOf(x.terms, x.pool) :
                            x \in {y \in Reserves : y.terms.policy \in DOMAIN Policies}}
<1>1. d \in deals  OBVIOUS
<1>2. /\ d.source = r.terms.source /\ d.payee = r.pool
      /\ d.principal = r.terms.principal /\ d.fee = r.terms.fee
  BY DEF DealOf
<1>3. Deal' = [Deal EXCEPT ![p] = d]  OBVIOUS
<1> HIDE DEF d
<1>4. Promise!SetAside(p, d)
  BY <1>2, <1>3 DEF Promise!SetAside, Promise!Decide, Promise!Due, Status, Deal, Spendable
<1> QED BY <1>1, <1>4 DEF Promise!Next

\* A payout is exposed: its money stays where it is.
LEMMA IsExpose ==
  ASSUME NEW p \in Payments, Status[p] = "RESERVED",
         Status' = [Status EXCEPT ![p] = "EXPOSED"], UNCHANGED <<Deal, Spendable>>
  PROVE  Promise!Next
<1>1. Promise!Expose(p)  BY DEF Promise!Expose, Promise!Become, Status, Deal, Spendable
<1> QED BY <1>1 DEF Promise!Next

\* A captured payout: only the fee becomes spendable.
LEMMA IsPayOut ==
  ASSUME NEW p \in Payments, Status[p] = "EXPOSED",
         Status' = [Status EXCEPT ![p] = "CAPTURED"], UNCHANGED Deal,
         Spendable' = [Spendable EXCEPT ![Deal[p].feeAccount] = @ + Deal[p].fee]
  PROVE  Promise!Next
<1>1. Promise!PayOut(p)  BY DEF Promise!PayOut, Promise!Become, Status, Deal, Spendable
<1> QED BY <1>1 DEF Promise!Next

\* A released payout: what was set aside is given back.
LEMMA IsGiveBack ==
  ASSUME NEW p \in Payments, Status[p] \in {"RESERVED", "EXPOSED"},
         Status' = [Status EXCEPT ![p] = "RELEASED"], UNCHANGED Deal,
         Spendable' = [Spendable EXCEPT ![Deal[p].source] = @ + (Deal[p].principal + Deal[p].fee),
                                        ![Deal[p].payee] = @ + Deal[p].principal]
  PROVE  Promise!Next
<1>1. Promise!GiveBack(p)
  BY DEF Promise!GiveBack, Promise!Become, Promise!Due, Status, Deal, Spendable
<1> QED BY <1>1 DEF Promise!Next

-----------------------------------------------------------------------------
(***************************************************************************)
(* How Ledger's rows move the mapped state.                                *)
(***************************************************************************)
\* What a posting or a hold does to what is available.
LEMMA AvailableMoves ==
  ASSUME LedgerInv, NEW a \in Accounts, NEW debit \in Int, NEW credit \in Int,
         NEW held \in Int, Moved(a, debit, credit, held)
  PROVE  /\ Spendable[a] \in Int
         /\ Spendable'[a] = Spendable[a]
              + (IF a \in Pools THEN debit - credit ELSE credit - debit) - held
<1>1. /\ balance[a].debits \in Int /\ balance[a].credits \in Int /\ balance[a].held \in Int
  BY BalanceRows
<1>2. Spendable[a] = (IF a \in Pools THEN balance[a].debits - balance[a].credits
                      ELSE balance[a].credits - balance[a].debits) - balance[a].held
  BY DEF Spendable, Available, Posted, Purpose
<1>3. Spendable'[a] = (IF a \in Pools THEN balance'[a].debits - balance'[a].credits
                       ELSE balance'[a].credits - balance'[a].debits) - balance'[a].held
  BY DEF Spendable, Available, Posted, Purpose
<1> QED BY <1>1, <1>2, <1>3 DEF Moved

\* What is only held, or no longer held, is so much less, or more, available.
LEMMA AvailableHeld ==
  ASSUME LedgerInv, NEW a \in Accounts, NEW held \in Int, Moved(a, 0, 0, held)
  PROVE  Spendable[a] \in Int /\ Spendable'[a] = Spendable[a] - held
<1> DEFINE zero == 0
<1>1. zero \in Int /\ Moved(a, zero, zero, held)  OBVIOUS
<1>2. zero - zero = 0  OBVIOUS
<1> HIDE DEF zero
<1>3. /\ Spendable[a] \in Int
      /\ Spendable'[a] = Spendable[a]
           + (IF a \in Pools THEN zero - zero ELSE zero - zero) - held
  BY <1>1, AvailableMoves
<1> QED BY <1>2, <1>3

\* A payment that is not a payout has set nothing aside.
LEMMA NothingAside ==
  ASSUME LedgerInv, NEW p \in Payments, claim[p].state \in {"ABSENT", "APPLIED", "REJECTED"}
  PROVE  claim[p].hold = NoHold
<1> SUFFICES ASSUME claim[p].hold # NoHold PROVE FALSE  OBVIOUS
<1> DEFINE h == claim[p].hold
<1>1. h \in Holds  BY DEF LedgerInv, TypeOK, Claim
<1>2. hold[h].state # "ABSENT" /\ hold[h].reserve.terms.payment = p
  BY DEF LedgerInv, HoldClaimAgreement
<1>3. claim[p].state = hold[h].state  BY <1>1, <1>2 DEF LedgerInv, HoldClaimAgreement
<1>4. hold[h].state \in HoldStates  BY <1>1 DEF LedgerInv, TypeOK, Hold
<1> QED BY <1>2, <1>3, <1>4 DEF HoldStates

\* The hold a claim names is a recorded one.
LEMMA NamedHold ==
  ASSUME LedgerInv, NEW p \in Payments, claim[p].hold # NoHold
  PROVE  claim[p].hold \in Holds /\ hold[claim[p].hold].state # "ABSENT"
BY DEF LedgerInv, TypeOK, Claim, HoldClaimAgreement

\* Nothing written leaves the mapped state alone.
LEMMA Stutters ==
  ASSUME UNCHANGED <<claim, hold>>, UNCHANGED Spendable
  PROVE  UNCHANGED <<Status, Deal, Spendable>>
BY DEF Status, Deal

\* A rejected admission refuses an undecided payment, or changes nothing.
LEMMA RejectedAdmission ==
  ASSUME LedgerInv, NEW r \in Transfers \cup Reserves, NEW verdict, RejectAdmission(r, verdict)
  PROVE  Promise!Next \/ UNCHANGED <<Status, Deal, Spendable>>
<1> DEFINE p == r.terms.payment
           c == [state |-> "REJECTED", admission |-> r.op, hold |-> NoHold, result |-> r.op]
<1>1. Reject(r, verdict) /\ r \in Requests  BY DEF RejectAdmission, Requests
<1>2. UNCHANGED <<hold, balance>>  BY <1>1, RejectEffect
<1>3. UNCHANGED Spendable  BY <1>2 DEF Spendable
<1>4. CASE claim' = claim  BY <1>2, <1>3, <1>4, Stutters
<1>5. CASE claim[p].state = "ABSENT" /\ claim' = [claim EXCEPT ![p] = c]
  <2>1. /\ p \in Payments /\ claim'[p] = c
        /\ \A q \in Payments \ {p} : claim'[q] = claim[q]
    BY <1>5, AdmissionClaim
  <2>2. claim'[p].state = "REJECTED" /\ claim'[p].hold = NoHold  BY <2>1
  <2>3. claim[p].hold = NoHold  BY <1>5, <2>1, NothingAside
  <2>4. Status' = [Status EXCEPT ![p] = "REJECTED"] /\ Status[p] = "ABSENT"
    BY <1>5, <2>1, <2>2 DEF Status
  <2>5. UNCHANGED Deal  BY <1>2, <2>1, <2>2, <2>3 DEF Deal
  <2> QED BY <1>3, <2>1, <2>4, <2>5, IsRefuse
<1> QED BY <1>4, <1>5 DEF RejectAdmission

-----------------------------------------------------------------------------
(***************************************************************************)
(* Every command is a step of Escrow, or none.                             *)
(***************************************************************************)
\* TransferInternal pays.
LEMMA TransferPays ==
  ASSUME BookInv, NEW r \in Transfers, NEW now \in Times, TransferInternal(r, now)
  PROVE  Promise!Next \/ UNCHANGED <<Status, Deal, Spendable>>
<1>1. LedgerInv  BY DEF BookInv
<1>2. CASE RejectAdmission(r, TransferVerdict(r, now))  BY <1>1, <1>2, RejectedAdmission
<1> DEFINE t == r.terms
           p == t.payment
           fees == Policies[t.policy].feeAccount
           c == [state |-> "APPLIED", admission |-> r.op, hold |-> NoHold, result |-> r.op]
<1>3. CASE /\ TransferVerdict(r, now) = "APPLIED"
           /\ balance' = PostAll(balance, TransferLines(t))
           /\ claim' = [claim EXCEPT ![p] = c]
           /\ UNCHANGED hold
  <2>1. /\ claim[p].state = "ABSENT"
        /\ ~(Available(t.source, balance[t.source]) < Total(t))
    BY <1>1, <1>3, AdmitFacts DEF LedgerInv, TransferVerdict
  <2>2. /\ p \in Payments /\ claim'[p] = c
        /\ \A q \in Payments \ {p} : claim'[q] = claim[q]
    BY <1>1, <1>3, AdmissionClaim
  <2>3. claim'[p].state = "APPLIED" /\ claim'[p].hold = NoHold  BY <2>2
  <2>4. claim[p].hold = NoHold  BY <1>1, <2>1, <2>2, NothingAside
  <2>5. Status' = [Status EXCEPT ![p] = "APPLIED"] /\ Status[p] = "ABSENT"
    BY <2>1, <2>2, <2>3 DEF Status
  <2>6. UNCHANGED Deal  BY <1>3, <2>2, <2>3, <2>4 DEF Deal
  <2>7. /\ t.source \in Accounts /\ t.source \notin Pools \cup FeeAccounts
        /\ t.beneficiary \notin Pools \cup FeeAccounts /\ t.source # t.beneficiary
        /\ fees \in FeeAccounts /\ t.principal \in Nat /\ t.fee \in Nat
        /\ t.policy \in DOMAIN Policies
        /\ \A a \in Accounts :
             Moved(a, IF a = t.source THEN Total(t) ELSE 0,
                   IF a = t.beneficiary THEN t.principal ELSE IF a = fees THEN t.fee ELSE 0, 0)
    BY <1>1, <1>3, TransferEffect
  <2>8. Total(t) = t.principal + t.fee  BY DEF Total
  <2>9. fees \notin Pools  BY <2>7, IdAssumption
  <2>10. ASSUME NEW a \in Accounts
         PROVE  /\ Spendable[a] \in Int
                /\ Spendable'[a] =
                     Spendable[a] - (IF a = t.source THEN t.principal + t.fee ELSE 0)
                       + (IF a = t.beneficiary THEN t.principal ELSE 0)
                       + (IF a = fees THEN t.fee ELSE 0)
    <3> DEFINE debit == IF a = t.source THEN Total(t) ELSE 0
               credit == IF a = t.beneficiary THEN t.principal ELSE IF a = fees THEN t.fee ELSE 0
    <3>1. debit \in Int /\ credit \in Int /\ Moved(a, debit, credit, 0)  BY <2>7, <2>8
    <3>2. a \in Pools => debit = 0 /\ credit = 0  BY <2>7, <2>9
    <3> HIDE DEF debit, credit
    <3>3. /\ Spendable[a] \in Int
          /\ Spendable'[a] = Spendable[a]
               + (IF a \in Pools THEN debit - credit ELSE credit - debit) - 0
      BY <1>1, <3>1, AvailableMoves
    <3>4. Spendable[a] \in Int /\ Spendable'[a] = Spendable[a] - debit + credit
      BY <3>1, <3>2, <3>3
    <3>5. CASE a = t.source
      <4>1. debit = t.principal + t.fee /\ credit = 0  BY <2>7, <2>8, <3>5 DEF debit, credit
      <4> HIDE DEF t, fees
      <4> QED BY <2>7, <3>4, <3>5, <4>1
    <3>6. CASE a = t.beneficiary
      <4>1. debit = 0 /\ credit = t.principal  BY <2>7, <3>6 DEF debit, credit
      <4> HIDE DEF t, fees
      <4> QED BY <2>7, <3>4, <3>6, <4>1
    <3>7. CASE a # t.source /\ a # t.beneficiary
      <4>1. debit = 0 /\ credit = IF a = fees THEN t.fee ELSE 0  BY <3>7 DEF debit, credit
      <4> HIDE DEF t, fees
      <4> QED BY <2>7, <3>4, <3>7, <4>1
    <3> QED BY <3>5, <3>6, <3>7
  <2>11. Spendable[t.source] >= t.principal + t.fee
    <3>1. Spendable[t.source] = Available(t.source, balance[t.source])  BY <2>7 DEF Spendable
    <3>2. Spendable[t.source] \in Int  BY <2>7, <2>10
    <3> QED BY <2>1, <2>7, <2>8, <3>1, <3>2
  <2>12. Spendable' = [a \in Accounts |->
           Spendable[a] - (IF a = t.source THEN t.principal + t.fee ELSE 0)
             + (IF a = t.beneficiary THEN t.principal ELSE 0)
             + (IF a = fees THEN t.fee ELSE 0)]
    BY <2>10 DEF Spendable
  <2> QED BY <2>2, <2>5, <2>6, <2>7, <2>11, <2>12, IsPay
<1> QED BY <1>2, <1>3 DEF TransferInternal

\* ReservePayout sets aside.
LEMMA ReserveSetsAside ==
  ASSUME BookInv, NEW r \in Reserves, NEW now \in Times, ReservePayout(r, now)
  PROVE  Promise!Next \/ UNCHANGED <<Status, Deal, Spendable>>
<1>1. LedgerInv  BY DEF BookInv
<1>2. CASE RejectAdmission(r, ReserveVerdict(r, now))  BY <1>1, <1>2, RejectedAdmission
<1> DEFINE t == r.terms
           p == t.payment
           c == [state |-> "RESERVED", admission |-> r.op, hold |-> r.hold, result |-> r.op]
           n == [state |-> "RESERVED", version |-> 1, reserve |-> r,
                 owner |-> owner[t.source], bucket |-> Bucket(now)]
<1>3. CASE /\ ReserveVerdict(r, now) = "APPLIED"
           /\ balance' = [balance EXCEPT ![t.source] = Touched(Reserve(@, Total(t))),
                                         ![r.pool] = Touched(Reserve(@, t.principal))]
           /\ hold' = [hold EXCEPT ![r.hold] = n]
           /\ claim' = [claim EXCEPT ![p] = c]
  <2>1. /\ claim[p].state = "ABSENT"
        /\ ~(Available(t.source, balance[t.source]) < Total(t))
    BY <1>1, <1>3, AdmitFacts DEF LedgerInv, ReserveVerdict
  <2>2. /\ p \in Payments /\ claim'[p] = c
        /\ \A q \in Payments \ {p} : claim'[q] = claim[q]
    BY <1>1, <1>3, AdmissionClaim
  <2>3. claim'[p].state = "RESERVED" /\ claim'[p].hold = r.hold  BY <2>2
  <2>4. r.hold \in Holds /\ r.hold # NoHold /\ hold[r.hold].state = "ABSENT"
    BY <1>3, RequestAssumption, IdAssumption DEF ReserveRequest, ReserveVerdict, HoldTaken
  <2>5. Status' = [Status EXCEPT ![p] = "RESERVED"] /\ Status[p] = "ABSENT"
    BY <2>1, <2>2, <2>3 DEF Status
  <2>6. /\ hold'[r.hold].reserve = r
        /\ \A h \in Holds \ {r.hold} : hold'[h] = hold[h]
    <3>1. hold'[r.hold] = n /\ \A h \in Holds \ {r.hold} : hold'[h] = hold[h]
      BY <1>1, <1>3, <2>4 DEF LedgerInv, TypeOK
    <3> QED BY <3>1
  <2>7. Deal' = [Deal EXCEPT ![p] = DealOf(t, r.pool)]
    <3>1. Deal'[p] = DealOf(t, r.pool)  BY <2>2, <2>3, <2>4, <2>6 DEF Deal
    <3>2. ASSUME NEW q \in Payments \ {p} PROVE Deal'[q] = Deal[q]
      <4>1. claim'[q] = claim[q]  BY <2>2
      <4>2. claim[q].hold # NoHold => claim[q].hold \in Holds \ {r.hold}
        BY <1>1, <2>4, NamedHold
      <4> QED BY <2>6, <4>1, <4>2 DEF Deal
    <3> QED BY <2>2, <3>1, <3>2 DEF Deal
  <2>8. /\ t.source \in Accounts /\ t.source \notin Pools \cup FeeAccounts
        /\ r.pool \in Pools /\ r.pool \in Accounts /\ r.pool # t.source
        /\ t.principal \in Nat /\ t.fee \in Nat /\ t.policy \in DOMAIN Policies
        /\ \A a \in Accounts :
             Moved(a, 0, 0, IF a = t.source THEN Total(t)
                            ELSE IF a = r.pool THEN t.principal ELSE 0)
    BY <1>1, <1>3, ReserveEffect
  <2>9. Total(t) = t.principal + t.fee  BY DEF Total
  <2>10. ASSUME NEW a \in Accounts
         PROVE  /\ Spendable[a] \in Int
                /\ Spendable'[a] = Spendable[a] - (IF a = t.source THEN t.principal + t.fee
                                                   ELSE IF a = r.pool THEN t.principal ELSE 0)
    <3> DEFINE held == IF a = t.source THEN Total(t)
                       ELSE IF a = r.pool THEN t.principal ELSE 0
    <3>1. held \in Int /\ Moved(a, 0, 0, held)  BY <2>8, <2>9
    <3> HIDE DEF held
    <3>2. Spendable[a] \in Int /\ Spendable'[a] = Spendable[a] - held
      BY <1>1, <3>1, AvailableHeld
    <3> QED BY <2>9, <3>2 DEF held
  <2>11. Spendable[t.source] >= t.principal + t.fee
    <3>1. Spendable[t.source] = Available(t.source, balance[t.source])  BY <2>8 DEF Spendable
    <3>2. Spendable[t.source] \in Int  BY <2>8, <2>10
    <3> QED BY <2>1, <2>8, <2>9, <3>1, <3>2
  <2>12. Spendable[r.pool] >= t.principal
    <3>1. EncumberVerdict(r.pool, t.principal) = "APPLIED"  BY <1>3 DEF ReserveVerdict
    <3>2. Solvent(r.pool, Reserve(balance[r.pool], t.principal))  BY <3>1 DEF EncumberVerdict
    <3>3. /\ balance[r.pool] \in Row /\ balance[r.pool].debits \in Int
          /\ balance[r.pool].credits \in Int /\ balance[r.pool].held \in Int
      BY <1>1, <2>8, BalanceRows
    <3>4. /\ Reserve(balance[r.pool], t.principal).debits = balance[r.pool].debits
          /\ Reserve(balance[r.pool], t.principal).credits = balance[r.pool].credits
          /\ Reserve(balance[r.pool], t.principal).held = balance[r.pool].held + t.principal
      BY <2>8, <3>3, HeldFields
    <3>5. Purpose(r.pool) = "PROVIDER_POOL"  BY <2>8 DEF Purpose
    <3>6. balance[r.pool].debits - balance[r.pool].credits
            - (balance[r.pool].held + t.principal) >= 0
      BY <3>2, <3>4, <3>5 DEF Solvent, Available, Posted
    <3>7. Spendable[r.pool] = balance[r.pool].debits - balance[r.pool].credits
                                - balance[r.pool].held
      BY <2>8, <3>5 DEF Spendable, Available, Posted
    <3> QED BY <2>8, <3>3, <3>6, <3>7
  <2>13. Spendable' = [Spendable EXCEPT ![t.source] = @ - (t.principal + t.fee),
                                        ![r.pool] = @ - t.principal]
    <3>1. /\ Spendable'[t.source] = Spendable[t.source] - (t.principal + t.fee)
          /\ Spendable'[r.pool] = Spendable[r.pool] - t.principal
          /\ \A a \in Accounts \ {t.source, r.pool} : Spendable'[a] = Spendable[a]
      <4>1. \A a \in Accounts : Spendable[a] \in Int  BY <2>10
      <4> HIDE DEF t
      <4> QED BY <2>8, <2>10, <4>1
    <3>2. /\ Spendable' = [a \in Accounts |-> Spendable'[a]]
          /\ Spendable = [a \in Accounts |-> Spendable[a]]
      BY DEF Spendable
    <3> HIDE DEF t
    <3> QED BY <2>8, <3>1, <3>2
  <2> QED BY <2>2, <2>5, <2>7, <2>8, <2>11, <2>12, <2>13, IsSetAside
<1> QED BY <1>2, <1>3 DEF ReservePayout

\* A command on a hold moves the status of its payment and leaves every deal.
LEMMA MoveHoldMaps ==
  ASSUME LedgerInv, NEW r \in Exposes \cup Captures \cup Releases,
         NEW state \in {"EXPOSED", "CAPTURED", "RELEASED"},
         RefVerdict(r) = "APPLIED", MoveHold(r, state)
  PROVE  LET p == r.ref.payment
             h == r.ref.hold
         IN  /\ p \in Payments /\ h \in Holds /\ hold[h].state # "ABSENT"
             /\ Status[p] = hold[h].state /\ Status' = [Status EXCEPT ![p] = state]
             /\ Deal[p] = DealOf(hold[h].reserve.terms, hold[h].reserve.pool)
             /\ UNCHANGED Deal
<1> DEFINE p == r.ref.payment
           h == r.ref.hold
<1>1. /\ h \in Holds /\ p \in Payments /\ hold[h].state # "ABSENT"
      /\ claim[p].hold = h /\ claim[p].state = hold[h].state
      /\ hold'[h].reserve = hold[h].reserve
      /\ \A i \in Holds \ {h} : hold'[i] = hold[i]
      /\ claim'[p].state = state /\ claim'[p].hold = h
      /\ \A q \in Payments \ {p} : claim'[q] = claim[q]
  BY MoveHoldEffect
<1> HIDE DEF p, h
<1>2. h # NoHold  BY <1>1, IdAssumption
<1>3. Status[p] = hold[h].state /\ Status' = [Status EXCEPT ![p] = state]
  BY <1>1 DEF Status
<1>4. Deal[p] = DealOf(hold[h].reserve.terms, hold[h].reserve.pool)
  BY <1>1, <1>2 DEF Deal
<1>5. ASSUME NEW q \in Payments PROVE Deal'[q] = Deal[q]
  <2>1. claim'[q].hold = claim[q].hold  BY <1>1
  <2>2. claim[q].hold # NoHold =>
          hold'[claim[q].hold].reserve = hold[claim[q].hold].reserve
    BY <1>1, NamedHold
  <2> QED BY <2>1, <2>2 DEF Deal
<1>6. UNCHANGED Deal  BY <1>5 DEF Deal
<1> QED BY <1>1, <1>3, <1>4, <1>6 DEF p, h

\* A rejected command that leaves the claims is no step of Escrow.
LEMMA RejectedStutters ==
  ASSUME LedgerInv, NEW r \in Requests, NEW verdict, Reject(r, verdict), UNCHANGED claim
  PROVE  UNCHANGED <<Status, Deal, Spendable>>
<1>1. UNCHANGED <<hold, balance>>  BY RejectEffect
<1>2. UNCHANGED Spendable  BY <1>1 DEF Spendable
<1> QED BY <1>1, <1>2, Stutters

\* MarkHoldExposed exposes.
LEMMA ExposeExposes ==
  ASSUME BookInv, NEW r \in Exposes, NEW now \in Times, NEW known \in BOOLEAN,
         MarkHoldExposed(r, now, known)
  PROVE  Promise!Next \/ UNCHANGED <<Status, Deal, Spendable>>
<1>1. LedgerInv /\ r \in Requests  BY DEF BookInv, Requests
<1>2. CASE Reject(r, ExposeVerdict(r, now, known)) /\ UNCHANGED claim
  BY <1>1, <1>2, RejectedStutters
<1>3. CASE /\ ExposeVerdict(r, now, known) = "APPLIED" /\ MoveHold(r, "EXPOSED")
           /\ UNCHANGED money
  <2>1. RefVerdict(r) = "APPLIED" /\ hold[r.ref.hold].state = "RESERVED"
    BY <1>3 DEF ExposeVerdict
  <2>2. /\ r.ref.payment \in Payments /\ Status[r.ref.payment] = hold[r.ref.hold].state
        /\ Status' = [Status EXCEPT ![r.ref.payment] = "EXPOSED"] /\ UNCHANGED Deal
    BY <1>1, <1>3, <2>1, MoveHoldMaps
  <2>3. UNCHANGED Spendable  BY <1>3 DEF Spendable, money
  <2> QED BY <2>1, <2>2, <2>3, IsExpose
<1> QED BY <1>2, <1>3 DEF MarkHoldExposed

\* CapturePayout pays out: source and pool have paid already, the fee arrives.
LEMMA CapturePaysOut ==
  ASSUME BookInv, NEW r \in Captures, NEW now \in Times, CapturePayout(r, now)
  PROVE  Promise!Next \/ UNCHANGED <<Status, Deal, Spendable>>
<1>1. LedgerInv /\ r \in Requests  BY DEF BookInv, Requests
<1>2. CASE Reject(r, CaptureVerdict(r, now)) /\ UNCHANGED claim
  BY <1>1, <1>2, RejectedStutters
<1> DEFINE h == r.ref.hold
           p == r.ref.payment
           t == hold[h].reserve.terms
           pool == hold[h].reserve.pool
           fees == HoldFeeAccount(h)
<1>3. CASE /\ CaptureVerdict(r, now) = "APPLIED" /\ MoveHold(r, "CAPTURED")
           /\ balance' = PostAll(Unencumbered(h), HoldLines(h))
  <2>1. RefVerdict(r) = "APPLIED" /\ hold[h].state = "EXPOSED"  BY <1>3 DEF CaptureVerdict
  <2>2. /\ p \in Payments /\ h \in Holds /\ Status[p] = hold[h].state
        /\ Status' = [Status EXCEPT ![p] = "CAPTURED"] /\ UNCHANGED Deal
        /\ Deal[p] = DealOf(t, pool)
    BY <1>1, <1>3, <2>1, MoveHoldMaps
  <2>3. Deal[p].feeAccount = fees /\ Deal[p].fee = t.fee
    BY <2>2 DEF DealOf, HoldFeeAccount
  <2>4. /\ t.source \in Accounts \ (Pools \cup FeeAccounts) /\ pool \in Pools
        /\ t.principal \in Nat /\ t.fee \in Nat /\ Total(t) \in Nat /\ fees \in Accounts
    BY <1>1, <2>1, <2>2, HoldFacts DEF HoldTotal
  <2>5. fees \in FeeAccounts
    BY <1>1, <2>1, <2>2, PolicyAssumption DEF LedgerInv, HoldsWellFormed, HoldFeeAccount
  <2>6. fees \notin Pools /\ pool # fees /\ t.source # fees  BY <2>4, <2>5, IdAssumption
  <2>7. ASSUME NEW a \in Accounts
        PROVE  /\ Spendable[a] \in Int
               /\ Spendable'[a] = Spendable[a] + (IF a = fees THEN t.fee ELSE 0)
    <3> DEFINE debit == IF a = t.source THEN Total(t) ELSE 0
               credit == IF a = pool THEN t.principal ELSE IF a = fees THEN t.fee ELSE 0
               held == IF a = t.source THEN Total(t) ELSE IF a = pool THEN t.principal ELSE 0
               lifted == 0 - held
    <3>1. Moved(a, debit, credit, lifted)  BY <1>1, <1>3, <2>1, <2>2, CaptureEffect
    <3>2. debit \in Int /\ credit \in Int /\ held \in Int /\ lifted \in Int  BY <2>4
    <3>3. lifted = 0 - held  OBVIOUS
    <3> HIDE DEF debit, credit, held, lifted
    <3>4. /\ Spendable[a] \in Int
          /\ Spendable'[a] = Spendable[a]
               + (IF a \in Pools THEN debit - credit ELSE credit - debit) - lifted
      BY <1>1, <3>1, <3>2, AvailableMoves
    <3>5. CASE a \in Pools
      <4>1. debit = 0 /\ credit = held /\ a # fees
        BY <2>4, <2>6, <3>5 DEF debit, credit, held
      <4> QED BY <3>2, <3>3, <3>4, <3>5, <4>1
    <3>6. CASE a \notin Pools
      <4>1. debit = held /\ credit = IF a = fees THEN t.fee ELSE 0
        BY <2>4, <3>6 DEF debit, credit, held
      <4> HIDE DEF t, fees
      <4> QED BY <2>4, <3>2, <3>3, <3>4, <3>6, <4>1
    <3> QED BY <3>5, <3>6
  <2>8. Spendable' = [Spendable EXCEPT ![fees] = @ + t.fee]
    <3>1. /\ Spendable' = [a \in Accounts |-> Spendable'[a]]
          /\ Spendable = [a \in Accounts |-> Spendable[a]]
      BY DEF Spendable
    <3> HIDE DEF t, fees
    <3>2. /\ Spendable'[fees] = Spendable[fees] + t.fee
          /\ \A a \in Accounts \ {fees} : Spendable'[a] = Spendable[a]
      BY <2>4, <2>7
    <3> QED BY <2>4, <3>1, <3>2
  <2> QED BY <2>1, <2>2, <2>3, <2>8, IsPayOut
<1> QED BY <1>2, <1>3 DEF CapturePayout

\* ReleasePayout gives back, to the source and to the pool.
LEMMA ReleaseGivesBack ==
  ASSUME BookInv, NEW r \in Releases, NEW now \in Times, ReleasePayout(r, now)
  PROVE  Promise!Next \/ UNCHANGED <<Status, Deal, Spendable>>
<1>1. LedgerInv /\ r \in Requests  BY DEF BookInv, Requests
<1>2. CASE Reject(r, ReleaseVerdict(r, now)) /\ UNCHANGED claim
  BY <1>1, <1>2, RejectedStutters
<1> DEFINE h == r.ref.hold
           p == r.ref.payment
           t == hold[h].reserve.terms
           pool == hold[h].reserve.pool
<1>3. CASE /\ ReleaseVerdict(r, now) = "APPLIED" /\ MoveHold(r, "RELEASED")
           /\ balance' = [a \in Accounts |->
                IF a \in {hold[h].reserve.terms.source, hold[h].reserve.pool}
                THEN Touched(Unencumbered(h)[a]) ELSE balance[a]]
  <2>1. RefVerdict(r) = "APPLIED" /\ hold[h].state \in {"RESERVED", "EXPOSED"}
    BY <1>3 DEF ReleaseVerdict
  <2>2. /\ p \in Payments /\ h \in Holds /\ Status[p] = hold[h].state
        /\ Status' = [Status EXCEPT ![p] = "RELEASED"] /\ UNCHANGED Deal
        /\ Deal[p] = DealOf(t, pool)
    BY <1>1, <1>3, <2>1, MoveHoldMaps
  <2>3. /\ Deal[p].source = t.source /\ Deal[p].payee = pool
        /\ Deal[p].principal = t.principal /\ Deal[p].fee = t.fee
    BY <2>2 DEF DealOf
  <2>4. /\ t.source \in Accounts \ (Pools \cup FeeAccounts) /\ pool \in Accounts
        /\ pool # t.source /\ t.principal \in Nat /\ t.fee \in Nat
    BY <1>1, <2>1, <2>2, HoldFacts
  <2>5. ASSUME NEW a \in Accounts
        PROVE  /\ Spendable[a] \in Int
               /\ Spendable'[a] = Spendable[a] + (IF a = t.source THEN t.principal + t.fee
                                                  ELSE IF a = pool THEN t.principal ELSE 0)
    <3> DEFINE held == IF a = t.source THEN Total(t) ELSE IF a = pool THEN t.principal ELSE 0
               lifted == 0 - held
    <3>1. Moved(a, 0, 0, lifted)  BY <1>1, <1>3, <2>1, <2>2, ReleaseEffect
    <3>2. held = IF a = t.source THEN t.principal + t.fee
                 ELSE IF a = pool THEN t.principal ELSE 0
      BY DEF Total
    <3>3. held \in Int /\ lifted \in Int /\ lifted = 0 - held  BY <2>4, <3>2
    <3> HIDE DEF held, lifted
    <3>4. Spendable[a] \in Int /\ Spendable'[a] = Spendable[a] - lifted
      BY <1>1, <3>1, <3>3, AvailableHeld
    <3>5. Spendable[a] \in Int /\ Spendable'[a] = Spendable[a] + held  BY <3>3, <3>4
    <3> QED BY <3>2, <3>5
  <2>6. Spendable' = [Spendable EXCEPT ![t.source] = @ + (t.principal + t.fee),
                                       ![pool] = @ + t.principal]
    <3>1. /\ Spendable' = [a \in Accounts |-> Spendable'[a]]
          /\ Spendable = [a \in Accounts |-> Spendable[a]]
      BY DEF Spendable
    <3> HIDE DEF t, pool
    <3>2. /\ Spendable'[t.source] = Spendable[t.source] + (t.principal + t.fee)
          /\ Spendable'[pool] = Spendable[pool] + t.principal
          /\ \A a \in Accounts \ {t.source, pool} : Spendable'[a] = Spendable[a]
      BY <2>4, <2>5
    <3> QED BY <2>4, <3>1, <3>2
  <2> QED BY <2>1, <2>2, <2>3, <2>6, IsGiveBack
<1> QED BY <1>2, <1>3 DEF ReleasePayout

\* A new account has nothing to spend, as before; a control update moves nothing.
LEMMA ControlsStutter ==
  ASSUME BookInv,
         \/ \E r \in Creates : CreateAccount(r)
         \/ \E r \in SetControls : SetAccountControl(r)
  PROVE  UNCHANGED <<Status, Deal, Spendable>>
<1>1. LedgerInv  BY DEF BookInv
<1>2. ASSUME NEW r \in SetControls, SetAccountControl(r)
      PROVE  UNCHANGED <<Status, Deal, Spendable>>
  <2>1. UNCHANGED <<claim, hold, balance>>
    BY <1>1, <1>2, SetControlAdvances DEF SetAccountControl
  <2>2. UNCHANGED Spendable  BY <2>1 DEF Spendable
  <2> QED BY <2>1, <2>2, Stutters
<1>3. ASSUME NEW r \in Creates, CreateAccount(r)
      PROVE  UNCHANGED <<Status, Deal, Spendable>>
  <2>1. r \in Requests /\ r.account \in Accounts /\ UNCHANGED claim
    BY <1>3, RequestAssumption DEF Requests, CreateRequest, CreateAccount
  <2>2. CASE Reject(r, CreateVerdict(r))  BY <1>1, <2>1, <2>2, RejectedStutters
  <2>3. CASE /\ CreateVerdict(r) = "APPLIED"
             /\ balance' = [balance EXCEPT ![r.account] = NewBalance]
             /\ UNCHANGED hold
    <3>1. ~Exists(r.account)  BY <2>3 DEF CreateVerdict
    <3>2. /\ balance[r.account].debits = 0 /\ balance[r.account].credits = 0
          /\ balance[r.account].held = 0
      BY <2>1, <3>1 DEF BookInv, AccountsComplete
    <3>3. NewBalance.debits = 0 /\ NewBalance.credits = 0 /\ NewBalance.held = 0
      BY DEF NewBalance
    <3>4. /\ balance'[r.account] = NewBalance
          /\ \A a \in Accounts \ {r.account} : balance'[a] = balance[a]
      BY <1>1, <2>1, <2>3 DEF LedgerInv, TypeOK
    <3>5. Available(r.account, balance'[r.account]) = Available(r.account, balance[r.account])
      BY <3>2, <3>3, <3>4 DEF Available, Posted
    <3>6. UNCHANGED Spendable  BY <3>4, <3>5 DEF Spendable
    <3> QED BY <2>1, <2>3, <3>6, Stutters
  <2> QED BY <1>3, <2>2, <2>3 DEF CreateAccount
<1> QED BY <1>2, <1>3

\* Seen through its claims and what is available on each account, the Ledger does
\* what Escrow says and nothing else: money leaves a wallet only as the deal of a
\* payment decided once, and comes back or goes out exactly as the deal says.
THEOREM LedgerKeepsPromise == Spec => KeepsPromise
<1>1. Init => Promise!Init
  <2> SUFFICES ASSUME Init PROVE Promise!Init  OBVIOUS
  <2>1. LedgerInv  BY InitInv
  <2>2. Status = [p \in Payments |-> "ABSENT"]  BY DEF Init, Status
  <2>3. Deal = [p \in Payments |-> NoRequest]  BY DEF Init, Deal
  <2>4. Spendable \in [Accounts -> Nat]
    <3> SUFFICES ASSUME NEW a \in Accounts PROVE Available(a, balance[a]) \in Nat
      BY DEF Spendable
    <3>1. /\ balance[a].debits \in Int /\ balance[a].credits \in Int /\ balance[a].held \in Int
      BY <2>1, BalanceRows
    <3>2. balance[a].held <= Posted(a, balance[a])  BY <2>1 DEF LedgerInv, NeverOverdrawn
    <3>3. Posted(a, balance[a]) \in Int  BY <3>1 DEF Posted
    <3> QED BY <3>1, <3>2, <3>3 DEF Available
  <2> QED BY <2>2, <2>3, <2>4 DEF Promise!Init, Status, Deal, Spendable
<1>2. BookInv /\ [Next]_vars => [Promise!Next]_Promise!vars
  <2> SUFFICES ASSUME BookInv, [Next]_vars
               PROVE  Promise!Next \/ UNCHANGED <<Status, Deal, Spendable>>
    BY DEF Promise!vars, Status, Deal, Spendable
  <2>1. CASE Next
    BY <2>1, TransferPays, ReserveSetsAside, ExposeExposes, CapturePaysOut, ReleaseGivesBack,
       ControlsStutter
    DEF Next
  <2>2. CASE UNCHANGED vars  BY <2>2 DEF vars, Status, Deal, Spendable
  <2> QED BY <2>1, <2>2
<1> QED BY <1>1, <1>2, BookInvariant, PTL DEF Spec, KeepsPromise, Promise!Spec

=============================================================================
