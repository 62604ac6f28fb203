---------------------------- MODULE LedgerProofs ----------------------------
(***************************************************************************)
(* Theorems about Ledger for every set of requests, every clock and every  *)
(* value of the bounds: balances are covered, claims and holds agree, what *)
(* is recorded never changes, a payment is executed once, and an exposed   *)
(* payout is settled on evidence only.                                     *)
(***************************************************************************)
EXTENDS Ledger, FiniteSetTheorems, TLAPS

\* A recorded hold was admitted from a wallet against a provider pool under a
\* known policy: what the settlement of that hold relies on.
HoldsWellFormed ==
  \A h \in Holds : hold[h].state # "ABSENT" =>
    /\ hold[h].reserve \in Reserves
    /\ hold[h].reserve.terms.source \notin Pools \cup FeeAccounts
    /\ hold[h].reserve.pool \in Pools
    /\ hold[h].reserve.terms.policy \in DOMAIN Policies
    /\ hold[h].owner \in Owners /\ hold[h].bucket \in Buckets

\* The inductive invariant behind the theorems of this module.
LedgerInv == TypeOK /\ NeverOverdrawn /\ HoldsWellFormed /\ HoldClaimAgreement

-----------------------------------------------------------------------------
(***************************************************************************)
(* Postings.                                                               *)
(***************************************************************************)
Covered(b) == \A a \in Accounts : b[a].held <= Posted(a, b[a])

\* A posting Totals.Post accepts leaves a row in range and still covered, and
\* does not touch what is held.
LEMMA PostKeeps ==
  ASSUME NEW a \in Accounts, NEW t \in Balance, NEW side \in {"DEBIT", "CREDIT"},
         NEW amount \in Nat, CanPost(a, t, side, amount), HasNext(t.version)
  PROVE  LET u == Touched(Post(t, side, amount))
         IN  u \in Balance /\ u.held = t.held /\ u.held <= Posted(a, u)
<1> DEFINE p == Post(t, side, amount)
           u == Touched(p)
<1>1. /\ t.debits \in Wides /\ t.credits \in Wides /\ t.held \in Wides
      /\ t.version \in Versions
  BY DEF Balance
<1>2. p \in [debits : Nat, credits : Nat, held : Wides, version : Versions]
  BY <1>1, BoundsAssumption DEF Post, Balance, Wides
<1>3. /\ p.held = t.held /\ p.version = t.version
      /\ p.debits \in Wides /\ p.credits \in Wides
  BY <1>1, BoundsAssumption DEF Post, CanPost, Balance, Wides
<1>4. /\ u.debits = p.debits /\ u.credits = p.credits /\ u.held = p.held
      /\ u.version = p.version + 1
  BY <1>2 DEF Touched
<1>5. u.version \in Versions  BY <1>1, <1>3, <1>4, BoundsAssumption DEF HasNext, Versions
<1>6. u = [debits |-> p.debits, credits |-> p.credits, held |-> p.held,
           version |-> p.version + 1]
  BY <1>2 DEF Touched
<1>7. u \in Balance  BY <1>1, <1>3, <1>4, <1>5, <1>6 DEF Balance
<1>8. p.held <= Posted(a, p)
  <2>1. Posted(a, p) \in Int  BY <1>3, BoundsAssumption DEF Posted, Wides
  <2> QED BY <1>1, <1>3, <2>1, BoundsAssumption DEF CanPost, Solvent, Available, Wides
<1>9. u.held <= Posted(a, u)  BY <1>4, <1>8 DEF Posted
<1> QED BY <1>3, <1>4, <1>7, <1>9

\* So does a whole journal all of whose lines are accepted.
LEMMA PostAllKeeps ==
  ASSUME NEW b \in [Accounts -> Balance], NEW lines \in SUBSET JournalLine, Covered(b),
         \A l \in lines : /\ CanPost(l.account, b[l.account], l.side, l.amount)
                          /\ HasNext(b[l.account].version)
  PROVE  /\ PostAll(b, lines) \in [Accounts -> Balance]
         /\ Covered(PostAll(b, lines))
         /\ \A a \in Accounts : PostAll(b, lines)[a].held = b[a].held
<1> DEFINE n == PostAll(b, lines)
<1>1. ASSUME NEW a \in Accounts
      PROVE  n[a] \in Balance /\ n[a].held = b[a].held /\ n[a].held <= Posted(a, n[a])
  <2>1. CASE \E l \in lines : l.account = a
    <3>1. PICK l \in lines : l.account = a /\ n[a] = Touched(Post(b[a], l.side, l.amount))
      <4> DEFINE m == CHOOSE l \in lines : l.account = a
      <4>1. m \in lines /\ m.account = a  BY <2>1
      <4>2. n[a] = Touched(Post(b[a], m.side, m.amount))  BY <1>1, <2>1 DEF PostAll
      <4> QED BY <4>1, <4>2
    <3>2. l.side \in {"DEBIT", "CREDIT"} /\ l.amount \in Nat
      BY BoundsAssumption DEF JournalLine, Amounts
    <3>3. CanPost(a, b[a], l.side, l.amount) /\ HasNext(b[a].version)  BY <3>1
    <3> QED BY <1>1, <3>1, <3>2, <3>3, PostKeeps
  <2>2. CASE ~\E l \in lines : l.account = a
    BY <1>1, <2>2 DEF PostAll, Covered
  <2> QED BY <2>1, <2>2
<1>2. n = [a \in Accounts |-> n[a]]  BY DEF PostAll
<1> HIDE DEF n
<1>3. n \in [Accounts -> Balance]  BY <1>1, <1>2
<1>4. Covered(n)  BY <1>1 DEF Covered
<1> QED BY <1>1, <1>3, <1>4 DEF n

-----------------------------------------------------------------------------
(***************************************************************************)
(* What an applied verdict implies, and what every request is.             *)
(***************************************************************************)
\* Every request Validate lets through has an operation id, never the fixture's.
LEMMA RequestOps == \A r \in Requests : r.op \in Ops /\ r.op # FixtureOp
BY RequestAssumption
DEF Requests, CreateRequest, TransferRequest, ReserveRequest, ExposeRequest, CaptureRequest,
    ReleaseRequest, SetControlRequest

\* Both admissions carry terms Command.Validate has checked.
LEMMA TermsTypes == \A r \in Transfers \cup Reserves : r.terms \in Terms
BY RequestAssumption DEF TransferRequest, ReserveRequest

\* Every command on a hold names a hold and a payment.
LEMMA RefTypes ==
  \A r \in Exposes \cup Captures \cup Releases :
    r.ref.hold \in Holds /\ r.ref.payment \in Payments
BY RequestAssumption DEF ExposeRequest, CaptureRequest, ReleaseRequest, HoldRef

\* The Nairobi day of a clock reading is one of the days with limit rows.
LEMMA BucketType == \A now \in Times : Bucket(now) \in Buckets
BY DEF Buckets

\* An admission is of an undecided payment, from an existing wallet, under a
\* known policy, and fits the day's limit row.
LEMMA AdmitFacts ==
  ASSUME TypeOK, NEW r \in Transfers \cup Reserves, NEW now \in Times,
         AdmitVerdict(r, now) = "APPLIED"
  PROVE  /\ Exists(r.terms.source)
         /\ r.terms.source \notin Pools \cup FeeAccounts
         /\ claim[r.terms.payment].state = "ABSENT"
         /\ ~DebitFrozen(r.terms.source)
         /\ r.terms.policy \in DOMAIN Policies
         /\ ~(Total(r.terms) > MaxAmount)
         /\ ~(Available(r.terms.source, balance[r.terms.source]) < Total(r.terms))
         /\ ~(UsageTotal(usage[<<owner[r.terms.source], Bucket(now)>>]) + r.terms.principal > MaxWide)
         /\ ~(UsageTotal(usage[<<owner[r.terms.source], Bucket(now)>>]) + r.terms.principal
                > SubjectControl(r.terms.source).dailyCap)
         /\ HasNext(usage[<<owner[r.terms.source], Bucket(now)>>].version)
BY DEF AdmitVerdict, Purpose, Undecided

\* The limit row an admission writes is in range.
LEMMA AdmitUsageType ==
  ASSUME TypeOK, NEW r \in Transfers \cup Reserves, NEW now \in Times,
         AdmitVerdict(r, now) = "APPLIED"
  PROVE  LET o == owner[r.terms.source]
             u == usage[<<o, Bucket(now)>>]
         IN  /\ <<o, Bucket(now)>> \in Owners \X Buckets
             /\ \A reserve \in BOOLEAN : AdmitUsage(u, r.terms.principal, reserve) \in Usage
<1> DEFINE o == owner[r.terms.source]
           u == usage[<<o, Bucket(now)>>]
           p == r.terms.principal
<1>1. o \in Owners /\ Bucket(now) \in Buckets
  BY AdmitFacts, BucketType, TermsTypes DEF TypeOK, Exists, Terms
<1>2. u \in Usage  BY <1>1 DEF TypeOK
<1>3. p \in Nat  BY TermsTypes, BoundsAssumption DEF Terms, Amounts
<1>4. u.version \in Versions /\ HasNext(u.version)  BY <1>2, AdmitFacts DEF Usage
<1>5. u.reserved \in Nat /\ u.consumed \in Nat /\ u.reserved + u.consumed + p <= MaxWide
  BY <1>2, <1>3, AdmitFacts, BoundsAssumption DEF Usage, Wides, UsageTotal
<1> HIDE DEF u, p
<1>6. /\ [u EXCEPT !.consumed = @ + p] \in Usage
      /\ [u EXCEPT !.reserved = @ + p] \in Usage
      /\ [u EXCEPT !.consumed = @ + p].version = u.version
      /\ [u EXCEPT !.reserved = @ + p].version = u.version
  BY <1>2, <1>3, <1>5, BoundsAssumption DEF Usage, Wides
<1>7. u.version + 1 \in Versions  BY <1>4, BoundsAssumption DEF HasNext, Versions
<1>8. \A v \in Usage : v.version = u.version => Touched(v) \in Usage
  BY <1>7 DEF Touched, Usage
<1>9. \A reserve \in BOOLEAN : AdmitUsage(u, p, reserve) \in Usage
  BY <1>6, <1>8 DEF AdmitUsage
<1> QED BY <1>1, <1>9 DEF u, p

-----------------------------------------------------------------------------
(***************************************************************************)
(* The fixture establishes the invariant.                                  *)
(***************************************************************************)
\* The book BootstrapSynthetic leaves satisfies the invariant.
LEMMA InitInv == Init => LedgerInv
<1> SUFFICES ASSUME Init PROVE LedgerInv  OBVIOUS
<1> USE BoundsAssumption, IdAssumption
<1>1. owner \in [Accounts -> Owners \cup {NoOwner}]  BY DEF Init
<1>2. balance \in [Accounts -> Balance]
  <2>1. \A d, c \in {0, Funding}, v \in {0, 1} :
          [debits |-> d, credits |-> c, held |-> 0, version |-> v] \in Balance
    BY DEF Balance, Wides, Versions, Amounts
  <2> QED BY <2>1 DEF Init
<1>3. control \in [ControlKeys -> Control]
  <2>1. \A k \in ControlKeys : NewControl(k) \in Control
    BY DEF NewControl, Control, Versions, Wides
  <2>2. NoControl \in Control  BY DEF NoControl, Control, Versions, Wides
  <2> QED BY <2>1, <2>2 DEF Init
<1>4. claim \in [Payments -> Claim]  BY DEF Init, Claim, HoldStates
<1>5. hold \in [Holds -> Hold]
  <2>1. [state |-> "ABSENT", version |-> 0, reserve |-> NoRequest, owner |-> NoOwner,
         bucket |-> NoBucket] \in Hold
    BY DEF Hold, HoldStates, Versions
  <2> QED BY <2>1 DEF Init
<1>6. usage \in [Owners \X Buckets -> Usage]
  <2>1. [reserved |-> 0, consumed |-> 0, version |-> 0] \in Usage
    BY DEF Usage, Wides, Versions
  <2> QED BY <2>1 DEF Init
<1>7. receipts \in [Ops -> Operation]
  <2>1. Receipt("NONE", NoReason, NoRequest, NoBucket) \in Operation
    BY DEF Operation, Receipt
  <2>2. Receipt("APPLIED", NoReason, NoRequest, NoBucket) \in Operation
    BY DEF Operation, Receipt
  <2> QED BY <2>1, <2>2 DEF Init
<1>8. journal \in [Ops -> SUBSET JournalLine]
  <2>1. Line(FundedPool, "DEBIT", Funding) \in JournalLine
    BY DEF Line, JournalLine
  <2>2. Line(FundedWallet, "CREDIT", Funding) \in JournalLine
    BY DEF Line, JournalLine
  <2> QED BY <2>1, <2>2 DEF Init
<1>9. evidence \in [EvidenceIds -> Evidence \cup {NoEvidence}]  BY DEF Init
<1>10. TypeOK  BY <1>1, <1>2, <1>3, <1>4, <1>5, <1>6, <1>7, <1>8, <1>9 DEF TypeOK
<1>11. NeverOverdrawn
  <2>1. \A a \in Accounts : balance[a].held = 0  BY DEF Init
  <2>2. ASSUME NEW a \in Accounts PROVE Posted(a, balance[a]) >= 0
    <3>1. /\ balance[a].debits = IF a = FundedPool THEN Funding ELSE 0
          /\ balance[a].credits = IF a = FundedWallet THEN Funding ELSE 0
      BY DEF Init
    <3>2. Funding \in Nat /\ FundedWallet \notin Pools /\ FundedPool \in Pools
      BY DEF Amounts
    <3> QED BY <3>1, <3>2 DEF Posted, Purpose
  <2> QED BY <2>1, <2>2 DEF NeverOverdrawn
<1>12. HoldsWellFormed  BY DEF Init, HoldsWellFormed
<1>13. HoldClaimAgreement  BY DEF Init, HoldClaimAgreement
<1> QED BY <1>10, <1>11, <1>12, <1>13 DEF LedgerInv

-----------------------------------------------------------------------------
(***************************************************************************)
(* Rejections.  Nothing moves but the receipt, the claim of an undecided   *)
(* payment and recorded evidence.                                          *)
(***************************************************************************)
\* The receipt Save writes for a request is a row of financial_operations.
LEMMA ReceiptType ==
  ASSUME TypeOK, NEW r \in Requests, NEW outcome \in {"APPLIED", "REJECTED"},
         NEW reason \in Reasons \cup {NoReason}, NEW bucket \in Buckets \cup {NoBucket}
  PROVE  [receipts EXCEPT ![r.op] = Receipt(outcome, reason, r, bucket)] \in [Ops -> Operation]
<1>1. Receipt(outcome, reason, r, bucket) \in Operation  BY DEF Receipt, Operation
<1> QED BY <1>1, RequestOps DEF TypeOK

\* The part of the invariant that a step leaves alone when it leaves the rows alone.
LEMMA RejectKeeps ==
  ASSUME LedgerInv, NEW r \in Requests, NEW v, Reject(r, v),
         claim' \in [Payments -> Claim], HoldClaimAgreement',
         evidence' \in [EvidenceIds -> Evidence \cup {NoEvidence}]
  PROVE  LedgerInv'
<1>1. receipts' \in [Ops -> Operation]
  BY ReceiptType DEF Reject, LedgerInv
<1>2. TypeOK'  BY <1>1 DEF LedgerInv, TypeOK, Reject, money
<1>3. NeverOverdrawn'  BY DEF LedgerInv, NeverOverdrawn, Reject, money, Posted
<1>4. HoldsWellFormed'  BY DEF LedgerInv, HoldsWellFormed, Reject
<1> QED BY <1>2, <1>3, <1>4 DEF LedgerInv

\* A rejected admission decides its payment, which no hold has, and moves nothing.
LEMMA RejectAdmissionKeeps ==
  ASSUME LedgerInv, NEW r \in Transfers \cup Reserves, NEW v,
         RejectAdmission(r, v)
  PROVE  LedgerInv'
<1> DEFINE p == r.terms.payment
<1>1. r \in Requests /\ r.op \in Ops /\ p \in Payments
  BY RequestOps, TermsTypes DEF Requests, Terms
<1>2. claim' \in [Payments -> Claim]
  BY <1>1 DEF LedgerInv, TypeOK, RejectAdmission, Claim
<1>3. HoldClaimAgreement'
  <2>1. hold' = hold  BY DEF RejectAdmission, Reject
  <2>2. CASE claim' = claim  BY <2>1, <2>2 DEF LedgerInv, HoldClaimAgreement
  <2>3. CASE claim[p].state = "ABSENT"
    <3>1. \A q \in Payments \ {p} : claim'[q] = claim[q]
      BY <2>3 DEF RejectAdmission, LedgerInv, TypeOK
    <3>2. claim'[p].hold = NoHold
      BY <1>1, <2>3 DEF RejectAdmission, LedgerInv, TypeOK
    <3>3. \A h \in Holds : hold[h].state # "ABSENT" => hold[h].reserve.terms.payment # p
      BY <2>3 DEF LedgerInv, HoldClaimAgreement
    <3>4. \A h \in Holds : hold[h].state # "ABSENT" => hold[h].reserve.terms.payment \in Payments
      BY TermsTypes DEF LedgerInv, HoldsWellFormed, Terms
    <3> QED BY <2>1, <3>1, <3>2, <3>3, <3>4 DEF LedgerInv, HoldClaimAgreement
  <2> QED BY <2>2, <2>3 DEF RejectAdmission
<1>4. evidence' \in [EvidenceIds -> Evidence \cup {NoEvidence}]
  BY DEF LedgerInv, TypeOK, RejectAdmission
<1> QED BY <1>1, <1>2, <1>3, <1>4, RejectKeeps DEF RejectAdmission

-----------------------------------------------------------------------------
(***************************************************************************)
(* The commands preserve the invariant, one lemma each.                    *)
(***************************************************************************)
\* CreateAccount adds an account with empty totals, which are covered.
LEMMA CreateKeeps ==
  ASSUME LedgerInv, NEW r \in Creates, CreateAccount(r)
  PROVE  LedgerInv'
<1>1. r \in Requests /\ r.account \in Accounts /\ r.owner \in Owners /\ r.op \in Ops
  BY RequestAssumption, RequestOps DEF Requests, CreateRequest
<1>2. CASE Reject(r, CreateVerdict(r)) /\ UNCHANGED <<claim, evidence>>
  <2>1. HoldClaimAgreement' /\ claim' \in [Payments -> Claim]
    BY <1>2 DEF LedgerInv, HoldClaimAgreement, Reject, TypeOK
  <2>2. evidence' \in [EvidenceIds -> Evidence \cup {NoEvidence}]
    BY <1>2 DEF LedgerInv, TypeOK
  <2> QED BY <1>1, <1>2, <2>1, <2>2, RejectKeeps
<1>3. CASE /\ owner' = [owner EXCEPT ![r.account] = r.owner]
           /\ balance' = [balance EXCEPT ![r.account] = NewBalance]
           /\ control' = [k \in ControlKeys |->
                 IF /\ k \in {<<"SUBJECT", r.owner>>, <<"ACCOUNT", r.account>>}
                    /\ control[k].version = 0
                 THEN NewControl(k) ELSE control[k]]
           /\ Record(r, NoBucket)
           /\ UNCHANGED <<claim, hold, usage, journal, evidence>>
  <2>1. NewBalance \in Balance
    BY BoundsAssumption DEF NewBalance, Balance, Wides, Versions
  <2>2. \A k \in ControlKeys : NewControl(k) \in Control
    BY BoundsAssumption DEF NewControl, Control, Versions, Wides
  <2>3. receipts' \in [Ops -> Operation]
    BY <1>1, <1>3, ReceiptType DEF Record, LedgerInv
  <2>4. TypeOK'
    BY <1>1, <1>3, <2>1, <2>2, <2>3 DEF LedgerInv, TypeOK
  <2>5. NeverOverdrawn'
    <3>1. NewBalance.held = 0 /\ \A a : Posted(a, NewBalance) = 0
      BY DEF NewBalance, Posted
    <3>2. \A a \in Accounts : balance'[a] = IF a = r.account THEN NewBalance ELSE balance[a]
      BY <1>3 DEF LedgerInv, TypeOK
    <3> QED BY <3>1, <3>2 DEF LedgerInv, NeverOverdrawn, Posted
  <2>6. HoldsWellFormed' /\ HoldClaimAgreement'
    BY <1>3 DEF LedgerInv, HoldsWellFormed, HoldClaimAgreement
  <2> QED BY <2>4, <2>5, <2>6 DEF LedgerInv
<1> QED BY <1>2, <1>3 DEF CreateAccount

\* SetAccountControl writes only a control row, whose version and epoch stay in range.
LEMMA SetControlKeeps ==
  ASSUME LedgerInv, NEW r \in SetControls, SetAccountControl(r)
  PROVE  LedgerInv'
<1> DEFINE c == control[r.key]
           n == [version |-> c.version + 1,
                 epoch |-> IF r.revokeGrants THEN c.epoch + 1 ELSE c.epoch,
                 debitFrozen |-> r.debitFrozen, creditFrozen |-> r.creditFrozen,
                 dailyCap |-> r.dailyCap]
<1>1. /\ r \in Requests /\ r.op \in Ops /\ r.key \in ControlKeys
      /\ r.debitFrozen \in BOOLEAN /\ r.creditFrozen \in BOOLEAN
      /\ r.dailyCap \in Wides /\ r.revokeGrants \in BOOLEAN
  BY RequestAssumption, RequestOps DEF Requests, SetControlRequest
<1>2. CASE Reject(r, SetControlVerdict(r)) /\ UNCHANGED <<claim, evidence>>
  <2>1. HoldClaimAgreement' /\ claim' \in [Payments -> Claim]
    BY <1>2 DEF LedgerInv, HoldClaimAgreement, Reject, TypeOK
  <2>2. evidence' \in [EvidenceIds -> Evidence \cup {NoEvidence}]
    BY <1>2 DEF LedgerInv, TypeOK
  <2> QED BY <1>1, <1>2, <2>1, <2>2, RejectKeeps
<1>3. CASE /\ SetControlVerdict(r) = "APPLIED"
           /\ control' = [control EXCEPT ![r.key] = n]
           /\ Record(r, NoBucket)
           /\ UNCHANGED <<owner, claim, hold, evidence, money>>
  <2>1. c.version \in Versions /\ c.epoch \in Versions
    BY <1>1 DEF LedgerInv, TypeOK, Control
  <2>2. HasNext(c.version) /\ (r.revokeGrants => HasNext(c.epoch))
    BY <1>3 DEF SetControlVerdict
  <2>3. n.version \in Versions /\ n.epoch \in Versions
    BY <2>1, <2>2, BoundsAssumption DEF Versions, HasNext
  <2>4. n \in Control  BY <1>1, <2>3 DEF Control
  <2> HIDE DEF n
  <2>5. receipts' \in [Ops -> Operation]
    BY <1>1, <1>3, ReceiptType DEF Record, LedgerInv
  <2>6. TypeOK'
    BY <1>1, <1>3, <2>4, <2>5 DEF LedgerInv, TypeOK, money
  <2>7. NeverOverdrawn'  BY <1>3 DEF LedgerInv, NeverOverdrawn, money, Posted
  <2>8. HoldsWellFormed' /\ HoldClaimAgreement'
    BY <1>3 DEF LedgerInv, HoldsWellFormed, HoldClaimAgreement
  <2> QED BY <2>6, <2>7, <2>8 DEF LedgerInv
<1> QED BY <1>2, <1>3 DEF SetAccountControl

\* A claim written for an undecided payment keeps claims and holds in agreement,
\* when no hold is written with it.
LEMMA ClaimWithoutHold ==
  ASSUME LedgerInv, NEW p \in Payments, claim[p].state = "ABSENT",
         NEW c \in Claim, c.hold = NoHold,
         claim' = [claim EXCEPT ![p] = c], UNCHANGED hold
  PROVE  HoldClaimAgreement'
<1>1. claim'[p] = c /\ \A q \in Payments \ {p} : claim'[q] = claim[q]
  BY DEF LedgerInv, TypeOK
<1>2. \A h \in Holds : hold[h].state # "ABSENT" =>
        hold[h].reserve.terms.payment \in Payments \ {p}
  BY TermsTypes DEF LedgerInv, HoldClaimAgreement, HoldsWellFormed, Terms
<1> QED BY <1>1, <1>2 DEF LedgerInv, HoldClaimAgreement

\* The lines an internal transfer posts are journal lines with int64 amounts.
LEMMA TransferLinesType ==
  ASSUME NEW t \in Terms, t.policy \in DOMAIN Policies, ~(Total(t) > MaxAmount)
  PROVE  TransferLines(t) \in SUBSET JournalLine
<1>1. /\ t.source \in Accounts /\ t.beneficiary \in Accounts
      /\ t.principal \in Amounts /\ t.fee \in Amounts
      /\ Policies[t.policy].feeAccount \in Accounts
  BY PolicyAssumption, IdAssumption DEF Terms
<1>2. t.principal + t.fee \in Amounts
  BY <1>1, BoundsAssumption DEF Amounts, Total
<1> QED BY <1>1, <1>2 DEF TransferLines, Postings, Line, JournalLine

\* An internal transfer posts only what Totals.Post accepts and claims an undecided
\* payment without a hold.
LEMMA TransferKeeps ==
  ASSUME LedgerInv, NEW r \in Transfers, NEW now \in Times, TransferInternal(r, now)
  PROVE  LedgerInv'
<1> DEFINE t == r.terms
           lines == TransferLines(t)
           k == <<owner[t.source], Bucket(now)>>
           c == [state |-> "APPLIED", admission |-> r.op, hold |-> NoHold, result |-> r.op]
<1>1. CASE RejectAdmission(r, TransferVerdict(r, now))  BY <1>1, RejectAdmissionKeeps
<1>2. CASE /\ TransferVerdict(r, now) = "APPLIED"
           /\ journal' = [journal EXCEPT ![r.op] = lines]
           /\ balance' = PostAll(balance, lines)
           /\ usage' = [usage EXCEPT ![k] = AdmitUsage(@, t.principal, FALSE)]
           /\ claim' = [claim EXCEPT ![t.payment] = c]
           /\ Record(r, Bucket(now))
           /\ UNCHANGED <<owner, control, hold, evidence>>
  <2>1. /\ AdmitVerdict(r, now) = "APPLIED"
        /\ \A l \in lines : /\ CanPost(l.account, balance[l.account], l.side, l.amount)
                             /\ HasNext(balance[l.account].version)
    BY <1>2 DEF TransferVerdict
  <2>2. r \in Requests /\ r.op \in Ops /\ t \in Terms /\ t.payment \in Payments
    BY RequestOps, TermsTypes DEF Requests, Terms
  <2>3. lines \in SUBSET JournalLine
    BY <2>1, <2>2, AdmitFacts, TransferLinesType DEF LedgerInv
  <2>4. balance \in [Accounts -> Balance] /\ Covered(balance)
    BY DEF LedgerInv, TypeOK, NeverOverdrawn, Covered
  <2>5. /\ balance' \in [Accounts -> Balance] /\ Covered(balance')
        /\ \A a \in Accounts : balance'[a].held = balance[a].held
    <3> HIDE DEF lines
    <3> QED BY <1>2, <2>1, <2>3, <2>4, PostAllKeeps
  <2>6. usage' \in [Owners \X Buckets -> Usage]
    <3>1. k \in Owners \X Buckets
      BY <2>1, AdmitUsageType DEF LedgerInv
    <3>2. AdmitUsage(usage[k], t.principal, FALSE) \in Usage
      BY <2>1, AdmitUsageType DEF LedgerInv
    <3> QED BY <1>2, <3>1, <3>2 DEF LedgerInv, TypeOK
  <2>7. c \in Claim  BY <2>2 DEF Claim
  <2>8. receipts' \in [Ops -> Operation]
    BY <1>2, <2>2, BucketType, ReceiptType DEF Record, LedgerInv
  <2>9. TypeOK'
    <3>1. journal' \in [Ops -> SUBSET JournalLine]
      BY <1>2, <2>2, <2>3 DEF LedgerInv, TypeOK
    <3>2. claim' \in [Payments -> Claim]  BY <1>2, <2>2, <2>7 DEF LedgerInv, TypeOK
    <3> QED BY <1>2, <2>5, <2>6, <2>8, <3>1, <3>2 DEF LedgerInv, TypeOK
  <2>10. NeverOverdrawn'
    BY <2>5 DEF LedgerInv, NeverOverdrawn, Covered
  <2>11. HoldClaimAgreement'
    BY <1>2, <2>1, <2>2, <2>7, AdmitFacts, ClaimWithoutHold DEF LedgerInv
  <2>12. HoldsWellFormed'  BY <1>2 DEF LedgerInv, HoldsWellFormed
  <2> QED BY <2>9, <2>10, <2>11, <2>12 DEF LedgerInv
<1> QED BY <1>1, <1>2 DEF TransferInternal

\* A row whose hold grows by what it can still cover stays covered.
LEMMA EncumberKeeps ==
  ASSUME NEW a \in Accounts, balance[a] \in Balance, NEW amount \in Nat,
         EncumberVerdict(a, amount) = "APPLIED"
  PROVE  LET u == Touched(Reserve(balance[a], amount))
         IN  u \in Balance /\ u.held <= Posted(a, u)
<1> DEFINE t == balance[a]
           p == Reserve(t, amount)
           u == Touched(p)
<1>1. /\ ~(t.held + amount > MaxWide) /\ Solvent(a, p) /\ HasNext(t.version)
  BY DEF EncumberVerdict
<1>2. /\ t.debits \in Wides /\ t.credits \in Wides /\ t.held \in Wides
      /\ t.version \in Versions
  BY DEF Balance
<1>3. p = [debits |-> t.debits, credits |-> t.credits, held |-> t.held + amount,
           version |-> t.version]
  BY DEF Balance, Reserve
<1>4. u = [debits |-> t.debits, credits |-> t.credits, held |-> t.held + amount,
           version |-> t.version + 1]
  BY <1>3 DEF Touched
<1>5. t.held + amount \in Wides /\ t.version + 1 \in Versions
  BY <1>1, <1>2, BoundsAssumption DEF HasNext, Wides, Versions
<1>6. u \in Balance  BY <1>2, <1>4, <1>5 DEF Balance
<1>7. p.held <= Posted(a, p)
  <2>1. Posted(a, p) \in Int  BY <1>2, <1>3, BoundsAssumption DEF Posted, Wides
  <2>2. p.held \in Int  BY <1>3, <1>5, BoundsAssumption DEF Wides
  <2> QED BY <1>1, <2>1, <2>2 DEF Solvent, Available
<1>8. u.held = p.held /\ Posted(a, u) = Posted(a, p)  BY <1>3, <1>4 DEF Posted
<1> QED BY <1>6, <1>7, <1>8

\* A reservation encumbers source and pool within what they can cover and writes
\* hold and claim together.
LEMMA ReserveKeeps ==
  ASSUME LedgerInv, NEW r \in Reserves, NEW now \in Times, ReservePayout(r, now)
  PROVE  LedgerInv'
<1> DEFINE t == r.terms
           k == <<owner[t.source], Bucket(now)>>
           c == [state |-> "RESERVED", admission |-> r.op, hold |-> r.hold, result |-> r.op]
           n == [state |-> "RESERVED", version |-> 1, reserve |-> r, owner |-> owner[t.source],
                 bucket |-> Bucket(now)]
<1>1. CASE RejectAdmission(r, ReserveVerdict(r, now))  BY <1>1, RejectAdmissionKeeps
<1>2. CASE /\ ReserveVerdict(r, now) = "APPLIED"
           /\ balance' = [balance EXCEPT ![t.source] = Touched(Reserve(@, Total(t))),
                                         ![r.pool] = Touched(Reserve(@, t.principal))]
           /\ hold' = [hold EXCEPT ![r.hold] = n]
           /\ usage' = [usage EXCEPT ![k] = AdmitUsage(@, t.principal, TRUE)]
           /\ claim' = [claim EXCEPT ![t.payment] = c]
           /\ Record(r, Bucket(now))
           /\ UNCHANGED <<owner, control, journal, evidence>>
  <2>1. /\ AdmitVerdict(r, now) = "APPLIED" /\ ~HoldTaken(r)
        /\ r.pool = Policies[t.policy].pool
        /\ EncumberVerdict(t.source, Total(t)) = "APPLIED"
        /\ EncumberVerdict(r.pool, t.principal) = "APPLIED"
    BY <1>2 DEF ReserveVerdict
  <2>2. /\ r \in Requests /\ r.op \in Ops /\ r.hold \in Holds /\ t \in Terms
        /\ t.payment \in Payments /\ t.source \in Accounts
        /\ t.principal \in Nat /\ Total(t) \in Nat
    BY RequestAssumption, RequestOps, TermsTypes, BoundsAssumption
    DEF Requests, ReserveRequest, Terms, Total, Amounts
  <2>3. /\ t.source \notin Pools \cup FeeAccounts /\ t.policy \in DOMAIN Policies
        /\ claim[t.payment].state = "ABSENT" /\ Exists(t.source)
    BY <2>1, AdmitFacts DEF LedgerInv
  <2>4. r.pool \in Pools /\ r.pool \in Accounts
    BY <2>1, <2>3, PolicyAssumption, IdAssumption
  <2>5. hold[r.hold].state = "ABSENT"  BY <2>1, <2>2 DEF HoldTaken
  <2>6. balance \in [Accounts -> Balance]  BY DEF LedgerInv, TypeOK
  <2>7. \A a \in Accounts :
          balance'[a] = IF a = t.source THEN Touched(Reserve(balance[a], Total(t)))
                        ELSE IF a = r.pool THEN Touched(Reserve(balance[a], t.principal))
                        ELSE balance[a]
    BY <1>2, <2>2, <2>3, <2>4, <2>6
  <2>8. balance' \in [Accounts -> Balance] /\ NeverOverdrawn'
    <3>1. ASSUME NEW a \in Accounts
          PROVE  /\ balance'[a] \in Balance /\ balance'[a].held <= Posted(a, balance'[a])
                 /\ a \in FeeAccounts => balance'[a].held = 0
      <4>1. CASE a = t.source
        BY <2>1, <2>2, <2>3, <2>6, <2>7, <4>1, EncumberKeeps
      <4>2. CASE a = r.pool
        BY <2>1, <2>2, <2>3, <2>4, <2>6, <2>7, <4>2, EncumberKeeps, IdAssumption
      <4>3. CASE a # t.source /\ a # r.pool
        BY <2>6, <2>7, <4>3 DEF LedgerInv, NeverOverdrawn
      <4> QED BY <4>1, <4>2, <4>3
    <3>2. balance' = [a \in Accounts |-> balance'[a]]  BY <1>2, <2>6
    <3>3. balance' \in [Accounts -> Balance]  BY <3>1, <3>2
    <3> QED BY <3>1, <3>3 DEF NeverOverdrawn
  <2>9. usage' \in [Owners \X Buckets -> Usage] /\ k \in Owners \X Buckets
    <3>1. k \in Owners \X Buckets
      BY <2>1, AdmitUsageType DEF LedgerInv
    <3>2. AdmitUsage(usage[k], t.principal, TRUE) \in Usage
      BY <2>1, AdmitUsageType DEF LedgerInv
    <3> QED BY <1>2, <3>1, <3>2 DEF LedgerInv, TypeOK
  <2>10. c \in Claim  BY <2>2 DEF Claim, HoldStates
  <2>11. n \in Hold /\ owner[t.source] \in Owners /\ Bucket(now) \in Buckets
    <3>1. owner[t.source] \in Owners /\ Bucket(now) \in Buckets  BY <2>9
    <3>2. 1 \in Versions  BY BoundsAssumption DEF Versions
    <3> QED BY <3>1, <3>2 DEF Hold, HoldStates
  <2>12. TypeOK'
    <3>1. receipts' \in [Ops -> Operation]
      BY <1>2, <2>2, BucketType, ReceiptType DEF Record, LedgerInv
    <3>2. claim' \in [Payments -> Claim]  BY <1>2, <2>2, <2>10 DEF LedgerInv, TypeOK
    <3>3. hold' \in [Holds -> Hold]  BY <1>2, <2>2, <2>11 DEF LedgerInv, TypeOK
    <3> QED BY <1>2, <2>8, <2>9, <3>1, <3>2, <3>3 DEF LedgerInv, TypeOK
  <2>13. hold'[r.hold] = n /\ \A h \in Holds \ {r.hold} : hold'[h] = hold[h]
    BY <1>2, <2>2 DEF LedgerInv, TypeOK
  <2>14. claim'[t.payment] = c /\ \A q \in Payments \ {t.payment} : claim'[q] = claim[q]
    BY <1>2, <2>2 DEF LedgerInv, TypeOK
  <2>15. HoldsWellFormed'
    BY <2>3, <2>4, <2>11, <2>13 DEF LedgerInv, HoldsWellFormed
  <2>16. HoldClaimAgreement'
    <3>1. \A h \in Holds : hold[h].state # "ABSENT" =>
            hold[h].reserve.terms.payment \in Payments \ {t.payment}
      BY <2>3, TermsTypes DEF LedgerInv, HoldClaimAgreement, HoldsWellFormed, Terms
    <3>2. \A q \in Payments : claim[q].hold # r.hold
      BY <2>2, <2>5, IdAssumption DEF LedgerInv, HoldClaimAgreement
    <3>3. \A q \in Payments : claim[q].hold \in Holds \cup {NoHold}
      BY DEF LedgerInv, TypeOK, Claim
    <3> QED BY <2>2, <2>13, <2>14, <3>1, <3>2, <3>3 DEF LedgerInv, HoldClaimAgreement
  <2> QED BY <2>8, <2>12, <2>15, <2>16 DEF LedgerInv
<1> QED BY <1>1, <1>2 DEF ReservePayout

\* A moved hold keeps its terms, owner and day and takes the next version.
LEMMA MoveToIs ==
  ASSUME NEW x \in Hold, NEW state \in HoldStates
  PROVE  MoveTo(x, state) = [state |-> state, version |-> x.version + 1, reserve |-> x.reserve,
                             owner |-> x.owner, bucket |-> x.bucket]
<1> DEFINE y == [x EXCEPT !.state = state]
<1>1. /\ y \in Hold
      /\ y.state = state /\ y.version = x.version /\ y.reserve = x.reserve
      /\ y.owner = x.owner /\ y.bucket = x.bucket
  BY DEF Hold
<1>2. MoveTo(x, state) = Touched(y)  BY DEF MoveTo
<1> HIDE DEF y
<1>3. Touched(y) = [state |-> y.state, version |-> y.version + 1, reserve |-> y.reserve,
                    owner |-> y.owner, bucket |-> y.bucket]
  BY <1>1 DEF Touched, Hold
<1> QED BY <1>1, <1>2, <1>3

\* A settled claim keeps its hold and takes the hold's new state.
LEMMA SettleClaimIs ==
  ASSUME NEW c \in Claim, NEW state \in HoldStates, NEW op \in Ops
  PROVE  /\ SettleClaim(c, state, op) \in Claim
         /\ SettleClaim(c, state, op).state = state
         /\ SettleClaim(c, state, op).hold = c.hold
BY DEF SettleClaim, Claim

\* resolve moves a hold and its claim together, so they keep agreeing.
LEMMA MoveHoldKeeps ==
  ASSUME LedgerInv, NEW r \in Exposes \cup Captures \cup Releases,
         NEW state \in {"EXPOSED", "CAPTURED", "RELEASED"},
         RefVerdict(r) = "APPLIED", HasNext(hold[r.ref.hold].version), MoveHold(r, state)
  PROVE  /\ hold' \in [Holds -> Hold] /\ claim' \in [Payments -> Claim]
         /\ HoldsWellFormed' /\ HoldClaimAgreement'
<1> DEFINE h == r.ref.hold
           p == r.ref.payment
           x == hold[h]
<1>1. h \in Holds /\ p \in Payments /\ r.op \in Ops
  BY RefTypes, RequestOps DEF Requests
<1>2. /\ x.state # "ABSENT" /\ p = x.reserve.terms.payment
      /\ claim[p].state # "ABSENT" /\ claim[p].hold = h
  BY DEF RefVerdict
<1>3. hold \in [Holds -> Hold] /\ claim \in [Payments -> Claim]  BY DEF LedgerInv, TypeOK
<1>4. x \in Hold /\ x.version \in Versions  BY <1>1, <1>3 DEF Hold
<1>5. x.version + 1 \in Versions  BY <1>4, BoundsAssumption DEF HasNext, Versions
<1>6. state \in HoldStates  BY DEF HoldStates
<1>7. MoveTo(x, state) = [state |-> state, version |-> x.version + 1, reserve |-> x.reserve,
                          owner |-> x.owner, bucket |-> x.bucket]
  BY <1>4, <1>6, MoveToIs
<1>8. MoveTo(x, state) \in Hold  BY <1>4, <1>5, <1>7 DEF Hold, HoldStates
<1>9. /\ SettleClaim(claim[p], state, r.op) \in Claim
      /\ SettleClaim(claim[p], state, r.op).state = state
      /\ SettleClaim(claim[p], state, r.op).hold = h
  BY <1>1, <1>2, <1>3, <1>6, SettleClaimIs
<1>10. /\ hold' = [hold EXCEPT ![h] = MoveTo(x, state)]
       /\ claim' = [claim EXCEPT ![p] = SettleClaim(claim[p], state, r.op)]
  BY <1>1, <1>3 DEF MoveHold
<1>11. hold' \in [Holds -> Hold] /\ claim' \in [Payments -> Claim]
  BY <1>3, <1>8, <1>9, <1>10
<1>12. /\ \A i \in Holds \ {h} : hold'[i] = hold[i]
       /\ hold'[h].state = state /\ hold'[h].reserve = x.reserve
       /\ hold'[h].owner = x.owner /\ hold'[h].bucket = x.bucket
  BY <1>1, <1>3, <1>7, <1>10
<1>13. /\ \A q \in Payments \ {p} : claim'[q] = claim[q]
       /\ claim'[p].hold = h /\ claim'[p].state = state
  BY <1>1, <1>3, <1>9, <1>10
<1>14. HoldsWellFormed'
  BY <1>1, <1>2, <1>12 DEF LedgerInv, HoldsWellFormed
<1>15. HoldClaimAgreement'
  <2>1. \A i \in Holds \ {h} : hold[i].state # "ABSENT" =>
          hold[i].reserve.terms.payment \in Payments \ {p}
    BY <1>2, TermsTypes DEF LedgerInv, HoldClaimAgreement, HoldsWellFormed, Terms
  <2>2. \A i \in Holds : hold'[i].state # "ABSENT" =>
          LET q == hold'[i].reserve.terms.payment
          IN  claim'[q].hold = i /\ claim'[q].state = hold'[i].state
    <3> SUFFICES ASSUME NEW i \in Holds, hold'[i].state # "ABSENT"
                 PROVE  /\ claim'[hold'[i].reserve.terms.payment].hold = i
                        /\ claim'[hold'[i].reserve.terms.payment].state = hold'[i].state
      OBVIOUS
    <3>1. CASE i = h
      <4>1. hold'[i].reserve.terms.payment = p  BY <1>2, <1>12, <3>1
      <4> QED BY <1>12, <1>13, <3>1, <4>1
    <3>2. CASE i # h
      <4>1. hold'[i] = hold[i]  BY <1>12, <3>2
      <4>2. claim'[hold[i].reserve.terms.payment] = claim[hold[i].reserve.terms.payment]
        BY <1>13, <2>1, <3>2, <4>1
      <4> QED BY <4>1, <4>2 DEF LedgerInv, HoldClaimAgreement
    <3> QED BY <3>1, <3>2
  <2>3. \A q \in Payments : claim'[q].hold # NoHold =>
          /\ hold'[claim'[q].hold].state # "ABSENT"
          /\ hold'[claim'[q].hold].reserve.terms.payment = q
    <3>1. \A q \in Payments : claim[q].hold \in Holds \cup {NoHold}  BY <1>3 DEF Claim
    <3>2. state # "ABSENT"  OBVIOUS
    <3> SUFFICES ASSUME NEW q \in Payments, claim'[q].hold # NoHold
                 PROVE  /\ hold'[claim'[q].hold].state # "ABSENT"
                        /\ hold'[claim'[q].hold].reserve.terms.payment = q
      OBVIOUS
    <3>3. CASE q = p
      BY <1>2, <1>12, <1>13, <3>2, <3>3
    <3>4. CASE q # p
      <4>1. claim'[q] = claim[q]  BY <1>13, <3>4
      <4>2. /\ hold[claim[q].hold].state # "ABSENT"
            /\ hold[claim[q].hold].reserve.terms.payment = q
        BY <4>1 DEF LedgerInv, HoldClaimAgreement
      <4>3. claim[q].hold \in Holds \ {h}  BY <1>2, <3>1, <3>4, <4>1, <4>2
      <4> QED BY <1>12, <4>1, <4>2, <4>3
    <3> QED BY <3>3, <3>4
  <2> QED BY <2>2, <2>3 DEF HoldClaimAgreement
<1> QED BY <1>11, <1>14, <1>15

\* Exposing a hold moves no money.
LEMMA ExposeKeeps ==
  ASSUME LedgerInv, NEW r \in Exposes, NEW now \in Times, NEW known \in BOOLEAN,
         MarkHoldExposed(r, now, known)
  PROVE  LedgerInv'
<1>1. r \in Requests  BY DEF Requests
<1>2. CASE Reject(r, ExposeVerdict(r, now, known)) /\ UNCHANGED <<claim, evidence>>
  <2>1. HoldClaimAgreement' /\ claim' \in [Payments -> Claim]
    BY <1>2 DEF LedgerInv, HoldClaimAgreement, Reject, TypeOK
  <2>2. evidence' \in [EvidenceIds -> Evidence \cup {NoEvidence}]
    BY <1>2 DEF LedgerInv, TypeOK
  <2> QED BY <1>1, <1>2, <2>1, <2>2, RejectKeeps
<1>3. CASE /\ ExposeVerdict(r, now, known) = "APPLIED"
           /\ MoveHold(r, "EXPOSED")
           /\ Record(r, NoBucket)
           /\ UNCHANGED <<owner, control, evidence, money>>
  <2>1. RefVerdict(r) = "APPLIED" /\ HasNext(hold[r.ref.hold].version)
    BY <1>3 DEF ExposeVerdict
  <2>2. /\ hold' \in [Holds -> Hold] /\ claim' \in [Payments -> Claim]
        /\ HoldsWellFormed' /\ HoldClaimAgreement'
    BY <1>3, <2>1, MoveHoldKeeps
  <2>3. receipts' \in [Ops -> Operation]
    BY <1>1, <1>3, ReceiptType DEF Record, LedgerInv
  <2>4. TypeOK'  BY <1>3, <2>2, <2>3 DEF LedgerInv, TypeOK, money
  <2>5. NeverOverdrawn'  BY <1>3 DEF LedgerInv, NeverOverdrawn, money, Posted
  <2> QED BY <2>2, <2>4, <2>5 DEF LedgerInv
<1> QED BY <1>2, <1>3 DEF MarkHoldExposed

\* Totals.Release leaves a row in range and covered.
LEMMA UnreserveKeeps ==
  ASSUME NEW a \in Accounts, NEW t \in Balance, t.held <= Posted(a, t),
         NEW amount \in Nat, ~(t.held < amount)
  PROVE  LET u == Unreserve(t, amount)
         IN  /\ u \in Balance /\ u.version = t.version
             /\ u.held <= Posted(a, u) /\ Posted(a, u) = Posted(a, t)
<1> DEFINE u == Unreserve(t, amount)
<1>1. /\ t.debits \in Wides /\ t.credits \in Wides /\ t.held \in Wides
      /\ t.version \in Versions
  BY DEF Balance
<1>2. u = [debits |-> t.debits, credits |-> t.credits, held |-> t.held - amount,
           version |-> t.version]
  BY DEF Balance, Unreserve
<1>3. t.held - amount \in Wides  BY <1>1, BoundsAssumption DEF Wides
<1>4. u \in Balance  BY <1>1, <1>2, <1>3 DEF Balance
<1>5. Posted(a, u) = Posted(a, t) /\ Posted(a, t) \in Int
  BY <1>1, <1>2, BoundsAssumption DEF Posted, Wides
<1>6. u.held <= t.held /\ u.held \in Int /\ t.held \in Int /\ u.version = t.version
  BY <1>1, <1>2, <1>3, BoundsAssumption DEF Wides
<1> QED BY <1>4, <1>5, <1>6

\* NextVersion alone changes nothing that matters.
LEMMA TouchedKeeps ==
  ASSUME NEW a \in Accounts, NEW t \in Balance, t.held <= Posted(a, t), HasNext(t.version)
  PROVE  /\ Touched(t) \in Balance /\ Touched(t).held = t.held
         /\ Touched(t).held <= Posted(a, Touched(t))
<1>1. t.version + 1 \in Versions
  BY BoundsAssumption DEF Balance, Versions, HasNext
<1>2. Touched(t) = [debits |-> t.debits, credits |-> t.credits, held |-> t.held,
                    version |-> t.version + 1]
  BY DEF Touched, Balance
<1>3. Touched(t) \in Balance  BY <1>1, <1>2 DEF Balance
<1> QED BY <1>2, <1>3 DEF Posted

\* What a recorded hold says of itself.
LEMMA HoldFacts ==
  ASSUME LedgerInv, NEW h \in Holds, hold[h].state # "ABSENT"
  PROVE  LET r == hold[h].reserve
         IN  /\ r \in Reserves /\ r.terms \in Terms
             /\ r.terms.source \in Accounts \ (Pools \cup FeeAccounts)
             /\ r.pool \in Pools /\ r.pool \in Accounts \ FeeAccounts
             /\ r.pool # r.terms.source
             /\ HoldFeeAccount(h) \in Accounts
             /\ r.terms.principal \in Nat /\ r.terms.fee \in Nat /\ HoldTotal(h) \in Nat
             /\ <<hold[h].owner, hold[h].bucket>> \in Owners \X Buckets
             /\ hold[h].bucket \in Buckets
<1> DEFINE r == hold[h].reserve
<1>1. /\ r \in Reserves /\ r.terms.source \notin Pools \cup FeeAccounts
      /\ r.pool \in Pools /\ r.terms.policy \in DOMAIN Policies
      /\ hold[h].owner \in Owners /\ hold[h].bucket \in Buckets
  BY DEF LedgerInv, HoldsWellFormed
<1>2. r.terms \in Terms /\ r.pool \in Accounts
  BY <1>1, TermsTypes, IdAssumption
<1>3. r.terms.source \in Accounts /\ r.terms.principal \in Nat /\ r.terms.fee \in Nat
  BY <1>2, BoundsAssumption DEF Terms, Amounts
<1>4. HoldTotal(h) \in Nat  BY <1>3 DEF HoldTotal, Total
<1>5. HoldFeeAccount(h) \in Accounts
  BY <1>1, PolicyAssumption, IdAssumption DEF HoldFeeAccount
<1> QED BY <1>1, <1>2, <1>3, <1>4, <1>5, IdAssumption

\* Lifting a hold's encumbrance from its two balances, when they carry it.
LEMMA UnencumberedKeeps ==
  ASSUME LedgerInv, NEW h \in Holds, hold[h].state # "ABSENT", NEW capture \in BOOLEAN,
         ~ResolveFaults(h, capture)
  PROVE  LET b == Unencumbered(h)
         IN  /\ b \in [Accounts -> Balance] /\ Covered(b)
             /\ \A a \in Accounts : b[a].version = balance[a].version
             /\ \A a \in FeeAccounts : b[a].held = 0
<1> DEFINE r == hold[h].reserve
           src == r.terms.source
           b == Unencumbered(h)
<1>1. /\ src \in Accounts \ (Pools \cup FeeAccounts) /\ r.pool \in Accounts \ FeeAccounts
      /\ r.pool # src /\ r.terms.principal \in Nat /\ HoldTotal(h) \in Nat
  BY HoldFacts
<1>2. /\ ~(balance[src].held < HoldTotal(h)) /\ ~(balance[r.pool].held < r.terms.principal)
  BY DEF ResolveFaults
<1>3. /\ balance \in [Accounts -> Balance]
      /\ \A a \in Accounts : balance[a].held <= Posted(a, balance[a])
      /\ \A a \in Accounts : a \in FeeAccounts => balance[a].held = 0
  BY DEF LedgerInv, TypeOK, NeverOverdrawn
<1>4. \A a \in Accounts :
        b[a] = IF a = src THEN Unreserve(balance[a], HoldTotal(h))
               ELSE IF a = r.pool THEN Unreserve(balance[a], r.terms.principal)
               ELSE balance[a]
  BY <1>1, <1>3 DEF Unencumbered, HoldTotal
<1>5. b = [a \in Accounts |-> b[a]]  BY <1>3 DEF Unencumbered
<1> HIDE DEF b
<1>6. ASSUME NEW a \in Accounts
      PROVE  /\ b[a] \in Balance /\ b[a].version = balance[a].version
             /\ b[a].held <= Posted(a, b[a])
  <2>1. CASE a = src  BY <1>1, <1>2, <1>3, <1>4, <2>1, UnreserveKeeps
  <2>2. CASE a = r.pool  BY <1>1, <1>2, <1>3, <1>4, <2>2, UnreserveKeeps
  <2>3. CASE a # src /\ a # r.pool  BY <1>3, <1>4, <2>3
  <2> QED BY <2>1, <2>2, <2>3
<1>7. \A a \in FeeAccounts : b[a].held = 0  BY <1>1, <1>3, <1>4, IdAssumption
<1>8. b \in [Accounts -> Balance] /\ Covered(b)  BY <1>5, <1>6 DEF Covered
<1> QED BY <1>6, <1>7, <1>8 DEF b

\* The limit row a resolution writes is in range.
LEMMA SettleUsageKeeps ==
  ASSUME LedgerInv, NEW h \in Holds, hold[h].state # "ABSENT", NEW capture \in BOOLEAN,
         ~ResolveFaults(h, capture), SettleUsage(h, capture)
  PROVE  usage' \in [Owners \X Buckets -> Usage]
<1> DEFINE k == <<hold[h].owner, hold[h].bucket>>
           u == usage[k]
           p == hold[h].reserve.terms.principal
<1>1. k \in Owners \X Buckets /\ p \in Nat  BY HoldFacts
<1>2. u \in Usage /\ usage \in [Owners \X Buckets -> Usage]
  BY <1>1 DEF LedgerInv, TypeOK
<1>3. HasNext(u.version) /\ ~(u.reserved < p) /\ (capture => ~(u.consumed + p > MaxWide))
  BY DEF ResolveFaults
<1>4. usage' = [usage EXCEPT ![k] = ResolveUsage(u, p, capture)]
  BY <1>1, <1>2 DEF SettleUsage
<1> HIDE DEF u, p, k
<1>5. u.version \in Versions /\ u.reserved \in Wides /\ u.consumed \in Wides
  BY <1>2 DEF Usage
<1>6. u.version + 1 \in Versions  BY <1>3, <1>5, BoundsAssumption DEF HasNext, Versions
<1>7. u.reserved - p \in Wides /\ (capture => u.consumed + p \in Wides)
  BY <1>1, <1>3, <1>5, BoundsAssumption DEF Wides
<1>8. /\ capture => /\ [u EXCEPT !.reserved = @ - p, !.consumed = @ + p] \in Usage
                    /\ [u EXCEPT !.reserved = @ - p, !.consumed = @ + p].version = u.version
      /\ [u EXCEPT !.reserved = @ - p] \in Usage
      /\ [u EXCEPT !.reserved = @ - p].version = u.version
  BY <1>2, <1>7 DEF Usage
<1>9. \A v \in Usage : v.version = u.version => Touched(v) \in Usage
  BY <1>6 DEF Touched, Usage
<1>10. ResolveUsage(u, p, capture) \in Usage  BY <1>8, <1>9 DEF ResolveUsage
<1> QED BY <1>1, <1>2, <1>4, <1>10

\* The lines a capture posts are journal lines with int64 amounts.
LEMMA HoldLinesType ==
  ASSUME LedgerInv, NEW h \in Holds, hold[h].state # "ABSENT", ~(HoldTotal(h) > MaxAmount)
  PROVE  HoldLines(h) \in SUBSET JournalLine
<1> DEFINE t == hold[h].reserve.terms
<1>1. /\ t.source \in Accounts /\ hold[h].reserve.pool \in Accounts
      /\ HoldFeeAccount(h) \in Accounts /\ t \in Terms /\ HoldTotal(h) \in Nat
  BY HoldFacts
<1>2. t.principal \in Amounts /\ t.fee \in Amounts  BY <1>1 DEF Terms
<1>3. t.principal + t.fee \in Amounts
  BY <1>1, BoundsAssumption DEF Amounts, HoldTotal, Total
<1> QED BY <1>1, <1>2, <1>3 DEF HoldLines, Postings, Line, JournalLine

\* Recorded evidence is a row of resolution_evidence.
LEMMA KeepEvidenceKeeps ==
  ASSUME TypeOK, NEW e \in Evidence, NEW v, KeepEvidence(e, v)
  PROVE  evidence' \in [EvidenceIds -> Evidence \cup {NoEvidence}]
<1>1. e.id \in EvidenceIds  BY DEF Evidence
<1> QED BY <1>1 DEF TypeOK, KeepEvidence

\* A capture lifts the encumbrance of its hold and then posts what it covered.
LEMMA CaptureKeeps ==
  ASSUME LedgerInv, NEW r \in Captures, NEW now \in Times, CapturePayout(r, now)
  PROVE  LedgerInv'
<1> DEFINE h == r.ref.hold
           b == Unencumbered(h)
           lines == HoldLines(h)
<1>1. r \in Requests /\ r.op \in Ops /\ h \in Holds /\ r.evidence \in Evidence
  BY RequestAssumption, RequestOps, RefTypes DEF Requests, CaptureRequest
<1>2. evidence' \in [EvidenceIds -> Evidence \cup {NoEvidence}]
  BY <1>1, KeepEvidenceKeeps DEF LedgerInv, CapturePayout
<1>3. CASE Reject(r, CaptureVerdict(r, now)) /\ UNCHANGED claim
  <2>1. HoldClaimAgreement' /\ claim' \in [Payments -> Claim]
    BY <1>3 DEF LedgerInv, HoldClaimAgreement, Reject, TypeOK
  <2> QED BY <1>1, <1>2, <1>3, <2>1, RejectKeeps
<1>4. CASE /\ CaptureVerdict(r, now) = "APPLIED"
           /\ MoveHold(r, "CAPTURED")
           /\ journal' = [journal EXCEPT ![r.op] = lines]
           /\ balance' = PostAll(b, lines)
           /\ SettleUsage(h, TRUE)
           /\ Record(r, hold[h].bucket)
           /\ UNCHANGED <<owner, control>>
  <2>1. /\ RefVerdict(r) = "APPLIED" /\ HasNext(hold[h].version)
        /\ ~ResolveFaults(h, TRUE)
    BY <1>4 DEF CaptureVerdict
  <2>2. hold[h].state # "ABSENT"  BY <2>1 DEF RefVerdict
  <2>3. /\ hold' \in [Holds -> Hold] /\ claim' \in [Payments -> Claim]
        /\ HoldsWellFormed' /\ HoldClaimAgreement'
    BY <1>4, <2>1, MoveHoldKeeps
  <2>4. usage' \in [Owners \X Buckets -> Usage]
    BY <1>1, <1>4, <2>1, <2>2, SettleUsageKeeps
  <2>5. hold[h].bucket \in Buckets  BY <1>1, <2>2, HoldFacts
  <2>6. receipts' \in [Ops -> Operation]
    BY <1>1, <1>4, <2>5, ReceiptType DEF Record, LedgerInv
  <2>7. lines \in SUBSET JournalLine
    BY <1>1, <2>1, <2>2, HoldLinesType DEF ResolveFaults
  <2>8. /\ b \in [Accounts -> Balance] /\ Covered(b)
        /\ \A a \in Accounts : b[a].version = balance[a].version
        /\ \A a \in FeeAccounts : b[a].held = 0
    BY <1>1, <2>1, <2>2, UnencumberedKeeps
  <2>9. \A l \in lines : /\ CanPost(l.account, b[l.account], l.side, l.amount)
                         /\ HasNext(b[l.account].version)
    <3>1. \A l \in lines : CanPost(l.account, b[l.account], l.side, l.amount)
      BY <2>1 DEF ResolveFaults
    <3>2. ASSUME NEW l \in lines PROVE HasNext(balance[l.account].version)
      <4> DEFINE q == hold[h].reserve
      <4>1. q.terms.fee \in Nat  BY <1>1, <2>2, HoldFacts
      <4>2. \/ l.account = q.terms.source \/ l.account = q.pool
            \/ q.terms.fee > 0 /\ l.account = HoldFeeAccount(h)
        BY <3>2, <4>1 DEF HoldLines, Postings, Line
      <4> QED BY <2>1, <4>2 DEF ResolveFaults
    <3>3. \A l \in lines : l.account \in Accounts  BY <2>7 DEF JournalLine
    <3> QED BY <2>8, <3>1, <3>2, <3>3
  <2>10. /\ balance' \in [Accounts -> Balance] /\ Covered(balance')
         /\ \A a \in Accounts : balance'[a].held = b[a].held
    <3> HIDE DEF lines, b
    <3> QED BY <1>4, <2>7, <2>8, <2>9, PostAllKeeps
  <2>11. NeverOverdrawn'
    BY <2>8, <2>10 DEF NeverOverdrawn, Covered
  <2>12. journal' \in [Ops -> SUBSET JournalLine]
    BY <1>1, <1>4, <2>7 DEF LedgerInv, TypeOK
  <2>13. TypeOK'
    BY <1>2, <1>4, <2>3, <2>4, <2>6, <2>10, <2>12 DEF LedgerInv, TypeOK
  <2> QED BY <2>3, <2>11, <2>13 DEF LedgerInv
<1> QED BY <1>3, <1>4 DEF CapturePayout

\* A release lifts the encumbrance of its hold and posts nothing.
LEMMA ReleaseKeeps ==
  ASSUME LedgerInv, NEW r \in Releases, NEW now \in Times, ReleasePayout(r, now)
  PROVE  LedgerInv'
<1> DEFINE h == r.ref.hold
           b == Unencumbered(h)
           both == {hold[h].reserve.terms.source, hold[h].reserve.pool}
<1>1. r \in Requests /\ r.op \in Ops /\ h \in Holds /\ r.evidence \in Evidence \cup {NoEvidence}
  BY RequestAssumption, RequestOps, RefTypes DEF Requests, ReleaseRequest
<1>2. evidence' \in [EvidenceIds -> Evidence \cup {NoEvidence}]
  <2>1. CASE r.evidence = NoEvidence
    BY <2>1 DEF LedgerInv, TypeOK, ReleasePayout
  <2>2. CASE r.evidence # NoEvidence
    BY <1>1, <2>2, KeepEvidenceKeeps DEF LedgerInv, ReleasePayout
  <2> QED BY <2>1, <2>2
<1>3. CASE Reject(r, ReleaseVerdict(r, now)) /\ UNCHANGED claim
  <2>1. HoldClaimAgreement' /\ claim' \in [Payments -> Claim]
    BY <1>3 DEF LedgerInv, HoldClaimAgreement, Reject, TypeOK
  <2> QED BY <1>1, <1>2, <1>3, <2>1, RejectKeeps
<1>4. CASE /\ ReleaseVerdict(r, now) = "APPLIED"
           /\ MoveHold(r, "RELEASED")
           /\ balance' = [a \in Accounts |->
                 IF a \in both THEN Touched(b[a]) ELSE balance[a]]
           /\ SettleUsage(h, FALSE)
           /\ Record(r, hold[h].bucket)
           /\ UNCHANGED <<owner, control, journal>>
  <2>1. /\ RefVerdict(r) = "APPLIED" /\ HasNext(hold[h].version)
        /\ ~ResolveFaults(h, FALSE)
    BY <1>4 DEF ReleaseVerdict
  <2>2. hold[h].state # "ABSENT"  BY <2>1 DEF RefVerdict
  <2>3. /\ hold' \in [Holds -> Hold] /\ claim' \in [Payments -> Claim]
        /\ HoldsWellFormed' /\ HoldClaimAgreement'
    BY <1>4, <2>1, MoveHoldKeeps
  <2>4. usage' \in [Owners \X Buckets -> Usage]
    BY <1>1, <1>4, <2>1, <2>2, SettleUsageKeeps
  <2>5. hold[h].bucket \in Buckets  BY <1>1, <2>2, HoldFacts
  <2>6. receipts' \in [Ops -> Operation]
    BY <1>1, <1>4, <2>5, ReceiptType DEF Record, LedgerInv
  <2>7. /\ b \in [Accounts -> Balance] /\ Covered(b)
        /\ \A a \in Accounts : b[a].version = balance[a].version
        /\ \A a \in FeeAccounts : b[a].held = 0
    BY <1>1, <2>1, <2>2, UnencumberedKeeps
  <2>8. \A a \in both : HasNext(balance[a].version)  BY <2>1 DEF ResolveFaults
  <2> HIDE DEF both, b
  <2>9. ASSUME NEW a \in Accounts
        PROVE  /\ balance'[a] \in Balance /\ balance'[a].held <= Posted(a, balance'[a])
               /\ a \in FeeAccounts => balance'[a].held = 0
    <3>1. CASE a \in both
      <4>1. balance'[a] = Touched(b[a])  BY <1>4, <2>9, <3>1
      <4>2. b[a] \in Balance /\ b[a].held <= Posted(a, b[a]) /\ HasNext(b[a].version)
        BY <2>7, <2>8, <2>9, <3>1 DEF Covered
      <4> QED BY <2>7, <2>9, <4>1, <4>2, TouchedKeeps
    <3>2. CASE a \notin both
      <4>1. balance'[a] = balance[a]  BY <1>4, <2>9, <3>2
      <4> QED BY <2>9, <4>1 DEF LedgerInv, TypeOK, NeverOverdrawn
    <3> QED BY <3>1, <3>2
  <2>10. balance' = [a \in Accounts |-> balance'[a]]  BY <1>4
  <2>11. balance' \in [Accounts -> Balance]  BY <2>9, <2>10
  <2>12. NeverOverdrawn'  BY <2>9 DEF NeverOverdrawn
  <2>13. TypeOK'
    BY <1>2, <1>4, <2>3, <2>4, <2>6, <2>11 DEF LedgerInv, TypeOK
  <2> QED BY <2>3, <2>12, <2>13 DEF LedgerInv
<1> QED BY <1>3, <1>4 DEF ReleasePayout

\* Every committed command, and every step that commits nothing, keeps the invariant.
LEMMA NextKeeps == LedgerInv /\ [Next]_vars => LedgerInv'
<1> SUFFICES ASSUME LedgerInv, [Next]_vars PROVE LedgerInv'  OBVIOUS
<1>1. CASE \E r \in Creates : CreateAccount(r)  BY <1>1, CreateKeeps
<1>2. CASE \E r \in SetControls : SetAccountControl(r)  BY <1>2, SetControlKeeps
<1>3. CASE \E r \in Transfers, now \in Times : TransferInternal(r, now)
  BY <1>3, TransferKeeps
<1>4. CASE \E r \in Reserves, now \in Times : ReservePayout(r, now)
  BY <1>4, ReserveKeeps
<1>5. CASE \E r \in Exposes, now \in Times, known \in BOOLEAN : MarkHoldExposed(r, now, known)
  BY <1>5, ExposeKeeps
<1>6. CASE \E r \in Captures, now \in Times : CapturePayout(r, now)
  BY <1>6, CaptureKeeps
<1>7. CASE \E r \in Releases, now \in Times : ReleasePayout(r, now)
  BY <1>7, ReleaseKeeps
<1>8. CASE UNCHANGED vars
  BY <1>8 DEF LedgerInv, TypeOK, NeverOverdrawn, HoldsWellFormed, HoldClaimAgreement, vars,
              Posted
<1> QED BY <1>1, <1>2, <1>3, <1>4, <1>5, <1>6, <1>7, <1>8 DEF Next

-----------------------------------------------------------------------------
(***************************************************************************)
(* Theorems.                                                               *)
(***************************************************************************)

\* The inductive invariant holds of every reachable book.
THEOREM LedgerInvariant == Spec => []LedgerInv
BY InitInv, NextKeeps, PTL DEF Spec

\* Every row stays within its columns: no total passes MaxWide, no version
\* MaxVersion, whatever the commands and however they are ordered.
THEOREM LedgerTypeOK == Spec => []TypeOK
<1>1. LedgerInv => TypeOK  BY DEF LedgerInv
<1> QED BY <1>1, LedgerInvariant, PTL

\* No account is ever overdrawn and no hold is uncovered, so the CHECKs of
\* account_balances never fire on a plan the evaluation accepted.
THEOREM AccountsNeverOverdrawn == Spec => []NeverOverdrawn
<1>1. LedgerInv => NeverOverdrawn  BY DEF LedgerInv
<1> QED BY <1>1, LedgerInvariant, PTL

\* A payment's claim and its hold always agree.
THEOREM HoldsAndClaimsAgree == Spec => []HoldClaimAgreement
<1>1. LedgerInv => HoldClaimAgreement  BY DEF LedgerInv
<1> QED BY <1>1, LedgerInvariant, PTL

-----------------------------------------------------------------------------
(***************************************************************************)
(* What a command writes, row by row.                                      *)
(***************************************************************************)
\* The kinds of requests do not overlap.
LEMMA KindsDiffer ==
  /\ \A r \in Creates : r.kind = "CREATE_ACCOUNT"
  /\ \A r \in SetControls : r.kind = "SET_ACCOUNT_CONTROL"
  /\ \A r \in Transfers : r.kind = "TRANSFER_INTERNAL"
  /\ \A r \in Reserves : r.kind = "RESERVE_PAYOUT"
  /\ \A r \in Exposes : r.kind = "MARK_HOLD_EXPOSED"
  /\ \A r \in Captures : r.kind = "CAPTURE_PAYOUT"
  /\ \A r \in Releases : r.kind = "RELEASE_PAYOUT"
BY RequestAssumption
DEF CreateRequest, SetControlRequest, TransferRequest, ReserveRequest, ExposeRequest,
    CaptureRequest, ReleaseRequest

\* An applied command writes its own receipt, with the request and no other.
LEMMA RecordEffect ==
  ASSUME LedgerInv, NEW r \in Requests, NEW bucket, Record(r, bucket)
  PROVE  /\ receipts'[r.op].outcome = "APPLIED" /\ receipts'[r.op].request = r
         /\ \A x \in Ops \ {r.op} : receipts'[x] = receipts[x]
<1>1. receipts'[r.op] = Receipt("APPLIED", NoReason, r, bucket)
  BY RequestOps DEF Record, LedgerInv, TypeOK
<1>2. receipts'[r.op].outcome = "APPLIED" /\ receipts'[r.op].request = r  BY <1>1 DEF Receipt
<1> QED BY <1>2, RequestOps DEF Record, LedgerInv, TypeOK

\* So does a rejected one, and it leaves holds, journals and money alone.
LEMMA RejectEffect ==
  ASSUME LedgerInv, NEW r \in Requests, NEW verdict, Reject(r, verdict)
  PROVE  /\ receipts'[r.op].outcome = "REJECTED" /\ receipts'[r.op].request = r
         /\ \A x \in Ops \ {r.op} : receipts'[x] = receipts[x]
         /\ UNCHANGED <<owner, control, hold, balance, usage, journal>>
<1>1. receipts'[r.op] = Receipt("REJECTED", verdict, r, NoBucket)
  BY RequestOps DEF Reject, LedgerInv, TypeOK
<1>2. receipts'[r.op].outcome = "REJECTED" /\ receipts'[r.op].request = r  BY <1>1 DEF Receipt
<1> QED BY <1>2, RequestOps DEF Reject, LedgerInv, TypeOK, money

\* An admission, applied or rejected, writes the claim of its payment at most, and
\* that only while it is absent.
LEMMA AdmissionClaim ==
  ASSUME LedgerInv, NEW r \in Transfers \cup Reserves, NEW c,
         claim' = [claim EXCEPT ![r.terms.payment] = c]
  PROVE  /\ r.terms.payment \in Payments
         /\ claim'[r.terms.payment] = c
         /\ \A q \in Payments \ {r.terms.payment} : claim'[q] = claim[q]
BY TermsTypes DEF LedgerInv, TypeOK, Terms

\* A command on a hold moves that hold and the claim of its payment, and keeps the
\* terms of both.
LEMMA MoveHoldEffect ==
  ASSUME LedgerInv, NEW r \in Exposes \cup Captures \cup Releases,
         NEW state \in {"EXPOSED", "CAPTURED", "RELEASED"},
         RefVerdict(r) = "APPLIED", MoveHold(r, state)
  PROVE  LET h == r.ref.hold
             p == r.ref.payment
         IN  /\ h \in Holds /\ p \in Payments /\ hold[h].state # "ABSENT"
             /\ p = hold[h].reserve.terms.payment
             /\ r.ref.attempt = hold[h].reserve.attempt
             /\ claim[p].hold = h /\ claim[p].state = hold[h].state
             /\ hold'[h].state = state /\ hold'[h].reserve = hold[h].reserve
             /\ hold'[h].owner = hold[h].owner /\ hold'[h].bucket = hold[h].bucket
             /\ \A i \in Holds \ {h} : hold'[i] = hold[i]
             /\ claim'[p].state = state /\ claim'[p].hold = h /\ claim'[p].result = r.op
             /\ claim'[p].admission = claim[p].admission
             /\ \A q \in Payments \ {p} : claim'[q] = claim[q]
<1> DEFINE h == r.ref.hold
           p == r.ref.payment
           x == hold[h]
<1>1. h \in Holds /\ p \in Payments /\ r.op \in Ops
  BY RefTypes, RequestOps DEF Requests
<1>2. /\ x.state # "ABSENT" /\ p = x.reserve.terms.payment
      /\ r.ref.attempt = x.reserve.attempt /\ claim[p].hold = h
  BY DEF RefVerdict
<1>3. claim[p].state = x.state  BY <1>1, <1>2 DEF LedgerInv, HoldClaimAgreement
<1>4. hold \in [Holds -> Hold] /\ claim \in [Payments -> Claim]  BY DEF LedgerInv, TypeOK
<1>5. MoveTo(x, state) = [state |-> state, version |-> x.version + 1, reserve |-> x.reserve,
                          owner |-> x.owner, bucket |-> x.bucket]
  BY <1>1, <1>4, MoveToIs DEF HoldStates
<1>6. hold'[h] = MoveTo(x, state) /\ \A i \in Holds \ {h} : hold'[i] = hold[i]
  BY <1>1, <1>4 DEF MoveHold
<1>7. claim[p] \in Claim  BY <1>1, <1>4
<1>8. \A c \in Claim : /\ SettleClaim(c, state, r.op).state = state
                       /\ SettleClaim(c, state, r.op).result = r.op
                       /\ SettleClaim(c, state, r.op).hold = c.hold
                       /\ SettleClaim(c, state, r.op).admission = c.admission
  BY DEF SettleClaim, Claim
<1>9. /\ claim'[p] = SettleClaim(claim[p], state, r.op)
      /\ \A q \in Payments \ {p} : claim'[q] = claim[q]
  BY <1>1, <1>4 DEF MoveHold
<1>10. /\ hold'[h].state = state /\ hold'[h].reserve = x.reserve
       /\ hold'[h].owner = x.owner /\ hold'[h].bucket = x.bucket
  BY <1>5, <1>6
<1>11. /\ claim'[p].state = state /\ claim'[p].hold = h /\ claim'[p].result = r.op
       /\ claim'[p].admission = claim[p].admission
  BY <1>2, <1>7, <1>8, <1>9
<1> QED BY <1>1, <1>2, <1>3, <1>6, <1>9, <1>10, <1>11

-----------------------------------------------------------------------------
(***************************************************************************)
(* History is append-only.                                                 *)
(***************************************************************************)
ReceiptsKept ==
  \A x \in Ops : receipts[x].outcome # "NONE" =>
    receipts'[x] = receipts[x] /\ journal'[x] = journal[x]
EvidenceStays == \A e \in EvidenceIds : evidence[e] # NoEvidence => evidence'[e] = evidence[e]
ClaimsKept ==
  \A p \in Payments : claim[p].state # "ABSENT" =>
    claim'[p].admission = claim[p].admission /\ claim'[p].hold = claim[p].hold
HoldsKept ==
  \A h \in Holds :
    /\ hold[h].state # "ABSENT" => /\ hold'[h].reserve = hold[h].reserve
                                   /\ hold'[h].bucket = hold[h].bucket
    /\ hold[h].state \in {"CAPTURED", "RELEASED"} => hold'[h] = hold[h]
HistoryKept == ReceiptsKept /\ EvidenceStays /\ ClaimsKept /\ HoldsKept

\* A command records under an unused operation id.
LEMMA FreshKeepsReceipts ==
  ASSUME LedgerInv, NEW r \in Requests, receipts[r.op].outcome = "NONE",
         \A x \in Ops \ {r.op} : receipts'[x] = receipts[x] /\ journal'[x] = journal[x]
  PROVE  ReceiptsKept
BY DEF ReceiptsKept

\* A rejected admission decides an undecided payment at most.
LEMMA RejectAdmissionHistory ==
  ASSUME LedgerInv, NEW r \in Transfers \cup Reserves, NEW verdict, Fresh(r, "spend"),
         RejectAdmission(r, verdict)
  PROVE  HistoryKept
<1>1. r \in Requests  BY DEF Requests
<1>2. Reject(r, verdict) /\ UNCHANGED evidence  BY DEF RejectAdmission
<1>3. /\ \A x \in Ops \ {r.op} : receipts'[x] = receipts[x]
      /\ UNCHANGED <<hold, journal>>
  BY <1>1, <1>2, RejectEffect
<1>4. ReceiptsKept  BY <1>1, <1>3, FreshKeepsReceipts DEF Fresh
<1>5. ClaimsKept
  <2>1. CASE claim' = claim  BY <2>1 DEF ClaimsKept
  <2>2. CASE claim[r.terms.payment].state = "ABSENT"
    BY <2>2, AdmissionClaim DEF RejectAdmission, ClaimsKept
  <2> QED BY <2>1, <2>2 DEF RejectAdmission
<1> QED BY <1>2, <1>3, <1>4, <1>5 DEF HistoryKept, EvidenceStays, HoldsKept

\* An admission that is applied is of an undecided payment and writes new rows.
LEMMA TransferHistory ==
  ASSUME LedgerInv, NEW r \in Transfers, NEW now \in Times, TransferInternal(r, now)
  PROVE  HistoryKept
<1>1. CASE RejectAdmission(r, TransferVerdict(r, now))
  BY <1>1, RejectAdmissionHistory DEF TransferInternal
<1>2. CASE /\ TransferVerdict(r, now) = "APPLIED"
           /\ journal' = [journal EXCEPT ![r.op] = TransferLines(r.terms)]
           /\ claim' = [claim EXCEPT ![r.terms.payment] =
                          [state |-> "APPLIED", admission |-> r.op, hold |-> NoHold,
                           result |-> r.op]]
           /\ Record(r, Bucket(now))
           /\ UNCHANGED <<hold, evidence>>
  <2>1. r \in Requests  BY DEF Requests
  <2>2. \A x \in Ops \ {r.op} : receipts'[x] = receipts[x] /\ journal'[x] = journal[x]
    BY <1>2, <2>1, RecordEffect DEF LedgerInv, TypeOK
  <2>3. ReceiptsKept  BY <2>1, <2>2, FreshKeepsReceipts DEF TransferInternal, Fresh
  <2>4. claim[r.terms.payment].state = "ABSENT"
    BY <1>2, AdmitFacts DEF LedgerInv, TransferVerdict
  <2>5. ClaimsKept  BY <1>2, <2>4, AdmissionClaim DEF ClaimsKept
  <2> QED BY <1>2, <2>3, <2>5 DEF HistoryKept, EvidenceStays, HoldsKept
<1> QED BY <1>1, <1>2 DEF TransferInternal

\* So is a reservation, under a hold id that is not taken.
LEMMA ReserveHistory ==
  ASSUME LedgerInv, NEW r \in Reserves, NEW now \in Times, ReservePayout(r, now)
  PROVE  HistoryKept
<1>1. CASE RejectAdmission(r, ReserveVerdict(r, now))
  BY <1>1, RejectAdmissionHistory DEF ReservePayout
<1>2. CASE /\ ReserveVerdict(r, now) = "APPLIED"
           /\ hold' = [hold EXCEPT ![r.hold] =
                 [state |-> "RESERVED", version |-> 1, reserve |-> r,
                  owner |-> owner[r.terms.source], bucket |-> Bucket(now)]]
           /\ claim' = [claim EXCEPT ![r.terms.payment] =
                          [state |-> "RESERVED", admission |-> r.op, hold |-> r.hold,
                           result |-> r.op]]
           /\ Record(r, Bucket(now))
           /\ UNCHANGED <<journal, evidence>>
  <2>1. r \in Requests /\ r.hold \in Holds
    BY RequestAssumption DEF Requests, ReserveRequest
  <2>2. \A x \in Ops \ {r.op} : receipts'[x] = receipts[x]  BY <1>2, <2>1, RecordEffect
  <2>3. ReceiptsKept  BY <1>2, <2>1, <2>2, FreshKeepsReceipts DEF ReservePayout, Fresh
  <2>4. AdmitVerdict(r, now) = "APPLIED" /\ ~HoldTaken(r)  BY <1>2 DEF ReserveVerdict
  <2>5. claim[r.terms.payment].state = "ABSENT"  BY <2>4, AdmitFacts DEF LedgerInv
  <2>6. ClaimsKept  BY <1>2, <2>5, AdmissionClaim DEF ClaimsKept
  <2>7. hold[r.hold].state = "ABSENT" /\ \A h \in Holds \ {r.hold} : hold'[h] = hold[h]
    BY <1>2, <2>1, <2>4 DEF HoldTaken, LedgerInv, TypeOK
  <2>8. HoldsKept  BY <2>7 DEF HoldsKept
  <2> QED BY <1>2, <2>3, <2>6, <2>8 DEF HistoryKept, EvidenceStays
<1> QED BY <1>1, <1>2 DEF ReservePayout

\* Commands that touch no claim, hold or evidence.
LEMMA CreateHistory ==
  ASSUME LedgerInv, NEW r \in Creates, CreateAccount(r)
  PROVE  HistoryKept
<1>1. r \in Requests  BY DEF Requests
<1>2. /\ \A x \in Ops \ {r.op} : receipts'[x] = receipts[x]
      /\ UNCHANGED <<claim, hold, journal, evidence>>
  BY <1>1, RecordEffect, RejectEffect DEF CreateAccount
<1> QED BY <1>1, <1>2, FreshKeepsReceipts
        DEF CreateAccount, Fresh, HistoryKept, EvidenceStays, ClaimsKept, HoldsKept

\* A control update writes its control row and its receipt.
LEMMA SetControlHistory ==
  ASSUME LedgerInv, NEW r \in SetControls, SetAccountControl(r)
  PROVE  HistoryKept
<1>1. r \in Requests  BY DEF Requests
<1>2. /\ \A x \in Ops \ {r.op} : receipts'[x] = receipts[x]
      /\ UNCHANGED <<claim, hold, journal, evidence>>
  BY <1>1, RecordEffect, RejectEffect DEF SetAccountControl, money
<1> QED BY <1>1, <1>2, FreshKeepsReceipts
        DEF SetAccountControl, Fresh, HistoryKept, EvidenceStays, ClaimsKept, HoldsKept

\* A command on a hold that is still outstanding keeps what was agreed.
LEMMA MoveHoldHistory ==
  ASSUME LedgerInv, NEW r \in Exposes \cup Captures \cup Releases,
         NEW state \in {"EXPOSED", "CAPTURED", "RELEASED"},
         RefVerdict(r) = "APPLIED", Outstanding(r.ref.hold), MoveHold(r, state)
  PROVE  ClaimsKept /\ HoldsKept
<1>1. ClaimsKept  BY MoveHoldEffect DEF ClaimsKept
<1>2. HoldsKept  BY MoveHoldEffect DEF HoldsKept, Outstanding
<1> QED BY <1>1, <1>2

\* Exposing a hold moves it from RESERVED and writes no journal.
LEMMA ExposeHistory ==
  ASSUME LedgerInv, NEW r \in Exposes, NEW now \in Times, NEW known \in BOOLEAN,
         MarkHoldExposed(r, now, known)
  PROVE  HistoryKept
<1>1. r \in Requests  BY DEF Requests
<1>2. /\ \A x \in Ops \ {r.op} : receipts'[x] = receipts[x]
      /\ UNCHANGED <<journal, evidence>>
  BY <1>1, RecordEffect, RejectEffect DEF MarkHoldExposed, money
<1>3. ReceiptsKept  BY <1>1, <1>2, FreshKeepsReceipts DEF MarkHoldExposed, Fresh
<1>4. ClaimsKept /\ HoldsKept
  <2>1. CASE Reject(r, ExposeVerdict(r, now, known)) /\ UNCHANGED <<claim, evidence>>
    BY <1>1, <2>1, RejectEffect DEF ClaimsKept, HoldsKept
  <2>2. CASE ExposeVerdict(r, now, known) = "APPLIED" /\ MoveHold(r, "EXPOSED")
    <3>1. RefVerdict(r) = "APPLIED" /\ Outstanding(r.ref.hold)
      BY <2>2 DEF ExposeVerdict, Outstanding
    <3> QED BY <2>2, <3>1, MoveHoldHistory
  <2> QED BY <2>1, <2>2 DEF MarkHoldExposed
<1> QED BY <1>2, <1>3, <1>4 DEF HistoryKept, EvidenceStays

\* Evidence is recorded under an id that is unused or has this very body.
LEMMA KeepEvidenceHistory ==
  ASSUME LedgerInv, NEW e \in Evidence, NEW verdict, KeepEvidence(e, verdict),
         verdict \in {"APPLIED", "STATE_CONFLICT"} => ~EvidenceConflicts(e)
  PROVE  EvidenceStays
<1>1. e.id \in EvidenceIds  BY DEF Evidence
<1> QED BY <1>1 DEF KeepEvidence, EvidenceConflicts, EvidenceStays, LedgerInv, TypeOK

\* A capture settles an EXPOSED hold and posts under its own operation.
LEMMA CaptureHistory ==
  ASSUME LedgerInv, NEW r \in Captures, NEW now \in Times, CapturePayout(r, now)
  PROVE  HistoryKept
<1> DEFINE verdict == CaptureVerdict(r, now)
<1>1. r \in Requests /\ r.op \in Ops /\ r.evidence \in Evidence
  BY RequestAssumption, RequestOps DEF Requests, CaptureRequest
<1>2. EvidenceStays
  <2>1. RefVerdict(r) # "STATE_CONFLICT"  BY DEF RefVerdict
  <2>2. verdict \in {"APPLIED", "STATE_CONFLICT"} => ~EvidenceConflicts(r.evidence)
    BY <2>1 DEF CaptureVerdict
  <2> QED BY <1>1, <2>2, KeepEvidenceHistory DEF CapturePayout
<1>3. CASE Reject(r, verdict) /\ UNCHANGED claim
  <2>1. ReceiptsKept
    BY <1>1, <1>3, RejectEffect, FreshKeepsReceipts DEF CapturePayout, Fresh
  <2> QED BY <1>1, <1>2, <1>3, <2>1, RejectEffect DEF HistoryKept, ClaimsKept, HoldsKept
<1>4. CASE /\ verdict = "APPLIED" /\ MoveHold(r, "CAPTURED")
           /\ journal' = [journal EXCEPT ![r.op] = HoldLines(r.ref.hold)]
           /\ Record(r, hold[r.ref.hold].bucket)
  <2>1. \A x \in Ops \ {r.op} : receipts'[x] = receipts[x] /\ journal'[x] = journal[x]
    BY <1>1, <1>4, RecordEffect DEF LedgerInv, TypeOK
  <2>2. ReceiptsKept  BY <1>1, <2>1, FreshKeepsReceipts DEF CapturePayout, Fresh
  <2>3. RefVerdict(r) = "APPLIED" /\ Outstanding(r.ref.hold)
    BY <1>4 DEF CaptureVerdict, Outstanding
  <2> QED BY <1>2, <1>4, <2>2, <2>3, MoveHoldHistory DEF HistoryKept
<1> QED BY <1>3, <1>4 DEF CapturePayout

\* A release settles an outstanding hold and posts nothing.
LEMMA ReleaseHistory ==
  ASSUME LedgerInv, NEW r \in Releases, NEW now \in Times, ReleasePayout(r, now)
  PROVE  HistoryKept
<1> DEFINE verdict == ReleaseVerdict(r, now)
<1>1. /\ r \in Requests /\ r.op \in Ops /\ r.evidence \in Evidence \cup {NoEvidence}
      /\ r.reason = "FINAL_FAILURE" <=> r.evidence # NoEvidence
  BY RequestAssumption, RequestOps DEF Requests, ReleaseRequest
<1>2. EvidenceStays
  <2>1. CASE r.evidence = NoEvidence  BY <2>1 DEF ReleasePayout, EvidenceStays
  <2>2. CASE r.evidence # NoEvidence
    <3>1. RefVerdict(r) # "STATE_CONFLICT"  BY DEF RefVerdict
    <3>2. verdict \in {"APPLIED", "STATE_CONFLICT"} => ~EvidenceConflicts(r.evidence)
      BY <1>1, <2>2, <3>1 DEF ReleaseVerdict
    <3> QED BY <1>1, <2>2, <3>2, KeepEvidenceHistory DEF ReleasePayout
  <2> QED BY <2>1, <2>2
<1>3. CASE Reject(r, verdict) /\ UNCHANGED claim
  <2>1. ReceiptsKept
    BY <1>1, <1>3, RejectEffect, FreshKeepsReceipts DEF ReleasePayout, Fresh
  <2> QED BY <1>1, <1>2, <1>3, <2>1, RejectEffect DEF HistoryKept, ClaimsKept, HoldsKept
<1>4. CASE /\ verdict = "APPLIED" /\ MoveHold(r, "RELEASED")
           /\ Record(r, hold[r.ref.hold].bucket) /\ UNCHANGED journal
  <2>1. \A x \in Ops \ {r.op} : receipts'[x] = receipts[x]  BY <1>1, <1>4, RecordEffect
  <2>2. ReceiptsKept  BY <1>1, <1>4, <2>1, FreshKeepsReceipts DEF ReleasePayout, Fresh
  <2>3. RefVerdict(r) = "APPLIED" /\ Outstanding(r.ref.hold)
    BY <1>4 DEF ReleaseVerdict, Outstanding
  <2> QED BY <1>2, <1>4, <2>2, <2>3, MoveHoldHistory DEF HistoryKept
<1> QED BY <1>3, <1>4 DEF ReleasePayout

\* Every step keeps the history.
LEMMA NextHistory == LedgerInv /\ [Next]_vars => HistoryKept
<1> SUFFICES ASSUME LedgerInv, [Next]_vars PROVE HistoryKept  OBVIOUS
<1>1. CASE \E r \in Creates : CreateAccount(r)  BY <1>1, CreateHistory
<1>2. CASE \E r \in SetControls : SetAccountControl(r)  BY <1>2, SetControlHistory
<1>3. CASE \E r \in Transfers, now \in Times : TransferInternal(r, now)
  BY <1>3, TransferHistory
<1>4. CASE \E r \in Reserves, now \in Times : ReservePayout(r, now)
  BY <1>4, ReserveHistory
<1>5. CASE \E r \in Exposes, now \in Times, known \in BOOLEAN : MarkHoldExposed(r, now, known)
  BY <1>5, ExposeHistory
<1>6. CASE \E r \in Captures, now \in Times : CapturePayout(r, now)
  BY <1>6, CaptureHistory
<1>7. CASE \E r \in Releases, now \in Times : ReleasePayout(r, now)
  BY <1>7, ReleaseHistory
<1>8. CASE UNCHANGED vars
  BY <1>8 DEF HistoryKept, ReceiptsKept, EvidenceStays, ClaimsKept, HoldsKept, vars
<1> QED BY <1>1, <1>2, <1>3, <1>4, <1>5, <1>6, <1>7, <1>8 DEF Next

\* Save only ever adds: receipts, journals and evidence stay as they were recorded,
\* claims and holds keep what was agreed, and a settled hold is never touched again.
THEOREM HistoryNeverRewritten == Spec => HistoryIsImmutable
<1>1. LedgerInv /\ [Next]_vars =>
        /\ \A x \in Ops : receipts[x].outcome # "NONE" =>
             receipts'[x] = receipts[x] /\ journal'[x] = journal[x]
        /\ \A e \in EvidenceIds : evidence[e] # NoEvidence => evidence'[e] = evidence[e]
        /\ \A p \in Payments : claim[p].state # "ABSENT" =>
             claim'[p].admission = claim[p].admission /\ claim'[p].hold = claim[p].hold
        /\ \A h \in Holds :
             /\ hold[h].state # "ABSENT" => /\ hold'[h].reserve = hold[h].reserve
                                            /\ hold'[h].bucket = hold[h].bucket
             /\ hold[h].state \in {"CAPTURED", "RELEASED"} => hold'[h] = hold[h]
  BY NextHistory DEF HistoryKept, ReceiptsKept, EvidenceStays, ClaimsKept, HoldsKept
<1> QED BY <1>1, LedgerInvariant, PTL DEF Spec, HistoryIsImmutable

-----------------------------------------------------------------------------
(***************************************************************************)
(* A payment is executed once.                                             *)
(***************************************************************************)
Applied(x, kinds) == receipts[x].outcome = "APPLIED" /\ receipts[x].request \in kinds

\* An applied admission is the one its payment's claim names, and an applied
\* settlement the claim's result: neither can be two operations at once.
ExecutionOf(x) ==
  /\ Applied(x, Transfers \cup Reserves) =>
       LET c == claim[receipts[x].request.terms.payment]
       IN  c.admission = x /\ c.state \notin {"ABSENT", "REJECTED"}
  /\ Applied(x, Transfers) =>
       LET c == claim[receipts[x].request.terms.payment]
       IN  c.result = x /\ c.state = "APPLIED"
  /\ Applied(x, Captures \cup Releases) =>
       LET c == claim[receipts[x].request.ref.payment]
       IN  c.result = x /\ c.state \in {"CAPTURED", "RELEASED"}

ExecutionInv == \A x \in Ops : ExecutionOf(x)

\* How a step may change a claim: it decides an undecided payment, or moves an
\* outstanding hold on under the same admission.
ClaimAdvances(p) ==
  \/ claim'[p] = claim[p]
  \/ claim[p].state = "ABSENT"
  \/ /\ claim[p].state \in {"RESERVED", "EXPOSED"}
     /\ claim'[p].admission = claim[p].admission
     /\ claim'[p].state \in {"EXPOSED", "CAPTURED", "RELEASED"}

\* What a committed command does: one new receipt, and claims that only advance.
Commits(op) ==
  /\ op \in Ops /\ receipts[op].outcome = "NONE"
  /\ \A x \in Ops \ {op} : receipts'[x] = receipts[x]
  /\ \A p \in Payments : ClaimAdvances(p)
  /\ ExecutionOf(op)'

\* Every receipt of a request names a payment the book knows.
LEMMA PaymentTypes ==
  /\ \A r \in Transfers \cup Reserves : r.terms.payment \in Payments
  /\ \A r \in Captures \cup Releases : r.ref.payment \in Payments
BY TermsTypes, RefTypes DEF Terms

\* Claims that only advance keep every earlier execution the claim's own.
LEMMA CommitKeepsExecutions ==
  ASSUME ExecutionInv, NEW op, Commits(op)
  PROVE  ExecutionInv'
<1> SUFFICES ASSUME NEW x \in Ops \ {op} PROVE ExecutionOf(x)'
  BY DEF ExecutionInv, Commits
<1>1. receipts'[x] = receipts[x] /\ ExecutionOf(x)  BY DEF Commits, ExecutionInv
<1> DEFINE r == receipts[x].request
<1>2. ASSUME Applied(x, Transfers \cup Reserves)
      PROVE  /\ claim'[r.terms.payment].admission = x
             /\ claim'[r.terms.payment].state \notin {"ABSENT", "REJECTED"}
  <2>1. r.terms.payment \in Payments  BY <1>2, PaymentTypes DEF Applied
  <2>2. ClaimAdvances(r.terms.payment)  BY <2>1 DEF Commits
  <2> QED BY <1>1, <1>2, <2>2 DEF ExecutionOf, ClaimAdvances
<1>3. ASSUME Applied(x, Transfers)
      PROVE  claim'[r.terms.payment].result = x /\ claim'[r.terms.payment].state = "APPLIED"
  <2>1. r.terms.payment \in Payments  BY <1>3, PaymentTypes DEF Applied
  <2>2. ClaimAdvances(r.terms.payment)  BY <2>1 DEF Commits
  <2> QED BY <1>1, <1>3, <2>2 DEF ExecutionOf, ClaimAdvances
<1>4. ASSUME Applied(x, Captures \cup Releases)
      PROVE  /\ claim'[r.ref.payment].result = x
             /\ claim'[r.ref.payment].state \in {"CAPTURED", "RELEASED"}
  <2>1. r.ref.payment \in Payments  BY <1>4, PaymentTypes DEF Applied
  <2>2. ClaimAdvances(r.ref.payment)  BY <2>1 DEF Commits
  <2> QED BY <1>1, <1>4, <2>2 DEF ExecutionOf, ClaimAdvances
<1> QED BY <1>1, <1>2, <1>3, <1>4 DEF ExecutionOf, Applied

\* A rejected command executes nothing, and decides an undecided payment at most.
LEMMA RejectCommits ==
  ASSUME LedgerInv, NEW r \in Requests, NEW verdict, Reject(r, verdict),
         receipts[r.op].outcome = "NONE", \A p \in Payments : ClaimAdvances(p)
  PROVE  Commits(r.op)
<1>1. receipts'[r.op].outcome = "REJECTED"  BY RejectEffect
<1>2. ExecutionOf(r.op)'  BY <1>1 DEF ExecutionOf, Applied
<1> QED BY <1>2, RequestOps, RejectEffect DEF Commits

\* The admissions: the claim of the payment was absent and names this operation.
LEMMA TransferCommits ==
  ASSUME LedgerInv, NEW r \in Transfers, NEW now \in Times, TransferInternal(r, now)
  PROVE  Commits(r.op)
<1> DEFINE p == r.terms.payment
           c == [state |-> "APPLIED", admission |-> r.op, hold |-> NoHold, result |-> r.op]
<1>1. r \in Requests /\ r.op \in Ops /\ receipts[r.op].outcome = "NONE" /\ p \in Payments
  BY RequestOps, PaymentTypes DEF Requests, TransferInternal, Fresh
<1>2. CASE RejectAdmission(r, TransferVerdict(r, now))
  <2>1. \A q \in Payments : ClaimAdvances(q)
    BY <1>2, AdmissionClaim DEF RejectAdmission, ClaimAdvances
  <2> QED BY <1>1, <1>2, <2>1, RejectCommits DEF RejectAdmission
<1>3. CASE /\ TransferVerdict(r, now) = "APPLIED"
           /\ claim' = [claim EXCEPT ![p] = c]
           /\ Record(r, Bucket(now))
  <2>1. claim[p].state = "ABSENT"  BY <1>3, AdmitFacts DEF LedgerInv, TransferVerdict
  <2>2. claim'[p] = c /\ \A q \in Payments \ {p} : claim'[q] = claim[q]
    BY <1>3, AdmissionClaim
  <2>3. \A q \in Payments : ClaimAdvances(q)  BY <2>1, <2>2 DEF ClaimAdvances
  <2>4. /\ receipts'[r.op].request = r
        /\ \A x \in Ops \ {r.op} : receipts'[x] = receipts[x]
    BY <1>1, <1>3, RecordEffect
  <2>5. r \notin Captures \cup Releases  BY KindsDiffer
  <2>6. ExecutionOf(r.op)'  BY <2>2, <2>4, <2>5 DEF ExecutionOf, Applied
  <2> QED BY <1>1, <2>3, <2>4, <2>6 DEF Commits
<1> QED BY <1>2, <1>3 DEF TransferInternal

\* The same for a reservation, whose claim also names its hold.
LEMMA ReserveCommits ==
  ASSUME LedgerInv, NEW r \in Reserves, NEW now \in Times, ReservePayout(r, now)
  PROVE  Commits(r.op)
<1> DEFINE p == r.terms.payment
           c == [state |-> "RESERVED", admission |-> r.op, hold |-> r.hold, result |-> r.op]
<1>1. r \in Requests /\ r.op \in Ops /\ receipts[r.op].outcome = "NONE" /\ p \in Payments
  BY RequestOps, PaymentTypes DEF Requests, ReservePayout, Fresh
<1>2. CASE RejectAdmission(r, ReserveVerdict(r, now))
  <2>1. \A q \in Payments : ClaimAdvances(q)
    BY <1>2, AdmissionClaim DEF RejectAdmission, ClaimAdvances
  <2> QED BY <1>1, <1>2, <2>1, RejectCommits DEF RejectAdmission
<1>3. CASE /\ ReserveVerdict(r, now) = "APPLIED"
           /\ claim' = [claim EXCEPT ![p] = c]
           /\ Record(r, Bucket(now))
  <2>1. claim[p].state = "ABSENT"  BY <1>3, AdmitFacts DEF LedgerInv, ReserveVerdict
  <2>2. claim'[p] = c /\ \A q \in Payments \ {p} : claim'[q] = claim[q]
    BY <1>3, AdmissionClaim
  <2>3. \A q \in Payments : ClaimAdvances(q)  BY <2>1, <2>2 DEF ClaimAdvances
  <2>4. /\ receipts'[r.op].request = r
        /\ \A x \in Ops \ {r.op} : receipts'[x] = receipts[x]
    BY <1>1, <1>3, RecordEffect
  <2>5. r \notin Transfers \cup Captures \cup Releases  BY KindsDiffer
  <2>6. ExecutionOf(r.op)'  BY <2>2, <2>4, <2>5 DEF ExecutionOf, Applied
  <2> QED BY <1>1, <2>3, <2>4, <2>6 DEF Commits
<1> QED BY <1>2, <1>3 DEF ReservePayout

\* A control update or a new account is no admission and no settlement.
LEMMA CreateCommits ==
  ASSUME LedgerInv, NEW r \in Creates, CreateAccount(r)
  PROVE  Commits(r.op)
<1>1. r \in Requests /\ r.op \in Ops /\ receipts[r.op].outcome = "NONE"
  BY RequestOps DEF Requests, CreateAccount, Fresh
<1>2. /\ receipts'[r.op].request = r
      /\ \A x \in Ops \ {r.op} : receipts'[x] = receipts[x]
      /\ UNCHANGED claim
  BY <1>1, RecordEffect, RejectEffect DEF CreateAccount
<1>3. r \notin Transfers \cup Reserves \cup Captures \cup Releases  BY KindsDiffer
<1> QED BY <1>1, <1>2, <1>3 DEF Commits, ClaimAdvances, ExecutionOf, Applied

\* Neither is a control update.
LEMMA SetControlCommits ==
  ASSUME LedgerInv, NEW r \in SetControls, SetAccountControl(r)
  PROVE  Commits(r.op)
<1>1. r \in Requests /\ r.op \in Ops /\ receipts[r.op].outcome = "NONE"
  BY RequestOps DEF Requests, SetAccountControl, Fresh
<1>2. /\ receipts'[r.op].request = r
      /\ \A x \in Ops \ {r.op} : receipts'[x] = receipts[x]
      /\ UNCHANGED claim
  BY <1>1, RecordEffect, RejectEffect DEF SetAccountControl
<1>3. r \notin Transfers \cup Reserves \cup Captures \cup Releases  BY KindsDiffer
<1> QED BY <1>1, <1>2, <1>3 DEF Commits, ClaimAdvances, ExecutionOf, Applied

\* A command on an outstanding hold that is applied: exposing executes nothing,
\* capturing and releasing become the claim's result.
LEMMA MoveHoldCommits ==
  ASSUME LedgerInv, NEW r \in Exposes \cup Captures \cup Releases,
         NEW state \in {"EXPOSED", "CAPTURED", "RELEASED"},
         r \in Exposes \/ state # "EXPOSED",
         receipts[r.op].outcome = "NONE",
         RefVerdict(r) = "APPLIED", Outstanding(r.ref.hold), MoveHold(r, state),
         NEW bucket, Record(r, bucket)
  PROVE  Commits(r.op)
<1>1. r \in Requests /\ r.op \in Ops  BY RequestOps DEF Requests
<1>2. /\ receipts'[r.op].request = r
      /\ \A x \in Ops \ {r.op} : receipts'[x] = receipts[x]
  BY <1>1, RecordEffect
<1>3. /\ r.ref.payment \in Payments /\ claim[r.ref.payment].state \in {"RESERVED", "EXPOSED"}
      /\ claim'[r.ref.payment].state = state /\ claim'[r.ref.payment].result = r.op
      /\ claim'[r.ref.payment].admission = claim[r.ref.payment].admission
      /\ \A q \in Payments \ {r.ref.payment} : claim'[q] = claim[q]
  BY MoveHoldEffect DEF Outstanding
<1>4. \A q \in Payments : ClaimAdvances(q)  BY <1>3 DEF ClaimAdvances
<1>5. /\ r \notin Transfers \cup Reserves
      /\ r \in Exposes => r \notin Captures \cup Releases
  BY KindsDiffer
<1>6. ExecutionOf(r.op)'  BY <1>2, <1>3, <1>5 DEF ExecutionOf, Applied
<1> QED BY <1>1, <1>2, <1>4, <1>6 DEF Commits

\* Exposing, capturing and releasing, applied or rejected.
LEMMA ExposeCommits ==
  ASSUME LedgerInv, NEW r \in Exposes, NEW now \in Times, NEW known \in BOOLEAN,
         MarkHoldExposed(r, now, known)
  PROVE  Commits(r.op)
<1>1. r \in Requests /\ receipts[r.op].outcome = "NONE"
  BY DEF Requests, MarkHoldExposed, Fresh
<1>2. CASE Reject(r, ExposeVerdict(r, now, known)) /\ UNCHANGED claim
  BY <1>1, <1>2, RejectCommits DEF ClaimAdvances
<1>3. CASE /\ ExposeVerdict(r, now, known) = "APPLIED" /\ MoveHold(r, "EXPOSED")
           /\ Record(r, NoBucket)
  <2>1. RefVerdict(r) = "APPLIED" /\ Outstanding(r.ref.hold)
    BY <1>3 DEF ExposeVerdict, Outstanding
  <2> QED BY <1>1, <1>3, <2>1, MoveHoldCommits
<1> QED BY <1>2, <1>3 DEF MarkHoldExposed

\* A capture is the one settlement of its payment.
LEMMA CaptureCommits ==
  ASSUME LedgerInv, NEW r \in Captures, NEW now \in Times, CapturePayout(r, now)
  PROVE  Commits(r.op)
<1>1. r \in Requests /\ receipts[r.op].outcome = "NONE"
  BY DEF Requests, CapturePayout, Fresh
<1>2. CASE Reject(r, CaptureVerdict(r, now)) /\ UNCHANGED claim
  BY <1>1, <1>2, RejectCommits DEF ClaimAdvances
<1>3. CASE /\ CaptureVerdict(r, now) = "APPLIED" /\ MoveHold(r, "CAPTURED")
           /\ Record(r, hold[r.ref.hold].bucket)
  <2>1. RefVerdict(r) = "APPLIED" /\ Outstanding(r.ref.hold)
    BY <1>3 DEF CaptureVerdict, Outstanding
  <2> QED BY <1>1, <1>3, <2>1, MoveHoldCommits
<1> QED BY <1>2, <1>3 DEF CapturePayout

\* So is a release.
LEMMA ReleaseCommits ==
  ASSUME LedgerInv, NEW r \in Releases, NEW now \in Times, ReleasePayout(r, now)
  PROVE  Commits(r.op)
<1>1. r \in Requests /\ receipts[r.op].outcome = "NONE"
  BY DEF Requests, ReleasePayout, Fresh
<1>2. CASE Reject(r, ReleaseVerdict(r, now)) /\ UNCHANGED claim
  BY <1>1, <1>2, RejectCommits DEF ClaimAdvances
<1>3. CASE /\ ReleaseVerdict(r, now) = "APPLIED" /\ MoveHold(r, "RELEASED")
           /\ Record(r, hold[r.ref.hold].bucket)
  <2>1. RefVerdict(r) = "APPLIED" /\ Outstanding(r.ref.hold)
    BY <1>3 DEF ReleaseVerdict, Outstanding
  <2> QED BY <1>1, <1>3, <2>1, MoveHoldCommits
<1> QED BY <1>2, <1>3 DEF ReleasePayout

\* Every command is one commit.
LEMMA NextExecutes == LedgerInv /\ ExecutionInv /\ [Next]_vars => ExecutionInv'
<1> SUFFICES ASSUME LedgerInv, ExecutionInv, [Next]_vars PROVE ExecutionInv'  OBVIOUS
<1>1. CASE Next
  <2>1. \E op : Commits(op)
    BY <1>1, CreateCommits, SetControlCommits, TransferCommits, ReserveCommits, ExposeCommits,
       CaptureCommits, ReleaseCommits
    DEF Next
  <2> QED BY <2>1, CommitKeepsExecutions
<1>2. CASE UNCHANGED vars  BY <1>2 DEF vars, ExecutionInv, ExecutionOf, Applied
<1> QED BY <1>1, <1>2

\* A set within a singleton has at most one element.
LEMMA AtMostOne ==
  ASSUME NEW S, NEW x, S \subseteq {x}
  PROVE  Cardinality(S) <= 1
<1>1. CASE S = {}  BY <1>1, FS_EmptySet
<1>2. CASE S = {x}  BY <1>2, FS_Singleton
<1> QED BY <1>1, <1>2

\* The fixture is no admission and no settlement.
LEMMA InitExecutes == Init => ExecutionInv
<1> SUFFICES ASSUME Init, NEW x \in Ops PROVE ExecutionOf(x)  BY DEF ExecutionInv
<1>1. receipts[x].request = NoRequest  BY DEF Init, Receipt
<1>2. NoRequest \notin Transfers \cup Reserves \cup Captures \cup Releases
  BY IdAssumption DEF Requests
<1> QED BY <1>1, <1>2 DEF ExecutionOf, Applied

\* Under however many operation ids a payment is sent, it is admitted once and
\* settled once, and one whose first admission was rejected never moves money.
THEOREM PaymentsExecuteOnce == Spec => []OneExecutionPerPayment
<1>1. Init => ExecutionInv  BY InitExecutes
<1>2. ExecutionInv => OneExecutionPerPayment
  <2> SUFFICES ASSUME ExecutionInv, NEW p \in Payments
               PROVE  LET admissions == AppliedFor(p, Transfers \cup Reserves)
                          settlements == AppliedFor(p, Transfers \cup Captures \cup Releases)
                      IN  /\ Cardinality(admissions) <= 1 /\ Cardinality(settlements) <= 1
                          /\ admissions # {} => claim[p].admission \in admissions
                          /\ claim[p].state \in {"ABSENT", "REJECTED"} =>
                               admissions \cup settlements = {}
    BY DEF OneExecutionPerPayment
  <2> DEFINE admissions == AppliedFor(p, Transfers \cup Reserves)
             settlements == AppliedFor(p, Transfers \cup Captures \cup Releases)
  <2>1. \A x \in admissions : /\ x = claim[p].admission
                              /\ claim[p].state \notin {"ABSENT", "REJECTED"}
    BY DEF ExecutionInv, ExecutionOf, AppliedFor, Applied, PaymentOf
  <2>2. \A r \in Captures \cup Releases : r \notin Transfers \cup Reserves  BY KindsDiffer
  <2>3. \A x \in settlements : /\ x = claim[p].result
                               /\ claim[p].state \notin {"ABSENT", "REJECTED"}
    BY <2>2 DEF ExecutionInv, ExecutionOf, AppliedFor, Applied, PaymentOf
  <2> HIDE DEF admissions, settlements
  <2>4. Cardinality(admissions) <= 1
    <3>1. admissions \subseteq {claim[p].admission}  BY <2>1
    <3> QED BY <3>1, AtMostOne
  <2>5. Cardinality(settlements) <= 1
    <3>1. settlements \subseteq {claim[p].result}  BY <2>3
    <3> QED BY <3>1, AtMostOne
  <2>6. /\ admissions # {} => claim[p].admission \in admissions
        /\ claim[p].state \in {"ABSENT", "REJECTED"} => admissions \cup settlements = {}
    BY <2>1, <2>3
  <2> QED BY <2>4, <2>5, <2>6 DEF admissions, settlements
<1> QED BY <1>1, <1>2, NextExecutes, LedgerInvariant, PTL DEF Spec

-----------------------------------------------------------------------------
(***************************************************************************)
(* An exposed payout is settled on evidence.                               *)
(***************************************************************************)
WasExposed(h) == \E x \in Ops : /\ receipts[x].outcome = "APPLIED"
                                /\ receipts[x].request \in Exposes
                                /\ receipts[x].request.ref.hold = h
Proved(h, final) == \E e \in EvidenceIds :
                      /\ evidence[e] # NoEvidence
                      /\ evidence[e].final = final /\ evidence[e].genuine
                      /\ evidence[e].hold = h
                      /\ evidence[e].attempt = hold[h].reserve.attempt
                      /\ final = "FINAL_FAILURE" => evidence[e].fenced

\* SettledOnEvidence with what it needs of the states before a settlement: a hold
\* is exposed exactly when an applied MarkHoldExposed says so.
SettlementOf(h) ==
  /\ hold[h].state \in {"ABSENT", "RESERVED"} => ~WasExposed(h)
  /\ hold[h].state = "EXPOSED" => WasExposed(h)
  /\ hold[h].state = "CAPTURED" => WasExposed(h) /\ Proved(h, "FINAL_SUCCESS")
  /\ hold[h].state = "RELEASED" /\ WasExposed(h) => Proved(h, "FINAL_FAILURE")
SettlementInv == \A h \in Holds : SettlementOf(h)

\* How a step may change a hold: RESERVED to EXPOSED by an exposure, out of EXPOSED
\* only with proof.
HoldAdvances(h) ==
  \/ hold'[h] = hold[h] /\ WasExposed(h)' = WasExposed(h)
  \/ /\ hold[h].state = "ABSENT" /\ hold'[h].state = "RESERVED"
     /\ WasExposed(h)' = WasExposed(h)
  \/ hold'[h].state = "EXPOSED" /\ WasExposed(h)'
  \/ /\ hold[h].state = "EXPOSED" /\ hold'[h].state = "CAPTURED"
     /\ WasExposed(h)' = WasExposed(h) /\ Proved(h, "FINAL_SUCCESS")'
  \/ /\ hold[h].state = "EXPOSED" /\ hold'[h].state = "RELEASED"
     /\ Proved(h, "FINAL_FAILURE")'
  \/ /\ hold[h].state = "RESERVED" /\ hold'[h].state = "RELEASED"
     /\ WasExposed(h)' = WasExposed(h)

\* Proof that was recorded of a hold stays on record.
LEMMA ProofStays ==
  ASSUME EvidenceStays, NEW h \in Holds, hold'[h] = hold[h], NEW final, Proved(h, final)
  PROVE  Proved(h, final)'
BY DEF EvidenceStays, Proved

\* A hold that advances that way is settled on evidence.
LEMMA AdvanceSettles ==
  ASSUME EvidenceStays, NEW h \in Holds, SettlementOf(h), HoldAdvances(h)
  PROVE  SettlementOf(h)'
<1>1. CASE hold'[h] = hold[h] /\ WasExposed(h)' = WasExposed(h)
  <2>1. \A final : Proved(h, final) => Proved(h, final)'  BY <1>1, ProofStays
  <2> QED BY <1>1, <2>1 DEF SettlementOf
<1>2. CASE hold'[h] # hold[h] \/ WasExposed(h)' # WasExposed(h)
  BY <1>2 DEF HoldAdvances, SettlementOf
<1> QED BY <1>1, <1>2

\* Only an applied MarkHoldExposed exposes, and only its hold.
LEMMA OthersExposeNothing ==
  ASSUME NEW op \in Ops, \A x \in Ops \ {op} : receipts'[x] = receipts[x],
         receipts[op].outcome = "NONE", NEW h,
         ~ (/\ receipts'[op].outcome = "APPLIED" /\ receipts'[op].request \in Exposes
            /\ receipts'[op].request.ref.hold = h)
  PROVE  WasExposed(h)' = WasExposed(h)
BY DEF WasExposed

\* A rejected command, or one that is not about holds, advances no hold.
LEMMA UntouchedHolds ==
  ASSUME LedgerInv, NEW r \in Requests, receipts[r.op].outcome = "NONE",
         \A x \in Ops \ {r.op} : receipts'[x] = receipts[x],
         \/ receipts'[r.op].outcome = "REJECTED"
         \/ receipts'[r.op].request \notin Exposes,
         UNCHANGED hold, NEW h \in Holds
  PROVE  HoldAdvances(h)
BY RequestOps, OthersExposeNothing DEF HoldAdvances

\* The evidence a settlement was accepted on is recorded by it.
LEMMA EvidenceRecorded ==
  ASSUME LedgerInv, NEW h \in Holds, NEW e \in Evidence, NEW now \in Times,
         EvidenceBinds(h, e, now), KeepEvidence(e, "APPLIED"),
         hold'[h].reserve = hold[h].reserve
  PROVE  Proved(h, e.final)'
<1>1. e.id \in EvidenceIds /\ e # NoEvidence  BY IdAssumption DEF Evidence
<1>2. evidence'[e.id] = e  BY <1>1 DEF KeepEvidence, LedgerInv, TypeOK
<1>3. /\ e.genuine /\ e.hold = h /\ e.attempt = hold[h].reserve.attempt
      /\ e.final = "FINAL_FAILURE" => e.fenced
  BY DEF EvidenceBinds
<1> QED BY <1>1, <1>2, <1>3 DEF Proved

\* Holds under the admissions: a reservation puts a new hold to RESERVED.
LEMMA ReserveAdvances ==
  ASSUME LedgerInv, NEW r \in Reserves, NEW now \in Times, ReservePayout(r, now),
         NEW h \in Holds
  PROVE  HoldAdvances(h)
<1>1. r \in Requests /\ r.op \in Ops /\ r \notin Exposes /\ receipts[r.op].outcome = "NONE"
  BY RequestOps, KindsDiffer DEF Requests, ReservePayout, Fresh
<1>2. CASE RejectAdmission(r, ReserveVerdict(r, now))
  <2>1. Reject(r, ReserveVerdict(r, now))  BY <1>2 DEF RejectAdmission
  <2> QED BY <1>1, <2>1, RejectEffect, UntouchedHolds
<1>3. CASE /\ ReserveVerdict(r, now) = "APPLIED"
           /\ hold' = [hold EXCEPT ![r.hold] =
                 [state |-> "RESERVED", version |-> 1, reserve |-> r,
                  owner |-> owner[r.terms.source], bucket |-> Bucket(now)]]
           /\ Record(r, Bucket(now))
  <2>1. WasExposed(h)' = WasExposed(h)  BY <1>1, <1>3, RecordEffect, OthersExposeNothing
  <2>2. CASE h # r.hold
    <3>1. hold'[h] = hold[h]  BY <1>3, <2>2 DEF LedgerInv, TypeOK
    <3> QED BY <2>1, <3>1 DEF HoldAdvances
  <2>3. CASE h = r.hold
    <3>1. hold[h].state = "ABSENT"  BY <1>3, <2>3 DEF ReserveVerdict, HoldTaken
    <3>2. hold'[h].state = "RESERVED"  BY <1>3, <2>3 DEF LedgerInv, TypeOK
    <3> QED BY <2>1, <3>1, <3>2 DEF HoldAdvances
  <2> QED BY <2>2, <2>3
<1> QED BY <1>2, <1>3 DEF ReservePayout

\* A transfer, a new account and a control update advance no hold.
LEMMA OthersAdvance ==
  ASSUME LedgerInv, NEW h \in Holds,
         \/ \E r \in Creates : CreateAccount(r)
         \/ \E r \in SetControls : SetAccountControl(r)
         \/ \E r \in Transfers, now \in Times : TransferInternal(r, now)
  PROVE  HoldAdvances(h)
<1>1. ASSUME NEW r \in Creates, CreateAccount(r) PROVE HoldAdvances(h)
  <2>1. r \in Requests /\ r \notin Exposes /\ receipts[r.op].outcome = "NONE"
    BY <1>1, KindsDiffer DEF Requests, CreateAccount, Fresh
  <2>2. /\ receipts'[r.op].request = r /\ UNCHANGED hold
        /\ \A x \in Ops \ {r.op} : receipts'[x] = receipts[x]
    BY <1>1, <2>1, RecordEffect, RejectEffect DEF CreateAccount
  <2> QED BY <2>1, <2>2, UntouchedHolds
<1>2. ASSUME NEW r \in SetControls, SetAccountControl(r) PROVE HoldAdvances(h)
  <2>1. r \in Requests /\ r \notin Exposes /\ receipts[r.op].outcome = "NONE"
    BY <1>2, KindsDiffer DEF Requests, SetAccountControl, Fresh
  <2>2. /\ receipts'[r.op].request = r /\ UNCHANGED hold
        /\ \A x \in Ops \ {r.op} : receipts'[x] = receipts[x]
    BY <1>2, <2>1, RecordEffect, RejectEffect DEF SetAccountControl
  <2> QED BY <2>1, <2>2, UntouchedHolds
<1>3. ASSUME NEW r \in Transfers, NEW now \in Times, TransferInternal(r, now)
      PROVE  HoldAdvances(h)
  <2>1. r \in Requests /\ r \notin Exposes /\ receipts[r.op].outcome = "NONE"
    BY <1>3, KindsDiffer DEF Requests, TransferInternal, Fresh
  <2>2. /\ receipts'[r.op].request = r /\ UNCHANGED hold
        /\ \A x \in Ops \ {r.op} : receipts'[x] = receipts[x]
    BY <1>3, <2>1, RecordEffect, RejectEffect DEF TransferInternal, RejectAdmission
  <2> QED BY <2>1, <2>2, UntouchedHolds
<1> QED BY <1>1, <1>2, <1>3

\* Exposing leaves the receipt that says so.
LEMMA ExposeAdvances ==
  ASSUME LedgerInv, NEW r \in Exposes, NEW now \in Times, NEW known \in BOOLEAN,
         MarkHoldExposed(r, now, known), NEW h \in Holds
  PROVE  HoldAdvances(h)
<1>1. r \in Requests /\ r.op \in Ops /\ receipts[r.op].outcome = "NONE"
  BY RequestOps DEF Requests, MarkHoldExposed, Fresh
<1>2. CASE Reject(r, ExposeVerdict(r, now, known))
  BY <1>1, <1>2, RejectEffect, UntouchedHolds
<1>3. CASE /\ ExposeVerdict(r, now, known) = "APPLIED" /\ MoveHold(r, "EXPOSED")
           /\ Record(r, NoBucket)
  <2>1. RefVerdict(r) = "APPLIED"  BY <1>3 DEF ExposeVerdict
  <2>2. /\ hold'[r.ref.hold].state = "EXPOSED"
        /\ \A i \in Holds \ {r.ref.hold} : hold'[i] = hold[i]
    BY <1>3, <2>1, MoveHoldEffect
  <2>3. /\ receipts'[r.op].outcome = "APPLIED" /\ receipts'[r.op].request = r
        /\ \A x \in Ops \ {r.op} : receipts'[x] = receipts[x]
    BY <1>1, <1>3, RecordEffect
  <2>4. CASE h = r.ref.hold
    <3>1. WasExposed(h)'  BY <1>1, <2>3, <2>4 DEF WasExposed
    <3> QED BY <2>2, <2>4, <3>1 DEF HoldAdvances
  <2>5. CASE h # r.ref.hold
    <3>1. WasExposed(h)' = WasExposed(h)  BY <1>1, <2>3, <2>5, OthersExposeNothing
    <3> QED BY <2>2, <2>5, <3>1 DEF HoldAdvances
  <2> QED BY <2>4, <2>5
<1> QED BY <1>2, <1>3 DEF MarkHoldExposed

\* A capture is of an exposed hold, on success the provider proved.
LEMMA CaptureAdvances ==
  ASSUME LedgerInv, NEW r \in Captures, NEW now \in Times, CapturePayout(r, now),
         NEW h \in Holds
  PROVE  HoldAdvances(h)
<1>1. /\ r \in Requests /\ r.op \in Ops /\ r \notin Exposes /\ r.evidence \in Evidence
      /\ receipts[r.op].outcome = "NONE"
  BY RequestAssumption, RequestOps, KindsDiffer
  DEF Requests, CapturePayout, Fresh, CaptureRequest
<1>2. CASE Reject(r, CaptureVerdict(r, now))  BY <1>1, <1>2, RejectEffect, UntouchedHolds
<1>3. CASE /\ CaptureVerdict(r, now) = "APPLIED" /\ MoveHold(r, "CAPTURED")
           /\ Record(r, hold[r.ref.hold].bucket)
           /\ KeepEvidence(r.evidence, CaptureVerdict(r, now))
  <2>1. /\ RefVerdict(r) = "APPLIED" /\ hold[r.ref.hold].state = "EXPOSED"
        /\ EvidenceBinds(r.ref.hold, r.evidence, now) /\ r.evidence.final = "FINAL_SUCCESS"
    BY <1>3 DEF CaptureVerdict
  <2>2. /\ hold'[r.ref.hold].state = "CAPTURED"
        /\ hold'[r.ref.hold].reserve = hold[r.ref.hold].reserve
        /\ \A i \in Holds \ {r.ref.hold} : hold'[i] = hold[i]
    BY <1>3, <2>1, MoveHoldEffect
  <2>3. WasExposed(h)' = WasExposed(h)  BY <1>1, <1>3, RecordEffect, OthersExposeNothing
  <2>4. CASE h = r.ref.hold
    <3>1. Proved(h, r.evidence.final)'
      BY <1>1, <1>3, <2>1, <2>2, <2>4, EvidenceRecorded
    <3> QED BY <2>1, <2>2, <2>3, <2>4, <3>1 DEF HoldAdvances
  <2> QED BY <2>2, <2>3, <2>4 DEF HoldAdvances
<1> QED BY <1>2, <1>3 DEF CapturePayout

\* A release is of a hold that was never exposed, or on failure the provider
\* proved and fenced.
LEMMA ReleaseAdvances ==
  ASSUME LedgerInv, NEW r \in Releases, NEW now \in Times, ReleasePayout(r, now),
         NEW h \in Holds
  PROVE  HoldAdvances(h)
<1>1. /\ r \in Requests /\ r.op \in Ops /\ r \notin Exposes
      /\ r.evidence \in Evidence \cup {NoEvidence}
      /\ r.reason = "FINAL_FAILURE" <=> r.evidence # NoEvidence
      /\ receipts[r.op].outcome = "NONE"
  BY RequestAssumption, RequestOps, KindsDiffer
  DEF Requests, ReleasePayout, Fresh, ReleaseRequest
<1>2. CASE Reject(r, ReleaseVerdict(r, now))  BY <1>1, <1>2, RejectEffect, UntouchedHolds
<1>3. CASE /\ ReleaseVerdict(r, now) = "APPLIED" /\ MoveHold(r, "RELEASED")
           /\ Record(r, hold[r.ref.hold].bucket)
  <2>1. /\ RefVerdict(r) = "APPLIED" /\ hold[r.ref.hold].state \in {"RESERVED", "EXPOSED"}
        /\ hold[r.ref.hold].state = "EXPOSED" =>
             /\ r.reason = "FINAL_FAILURE" /\ r.evidence.final = "FINAL_FAILURE"
             /\ EvidenceBinds(r.ref.hold, r.evidence, now)
    BY <1>3 DEF ReleaseVerdict
  <2>2. /\ hold'[r.ref.hold].state = "RELEASED"
        /\ hold'[r.ref.hold].reserve = hold[r.ref.hold].reserve
        /\ \A i \in Holds \ {r.ref.hold} : hold'[i] = hold[i]
    BY <1>3, <2>1, MoveHoldEffect
  <2>3. WasExposed(h)' = WasExposed(h)  BY <1>1, <1>3, RecordEffect, OthersExposeNothing
  <2>4. CASE h = r.ref.hold /\ hold[h].state = "EXPOSED"
    <3>1. r.evidence \in Evidence /\ KeepEvidence(r.evidence, "APPLIED")
      BY <1>1, <1>3, <2>1, <2>4 DEF ReleasePayout
    <3>2. Proved(h, r.evidence.final)'  BY <2>1, <2>2, <2>4, <3>1, EvidenceRecorded
    <3> QED BY <2>1, <2>2, <2>4, <3>2 DEF HoldAdvances
  <2> QED BY <2>1, <2>2, <2>3, <2>4 DEF HoldAdvances
<1> QED BY <1>2, <1>3 DEF ReleasePayout

\* Every command advances every hold that way, or leaves it alone.
LEMMA NextSettles == LedgerInv /\ SettlementInv /\ [Next]_vars => SettlementInv'
<1> SUFFICES ASSUME LedgerInv, SettlementInv, [Next]_vars, NEW h \in Holds
             PROVE  SettlementOf(h)'
  BY DEF SettlementInv
<1>1. EvidenceStays  BY NextHistory DEF HistoryKept
<1>2. CASE UNCHANGED vars
  BY <1>2 DEF vars, SettlementInv, SettlementOf, WasExposed, Proved
<1>3. CASE Next
  <2>1. HoldAdvances(h)
    BY <1>3, OthersAdvance, ReserveAdvances, ExposeAdvances, CaptureAdvances, ReleaseAdvances
    DEF Next
  <2> QED BY <1>1, <2>1, AdvanceSettles DEF SettlementInv
<1> QED BY <1>2, <1>3

\* Money that was offered to the provider is only kept or given back on recorded,
\* genuine evidence about that very attempt, however often the settlement is tried.
THEOREM SettlementNeedsEvidence == Spec => []SettledOnEvidence
<1>1. Init => SettlementInv
  <2> SUFFICES ASSUME Init, NEW h \in Holds PROVE SettlementOf(h)  BY DEF SettlementInv
  <2>1. \A x \in Ops : receipts[x].request = NoRequest  BY DEF Init, Receipt
  <2>2. NoRequest \notin Exposes  BY IdAssumption DEF Requests
  <2>3. hold[h].state = "ABSENT"  BY DEF Init
  <2> QED BY <2>1, <2>2, <2>3 DEF SettlementOf, WasExposed
<1>2. SettlementInv => SettledOnEvidence
  BY DEF SettlementInv, SettlementOf, WasExposed, Proved, SettledOnEvidence
<1> QED BY <1>1, <1>2, NextSettles, LedgerInvariant, PTL DEF Spec

=============================================================================
