------------------------------- MODULE Ledger -------------------------------
(***************************************************************************)
(* The Ledger service: what one committed Execute does to one book.        *)
(*                                                                         *)
(* Execute (application/service.go) runs every command in one SERIALIZABLE *)
(* transaction, so a command is one atomic step here: it reads the rows    *)
(* Load returns, evaluates the command and either commits the whole plan   *)
(* with a receipt (APPLIED or REJECTED) or aborts without a trace.  A      *)
(* technical error and a replay of a recorded operation change nothing and *)
(* are stuttering steps.  That concurrent transactions act as if one at a  *)
(* time is what SERIALIZABLE isolation promises, and is taken from it;     *)
(* what happens to them meanwhile is the subject of module Transact.       *)
(*                                                                         *)
(* An absent row is a record with version 0 or state "ABSENT".  The clock  *)
(* is an input of every step: each process reads its own, and nothing in   *)
(* the code orders the readings of two commands.                           *)
(*                                                                         *)
(* A definition named after a defect (IgnoringHolds, Unbounded, ...) is    *)
(* the mutation of a definition below it and is used by nothing.           *)
(***************************************************************************)
EXTENDS Integers, FiniteSets, Functions

CONSTANTS
  Accounts, Pools, FeeAccounts,   \* account ids; the two fixture purposes
  Owners, Payments, Holds, Attempts, Grants, EvidenceIds, Ops,
  PolicyIds,
  Policies,         \* [policy id -> [fee, feeAccount, pool, maxHold]]
  Creates, Transfers, Reserves, Exposes, Captures, Releases, SetControls,
                    \* the requests clients may send, one set per kind
  Times,            \* the readings a process clock can give
  DayLength, ZoneOffset,  \* a Nairobi day and its offset from UTC
  EvidenceSkew,     \* how far in the future evidence may be observed
  MaxAmount, MaxWide, MaxVersion,  \* 2^63-1, 10^38-1 and 2^63-1 in the code
  DefaultCap, Funding, FundedWallet, FundedPool, FixtureOwner, FixtureOp,
  NoOwner, NoOp, NoHold, NoRequest, NoEvidence

Wides    == 0 .. MaxWide
Amounts  == 0 .. MaxAmount
Versions == 0 .. MaxVersion
ControlKeys == ({"SUBJECT"} \X Owners) \cup ({"ACCOUNT"} \X Accounts)

Callers == [permissions : SUBSET {"spend", "resolve", "control", "provision"},
            subjects    : SUBSET Owners]

(***************************************************************************)
(* The shape of a request.  A grant's field "genuine" stands for its       *)
(* signature and for the bound fields grantBinding compares with the terms *)
(* themselves; evidence's for its signature, book, currency and digest,    *)
(* and "routed" for its provider account and capability, which are those   *)
(* the payout was admitted with.                                           *)
(***************************************************************************)
Grant == [id : Grants, genuine : BOOLEAN, subject : Owners,
          subjectEpoch : Versions, accountEpoch : Versions,
          notBefore : Int, expiresAt : Int]
Terms == [payment : Payments, source : Accounts, beneficiary : Accounts,
          principal : Amounts \ {0}, fee : Amounts, policy : PolicyIds,
          grant : Grant]
Evidence == [id : EvidenceIds, genuine : BOOLEAN, routed : BOOLEAN, payment : Payments,
             hold : Holds, attempt : Attempts, beneficiary : Accounts,
             principal : Amounts, final : {"FINAL_SUCCESS", "FINAL_FAILURE"},
             fenced : BOOLEAN, observedAt : Int]
HoldRef == [payment : Payments, hold : Holds, attempt : Attempts,
            expectedVersion : Versions \ {0}]

CreateRequest == [kind : {"CREATE_ACCOUNT"}, op : Ops, caller : Callers,
                  account : Accounts, owner : Owners]
TransferRequest == [kind : {"TRANSFER_INTERNAL"}, op : Ops, caller : Callers,
                    terms : Terms]
ReserveRequest == [kind : {"RESERVE_PAYOUT"}, op : Ops, caller : Callers,
                   terms : Terms, hold : Holds, attempt : Attempts,
                   pool : Accounts, expiresAt : Int]
ExposeRequest == [kind : {"MARK_HOLD_EXPOSED"}, op : Ops, caller : Callers,
                  ref : HoldRef, grant : Grants]
CaptureRequest == [kind : {"CAPTURE_PAYOUT"}, op : Ops, caller : Callers,
                   ref : HoldRef, evidence : Evidence]
ReleaseRequest == [kind : {"RELEASE_PAYOUT"}, op : Ops, caller : Callers,
                   ref : HoldRef, reason : {"CANCEL", "EXPIRY", "FINAL_FAILURE"},
                   evidence : Evidence \cup {NoEvidence}]
SetControlRequest == [kind : {"SET_ACCOUNT_CONTROL"}, op : Ops, caller : Callers,
                      key : ControlKeys, expectedVersion : Versions \ {0},
                      debitFrozen : BOOLEAN, creditFrozen : BOOLEAN,
                      dailyCap : Wides, revokeGrants : BOOLEAN]
Requests == Creates \cup Transfers \cup Reserves \cup Exposes \cup Captures
              \cup Releases \cup SetControls

ASSUME BoundsAssumption ==
  /\ MaxAmount \in Nat /\ MaxWide \in Nat /\ MaxVersion \in Nat \ {0}
  /\ DayLength \in Nat \ {0} /\ ZoneOffset \in Nat
  /\ Times \subseteq Nat /\ EvidenceSkew \in Nat
  /\ DefaultCap \in Wides /\ Funding \in Amounts \cap Wides

ASSUME IdAssumption ==
  /\ Pools \subseteq Accounts /\ FeeAccounts \subseteq Accounts
  /\ Pools \cap FeeAccounts = {}
  /\ FundedWallet \in Accounts \ (Pools \cup FeeAccounts)
  /\ FundedPool \in Pools
  /\ FixtureOwner \in [Accounts -> Owners \cup {NoOwner}]
  /\ \A a \in Pools \cup FeeAccounts \cup {FundedWallet} : FixtureOwner[a] # NoOwner
  /\ FixtureOp \in Ops
  /\ NoOwner \notin Owners /\ NoOp \notin Ops /\ NoHold \notin Holds
  /\ NoRequest \notin Requests /\ NoEvidence \notin Evidence

\* The ids a book can hold are UUIDs: there are finitely many.
ASSUME FiniteAssumption == IsFiniteSet(Accounts) /\ IsFiniteSet(Holds) /\ IsFiniteSet(Ops)

ASSUME PolicyAssumption ==
  /\ DOMAIN Policies \subseteq PolicyIds
  /\ \A p \in DOMAIN Policies :
       Policies[p] \in [fee : Amounts, feeAccount : FeeAccounts, pool : Pools,
                        maxHold : Nat]

\* Execute rejects a malformed command before it opens a transaction
\* (Command.Validate): evidence goes with FINAL_FAILURE and with it alone.
ASSUME RequestAssumption ==
  /\ Creates \subseteq CreateRequest /\ Transfers \subseteq TransferRequest
  /\ Reserves \subseteq ReserveRequest /\ Exposes \subseteq ExposeRequest
  /\ Captures \subseteq CaptureRequest /\ Releases \subseteq ReleaseRequest
  /\ SetControls \subseteq SetControlRequest
  /\ \A r \in Releases : r.reason = "FINAL_FAILURE" <=> r.evidence # NoEvidence
  /\ \A r \in Requests : r.op # FixtureOp

VARIABLES
  owner,     \* accounts: the owner of each account, NoOwner when it does not exist
  balance,   \* account_balances
  control,   \* spending_controls
  claim,     \* business_claims, by payment
  hold,      \* holds
  usage,     \* limit_usage, by owner and Nairobi day
  receipts,  \* financial_operations
  journal,   \* journals and journal_lines, by the operation that wrote them
  evidence   \* resolution_evidence

vars == <<owner, balance, control, claim, hold, usage, receipts, journal, evidence>>
money == <<balance, usage, journal>>

-----------------------------------------------------------------------------
(***************************************************************************)
(* Values of the domain package.                                           *)
(***************************************************************************)
Bucket(t) == (t + ZoneOffset) \div DayLength
Buckets == {Bucket(t) : t \in Times}

Purpose(a) == IF a \in Pools THEN "PROVIDER_POOL"
              ELSE IF a \in FeeAccounts THEN "FEE_INCOME" ELSE "WALLET"

Posted(a, t) == IF Purpose(a) = "PROVIDER_POOL" THEN t.debits - t.credits
                                                ELSE t.credits - t.debits
IgnoringHolds(a, t) == Posted(a, t)
Available(a, t) == Posted(a, t) - t.held
Solvent(a, t) == Posted(a, t) >= 0 /\ Available(a, t) >= 0

Touched(t) == [t EXCEPT !.version = @ + 1]
HasNext(version) == version < MaxVersion

Post(t, side, amount) == IF side = "DEBIT" THEN [t EXCEPT !.debits = @ + amount]
                                           ELSE [t EXCEPT !.credits = @ + amount]
Unbounded(a, t, side, amount) == Solvent(a, Post(t, side, amount))
CanPost(a, t, side, amount) ==
  /\ (IF side = "DEBIT" THEN t.debits ELSE t.credits) + amount <= MaxWide
  /\ Solvent(a, Post(t, side, amount))

Reserve(t, amount) == [t EXCEPT !.held = @ + amount]
Unreserve(t, amount) == [t EXCEPT !.held = @ - amount]

\* Usage.Admit and Usage.Resolve, once their checks have passed.
AdmitUsage(u, amount, reserve) ==
  Touched(IF reserve THEN [u EXCEPT !.reserved = @ + amount]
                     ELSE [u EXCEPT !.consumed = @ + amount])
ForgetCapture(u, amount, capture) == Touched([u EXCEPT !.reserved = @ - amount])
ResolveUsage(u, amount, capture) ==
  Touched(IF capture THEN [u EXCEPT !.reserved = @ - amount, !.consumed = @ + amount]
                     ELSE [u EXCEPT !.reserved = @ - amount])

\* HoldStateValue.Expose, Capture and Release, once their checks have passed.
MoveTo(h, state) == Touched([h EXCEPT !.state = state])
KeepState(c, state, op) == [c EXCEPT !.result = op]
SettleClaim(c, state, op) == [c EXCEPT !.state = state, !.result = op]

Line(a, side, amount) == [account |-> a, side |-> side, amount |-> amount]
SideTotal(lines, side) ==
  SumFunction([l \in {m \in lines : m.side = side} |-> l.amount])

\* domain.NewJournal: distinct accounts, positive amounts, balanced.
ValidJournal(lines) ==
  /\ \A l, m \in lines : l.account = m.account => l = m
  /\ \A l \in lines : l.amount > 0
  /\ SideTotal(lines, "DEBIT") = SideTotal(lines, "CREDIT")

\* What a spend of these terms posts: the source pays principal and fee.
Postings(source, payee, feeAccount, principal, fee) ==
  {Line(source, "DEBIT", principal + fee), Line(payee, "CREDIT", principal)}
    \cup (IF fee = 0 THEN {} ELSE {Line(feeAccount, "CREDIT", fee)})

LosingFees(b, lines) ==
  [a \in Accounts |->
     IF \E l \in lines : l.account = a /\ a \notin FeeAccounts
     THEN LET l == CHOOSE l \in lines : l.account = a
          IN  Touched(Post(b[a], l.side, l.amount))
     ELSE b[a]]
PostAll(b, lines) ==
  [a \in Accounts |->
     IF \E l \in lines : l.account = a
     THEN LET l == CHOOSE l \in lines : l.account = a
          IN  Touched(Post(b[a], l.side, l.amount))
     ELSE b[a]]

-----------------------------------------------------------------------------
(***************************************************************************)
(* Evaluation.  Each verdict is "APPLIED", the reason of a durable         *)
(* rejection, or one of the technical errors (ErrNotFound, ErrPermission,  *)
(* ErrInvalid, ErrConflict, ErrIntegrity) that abort the transaction; the  *)
(* checks are in the order of application/evaluate.go.                     *)
(***************************************************************************)
Reasons ==
  {"ACCOUNT_EXISTS", "STATE_CONFLICT", "NUMERIC_LIMIT", "INVALID_ACCOUNT_PURPOSE",
   "BUSINESS_ALREADY_DECIDED", "GRANT_EXPIRED", "AUTHORIZATION_REVOKED", "ACCOUNT_BLOCKED",
   "INVALID_POLICY", "INSUFFICIENT_FUNDS", "LIMIT_EXCEEDED", "SELF_TRANSFER",
   "UNKNOWN_BENEFICIARY", "BENEFICIARY_BLOCKED", "HOLD_EXISTS", "INVALID_PROVIDER_POOL",
   "PROVIDER_POOL_BLOCKED", "INVALID_EXPIRY", "PROVIDER_CAPACITY_EXCEEDED",
   "HOLD_BINDING_CONFLICT", "GRANT_BINDING_CONFLICT", "HOLD_EXPIRED", "INVALID_EVIDENCE",
   "EXPOSED_REQUIRES_EVIDENCE", "NOT_EXPIRED"}

AllowsSubject(caller, subject) == caller.subjects = {} \/ subject \in caller.subjects

Exists(a) == owner[a] # NoOwner
SubjectControl(a) == control[<<"SUBJECT", owner[a]>>]
AccountControl(a) == control[<<"ACCOUNT", a>>]
HasControls(a) == SubjectControl(a).version > 0 /\ AccountControl(a).version > 0
FrozenByAccount(a) == AccountControl(a).debitFrozen
DebitFrozen(a) == SubjectControl(a).debitFrozen \/ AccountControl(a).debitFrozen
CreditFrozen(a) == SubjectControl(a).creditFrozen \/ AccountControl(a).creditFrozen

GrantInForce(g, now) == g.notBefore <= now /\ now < g.expiresAt
SubjectEpochOnly(g, a) == g.subjectEpoch = SubjectControl(a).epoch
GrantCurrent(g, a) == /\ g.subjectEpoch = SubjectControl(a).epoch
                      /\ g.accountEpoch = AccountControl(a).epoch

CreateVerdict(r) ==
  IF ~AllowsSubject(r.caller, r.owner) THEN "ErrPermission"
  ELSE IF Exists(r.account) THEN "ACCOUNT_EXISTS"
  ELSE "APPLIED"

SetControlVerdict(r) ==
  LET c == control[r.key]
      onAccount == r.key[1] = "ACCOUNT"
      subject == IF onAccount THEN owner[r.key[2]] ELSE r.key[2]
  IN  IF onAccount /\ ~Exists(r.key[2]) THEN "ErrNotFound"
      ELSE IF onAccount /\ r.dailyCap # 0 THEN "ErrInvalid"
      ELSE IF ~AllowsSubject(r.caller, subject) THEN "ErrPermission"
      ELSE IF c.version = 0 THEN "ErrNotFound"
      ELSE IF c.version # r.expectedVersion THEN "STATE_CONFLICT"
      ELSE IF ~HasNext(c.version) THEN "NUMERIC_LIMIT"
      ELSE IF r.revokeGrants /\ ~HasNext(c.epoch) THEN "NUMERIC_LIMIT"
      ELSE "APPLIED"

Total(terms) == terms.principal + terms.fee

ConsumedOnly(u) == u.consumed
UsageTotal(u) == u.reserved + u.consumed

DecidedIfApplied(p) == claim[p].state # "APPLIED"
RetryRejected(p) == claim[p].state \in {"ABSENT", "REJECTED"}
Undecided(p) == claim[p].state = "ABSENT"

\* The part of admit that TransferInternal and ReservePayout share.
AdmitVerdict(r, now) ==
  LET t == r.terms
      a == t.source
      u == usage[<<owner[a], Bucket(now)>>]
  IN  IF ~Exists(a) THEN "ErrNotFound"
      ELSE IF ~AllowsSubject(r.caller, owner[a]) THEN "ErrPermission"
      ELSE IF ~t.grant.genuine \/ t.grant.subject # owner[a] THEN "ErrPermission"
      ELSE IF Purpose(a) # "WALLET" THEN "INVALID_ACCOUNT_PURPOSE"
      ELSE IF ~HasControls(a) THEN "ErrIntegrity"
      ELSE IF ~Undecided(t.payment) THEN "BUSINESS_ALREADY_DECIDED"
      ELSE IF ~GrantInForce(t.grant, now) THEN "GRANT_EXPIRED"
      ELSE IF ~GrantCurrent(t.grant, a) THEN "AUTHORIZATION_REVOKED"
      ELSE IF DebitFrozen(a) THEN "ACCOUNT_BLOCKED"
      ELSE IF t.policy \notin DOMAIN Policies \/ Policies[t.policy].fee # t.fee
           THEN "INVALID_POLICY"
      ELSE IF ~Exists(Policies[t.policy].feeAccount) THEN "ErrIntegrity"
      ELSE IF Total(t) > MaxAmount THEN "NUMERIC_LIMIT"
      ELSE IF ~Solvent(a, balance[a]) THEN "ErrIntegrity"
      ELSE IF Available(a, balance[a]) < Total(t) THEN "INSUFFICIENT_FUNDS"
      ELSE IF UsageTotal(u) + t.principal > MaxWide THEN "NUMERIC_LIMIT"
      ELSE IF UsageTotal(u) + t.principal > SubjectControl(a).dailyCap THEN "LIMIT_EXCEEDED"
      ELSE IF ~HasNext(u.version) THEN "NUMERIC_LIMIT"
      ELSE "APPLIED"

TransferLines(t) ==
  Postings(t.source, t.beneficiary, Policies[t.policy].feeAccount, t.principal, t.fee)

TransferVerdict(r, now) ==
  LET t == r.terms
      admitted == AdmitVerdict(r, now)
  IN  IF admitted # "APPLIED" THEN admitted
      ELSE IF t.source = t.beneficiary THEN "SELF_TRANSFER"
      ELSE IF ~Exists(t.beneficiary) THEN "UNKNOWN_BENEFICIARY"
      ELSE IF Purpose(t.beneficiary) # "WALLET" THEN "INVALID_ACCOUNT_PURPOSE"
      ELSE IF ~HasControls(t.beneficiary) THEN "ErrIntegrity"
      ELSE IF CreditFrozen(t.beneficiary) THEN "BENEFICIARY_BLOCKED"
      ELSE IF ~ValidJournal(TransferLines(t)) THEN "ErrIntegrity"
      ELSE IF \E l \in TransferLines(t) :
                \/ ~CanPost(l.account, balance[l.account], l.side, l.amount)
                \/ ~HasNext(balance[l.account].version)
           THEN "NUMERIC_LIMIT"
      ELSE "APPLIED"

HoldTaken(r) ==
  \E h \in Holds : /\ hold[h].state # "ABSENT"
                   /\ h = r.hold \/ hold[h].reserve.attempt = r.attempt

\* Totals.Reserve and NextVersion on one of the two balances a hold encumbers.
EncumberVerdict(a, amount) ==
  IF balance[a].held + amount > MaxWide THEN "NUMERIC_LIMIT"
  ELSE IF ~Solvent(a, Reserve(balance[a], amount)) THEN "PROVIDER_CAPACITY_EXCEEDED"
  ELSE IF ~HasNext(balance[a].version) THEN "NUMERIC_LIMIT"
  ELSE "APPLIED"

ReserveVerdict(r, now) ==
  LET t == r.terms
      p == Policies[t.policy]
      admitted == AdmitVerdict(r, now)
  IN  IF admitted # "APPLIED" THEN admitted
      ELSE IF HoldTaken(r) THEN "HOLD_EXISTS"
      ELSE IF r.pool # p.pool THEN "INVALID_PROVIDER_POOL"
      ELSE IF ~Exists(r.pool) \/ ~HasControls(r.pool) THEN "ErrIntegrity"
      ELSE IF DebitFrozen(r.pool) THEN "PROVIDER_POOL_BLOCKED"
      ELSE IF \/ r.expiresAt <= now
              \/ r.expiresAt > now + p.maxHold
              \/ r.expiresAt > t.grant.expiresAt THEN "INVALID_EXPIRY"
      ELSE IF EncumberVerdict(t.source, Total(t)) # "APPLIED"
           THEN EncumberVerdict(t.source, Total(t))
      ELSE EncumberVerdict(r.pool, t.principal)

WithoutFencing(h, e, now) == e.genuine /\ e.hold = h /\ e.observedAt <= now + EvidenceSkew

\* auth.go, evidence: the proof is genuine and about this very attempt.
EvidenceBinds(h, e, now) ==
  LET r == hold[h].reserve
  IN  /\ e.genuine /\ e.routed /\ e.hold = h
      /\ e.payment = r.terms.payment /\ e.attempt = r.attempt
      /\ e.beneficiary = r.terms.beneficiary /\ e.principal = r.terms.principal
      /\ e.observedAt <= now + EvidenceSkew
      /\ e.final = "FINAL_SUCCESS" \/ (e.final = "FINAL_FAILURE" /\ e.fenced)

NeverConflicts(e) == FALSE

\* save.go: an evidence id is bound to the first body recorded under it.
EvidenceConflicts(e) == evidence[e.id] \notin {NoEvidence, e}

\* The head of resolve, for the three commands about a hold.
RefVerdict(r) ==
  LET h == hold[r.ref.hold]
  IN  IF h.state = "ABSENT" THEN "ErrNotFound"
      ELSE IF ~AllowsSubject(r.caller, h.owner) THEN "ErrPermission"
      ELSE IF \/ r.ref.payment # h.reserve.terms.payment
              \/ r.ref.attempt # h.reserve.attempt THEN "HOLD_BINDING_CONFLICT"
      ELSE IF \/ claim[r.ref.payment].state = "ABSENT"
              \/ claim[r.ref.payment].hold # r.ref.hold THEN "ErrIntegrity"
      ELSE "APPLIED"

ExposeVerdict(r, now, issuerKnown) ==
  LET h == hold[r.ref.hold]
      g == h.reserve.terms.grant
      source == h.reserve.terms.source
  IN  IF RefVerdict(r) # "APPLIED" THEN RefVerdict(r)
      ELSE IF ~Exists(source) \/ ~HasControls(source) THEN "ErrIntegrity"
      ELSE IF r.grant # g.id THEN "GRANT_BINDING_CONFLICT"
      ELSE IF DebitFrozen(source) THEN "ACCOUNT_BLOCKED"
      ELSE IF ~GrantCurrent(g, source) THEN "AUTHORIZATION_REVOKED"
      ELSE IF ~GrantInForce(g, now) \/ ~issuerKnown THEN "GRANT_EXPIRED"
      ELSE IF ~Exists(h.reserve.pool) \/ ~HasControls(h.reserve.pool) THEN "ErrIntegrity"
      ELSE IF DebitFrozen(h.reserve.pool) THEN "PROVIDER_POOL_BLOCKED"
      ELSE IF h.state # "RESERVED" \/ h.version # r.ref.expectedVersion THEN "STATE_CONFLICT"
      ELSE IF now >= h.reserve.expiresAt THEN "HOLD_EXPIRED"
      ELSE IF ~HasNext(h.version) THEN "STATE_CONFLICT"
      ELSE "APPLIED"

\* Posting policies are never updated: the fee account the hold row copied is
\* still the policy's.
HoldFeeAccount(h) == Policies[hold[h].reserve.terms.policy].feeAccount

HoldLines(h) ==
  LET t == hold[h].reserve.terms
  IN  Postings(t.source, hold[h].reserve.pool, HoldFeeAccount(h), t.principal, t.fee)

HoldTotal(h) == Total(hold[h].reserve.terms)

SourceOnly(h) ==
  [balance EXCEPT ![hold[h].reserve.terms.source] = Unreserve(@, HoldTotal(h))]

\* Both balances with the hold's encumbrance lifted.
Unencumbered(h) ==
  LET r == hold[h].reserve
  IN  [balance EXCEPT ![r.terms.source] = Unreserve(@, Total(r.terms)),
                      ![r.pool] = Unreserve(@, r.terms.principal)]

\* The tail of resolve: what makes a decided resolution abort as ErrIntegrity.
ResolveFaults(h, capture) ==
  LET r == hold[h].reserve
      u == usage[<<hold[h].owner, hold[h].bucket>>]
      touched == {r.terms.source, r.pool} \cup
                   (IF capture /\ r.terms.fee > 0 THEN {HoldFeeAccount(h)} ELSE {})
  IN  \/ HoldTotal(h) > MaxAmount
      \/ balance[r.terms.source].held < HoldTotal(h)
      \/ balance[r.pool].held < r.terms.principal
      \/ \E a \in touched : ~HasNext(balance[a].version)
      \/ u.version = 0 \/ ~HasNext(u.version)
      \/ u.reserved < r.terms.principal
      \/ /\ capture
         /\ \/ u.consumed + r.terms.principal > MaxWide
            \/ ~ValidJournal(HoldLines(h))
            \/ \E l \in HoldLines(h) :
                 ~CanPost(l.account, Unencumbered(h)[l.account], l.side, l.amount)

CaptureVerdict(r, now) ==
  LET h == hold[r.ref.hold]
      e == r.evidence
  IN  IF RefVerdict(r) # "APPLIED" THEN RefVerdict(r)
      ELSE IF ~EvidenceBinds(r.ref.hold, e, now) \/ e.final # "FINAL_SUCCESS"
           THEN "INVALID_EVIDENCE"
      ELSE IF EvidenceConflicts(e) THEN "ErrConflict"
      ELSE IF \/ h.state # "EXPOSED" \/ h.version # r.ref.expectedVersion
              \/ ~HasNext(h.version) THEN "STATE_CONFLICT"
      ELSE IF ResolveFaults(r.ref.hold, TRUE) THEN "ErrIntegrity"
      ELSE "APPLIED"

ReleaseVerdict(r, now) ==
  LET h == hold[r.ref.hold]
      e == r.evidence
      final == r.reason = "FINAL_FAILURE"
  IN  IF RefVerdict(r) # "APPLIED" THEN RefVerdict(r)
      ELSE IF final /\ (~EvidenceBinds(r.ref.hold, e, now) \/ e.final # "FINAL_FAILURE")
           THEN "INVALID_EVIDENCE"
      ELSE IF final /\ EvidenceConflicts(e) THEN "ErrConflict"
      ELSE IF final /\ h.state # "EXPOSED" THEN "STATE_CONFLICT"
      ELSE IF ~final /\ h.state = "EXPOSED" THEN "EXPOSED_REQUIRES_EVIDENCE"
      ELSE IF r.reason = "EXPIRY" /\ now < h.reserve.expiresAt THEN "NOT_EXPIRED"
      ELSE IF \/ h.version # r.ref.expectedVersion
              \/ h.state \notin {"RESERVED", "EXPOSED"}
              \/ ~HasNext(h.version) THEN "STATE_CONFLICT"
      ELSE IF ResolveFaults(r.ref.hold, FALSE) THEN "ErrIntegrity"
      ELSE "APPLIED"

-----------------------------------------------------------------------------
(***************************************************************************)
(* The commands.  Fresh is Execute before Load: the caller holds the       *)
(* permission and the operation id is unused.  Every disjunct writes the   *)
(* receipt; a rejection keeps nothing of the plan but the evidence and, on *)
(* an undecided payment, the claim.                                        *)
(***************************************************************************)
Fresh(r, permission) == /\ permission \in r.caller.permissions
                        /\ receipts[r.op].outcome = "NONE"

Receipt(outcome, reason, r, bucket) ==
  [outcome |-> outcome, reason |-> reason, request |-> r, bucket |-> bucket]

NoBucket == -1
NoReason == ""

Record(r, bucket) ==
  receipts' = [receipts EXCEPT ![r.op] = Receipt("APPLIED", NoReason, r, bucket)]

Reject(r, verdict) ==
  /\ verdict \in Reasons
  /\ receipts' = [receipts EXCEPT ![r.op] = Receipt("REJECTED", verdict, r, NoBucket)]
  /\ UNCHANGED <<owner, control, hold, money>>

\* A rejected admission decides the payment unless it was decided before.
RejectAdmission(r, verdict) ==
  LET p == r.terms.payment
  IN  /\ Reject(r, verdict)
      /\ claim' = IF claim[p].state # "ABSENT" THEN claim
                  ELSE [claim EXCEPT ![p] =
                          [state |-> "REJECTED", admission |-> r.op, hold |-> NoHold,
                           result |-> r.op]]
      /\ UNCHANGED evidence

\* The plan keeps evidence once it is verified, even if the command is rejected.
KeepEvidence(e, verdict) ==
  evidence' = IF verdict \in {"APPLIED", "STATE_CONFLICT"}
              THEN [evidence EXCEPT ![e.id] = e] ELSE evidence

NewControl(key) == [version |-> 1, epoch |-> 1, debitFrozen |-> FALSE, creditFrozen |-> FALSE,
                    dailyCap |-> IF key[1] = "SUBJECT" THEN DefaultCap ELSE 0]
NoControl == [version |-> 0, epoch |-> 0, debitFrozen |-> FALSE, creditFrozen |-> FALSE,
              dailyCap |-> 0]
NewBalance == [debits |-> 0, credits |-> 0, held |-> 0, version |-> 1]

CreateAccount(r) ==
  LET verdict == CreateVerdict(r)
  IN  /\ Fresh(r, "provision")
      /\ \/ /\ verdict = "APPLIED"
            /\ owner' = [owner EXCEPT ![r.account] = r.owner]
            /\ balance' = [balance EXCEPT ![r.account] = NewBalance]
            /\ control' = [k \in ControlKeys |->
                 IF /\ k \in {<<"SUBJECT", r.owner>>, <<"ACCOUNT", r.account>>}
                    /\ control[k].version = 0
                 THEN NewControl(k) ELSE control[k]]
            /\ Record(r, NoBucket)
            /\ UNCHANGED <<claim, hold, usage, journal, evidence>>
         \/ Reject(r, verdict) /\ UNCHANGED <<claim, evidence>>

SetAccountControl(r) ==
  LET verdict == SetControlVerdict(r)
      c == control[r.key]
  IN  /\ Fresh(r, "control")
      /\ \/ /\ verdict = "APPLIED"
            /\ control' = [control EXCEPT ![r.key] =
                 [version |-> c.version + 1,
                  epoch |-> IF r.revokeGrants THEN c.epoch + 1 ELSE c.epoch,
                  debitFrozen |-> r.debitFrozen, creditFrozen |-> r.creditFrozen,
                  dailyCap |-> r.dailyCap]]
            /\ Record(r, NoBucket)
            /\ UNCHANGED <<owner, claim, hold, evidence, money>>
         \/ Reject(r, verdict) /\ UNCHANGED <<claim, evidence>>

TransferInternal(r, now) ==
  LET verdict == TransferVerdict(r, now)
      t == r.terms
  IN  /\ Fresh(r, "spend")
      /\ \/ /\ verdict = "APPLIED"
            /\ journal' = [journal EXCEPT ![r.op] = TransferLines(t)]
            /\ balance' = PostAll(balance, TransferLines(t))
            /\ usage' = [usage EXCEPT ![<<owner[t.source], Bucket(now)>>] =
                           AdmitUsage(@, t.principal, FALSE)]
            /\ claim' = [claim EXCEPT ![t.payment] =
                           [state |-> "APPLIED", admission |-> r.op, hold |-> NoHold,
                            result |-> r.op]]
            /\ Record(r, Bucket(now))
            /\ UNCHANGED <<owner, control, hold, evidence>>
         \/ RejectAdmission(r, verdict)

ReservePayout(r, now) ==
  LET verdict == ReserveVerdict(r, now)
      t == r.terms
  IN  /\ Fresh(r, "spend")
      /\ \/ /\ verdict = "APPLIED"
            /\ balance' = [balance EXCEPT
                 ![t.source] = Touched(Reserve(@, Total(t))),
                 ![r.pool] = Touched(Reserve(@, t.principal))]
            /\ hold' = [hold EXCEPT ![r.hold] =
                 [state |-> "RESERVED", version |-> 1, reserve |-> r, owner |-> owner[t.source],
                  bucket |-> Bucket(now)]]
            /\ usage' = [usage EXCEPT ![<<owner[t.source], Bucket(now)>>] =
                           AdmitUsage(@, t.principal, TRUE)]
            /\ claim' = [claim EXCEPT ![t.payment] =
                           [state |-> "RESERVED", admission |-> r.op, hold |-> r.hold,
                            result |-> r.op]]
            /\ Record(r, Bucket(now))
            /\ UNCHANGED <<owner, control, journal, evidence>>
         \/ RejectAdmission(r, verdict)

\* resolve moves the hold and its claim together.
MoveHold(r, state) ==
  /\ hold' = [hold EXCEPT ![r.ref.hold] = MoveTo(@, state)]
  /\ claim' = [claim EXCEPT ![r.ref.payment] = SettleClaim(@, state, r.op)]

\* The limit row of the day the hold was admitted, whatever day it is now.
SettleUsage(h, capture) ==
  usage' = [usage EXCEPT ![<<hold[h].owner, hold[h].bucket>>] =
              ResolveUsage(@, hold[h].reserve.terms.principal, capture)]

MarkHoldExposed(r, now, issuerKnown) ==
  LET verdict == ExposeVerdict(r, now, issuerKnown)
  IN  /\ Fresh(r, "spend")
      /\ \/ /\ verdict = "APPLIED"
            /\ MoveHold(r, "EXPOSED")
            /\ Record(r, NoBucket)
            /\ UNCHANGED <<owner, control, evidence, money>>
         \/ Reject(r, verdict) /\ UNCHANGED <<claim, evidence>>

CapturePayout(r, now) ==
  LET verdict == CaptureVerdict(r, now)
      h == r.ref.hold
  IN  /\ Fresh(r, "resolve")
      /\ KeepEvidence(r.evidence, verdict)
      /\ \/ /\ verdict = "APPLIED"
            /\ MoveHold(r, "CAPTURED")
            /\ journal' = [journal EXCEPT ![r.op] = HoldLines(h)]
            /\ balance' = PostAll(Unencumbered(h), HoldLines(h))
            /\ SettleUsage(h, TRUE)
            /\ Record(r, hold[h].bucket)
            /\ UNCHANGED <<owner, control>>
         \/ Reject(r, verdict) /\ UNCHANGED claim

ReleasePermission(r) == IF r.reason = "FINAL_FAILURE" THEN "resolve" ELSE "spend"

ReleasePayout(r, now) ==
  LET verdict == ReleaseVerdict(r, now)
      h == r.ref.hold
  IN  /\ Fresh(r, ReleasePermission(r))
      /\ IF r.evidence = NoEvidence THEN UNCHANGED evidence
                                    ELSE KeepEvidence(r.evidence, verdict)
      /\ \/ /\ verdict = "APPLIED"
            /\ MoveHold(r, "RELEASED")
            /\ balance' = [a \in Accounts |->
                 IF a \in {hold[h].reserve.terms.source, hold[h].reserve.pool}
                 THEN Touched(Unencumbered(h)[a]) ELSE balance[a]]
            /\ SettleUsage(h, FALSE)
            /\ Record(r, hold[h].bucket)
            /\ UNCHANGED <<owner, control, journal>>
         \/ Reject(r, verdict) /\ UNCHANGED claim

\* BootstrapSynthetic: the book as the administrative fixture leaves it.
Init ==
  /\ owner = FixtureOwner
  /\ balance = [a \in Accounts |->
       [debits |-> IF a = FundedPool THEN Funding ELSE 0,
        credits |-> IF a = FundedWallet THEN Funding ELSE 0,
        held |-> 0, version |-> IF Exists(a) THEN 1 ELSE 0]]
  /\ control = [k \in ControlKeys |->
       IF IF k[1] = "SUBJECT" THEN \E a \in Accounts : owner[a] = k[2] ELSE Exists(k[2])
       THEN NewControl(k)
       ELSE NoControl]
  /\ claim = [p \in Payments |->
       [state |-> "ABSENT", admission |-> NoOp, hold |-> NoHold, result |-> NoOp]]
  /\ hold = [h \in Holds |->
       [state |-> "ABSENT", version |-> 0, reserve |-> NoRequest, owner |-> NoOwner,
        bucket |-> NoBucket]]
  /\ usage = [k \in Owners \X Buckets |-> [reserved |-> 0, consumed |-> 0, version |-> 0]]
  /\ receipts = [o \in Ops |->
       Receipt(IF o = FixtureOp THEN "APPLIED" ELSE "NONE", NoReason, NoRequest, NoBucket)]
  /\ journal = [o \in Ops |->
       IF o = FixtureOp
       THEN {Line(FundedPool, "DEBIT", Funding), Line(FundedWallet, "CREDIT", Funding)}
       ELSE {}]
  /\ evidence = [e \in EvidenceIds |-> NoEvidence]

Next ==
  \/ \E r \in Creates : CreateAccount(r)
  \/ \E r \in SetControls : SetAccountControl(r)
  \/ \E r \in Transfers, now \in Times : TransferInternal(r, now)
  \/ \E r \in Reserves, now \in Times : ReservePayout(r, now)
  \/ \E r \in Exposes, now \in Times, known \in BOOLEAN : MarkHoldExposed(r, now, known)
  \/ \E r \in Captures, now \in Times : CapturePayout(r, now)
  \/ \E r \in Releases, now \in Times : ReleasePayout(r, now)

Spec == Init /\ [][Next]_vars

-----------------------------------------------------------------------------
(***************************************************************************)
(* Properties.                                                             *)
(***************************************************************************)
HoldStates == {"ABSENT", "RESERVED", "EXPOSED", "CAPTURED", "RELEASED"}
Outstanding(h) == hold[h].state \in {"RESERVED", "EXPOSED"}

\* The rows of migrations/001_initial.sql.
Balance == [debits : Wides, credits : Wides, held : Wides, version : Versions]
Control == [version : Versions, epoch : Versions, debitFrozen : BOOLEAN,
            creditFrozen : BOOLEAN, dailyCap : Wides]
Claim == [state : HoldStates \cup {"APPLIED", "REJECTED"}, admission : Ops \cup {NoOp},
          hold : Holds \cup {NoHold}, result : Ops \cup {NoOp}]
Hold == [state : HoldStates, version : Versions, reserve : Reserves \cup {NoRequest},
         owner : Owners \cup {NoOwner}, bucket : Buckets \cup {NoBucket}]
Usage == [reserved : Wides, consumed : Wides, version : Versions]
Operation == [outcome : {"NONE", "APPLIED", "REJECTED"}, reason : Reasons \cup {NoReason},
              request : Requests \cup {NoRequest}, bucket : Buckets \cup {NoBucket}]
JournalLine == [account : Accounts, side : {"DEBIT", "CREDIT"}, amount : Amounts]

\* Every row stays within its columns' ranges: in particular no total passes
\* MaxWide and no version MaxVersion.
TypeOK ==
  /\ owner \in [Accounts -> Owners \cup {NoOwner}]
  /\ balance \in [Accounts -> Balance]
  /\ control \in [ControlKeys -> Control]
  /\ claim \in [Payments -> Claim]
  /\ hold \in [Holds -> Hold]
  /\ usage \in [Owners \X Buckets -> Usage]
  /\ receipts \in [Ops -> Operation]
  /\ journal \in [Ops -> SUBSET JournalLine]
  /\ evidence \in [EvidenceIds -> Evidence \cup {NoEvidence}]

\* No sequence of commands overdraws an account: what is posted covers what is
\* held, on wallets, provider pools and fee income alike, and fee income is
\* never held (the CHECKs of account_balances never have to fire).
NeverOverdrawn ==
  \A a \in Accounts : /\ balance[a].held <= Posted(a, balance[a])
                      /\ a \in FeeAccounts => balance[a].held = 0

JournalTotal(a, side) ==
  SumFunction([x \in Ops |-> SideTotal({l \in journal[x] : l.account = a}, side)])

HoldsOn(a) == {h \in Holds : Outstanding(h) /\ hold[h].reserve.terms.source = a}
HoldsFrom(a) == {h \in Holds : Outstanding(h) /\ hold[h].reserve.pool = a}
HeldOn(a) == SumFunction([h \in HoldsOn(a) |-> HoldTotal(h)])
             + SumFunction([h \in HoldsFrom(a) |-> hold[h].reserve.terms.principal])

\* The running balances are what the append-only history says they are: debits
\* and credits sum the journal lines of the account, held sums the holds not
\* yet resolved (total on the source, principal on the pool).
BalancesMatchHistory ==
  \A a \in Accounts :
    /\ balance[a].debits = JournalTotal(a, "DEBIT")
    /\ balance[a].credits = JournalTotal(a, "CREDIT")
    /\ balance[a].held = HeldOn(a)

AdmittedOn(o, b, states) ==
  {h \in Holds : hold[h].state \in states /\ hold[h].owner = o /\ hold[h].bucket = b}
TransfersOn(o, b) ==
  {x \in Ops : /\ receipts[x].outcome = "APPLIED" /\ receipts[x].request \in Transfers
               /\ receipts[x].bucket = b /\ owner[receipts[x].request.terms.source] = o}
HoldPrincipals(S) == SumFunction([h \in S |-> hold[h].reserve.terms.principal])
TransferPrincipals(S) == SumFunction([x \in S |-> receipts[x].request.terms.principal])

\* A daily limit row counts the outstanding holds admitted on that day as
\* reserved, and the captured ones and the transfers of that day as consumed,
\* whenever they were resolved.
UsageMatchesHistory ==
  \A o \in Owners, b \in Buckets :
    /\ usage[<<o, b>>].reserved = HoldPrincipals(AdmittedOn(o, b, {"RESERVED", "EXPOSED"}))
    /\ usage[<<o, b>>].consumed = HoldPrincipals(AdmittedOn(o, b, {"CAPTURED"}))
                                  + TransferPrincipals(TransfersOn(o, b))

PostedOn(S) == SumFunction([a \in S |-> Posted(a, balance[a])])
AvailableOn(S) == SumFunction([a \in S |-> Available(a, balance[a])])

\* Money is only moved: what the provider pools hold is what wallets and fee
\* income are owed, and what the pools can still pay out covers everything that
\* is still spendable (so a payout is never refused for want of provider funds).
Backed ==
  /\ PostedOn(Pools) = PostedOn(Accounts \ Pools)
  /\ AvailableOn(Pools) >= AvailableOn(Accounts \ Pools)

PaymentOf(r) == IF r \in Transfers \cup Reserves THEN r.terms.payment ELSE r.ref.payment
AppliedFor(p, kinds) ==
  {x \in Ops : /\ receipts[x].outcome = "APPLIED"
               /\ receipts[x].request \in kinds
               /\ PaymentOf(receipts[x].request) = p}

\* A payment is executed at most once, under however many operation ids it is
\* sent: one admission at most is applied, one journal at most is posted, and a
\* payment whose first admission was rejected never moves money.
OneExecutionPerPayment ==
  \A p \in Payments :
    LET admissions == AppliedFor(p, Transfers \cup Reserves)
        settlements == AppliedFor(p, Transfers \cup Captures \cup Releases)
    IN  /\ Cardinality(admissions) <= 1 /\ Cardinality(settlements) <= 1
        /\ admissions # {} => claim[p].admission \in admissions
        /\ claim[p].state \in {"ABSENT", "REJECTED"} => admissions \cup settlements = {}

\* The business claim and the hold tell one story: a hold's payment is claimed by
\* that hold in the same state, and a claim that names a hold is that hold's.
HoldClaimAgreement ==
  /\ \A h \in Holds : hold[h].state # "ABSENT" =>
       LET p == hold[h].reserve.terms.payment
       IN  claim[p].hold = h /\ claim[p].state = hold[h].state
  /\ \A p \in Payments : claim[p].hold # NoHold =>
       /\ hold[claim[p].hold].state # "ABSENT"
       /\ hold[claim[p].hold].reserve.terms.payment = p

\* A hold that was exposed to the provider is settled only on recorded, genuine
\* evidence about that attempt: success to capture, fenced failure to release.
SettledOnEvidence ==
  \A h \in Holds :
    LET exposed == \E x \in Ops : /\ receipts[x].outcome = "APPLIED"
                                  /\ receipts[x].request \in Exposes
                                  /\ receipts[x].request.ref.hold = h
        proved(final) == \E e \in EvidenceIds :
                           /\ evidence[e] # NoEvidence
                           /\ evidence[e].final = final /\ evidence[e].genuine
                           /\ evidence[e].hold = h
                           /\ evidence[e].attempt = hold[h].reserve.attempt
                           /\ final = "FINAL_FAILURE" => evidence[e].fenced
    IN  /\ hold[h].state = "CAPTURED" => exposed /\ proved("FINAL_SUCCESS")
        /\ hold[h].state = "RELEASED" /\ exposed => proved("FINAL_FAILURE")
        /\ hold[h].state = "RESERVED" => ~exposed

\* No command ever meets ErrIntegrity: the rows it needs exist and agree, and
\* every outstanding hold can still be captured or released, whatever has been
\* frozen, capped, revoked or spent meanwhile and however close the totals are
\* to their numeric limits.
NoIntegrityFault ==
  /\ \A r \in Transfers, now \in Times : TransferVerdict(r, now) # "ErrIntegrity"
  /\ \A r \in Reserves, now \in Times : ReserveVerdict(r, now) # "ErrIntegrity"
  /\ \A r \in Exposes, now \in Times : ExposeVerdict(r, now, TRUE) # "ErrIntegrity"
  /\ \A r \in Captures \cup Releases : RefVerdict(r) # "ErrIntegrity"
  /\ \A h \in Holds, capture \in BOOLEAN : Outstanding(h) => ~ResolveFaults(h, capture)

Outflow(a) == balance[a].debits + balance[a].held

\* Once a freeze is committed nothing more leaves the wallet: its debits and holds
\* together do not grow, and none of its holds is exposed to the provider.
FreezeStopsOutflow ==
  [][\A a \in Accounts : Exists(a) /\ Purpose(a) = "WALLET"
         /\ (SubjectControl(a).debitFrozen \/ AccountControl(a).debitFrozen) =>
       /\ Outflow(a)' <= Outflow(a)
       /\ \A h \in Holds : /\ hold'[h].state = "EXPOSED"
                            /\ hold'[h].reserve.terms.source = a
                              => hold[h].state = "EXPOSED"]_vars

DayTotal(o, b) == usage[<<o, b>>].reserved + usage[<<o, b>>].consumed

\* A day's reserved and consumed principal grows only to the owner's current cap
\* (lowering the cap below it is allowed, spending more then is not), and no
\* resolution raises it.
CapBindsAdmission ==
  [][\A o \in Owners, b \in Buckets :
       DayTotal(o, b)' > DayTotal(o, b) =>
         /\ DayTotal(o, b)' <= control[<<"SUBJECT", o>>].dailyCap
         /\ \E p \in Payments : claim[p].state = "ABSENT" /\ claim'[p].state # "ABSENT"]_vars

\* The grant of a reservation has been revoked, on its owner or on its source account.
GrantRevoked(h) ==
  LET t == hold[h].reserve.terms
  IN  \/ t.grant.subjectEpoch # control[<<"SUBJECT", hold[h].owner>>].epoch
      \/ t.grant.accountEpoch # control[<<"ACCOUNT", t.source>>].epoch

\* A reservation whose grant was revoked through either control, its owner's or its
\* source account's, is never exposed: from then on it can only stay reserved or be
\* released, for epochs never go back.
RevokedNeverExposed ==
  \A h \in Holds :
    [](hold[h].state = "RESERVED" /\ GrantRevoked(h)
       => [](hold[h].state \in {"RESERVED", "RELEASED"}))

\* History is append-only: a recorded receipt, its journal and recorded evidence
\* never change, a payment keeps its first admission, and a hold that was captured
\* or released stays so, with the terms it was admitted with.
HistoryIsImmutable ==
  [][/\ \A x \in Ops : receipts[x].outcome # "NONE" =>
          receipts'[x] = receipts[x] /\ journal'[x] = journal[x]
     /\ \A e \in EvidenceIds : evidence[e] # NoEvidence => evidence'[e] = evidence[e]
     /\ \A p \in Payments : claim[p].state # "ABSENT" =>
          claim'[p].admission = claim[p].admission /\ claim'[p].hold = claim[p].hold
     /\ \A h \in Holds :
          /\ hold[h].state # "ABSENT" => /\ hold'[h].reserve = hold[h].reserve
                                         /\ hold'[h].bucket = hold[h].bucket
          /\ hold[h].state \in {"CAPTURED", "RELEASED"} => hold'[h] = hold[h]]_vars

DealOf(terms, payee) ==
  [source |-> terms.source, payee |-> payee, principal |-> terms.principal, fee |-> terms.fee,
   feeAccount |-> Policies[terms.policy].feeAccount]
Promise ==
  INSTANCE Escrow WITH
    Deals <- {DealOf(r.terms, r.terms.beneficiary) :
                r \in {x \in Transfers : x.terms.policy \in DOMAIN Policies}}
             \cup {DealOf(r.terms, r.pool) :
                     r \in {x \in Reserves : x.terms.policy \in DOMAIN Policies}},
    NoDeal <- NoRequest,
    status <- [p \in Payments |-> claim[p].state],
    deal <- [p \in Payments |->
               IF claim[p].hold = NoHold THEN NoRequest
               ELSE DealOf(hold[claim[p].hold].reserve.terms, hold[claim[p].hold].reserve.pool)],
    spendable <- [a \in Accounts |-> Available(a, balance[a])]

\* The Ledger keeps its promise: seen through the claims and what is available on
\* each account, every committed command is one step of Escrow, or none.  Freezes,
\* caps, grants, expiry and evidence may refuse or delay a step; they never make
\* one that takes, returns or pays out other than what the payment's deal says.
KeepsPromise == Promise!Spec
=============================================================================
