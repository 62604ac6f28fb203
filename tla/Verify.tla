------------------------------- MODULE Verify -------------------------------
(***************************************************************************)
(* The reconciliation service's snapshot verifier (verify/snapshot.go): a  *)
(* second, independent account of what a book must look like, computed     *)
(* from an exported snapshot alone.  Nothing here refers to the Ledger's   *)
(* modules, as the package imports none of its code.                       *)
(*                                                                         *)
(* A snapshot s is a record of tables.  A table with an identity is a      *)
(* function from it to the row; journal lines, and the four histories, are *)
(* sets of rows.  A digest stands for the value it is taken of, an id that *)
(* may be missing for the set of it, a JSON body for the record it         *)
(* encodes.  Left out: the manifest (row counts and digests of whole       *)
(* tables), line ordinals and the textual form of numbers.                 *)
(*                                                                         *)
(* ExactEqual, FactIfAny, PostsToAccounts and SameCapAndFlags are defects  *)
(* of the definitions they stand before, and are used by nothing.          *)
(***************************************************************************)
EXTENDS Integers, FiniteSets, Functions

CONSTANTS DayLength, ZoneOffset,  \* a Nairobi day and its offset from UTC
          MaxAmount,              \* 2^63-1
          Micro                   \* what a TIMESTAMPTZ resolves of a JSON time

Total(terms) == terms.principal + terms.fee

JournalsOf(s, o) == {j \in DOMAIN s.journals : s.journals[j].op = o}
LinesOf(s, j) == {l \in s.lines : l.journal = j /\ l.account \in DOMAIN s.accounts}
Entry(l) == [account |-> l.account, side |-> l.side, units |-> l.units]
Entries(s, j) == {Entry(l) : l \in LinesOf(s, j)}
Has(s, a, purpose) == a \in DOMAIN s.accounts /\ s.accounts[a].purpose = purpose
Applied(s, o) == o \in DOMAIN s.operations /\ s.operations[o].outcome = "APPLIED"

-----------------------------------------------------------------------------
(***************************************************************************)
(* Operations, their facts, claims and journals.                           *)
(***************************************************************************)
BadAccounts(s) ==
  \E a \in DOMAIN s.accounts :
    s.accounts[a].purpose \notin {"WALLET", "PROVIDER_POOL", "FEE_INCOME"}

OrphanJournals(s) ==
  \/ \E j \in DOMAIN s.journals : s.journals[j].op \notin DOMAIN s.operations
  \/ \E o \in DOMAIN s.operations : Cardinality(JournalsOf(s, o)) > 1

OrphanFacts(s) ==
  \/ \E f \in DOMAIN s.facts : s.facts[f].op \notin DOMAIN s.operations
  \/ \E f, g \in DOMAIN s.facts : f # g /\ s.facts[f].op = s.facts[g].op

AdmissionUnclaimed(s, o) ==
  LET op == s.operations[o]
      p == op.material.terms.payment
  IN  /\ op.receipt.kind \in {"TRANSFER_INTERNAL", "RESERVE_PAYOUT"}
      /\ \/ p \notin DOMAIN s.claims
         \/ op.receipt.payment # {p}
         \/ op.outcome = "APPLIED" /\ s.claims[p].admission # o

FactIfAny(s, o) ==
  \A f \in DOMAIN s.facts : s.facts[f].op = o => s.facts[f].body = s.operations[o].receipt
HasFact(s, o) ==
  LET r == s.operations[o].receipt
  IN  \E f \in DOMAIN s.facts : f = r.event /\ s.facts[f].op = o /\ s.facts[f].body = r

BadOperation(s, o) ==
  LET op == s.operations[o]
      r == op.receipt
  IN  \/ op.hash # op.material
      \/ op.material.kind # r.kind
      \/ r.op # o \/ r.hash # op.hash \/ r.outcome # op.outcome
      \/ ~HasFact(s, o)
      \/ r.journal # JournalsOf(s, o)
      \/ \E j \in r.journal \cap DOMAIN s.journals :
           op.outcome # "APPLIED" \/ s.journals[j].template # r.kind
      \/ op.outcome \notin {"APPLIED", "REJECTED"}
      \/ AdmissionUnclaimed(s, o)

BadLine(s, l) ==
  \/ l.journal \notin DOMAIN s.journals \/ l.account \notin DOMAIN s.accounts
  \/ l.units <= 0 \/ l.units > MaxAmount
  \/ l.side \notin {"DEBIT", "CREDIT"}

SumOfSide(entries, side) == SumFunction([e \in {d \in entries : d.side = side} |-> e.units])
BadJournal(s, j) ==
  LET entries == Entries(s, j)
  IN  \/ \E d, e \in entries : d # e /\ d.account = e.account
      \/ Cardinality(entries) \notin 2 .. 8
      \/ SumOfSide(entries, "DEBIT") # SumOfSide(entries, "CREDIT")
      \/ entries # s.journals[j].digest

-----------------------------------------------------------------------------
(***************************************************************************)
(* Holds, claims and what they and the journals add up to.                 *)
(***************************************************************************)
Outstanding == {"RESERVED", "EXPOSED"}

BadHold(s, h) ==
  LET row == s.holds[h]
      fixed == row.terms
      t == fixed.terms
  IN  \/ fixed.id # h \/ fixed.attempt # row.attempt \/ t.payment # row.payment
      \/ ~Has(s, t.source, "WALLET") \/ ~Has(s, fixed.pool, "PROVIDER_POOL")
      \/ s.accounts[t.source].owner # fixed.owner
      \/ t.principal <= 0 \/ Total(t) > MaxAmount
      \/ t.policy \notin DOMAIN s.policies
      \/ s.policies[t.policy].pool # fixed.pool
      \/ s.policies[t.policy].feeAccount # fixed.feeAccount
      \/ s.policies[t.policy].fee # t.fee
      \/ row.payment \notin DOMAIN s.claims
      \/ s.claims[row.payment].hold # h \/ s.claims[row.payment].state # row.state
      \/ row.state \notin Outstanding \cup {"CAPTURED", "RELEASED"}

HoldsIn(s, states) == {h \in DOMAIN s.holds : s.holds[h].state \in states}
HoldTerms(s, h) == s.holds[h].terms.terms
LimitKey(s, h) == <<s.holds[h].terms.owner, s.holds[h].terms.bucket>>

\* Nairobi's calendar day of a receipt's recorded_at.
DayOf(time) == (time + ZoneOffset) \div DayLength
TransfersIn(s) == {o \in DOMAIN s.operations : /\ s.operations[o].outcome = "APPLIED"
                                               /\ s.operations[o].receipt.kind = "TRANSFER_INTERNAL"}
TransferKey(s, o) ==
  LET op == s.operations[o]
      source == op.material.terms.source
  IN  <<IF source \in DOMAIN s.accounts THEN s.accounts[source].owner ELSE "",
        DayOf(op.receipt.recordedAt)>>

BadClaim(s, p) ==
  LET c == s.claims[p]
  IN  \/ c.admission \notin DOMAIN s.operations \/ c.result \notin DOMAIN s.operations
      \/ s.operations[c.admission].outcome # c.outcome
      \/ s.operations[c.admission].hash # c.material
      \/ s.operations[c.admission].receipt.payment # {p}
      \/ s.operations[c.result].receipt.payment # {p}

SideTotal(s, a, side) ==
  LET posted == {l \in s.lines : /\ l.journal \in DOMAIN s.journals
                                 /\ l.account = a /\ l.side = side}
  IN  SumFunction([l \in posted |-> l.units])
HeldTotal(s, a) ==
  LET open == {h \in HoldsIn(s, Outstanding) :
                 /\ HoldTerms(s, h).source \in DOMAIN s.accounts
                 /\ s.holds[h].terms.pool \in DOMAIN s.accounts}
      on == {h \in open : HoldTerms(s, h).source = a}
      from == {h \in open : s.holds[h].terms.pool = a}
  IN  SumFunction([h \in on |-> Total(HoldTerms(s, h))])
      + SumFunction([h \in from |-> HoldTerms(s, h).principal])

BadBalance(s, a) ==
  LET b == s.balances[a]
      debits == SideTotal(s, a, "DEBIT")
      credits == SideTotal(s, a, "CREDIT")
      posted == IF Has(s, a, "PROVIDER_POOL") THEN debits - credits ELSE credits - debits
  IN  \/ a \notin DOMAIN s.balances
      \/ b.purpose # s.accounts[a].purpose
      \/ b.debits # debits \/ b.credits # credits \/ b.held # HeldTotal(s, a)
      \/ posted < HeldTotal(s, a)

HoldsOf(s, k, states) == {h \in HoldsIn(s, states) : LimitKey(s, h) = k}
TransfersOf(s, k) == {o \in TransfersIn(s) : TransferKey(s, o) = k}
Principals(s, holds) == SumFunction([h \in holds |-> HoldTerms(s, h).principal])
Reserved(s, k) == Principals(s, HoldsOf(s, k, Outstanding))
Consumed(s, k) ==
  Principals(s, HoldsOf(s, k, {"CAPTURED"}))
  + SumFunction([o \in TransfersOf(s, k) |-> s.operations[o].material.terms.principal])
BadUsage(s) ==
  \/ \E k \in DOMAIN s.usage : \/ s.usage[k].reserved # Reserved(s, k)
                               \/ s.usage[k].consumed # Consumed(s, k)
  \/ \E h \in HoldsIn(s, Outstanding \cup {"CAPTURED"}) : LimitKey(s, h) \notin DOMAIN s.usage
  \/ \E o \in TransfersIn(s) : TransferKey(s, o) \notin DOMAIN s.usage

-----------------------------------------------------------------------------
(***************************************************************************)
(* Histories: the events of one row, [key, version, op, before, after],    *)
(* must be an unbroken chain that ends in the row itself.                  *)
(***************************************************************************)
Truncate(time) == (time \div Micro) * Micro

\* A column keeps microseconds of an expiry, the event body all of it.
ExactEqual(before, prior) == before = {prior}
HistoryEqual(before, prior) ==
  LET normalize(row) == IF "expiresAt" \in DOMAIN row
                        THEN [row EXCEPT !.expiresAt = Truncate(@)] ELSE row
  IN  {normalize(row) : row \in before} = {normalize(prior)}

EventsOf(events, key) == {e \in events : e.key = key}
OrphanHistory(s, events, current) ==
  \E e \in events : e.key \notin DOMAIN current \/ ~Applied(s, e.op)

BrokenHistory(events, key, version) ==
  LET rows == EventsOf(events, key)
      n == Cardinality(rows)
  IN  \/ n = 0 \/ version # n
      \/ {e.version : e \in rows} # 1 .. n
      \/ \E e \in rows :
           \/ e.after.version # e.version
           \/ e.version = 1 /\ e.before # {}
           \/ \E d \in rows : d.version = e.version - 1 /\ ~HistoryEqual(e.before, d.after)

SameTotals(tip, row) == /\ tip.debits = row.debits /\ tip.credits = row.credits
                        /\ tip.held = row.held
SameCapAndFlags(tip, row) == /\ tip.dailyCap = row.dailyCap
                             /\ tip.debitFrozen = row.debitFrozen
                             /\ tip.creditFrozen = row.creditFrozen
SameControl(tip, row) == /\ tip.dailyCap = row.dailyCap /\ tip.epoch = row.epoch
                         /\ tip.debitFrozen = row.debitFrozen
                         /\ tip.creditFrozen = row.creditFrozen
SameHold(tip, row) == tip.state = row.state /\ tip.terms = row.terms
SameUsage(tip, row) == tip.reserved = row.reserved /\ tip.consumed = row.consumed

\* The newest state a history has is the row's.
SameAsTip(table, tip, row) ==
  CASE table = "account_events" -> SameTotals(tip, row)
    [] table = "control_events" -> SameControl(tip, row)
    [] table = "hold_events" -> SameHold(tip, row)
    [] table = "limit_events" -> SameUsage(tip, row)

BadHistories(s, table, events, current) ==
  \/ OrphanHistory(s, events, current)
  \/ \E k \in DOMAIN current :
       \/ BrokenHistory(events, k, current[k].version)
       \/ \E e \in EventsOf(events, k) : /\ \A d \in EventsOf(events, k) : d.version <= e.version
                                       /\ ~SameAsTip(table, e.after, current[k])

HoldMoves == {<<"RESERVED", "EXPOSED">>, <<"RESERVED", "RELEASED">>,
              <<"EXPOSED", "CAPTURED">>, <<"EXPOSED", "RELEASED">>}
BadHoldMoves(s) ==
  \E e \in s.holdEvents :
    \/ e.version = 1 /\ e.after.state # "RESERVED"
    \/ \E d \in EventsOf(s.holdEvents, e.key) :
         /\ d.version = e.version - 1
         /\ <<d.after.state, e.after.state>> \notin HoldMoves \/ d.after.terms # e.after.terms

-----------------------------------------------------------------------------
(***************************************************************************)
(* Templates: what each applied operation may have posted, and why.        *)
(***************************************************************************)
BadEvidence(s, o) ==
  LET r == s.operations[o].receipt
  IN  \E e \in r.evidence :
        \/ e \notin DOMAIN s.evidence
        \/ LET proof == s.evidence[e].body
           IN  \/ proof.id # e \/ {proof.payment} # r.payment \/ {proof.hold} # r.hold

Expected(terms, payee, feeAccount) ==
  {e \in {[account |-> terms.source, side |-> "DEBIT", units |-> Total(terms)],
          [account |-> payee, side |-> "CREDIT", units |-> terms.principal],
          [account |-> feeAccount, side |-> "CREDIT", units |-> terms.fee]} : e.units > 0}
PostsToAccounts(s, r, terms, payee, feeAccount) ==
  \E j \in r.journal \cap DOMAIN s.journals :
    {e.account : e \in Entries(s, j)}
      = {e.account : e \in Expected(terms, payee, feeAccount)}
Posts(s, r, terms, payee, feeAccount) ==
  /\ {terms.source, payee, feeAccount} \subseteq DOMAIN s.accounts
  /\ terms.fee > 0 => payee # feeAccount
  /\ \E j \in r.journal \cap DOMAIN s.journals :
       Entries(s, j) = Expected(terms, payee, feeAccount)

TransferFits(s, op) ==
  LET t == op.material.terms
  IN  /\ t.policy \in DOMAIN s.policies /\ s.policies[t.policy].fee = t.fee
      /\ op.receipt.policy = {t.policy}
      /\ Posts(s, op.receipt, t, t.beneficiary, s.policies[t.policy].feeAccount)

CaptureFits(s, op) ==
  \E h \in op.receipt.hold \cap DOMAIN s.holds, e \in op.receipt.evidence \cap DOMAIN s.evidence :
    LET fixed == s.holds[h].terms
        proof == s.evidence[e].body
    IN  /\ s.holds[h].state = "CAPTURED"
        /\ proof.final = "FINAL_SUCCESS" /\ proof.routed /\ proof.attempt = s.holds[h].attempt
        /\ proof.principal = fixed.terms.principal
        /\ proof.beneficiary = fixed.terms.beneficiary
        /\ Posts(s, op.receipt, fixed.terms, fixed.pool, fixed.feeAccount)

FixtureFits(s, op) ==
  LET entries == UNION {Entries(s, j) : j \in op.receipt.journal}
  IN  /\ Cardinality(entries) = 2
      /\ \A e \in entries :
           /\ e.units = op.material.units
           /\ \/ Has(s, e.account, "WALLET") /\ e.side = "CREDIT"
              \/ Has(s, e.account, "PROVIDER_POOL") /\ e.side = "DEBIT"

NonPosting == {"CREATE_ACCOUNT", "SET_ACCOUNT_CONTROL", "RESERVE_PAYOUT",
               "MARK_HOLD_EXPOSED", "RELEASE_PAYOUT"}
TemplateMismatch(s, o) ==
  LET op == s.operations[o]
      kind == op.receipt.kind
  IN  /\ op.outcome = "APPLIED"
      /\ ~ \/ kind = "TRANSFER_INTERNAL" /\ TransferFits(s, op)
           \/ kind = "CAPTURE_PAYOUT" /\ CaptureFits(s, op)
           \/ kind = "FIXTURE_FUND" /\ FixtureFits(s, op)
           \/ kind \in NonPosting /\ op.receipt.journal = {}

-----------------------------------------------------------------------------
Report(problem, found) == IF found THEN {problem} ELSE {}

\* Verify: the report's list of problems, one per part of the check.
Problems(s) ==
  Report("account", BadAccounts(s))
  \cup Report("journal without operation", OrphanJournals(s))
  \cup Report("orphan fact", OrphanFacts(s))
  \cup Report("operation", \E o \in DOMAIN s.operations : BadOperation(s, o))
  \cup Report("journal line", \E l \in s.lines : BadLine(s, l))
  \cup Report("journal", \E j \in DOMAIN s.journals : BadJournal(s, j))
  \cup Report("hold", \E h \in DOMAIN s.holds : BadHold(s, h))
  \cup Report("claim", \E p \in DOMAIN s.claims : BadClaim(s, p))
  \cup Report("balance", \/ \E a \in DOMAIN s.accounts : BadBalance(s, a)
                         \/ DOMAIN s.balances # DOMAIN s.accounts)
  \cup Report("usage", BadUsage(s))
  \cup Report("account history", BadHistories(s, "account_events", s.accountEvents, s.balances))
  \cup Report("control history", BadHistories(s, "control_events", s.controlEvents, s.controls))
  \cup Report("hold history", \/ BadHistories(s, "hold_events", s.holdEvents, s.holds)
                              \/ BadHoldMoves(s))
  \cup Report("limit history", BadHistories(s, "limit_events", s.limitEvents, s.usage))
  \cup Report("evidence", \/ \E e \in DOMAIN s.evidence : s.evidence[e].digest # s.evidence[e].body
                          \/ \E o \in DOMAIN s.operations : BadEvidence(s, o))
  \cup Report("template", \E o \in DOMAIN s.operations : TemplateMismatch(s, o))

\* ledger-verify exits 0 exactly when the report is empty.
Valid(s) == Problems(s) = {}
=============================================================================
