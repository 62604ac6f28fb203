------------------------------- MODULE Audit --------------------------------
(***************************************************************************)
(* The Ledger together with the histories its plans write (save.go), the   *)
(* snapshot of a book (snapshot.go) and the verifier that reads it.        *)
(*                                                                         *)
(* Every row a command changes leaves an event with the row before and     *)
(* after it, under the operation's id and the row's new version.  The      *)
(* export reads all tables in one read-only SERIALIZABLE transaction, so a *)
(* snapshot is the book at one cut: Snapshot is the current state.         *)
(***************************************************************************)
EXTENDS Ledger

CONSTANT Micro      \* the resolution of TIMESTAMPTZ, in the units of Times
ASSUME MicroAssumption == Micro \in Nat \ {0}

\* Journals have no empty lines, and the fixture's is a journal.
ASSUME FundingAssumption == Funding > 0

VARIABLES
  accountEvents, controlEvents, holdEvents, limitEvents,
  recordedAt        \* recorded_at of the receipts of transfers

events == <<accountEvents, controlEvents, holdEvents, limitEvents>>
auditVars == <<vars, events, recordedAt>>

V == INSTANCE Verify

-----------------------------------------------------------------------------
(***************************************************************************)
(* Save.  A change is a row whose version moved; an insert has no before.  *)
(***************************************************************************)
Event(key, version, op, before, after) ==
  [key |-> key, version |-> version, op |-> op, before |-> before, after |-> after]

Changes(old, new, op) ==
  {Event(k, new[k].version, op, IF old[k].version = 0 THEN {} ELSE {old[k]}, new[k]) :
     k \in {x \in DOMAIN old : old[x] # new[x]}}

\* The columns of holds and the JSON of an application.Hold: its terms do not
\* change, its expiry is as precise as where it was read from.
FixedTerms(h, row) ==
  [id |-> h, terms |-> row.reserve.terms, owner |-> row.owner, attempt |-> row.reserve.attempt,
   pool |-> row.reserve.pool, feeAccount |-> Policies[row.reserve.terms.policy].feeAccount,
   bucket |-> row.bucket]
HoldBody(h, row, expiry) ==
  [terms |-> FixedTerms(h, row), state |-> row.state, version |-> row.version,
   expiresAt |-> expiry]

HoldChanges(old, new, op) ==
  {LET stored == V!Truncate(new[h].reserve.expiresAt)
   IN  IF old[h].version = 0
       THEN Event(h, 1, op, {}, HoldBody(h, new[h], new[h].reserve.expiresAt))
       ELSE Event(h, new[h].version, op, {HoldBody(h, old[h], stored)},
                  HoldBody(h, new[h], stored)) :
   h \in {x \in Holds : old[x] # new[x]}}

Save(op) ==
  /\ accountEvents' = accountEvents \cup Changes(balance, balance', op)
  /\ controlEvents' = controlEvents \cup Changes(control, control', op)
  /\ holdEvents' = holdEvents \cup HoldChanges(hold, hold', op)
  /\ limitEvents' = limitEvents \cup Changes(usage, usage', op)

Untimed(op) == Save(op) /\ UNCHANGED recordedAt

AuditInit ==
  /\ Init
  /\ accountEvents = {Event(a, 1, FixtureOp, {}, balance[a]) : a \in {x \in Accounts : Exists(x)}}
  /\ controlEvents = {Event(k, 1, FixtureOp, {}, control[k]) :
                        k \in {x \in ControlKeys : control[x].version = 1}}
  /\ holdEvents = {} /\ limitEvents = {}
  /\ recordedAt = [o \in Ops |-> NoBucket]

AuditNext ==
  \/ \E r \in Creates : CreateAccount(r) /\ Untimed(r.op)
  \/ \E r \in SetControls : SetAccountControl(r) /\ Untimed(r.op)
  \/ \E r \in Transfers, now \in Times :
       /\ TransferInternal(r, now)
       /\ recordedAt' = [recordedAt EXCEPT ![r.op] = now]
       /\ Save(r.op)
  \/ \E r \in Reserves, now \in Times : ReservePayout(r, now) /\ Untimed(r.op)
  \/ \E r \in Exposes, now \in Times, known \in BOOLEAN :
       MarkHoldExposed(r, now, known) /\ Untimed(r.op)
  \/ \E r \in Captures, now \in Times : CapturePayout(r, now) /\ Untimed(r.op)
  \/ \E r \in Releases, now \in Times : ReleasePayout(r, now) /\ Untimed(r.op)

AuditSpec == AuditInit /\ [][AuditNext]_auditVars

-----------------------------------------------------------------------------
(***************************************************************************)
(* The export.  A row exists when its version, owner or state says so; an  *)
(* optional id is a set of at most one.  A journal has the id of the       *)
(* operation that posted it, a fact that of the operation it reports.      *)
(***************************************************************************)
Recorded == {o \in Ops : receipts[o].outcome # "NONE"}
JournalId(o) == IF journal[o] = {} THEN {} ELSE {o}

\* Command.Material, of which the request hash is taken: the instruction without the
\* operation it came under and who sent it.  (It leaves signatures out as well; the
\* grant of an admission that was recorded is genuine.)
Instruction(r) == [f \in DOMAIN r \ {"op", "caller"} |-> r[f]]
Material(o) ==
  IF o = FixtureOp THEN [kind |-> "FIXTURE_FUND", units |-> Funding]
                   ELSE Instruction(receipts[o].request)

EvidenceKept(o) ==
  LET r == receipts[o]
  IN  IF /\ o # FixtureOp /\ r.request \in Captures \cup Releases
         /\ r.request.evidence # NoEvidence
         /\ r.outcome = "APPLIED" \/ r.reason = "STATE_CONFLICT"
      THEN {r.request.evidence.id} ELSE {}

\* The parts of Execute's receipt that the verifier reads.
ReceiptBody(o) ==
  LET r == Material(o)
      admission == r.kind \in {"TRANSFER_INTERNAL", "RESERVE_PAYOUT"}
      onHold == r.kind \in {"MARK_HOLD_EXPOSED", "CAPTURE_PAYOUT", "RELEASE_PAYOUT"}
  IN  [op |-> o, kind |-> r.kind, hash |-> r, outcome |-> receipts[o].outcome,
       payment |-> IF admission THEN {r.terms.payment} ELSE IF onHold THEN {r.ref.payment} ELSE {},
       hold |-> IF r.kind = "RESERVE_PAYOUT" THEN {r.hold} ELSE IF onHold THEN {r.ref.hold} ELSE {},
       policy |-> IF admission THEN {r.terms.policy} \cap DOMAIN Policies
                  ELSE IF onHold THEN {hold[r.ref.hold].reserve.terms.policy} ELSE {},
       journal |-> JournalId(o), evidence |-> EvidenceKept(o),
       recordedAt |-> recordedAt[o], event |-> o]

Snapshot ==
  [accounts |-> [a \in {x \in Accounts : Exists(x)} |->
                   [owner |-> owner[a], purpose |-> Purpose(a)]],
   policies |-> Policies,
   balances |-> [a \in {x \in Accounts : balance[x].version > 0} |->
                   [purpose |-> Purpose(a), debits |-> balance[a].debits,
                    credits |-> balance[a].credits, held |-> balance[a].held,
                    version |-> balance[a].version]],
   controls |-> [k \in {x \in ControlKeys : control[x].version > 0} |-> control[k]],
   claims |-> [p \in {x \in Payments : claim[x].state # "ABSENT"} |->
                 [admission |-> claim[p].admission, hold |-> claim[p].hold,
                  outcome |-> IF claim[p].state = "REJECTED" THEN "REJECTED" ELSE "APPLIED",
                  material |-> Material(claim[p].admission),
                  state |-> claim[p].state, result |-> claim[p].result]],
   holds |-> [h \in {x \in Holds : hold[x].state # "ABSENT"} |->
                [payment |-> hold[h].reserve.terms.payment, attempt |-> hold[h].reserve.attempt,
                 terms |-> FixedTerms(h, hold[h]), state |-> hold[h].state,
                 version |-> hold[h].version]],
   usage |-> [k \in {x \in Owners \X Buckets : usage[x].version > 0} |-> usage[k]],
   journals |-> [o \in {x \in Ops : journal[x] # {}} |->
                   [op |-> o, template |-> Material(o).kind,
                    digest |-> {[account |-> l.account, side |-> l.side, units |-> l.amount] :
                                  l \in journal[o]}]],
   lines |-> UNION {{[journal |-> o, account |-> l.account, side |-> l.side, units |-> l.amount] :
                       l \in journal[o]} : o \in Ops},
   accountEvents |-> accountEvents, controlEvents |-> controlEvents,
   holdEvents |-> holdEvents, limitEvents |-> limitEvents,
   evidence |-> [e \in {x \in EvidenceIds : evidence[x] # NoEvidence} |->
                   [digest |-> evidence[e], body |-> evidence[e]]],
   operations |-> [o \in Recorded |->
                     [material |-> Material(o), hash |-> Material(o),
                      outcome |-> receipts[o].outcome, receipt |-> ReceiptBody(o)]],
   facts |-> [o \in Recorded |-> [op |-> o, body |-> ReceiptBody(o)]]]

-----------------------------------------------------------------------------
(***************************************************************************)
(* Damage to a snapshot.  Each operator is the set of snapshots that       *)
(* differ from s in one respect; the manifest is taken to be recomputed,   *)
(* as in snapshot_test.go.  A damaged journal comes with a matching        *)
(* digest, a damaged receipt with a matching fact.                         *)
(***************************************************************************)
Without(f, x) == [y \in DOMAIN f \ {x} |-> f[y]]
With(f, x, row) == [y \in DOMAIN f \cup {x} |-> IF y = x THEN row ELSE f[y]]
Replaced(S, x, y) == (S \ {x}) \cup {y}
Redigested(s, j) == [s EXCEPT !.journals[j].digest = V!Entries(s, j)]
Rerecorded(s, o, receipt) ==
  [s EXCEPT !.operations[o].receipt = receipt, !.facts[o].body = receipt]

\* Policies the verifier has reason to look up: of the holds and the posted transfers.
UsedPolicies(s) ==
  {V!HoldTerms(s, h).policy : h \in DOMAIN s.holds}
  \cup {s.operations[o].material.terms.policy : o \in V!TransfersIn(s)}

MissingRows(s) ==
  {[s EXCEPT !.accounts = Without(@, a)] : a \in DOMAIN s.accounts}
  \cup {[s EXCEPT !.policies = Without(@, p)] : p \in UsedPolicies(s)}
  \cup {[s EXCEPT !.balances = Without(@, a)] : a \in DOMAIN s.balances}
  \cup {[s EXCEPT !.controls = Without(@, k)] : k \in DOMAIN s.controls}
  \cup {[s EXCEPT !.claims = Without(@, p)] : p \in DOMAIN s.claims}
  \cup {[s EXCEPT !.holds = Without(@, h)] : h \in DOMAIN s.holds}
  \cup {[s EXCEPT !.usage = Without(@, k)] : k \in DOMAIN s.usage}
  \cup {[s EXCEPT !.journals = Without(@, j)] : j \in DOMAIN s.journals}
  \cup {[s EXCEPT !.lines = @ \ {l}] : l \in s.lines}
  \cup {Redigested([s EXCEPT !.lines = @ \ {l}], l.journal) : l \in s.lines}
  \cup {[s EXCEPT !.accountEvents = @ \ {e}] : e \in s.accountEvents}
  \cup {[s EXCEPT !.controlEvents = @ \ {e}] : e \in s.controlEvents}
  \cup {[s EXCEPT !.holdEvents = @ \ {e}] : e \in s.holdEvents}
  \cup {[s EXCEPT !.limitEvents = @ \ {e}] : e \in s.limitEvents}
  \cup {[s EXCEPT !.evidence = Without(@, e)] : e \in DOMAIN s.evidence}
  \cup {[s EXCEPT !.operations = Without(@, o)] : o \in DOMAIN s.operations}
  \cup {[s EXCEPT !.facts = Without(@, f)] : f \in DOMAIN s.facts}

\* One line moves to another account, or one more unit goes through a journal,
\* which the running balances and their histories then agree with.
Redirected(s) ==
  UNION {{Redigested([s EXCEPT !.lines = Replaced(@, l, [l EXCEPT !.account = a])], l.journal) :
            a \in DOMAIN s.accounts \ {l.account}} : l \in s.lines}
Inflated(s) ==
  {LET more(x) == [x EXCEPT !.units = @ + 1]
       inflated == {pair[1], pair[2]}
       j == pair[1].journal
       side(a, d) == IF \E x \in inflated : x.account = a /\ x.side = d THEN 1 ELSE 0
       raise(b, a) == [b EXCEPT !.debits = @ + side(a, "DEBIT"),
                                !.credits = @ + side(a, "CREDIT")]
   IN  Redigested([s EXCEPT
         !.lines = (@ \ inflated) \cup {more(x) : x \in inflated},
         !.balances = [a \in DOMAIN @ |-> raise(@[a], a)],
         !.accountEvents = {IF e.op = j THEN [e EXCEPT !.after = raise(@, e.key)] ELSE e :
                              e \in @}], j) :
   pair \in {x \in s.lines \X s.lines : /\ x[1].journal = x[2].journal
                                        /\ x[1].side = "DEBIT" /\ x[2].side = "CREDIT"}}

\* One column of a row is off by one or holds another state, or a whole journal is
\* there a second time.
AlteredBalances(s) ==
  UNION {{[s EXCEPT !.balances[a].debits = @ + 1], [s EXCEPT !.balances[a].credits = @ + 1],
          [s EXCEPT !.balances[a].held = @ + 1], [s EXCEPT !.balances[a].version = @ + 1]} :
         a \in DOMAIN s.balances}
AlteredUsage(s) ==
  UNION {{[s EXCEPT !.usage[k].reserved = @ + 1], [s EXCEPT !.usage[k].consumed = @ + 1]} :
         k \in DOMAIN s.usage}
AlteredHolds(s) ==
  {[s EXCEPT !.holds[h].terms.terms.principal = @ + 1] : h \in DOMAIN s.holds}
  \cup {[s EXCEPT !.holds[x[1]].state = x[2]] :
          x \in {y \in (DOMAIN s.holds) \X {"RESERVED", "EXPOSED", "CAPTURED", "RELEASED"} :
                   s.holds[y[1]].state # y[2]}}
Reposted(s) ==
  {[s EXCEPT !.journals = With(@, NoOp, s.journals[j]),
             !.lines = @ \cup {[l EXCEPT !.journal = NoOp] : l \in V!LinesOf(s, j)}] :
   j \in DOMAIN s.journals}

AlteredMoney(s) ==
  AlteredBalances(s) \cup AlteredUsage(s) \cup AlteredHolds(s)
  \cup Reposted(s) \cup Redirected(s) \cup Inflated(s)

\* An applied operation turns into a rejected one, or a rejected one that would
\* have moved or reserved money into an applied one.
Reversed(s) ==
  {LET other == IF s.operations[o].outcome = "APPLIED" THEN "REJECTED" ELSE "APPLIED"
   IN  Rerecorded([s EXCEPT !.operations[o].outcome = other], o,
                  [s.operations[o].receipt EXCEPT !.outcome = other]) :
   o \in {x \in DOMAIN s.operations :
            /\ s.operations[x].outcome = "APPLIED"
               \/ s.operations[x].receipt.kind \in
                    {"TRANSFER_INTERNAL", "RESERVE_PAYOUT", "CAPTURE_PAYOUT"}}}

\* An outcome the schema does not know, a fact told of another operation, a payment
\* claimed for another admission, or evidence of another amount.
Reworded(s) ==
  {[s EXCEPT !.operations[o].outcome = "UNKNOWN"] : o \in DOMAIN s.operations}
Retold(s) ==
  UNION {{[s EXCEPT !.facts[x[1]].op = x[2]], [s EXCEPT !.facts[x[1]].body.op = x[2]]} :
         x \in {y \in (DOMAIN s.facts) \X (DOMAIN s.operations) : y[1] # y[2]}}
SameRefusal(s, p, o) ==    \* o refused the instruction whose refusal the claim records
  /\ s.claims[p].outcome = "REJECTED" /\ s.operations[o].outcome = "REJECTED"
  /\ s.operations[o].hash = s.claims[p].material
Reclaimed(s) ==
  {[s EXCEPT !.claims[x[1]].admission = x[2]] :
   x \in {y \in (DOMAIN s.claims) \X (DOMAIN s.operations) :
            s.claims[y[1]].admission # y[2] /\ ~SameRefusal(s, y[1], y[2])}}
Forged(s) ==
  {[s EXCEPT !.evidence[e].body.principal = @ + 1] : e \in DOMAIN s.evidence}

\* The controls in force, and one step of a history.
AlteredControls(s) ==
  UNION {{[s EXCEPT !.controls[k].dailyCap = @ + 1], [s EXCEPT !.controls[k].epoch = @ + 1],
          [s EXCEPT !.controls[k].debitFrozen = ~@], [s EXCEPT !.controls[k].creditFrozen = ~@]} :
         k \in DOMAIN s.controls}
AlteredHistory(s) ==
  {[s EXCEPT !.controlEvents = Replaced(@, e, [e EXCEPT !.after.epoch = @ + 1])] :
     e \in s.controlEvents}
  \cup {[s EXCEPT !.accountEvents = Replaced(@, e, [e EXCEPT !.after.held = @ + 1])] :
          e \in s.accountEvents}
  \cup {[s EXCEPT !.limitEvents = Replaced(@, e, [e EXCEPT !.after.consumed = @ + 1])] :
          e \in s.limitEvents}
  \cup {[s EXCEPT !.holdEvents = Replaced(@, e, [e EXCEPT !.after.terms.terms.fee = @ + 1])] :
          e \in s.holdEvents}

AlteredRecords(s) ==
  Reversed(s) \cup Reworded(s) \cup Retold(s) \cup Reclaimed(s) \cup Forged(s)
  \cup AlteredControls(s) \cup AlteredHistory(s)

-----------------------------------------------------------------------------
(***************************************************************************)
(* Properties.                                                             *)
(***************************************************************************)

\* The verifier raises no false alarm: whatever commands a book has seen, in
\* whatever order and at whatever clock readings, its snapshot verifies.  The two
\* sides are written independently (the verifier shares no code with the Ledger),
\* so this says that they agree on what the book must look like.
VerifierAccepts == V!Valid(Snapshot)

\* Nothing that a snapshot rests on can go missing unnoticed: without any one row of
\* any table it no longer verifies.  Of the posting policies this is said of those that
\* a hold or a posted transfer uses: the verifier only looks policies up, so one that
\* nothing used yet can vanish.
MissingRowReported == \A s \in MissingRows(Snapshot) : ~V!Valid(s)

\* No amount can be changed unnoticed: not a running total, not a limit, not a
\* hold, and not a journal, even when its digest, the balances and their histories
\* are all changed to agree with it.
AlteredMoneyReported == \A s \in AlteredMoney(Snapshot) : ~V!Valid(s)

\* Nor can what was decided: that an operation was applied, or that a transfer, a
\* reservation or a capture was rejected, each with its fact; which admission claimed
\* the payment, except that two refusals of one instruction can stand for each other;
\* the evidence, the controls in force or any step of a history.
AlteredRecordReported == \A s \in AlteredRecords(Snapshot) : ~V!Valid(s)
=============================================================================
