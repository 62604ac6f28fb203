# Pesaro ledger: TLA+ specifications

Pesaro is a set of Go services around a double-entry ledger.  Two of them carry
state today: the **Ledger**, which decides financial commands against a
CockroachDB book, and **Reconciliation**, which mirrors the Ledger's facts and
verifies its exported history.  The other services are scaffolds that serve
health endpoints.  This directory models the Ledger's decisions, the concurrency
of its transactions, the delivery of its facts to Reconciliation, the audit of an
exported book, the life of a Ledger process, and the setting up of the databases.

## 1. Inventory

| Component | State | Operations | What makes it correct |
|---|---|---|---|
| Ledger application (`application/`) | none of its own; one transaction per `Execute` | seven commands: create account, set control, internal transfer, reserve / expose / capture / release a payout | a payment runs once; controls, limits and grants bind; every durable rejection leaves no effect but its receipt (and claim) |
| Ledger domain (`domain/`) | values: totals, journals, holds, usage, versions | posting, reserving, hold transitions, limit accounting | totals stay in range, journals balance, nothing is overdrawn |
| Ledger rows (`store/cockroach/read.go`, `save.go`, schema, fixture) | accounts, balances, controls, claims, holds, limit rows, receipts, journals, evidence, `*_events` | `Load`, `Save`, `BootstrapSynthetic` | running totals agree with the append-only history; rows are locked in one order |
| `Transact` (`store.go`) | an open transaction and its attempt | begin, retry, commit, answer | an answer other than "unknown" is final; every call is answered |
| Ledger outbox (`outbox.go`) | `outbox_facts`, `outbox_delivery`, `outbox_routes` | bind, claim under a lease, acknowledge | a fact is delivered to one consumer and retired only when it has been recorded there |
| Publisher (`publisher/`) | book in turn, burst, claimed row | `Run` | no book starves another; a crash loses nothing |
| Runtime (`app/runtime.go`) | the store, two servers, a publisher, a drain deadline | `Open`, `Serve`, `Close`, `/readyz` | it ends in time, and the store outlives its users |
| Event transport (`eventtransport/`, `contracts/events`) | requests on the wire | `Send` | only 204 acknowledges |
| Reconciliation inbox (`inbox/store.go`, `app/events.go`) | `event_inbox`, `ledger_operations` | `Accept` | idempotent; a copy of the Ledger's facts |
| Snapshot and verification (`store/cockroach/snapshot.go`, `verify/`) | none | export at one cut; a pure check of it | accepts every honest book, reports every damaged one |
| Administration (`Migrate`, `GrantRuntime`, `Ready`, `ledger-admin`, `reconciliation-admin`) | tables, `schema_migrations`, privileges | migrate, grant, fixture | a half-made schema is never taken for a whole one; repeating completes it |
| gRPC transport and security, configuration, generated code, scaffolds, tools | none that the core depends on | decoding, TLS, validation | - |

**Interaction.**  A gRPC request becomes a `Command` with a `Caller`.
`Service.Execute` passes a closure to `Store.Transact`, which runs it in a
SERIALIZABLE transaction, again on 40001 and 23505, at most eight times.  The
closure looks for an existing receipt, calls `Load`, evaluates, and calls `Save`,
which also writes the outbox row.  `publisher.Run` claims outbox rows and posts
them over mTLS; the handler of Reconciliation stores event and projection in one
transaction of its own database and answers after its COMMIT.

**What is hard.**  Holds span days and commands, so a hold is resolved against
rows that other commands, freezes and caps have changed since; a lost COMMIT reply
leaves an outcome open while the client tries again; absent rows cannot be locked;
leases expire while requests are in flight; any process may die between two calls;
the verifier is written apart from the Ledger and must still agree with it to the
last row; a process stops with calls, probes and deliveries under way.
`PROJECT.json` lists each hazard at its line with the properties aimed at it.

## 2. Modules

| Module | Models |
|---|---|
| `Ledger` | what one committed `Execute` does to a book |
| `Escrow` | the abstract promise about payments that `Ledger` implements |
| `Transact` | concurrent `Execute` calls, statement by statement |
| `Delivery` | outbox, publisher, transport and inbox |
| `Mirror` | the abstract promise `Delivery` implements |
| `Verify` | the verifier, as an operator on a snapshot |
| `Audit` | `Ledger` with its `*_events` histories, the export, and `Verify` on it |
| `Runtime` | one Ledger process from `Open` to `Close` |
| `Setup` | migrations, grants and fixture, and a service that starts meanwhile |
| `LedgerProofs`, `LedgerControlProofs`, `LedgerMoneyProofs` | theorems about `Ledger`, each module on top of the one before |
| `AuditProofs` | theorems about `Audit`, on top of those |
| `TransactProofs`, `DeliveryProofs`, `RuntimeProofs`, `SetupProofs` | theorems about the module each is named after |
| `MCLedger`, `MCTransact`, `MCDelivery`, `MCAudit`, `MCRuntime`, `MCSetup` | small instances for TLC |

A definition named after a defect (`IgnoringHolds`, `SourceFirst`, `SkipExpired`,
...) is a mutation of the definition that follows it.  It is used by nothing; it
stands in for that definition when one asks whether a property would notice.

### Ledger

Each variable is a table (`owner` = accounts, `balance`, `control`, `claim`,
`hold`, `usage`, `receipts`, `journal`, `evidence`); an absent row is a record with
version 0 or state `ABSENT`.  Each command is one action, atomic because its
transaction is SERIALIZABLE.  The action computes a *verdict* (`CreateVerdict`,
`AdmitVerdict`, `TransferVerdict`, `ReserveVerdict`, `ExposeVerdict`, ...) whose
tests stand in the order of `evaluate.go`: `APPLIED`, a reason that is recorded as
a durable rejection, or a technical error that aborts.  Aborts and replays change
nothing and are stuttering steps.  The clock is an input of every step, since each
process reads its own.  Amounts, totals and versions are bounded by constants
(2^63-1, 10^38-1 and 2^63-1 in the code), so that the numeric limits are reached in
small instances.  Signatures and digests are the field `genuine` of a grant or of
evidence and equality of records; `routed` says that evidence names the provider account
and the capability of its hold.  Init is the book `BootstrapSynthetic` leaves.

`Escrow` says what all this is for, in terms of payments and of what each account can
still spend: a payment is decided once; a transfer moves its deal; a payout sets it
aside on the wallet and on the pool, and is then paid out or given back, whole.
`Promise` in `Ledger` maps claims to payments, holds to deals and `Available` to what is
spendable; `KeepsPromise` is that specification.

### Transact

A call passes through the phases of the closure: `Operation`, `LockClaim`,
`DiscoverHold`, `ReadAccounts`, `Load`, `Evaluate`, `Save`, then `Commit`,
`CommitRefused` (40001), `CommitRolledBack`, or `CommitUnanswered` followed by
`Settle`, in which the database commits or not after the caller was told
`ErrUnknown`.  Rows are keys; `ControlOrder`, `LockOrder` and `SaveOrder` are the
sequences `Load` and `Save` go through.  The calls are finitely many, and none of
their operations has a receipt at first.  What the rows contain is left to `Ledger`:
`Evaluate` may return any verdict the rows found and missing allow.  The database
is external: a statement waits for rows written or locked by others, absent rows
are not locked, an INSERT of a row that appeared meanwhile is a 23505, and calls
that wait in a circle are aborted one by one.  Read validation at COMMIT is left
out, so the properties of this module do not lean on it.  `Ledger` does: its atomic
actions take SERIALIZABLE isolation from the database.

### Delivery and Mirror

A process is `down`, `binding`, `claiming`, `claimed`, `sending`, `waiting` (the
request was delivered but its answer was not heard) or `acking`.  `Commit` is the
outbox part of a Ledger transaction; `Unrecorded` is the uniqueness of the receipt,
which makes two tries of one operation, each with its own event id, leave one
fact.  A request may arrive after its sender gave up (`late`), an acknowledgement
may take effect after its sender gave up (`acks`), a process may crash anywhere,
and `Tick` lets leases and deadlines run.  `Mirror` says what this is for: facts are
recorded once per operation, observed only if recorded, retired only if observed.

### Verify and Audit

`Verify` follows `verify/snapshot.go` and nothing else, as that package imports nothing
of the Ledger.  A snapshot is a record of tables; each check of the code is an operator
(`BadOperation`, `BadJournal`, `BadHold`, `BadBalance`, `BadUsage`, `BadHistories`,
`TemplateMismatch`, ...), and `Valid` is an empty list of problems.  `Audit` conjoins to
every command of `Ledger` what its `Save` writes to the four history tables, and
`Snapshot` is the export.  The export reads in one read-only SERIALIZABLE transaction,
so it is a function of one state.  This matters: a snapshot pieced together from two
states would not always be noticed.  A request hash is the instruction (`Instruction`),
without the operation id and the caller, so two operations may have the same one, as in
`Command.Material`.  An expiry in the hold row is cut to microseconds
(`Micro`), that in the first event is not.

`MissingRows`, `AlteredMoney` and `AlteredRecords` are the damaged snapshots of the
`tamper` run, each with its manifest and digests recomputed.  They are what the
verifier does report.  It does not, and does not claim to, report:
- a posting policy that is missing but that no hold and no posted transfer uses, as
  policies are only looked up (`snapshot.go:347`, `:570`; `UsedPolicies`);
- a claim whose admission is moved from one refusal of an instruction to another of the
  same instruction: the claim is compared by outcome, request hash and payment
  (`snapshot.go:386`), in which the two agree (`SameRefusal`);
- a rejected command that posts nothing and claims nothing (creating an account, setting a
  control, an exposure, a release) turned into an applied one;
- a row rolled back together with the last event of its history, where nothing else
  depends on it (a control, or the exposure of a hold with its claim);
- the state of a transfer's claim; a claim's result moved to another operation of the
  same payment; the owner of an account without holds or transfers; the expiry column.

The single row of `books`, read before anything else is exported, is not a table of the
model.

### Runtime

`main` is where `runConfigured` and `Serve` are: `open`, `listen`, `serve`, `select`,
`webDrain`, `rpcDrain`, `forced`, `collect`, `stopWorker`, `close`, `done`.  Beside it run
handlers, probes, the publisher, two accept loops and the goroutine in `GracefulStop`.
`stopped` and `completed` are the results in the channel and those taken from it.  The
behaviour of grpc and net/http is external and stated in the module's header.  Time is
counted in seconds: 2 for a probe's query, 5 for the drain.  That the first is shorter
is an assumption of the module and needed: a probe that saw `serving` just before it was
cleared is over before `Shutdown` can give up on it.

### Setup

A run of an administration command is a sequence of statements (`Script`), each a
transaction of its own: tables of a migration, its version row, the check of its
checksum, revocations, grants.  Runs overlap, fail with or without the effect of their
last statement, and are repeated.  A service passes `Ready` (`PassReady`) when its role
can read what that reads, and a Ledger with an outbox then binds its consumer (`Bind`).
`service` says which of the two databases it is.  A Ledger *without* an outbox, and the
inbox, may pass their checks before the last grants.  Until these arrive the Ledger
answers commands with an integrity error (a refused statement is SQLSTATE 42501, which
`store.go:199` turns into `ErrIntegrity`) and the inbox answers events with 503.  Both roll
back first, so nothing is recorded or lost, and `PublisherHasItsRights` is stated for the
configuration whose start waits for the grants.

## 3. Runs

| Run | Instance | Distinct states | Shows |
|---|---|---|---|
| `payout` | two payouts and a transfer exhaust one wallet; every way to resolve the first hold; a freeze, a revocation on the owner or on the account, a lower cap | 90,634 | the Ledger implements `Escrow`; balances, usage, claims and holds agree with the history; controls bind |
| `spend` | transfers and a payout over shared payments, funds and a daily cap; an account created meanwhile | 53,128 | one execution per payment, the cap binds, money stays backed |
| `limits` | `MaxWide` = 10 = the funding; a success and a failure under one evidence id, a failure that is not fenced under another | 22,500 | nothing overflows, no command meets `ErrIntegrity`, exposed holds settle only on evidence that fits, the first evidence under an id stands |
| `contention` | transfers in both directions for one payment and a capture, 2 attempts each | 154,297 | a circle of waits needs a missing row; one transfer is applied at most |
| `opening` | the first account of an owner opened by two operations, paid into and its owner frozen, 1 attempt each | 163,895 | the account is opened once |
| `retry` | one operation sent twice and once with another body, 2 attempts each | 88,199 | answers are final, attempts are bounded, every call is answered |
| `handover` | two processes, two consumers, two tries of one operation, one crash | 238,288 | no fact is lost, doubled or sent to the wrong consumer |
| `drain` | one process, a refused and an accepted book, one crash | 25,812 | delivery implements `Mirror`; accepted facts are delivered |
| `verify` | two payouts, two transfers, an account created, a control changed, on both sides of midnight | 38,796 | the verifier accepts every reachable book |
| `tamper` | a payout, one transfer under two operation ids and a changed control; some hundred damaged snapshots per state | 1,585 | the verifier reports every one of them |
| `wind_down` | two calls, two probes, a publisher; cancellation and failing listeners | 166,856 | the process ends, store last, no call cut short, nothing left running |
| `setup` | two overlapping runs on either database, three failures, a service starting | 42,243 | no half-made schema or half-revoked role is served; repeating completes |

**Bounds.**  In the Ledger runs every request has its own operation id and is
decided once, in any order and at any of the clock readings; the run ends when all
are decided, which is why deadlock is not an error there.  The time unit is three
hours, so a day is 8, the Nairobi offset 1, and readings 6 and 7 lie on the two
sides of a Nairobi midnight: a hold admitted at 6 and resolved at 7 crosses it.
Two holds and three payments are enough for two commands to compete for each
shared row while a third disturbs it.  The Transact runs end when all calls are
answered.  Three calls are the fewest that can form a circle of waits around a
missing claim (one inserts it, one locks it, one still believes it missing); two
attempts let a call meet the rows of its own earlier rivals, and eight would add
more of the same.  In the Delivery runs a lease of 2 and a deadline of 1 are the
tightest the options allow (`ValidOptions`), one crash may strike any step, and a
burst of 1 or 2 replaces 16; these runs have no final state and check deadlock.
The Audit runs are Ledger runs; `Micro` is 2, so that an expiry at 7 is one the column
cannot keep.  `tamper` is smaller because each state stands for hundreds of snapshots;
single changes are enough for what it asks.  Two calls and two probes let one hang
while the other is served; the deadlines are the code's own; the process may stop, so
deadlock is no error.  Two administrators and three failures (`MaxFaults`) let each of
them fail and one fail twice; groups of tables that are created and granted together
are one table.

**Missing rows.**  `CirclesNeedAMissingRow` is the precise form of the lock order
that `read.go:112` describes.  Claims, controls, holds, limit rows and balances
that exist are locked in one order and cannot deadlock.  A claim that was missing
is inserted near the end of `Save`; if another call has inserted it and a third has
locked it meanwhile, the third may wait for the hold the first has written.  The
comment leaves that case to the database, which aborts one of them, and
`EveryCallAnswered` shows that the retry loop then still ends in an answer.

**Fairness.**  Safety runs assume none.  `Transact`: weak fairness of the steps a
call or the database can take; a transaction that can go on does (the calls are
synchronous, with deadlines), circles are broken and commits in doubt are settled
by CockroachDB.  No fairness makes a transaction succeed.  `Delivery`: weak fairness
of the steps of a process, of time, of restarts (the deployment restarts a dead
process) and of an acknowledgement already at the database; strong fairness, per
event, of claiming it and, while the lease is held, of posting, delivering and
acknowledging it.  That says that a network and a database which are tried
infinitely often do not fail every time; without it no retry loop delivers anything.
`Runtime`: weak fairness of every goroutine that can go on and of time; a handler need
return only once it was cancelled, and a client need never read what it is sent.
`Setup`: a run goes on to its end, and the operator repeats a run that failed; failures
are bounded.

## 4. Proofs

The theorems hold for every value of the constants that satisfies the assumptions:
any accounts, requests, clock readings and numeric limits, any number of calls,
processes, books, consumers, probes, overlapping runs, crashes and failures.

| Module | Theorem | Statement: `Spec =>` |
|---|---|---|
| `LedgerProofs` | `LedgerInvariant` | `[]LedgerInv` |
| | `LedgerTypeOK` | `[]TypeOK`: no total or version leaves its range |
| | `AccountsNeverOverdrawn` | `[]NeverOverdrawn` |
| | `HoldsAndClaimsAgree` | `[]HoldClaimAgreement` |
| | `HistoryNeverRewritten` | `HistoryIsImmutable` |
| | `PaymentsExecuteOnce` | `[]OneExecutionPerPayment` |
| | `SettlementNeedsEvidence` | `[]SettledOnEvidence` |
| `LedgerControlProofs` | `BookInvariant` | `[]BookInv` |
| | `FreezeHolds` | `FreezeStopsOutflow` |
| | `RevocationIsFinal` | `RevokedNeverExposed` |
| | `CapHolds` | `CapBindsAdmission` |
| | `LedgerKeepsPromise` | `KeepsPromise`: the Ledger implements `Escrow` |
| `LedgerMoneyProofs` | `BalancesAreHistory` | `[]BalancesMatchHistory` |
| | `UsageIsHistory` | `[]UsageMatchesHistory` |
| | `BookIsBacked` | `[](FullyBacked /\ Backed)` |
| | `CountsHold` | `[]CountInv` |
| | `CommandsNeverFault` | `[](Cardinality(OnRecord) < MaxVersion => NoIntegrityFault)` |
| `AuditProofs` | `HistoriesUnbroken` | `[](RecordedBook /\ HistoryInv)` (of `AuditSpec`) |
| | `VerifierNeverAlarms` | `[]VerifierAccepts` (of `AuditSpec`) |
| | `VerifierMissesNoRow` | `[]MissingRowReported` (of `AuditSpec`) |
| | `VerifierMissesNoAmount` | `[]AlteredMoneyReported` (of `AuditSpec`) |
| | `VerifierMissesNoRecord` | `[]AlteredRecordReported` (of `AuditSpec`) |
| `TransactProofs` | `TransactInvariant` | `[]TransactInv` |
| | `TransactTypeCorrect` | `[]TypeOK` |
| | `AnswersNeverChange` | `[]AnswersAreFinal` |
| | `RowsInsertedOnce` | `[]InsertedOnce` |
| | `ExistingRowsNeverDeadlock` | `[]CirclesNeedAMissingRow` |
| `DeliveryProofs` | `DeliveryInvariant` | `[]DeliveryInv` |
| | `DeliveryTypeCorrect` | `[]TypeOK` |
| | `BooksHaveOneConsumer` | `[]OneConsumerPerBook` |
| | `ProjectionMirrorsFacts` | `[]ProjectionMatchesFacts` |
| | `NothingDeliveredIsLost` | `[]DeliveredIsProjected` |
| | `DeliveryImplementsMirror` | `ImplementsMirror` |
| `RuntimeProofs` | `RuntimeInvariant` | `[]RuntimeInv` |
| | `StoreClosedLast` | `[]StoreOutlivesUsers` |
| | `ServeLeavesNothing` | `[]NothingLeftRunning` |
| | `CallsAreDrained` | `CallsGetTheirGrace` |
| `SetupProofs` | `SetupInvariant` | `[]SetupInv` |
| | `ReadyMeansWhole` | `[]ReadySchemaIsWhole` |
| | `RuntimeNeverCreates` | `[]RuntimeCannotCreate` |
| | `PublisherIsGranted` | `[]PublisherHasItsRights` |

**Assumptions.**  TLC evaluates all of them in every run of the module.
- `Ledger`: `BoundsAssumption` (limits are naturals, the funding fits them),
  `IdAssumption` (pools, fee accounts and the funded wallet are distinct and exist in the
  fixture), `PolicyAssumption` (a policy names a pool and a fee account, as the fixture's
  do), `FiniteAssumption` (account, hold and operation ids are UUIDs, so finitely many: a
  sum over them exists) and `RequestAssumption` (requests have their shape; evidence goes with
  `FINAL_FAILURE`, as `Validate` demands).
- `Audit`: `MicroAssumption` (a column resolves time in some positive unit) and
  `FundingAssumption` (the fixture's funding, 100,000 in the code, is not zero: its journal
  would have empty lines, which the verifier rightly reports).
- `Transact`: `TransactAssumption` (account ids and owners are numbers, as the order of
  their identifiers makes them; commands have their shape; the calls are finitely many;
  no operation of theirs is recorded at first; at least one attempt).
- `Delivery`: `DeliveryAssumption` (a lease of at least two deadlines, as
  `Options.Defaults` demands; a burst of at least one; at least one book).
- `Runtime`: `TimesAssumption` (the probe's deadline is the shorter), and in `Runtime`
  and `Setup` that publishing is on or off; `FaultsAssumption` (failures are a number).

**The Ledger.**  `LedgerInv` is `TypeOK /\ NeverOverdrawn /\ HoldsWellFormed /\
HoldClaimAgreement`.  `NeverOverdrawn` is not inductive by itself: a capture lowers
`held` and posts, and only `HoldsWellFormed` (a hold in the book carries a reserve
request whose source is a wallet, whose pool is a provider pool and whose owner is
known) says which balances it does that to, so that a debit meets a wallet and a
credit a pool.  The claim agreement needs the hold's terms in the same way.  Each
command has one lemma that it keeps `LedgerInv` (`...Keeps`), resting on lemmas about
posting, reserving, resolving and updating one row; a rejection, which writes a
receipt and perhaps a claim, is shared by all of them.

`OneExecutionPerPayment` counts receipts, so `ExecutionInv` says where each applied
receipt is to be found: an admission is its claim's `admission`, a settlement its
`result`; two receipts of one payment then name the same one.  `SettledOnEvidence`
reads the present state of a hold and asks about its past; `SettlementInv` keeps the
past: a hold is or was exposed exactly when an applied `MarkHoldExposed` says so, and it
leaves that state only with its proof recorded.  `BookInv` adds to `LedgerInv` that
accounts have their controls, that absent ones carry no money, and that a hold belongs
to the owner of its source, with a grant that was never ahead of the epochs of that owner
and of that account (`Owned`).  The last is what makes a revocation final, whichever of the
two controls it came through: epochs only grow, so a grant that is stale stays so.

**Sums.**  The totals of the book are folds (`SumFunction`), whose recursive function runs
over the subsets of the set summed.  That such a function exists for every finite set, and
that the sum is any one member's share plus the sum over the others, is shown without
induction: among the subsets for which it failed there would be one of least cardinality,
and removing a member from it gives a smaller one (`SmallestSet`, `CanUnroll`, `SumRest`).
From there on one lemma does the work, `SumChange`: where only some members' shares change,
the sum changes by theirs.

Every step of the Ledger has one of a few *shapes* (`NextShape`): it leaves the rows that
count alone, transfers, reserves, captures or releases, each named by what it does to
totals, journal, holds and limit rows.  `BalancesMatchHistory`, `UsageMatchesHistory` and
`Backed` are then kept shape by shape.  They need to know more than they say: an
operation without a receipt has no journal (`JournalsRecorded`), so that posting one only
adds to the sums; an applied transfer names an existing account (`TransfersOwned`), so that
the owner it is counted under does not change; and `FullyBacked` says by how much the pools
can pay out more than is spendable, namely by the fees of the outstanding holds (held on
the wallet, not on the pool), that what is owed never exceeds the funding, and that fee
income is never debited: with the fees a sum of naturals, both halves of `Backed` follow.

**No ErrIntegrity.**  What a resolution needs is that the hold's share is still in `held`
and in its day's `reserved` (a member of a sum of naturals is at most the sum), that the
posting stays in range (the debit is covered by what is held; the fee account has room
because all that is owed fits the funding), and that each row has a next version.  The
last is a matter of counting: `CountInv` bounds every version by the number of operations
on record, for no command moves a row's version twice.  So the theorem is conditional on that number
being below `MaxVersion`, 2^63-1 in the code; that is the honest statement, since a row at
its last version does abort a capture with ErrIntegrity.  It is a hypothesis about the
state, not an assumption on the constants, and every state of the runs satisfies it.

**The audit.**  The verifier reads only a snapshot, so the proof first says what the rows of
a book tell about its past, then shows part by part that this is what the verifier asks.
`HistoriesUnbroken` is the first half.  `RecordInv` ties the rows together: an applied
transfer has exactly the journal of its terms, at the fee of its policy, between accounts
that exist, and its day has a limit row; an applied capture has the journal of its hold
and kept evidence of that payout; nothing else posted; a claim's admission and result are
receipts about that payment; evidence that a receipt names is in its table.  `HistoryInv`
is about the four history tables: the events of a row are a chain (`Chained`), versions 1
to n without gap or double, each from where the one before ended, the last the row as it
is, each by an applied operation, and no event is of a row that does not exist.  It is
kept because `Save` writes an event for exactly the rows a command changes and each of
these takes its next version (`Advances`).  Holds have a chain of their own
(`HoldChained`): the first body has the expiry of the request, the others the truncated
one, and cutting it twice changes nothing (`TruncateTwice`), which is why `historyEqual`
may compare truncated bodies.  `Timed` says that a transfer was counted on the Nairobi day
of its `recorded_at`, which is what the verifier recomputes.

The second half has one lemma for each of the sixteen parts of the report
(`OperationsPass`, `JournalsPass`, `HoldsPass`, `BalancesPass`, `UsagePasses`,
`HistoriesPass`, `TemplatesPass`, ...).  Where the two sides add up differently, the
Ledger's history by operation and the verifier by journal line, `SumReindex` moves a sum to
other indices: a valid journal has one line per account at most.

The three theorems about damage turn this round.  A snapshot that verifies is in order in
every part (`Clean`, `ValidSays`), so for each kind of damage it is enough to name one part
that is not, and what the undamaged book says of that part is known: it verifies
(`BookClean`).  A row of a table with a history leaves its events behind; an event leaves a
gap, or the next one starts elsewhere, or the row is not its last (`EventMissing`,
`StepAltered`, `TermsAltered`); a running total is not the sum any more, because the lines
and holds it is the sum of are the same (`BalanceAltered`, `UsageAltered`); a journal whose
lines, digest, balances and histories were all raised by one no longer posts what the
operation's material asks for (`DebitFixed`, `LineInflated`).  A claim moved to another
admission leaves the true one without its claim if that one was applied; if it was
rejected, the two differ in outcome, in hash or in payment, `SameRefusal` apart
(`ClaimMoved`).  Two more invariants are
needed.  `OriginInv`: evidence is there because some receipt names it.  `MarkInv`: an
applied command that posts nothing and admits nothing (an account, a control, an exposure,
a release) wrote an event, so it cannot be turned into a rejected one; and events hold
whole rows.

**Escrow.**  `Status`, `Deal` and `Spendable` in `LedgerControlProofs` are the state of `Escrow`
under the refinement mapping.  The initial book maps to its initial state, and each
command, in each outcome, to one step: a rejection to `Refuse` or to none, a transfer
to `Pay`, a reservation to `SetAside`, an exposure to `Expose`, a capture to `PayOut`, a
release to `GiveBack`; opening an account and changing a control are stuttering steps.

**Transact.**  `TransactInv` has three parts.  `SharedFits` is what the database's locks
give: what one open transaction has written or locked no other has written, and a
receipt is there together with the rows its command inserted.  `AnswerFits` follows one
transaction from the missing receipt to COMMIT: what it inserts it has found missing,
and since it has written it nobody else can have inserted it meanwhile.  From these two
follow `InsertedOnce` and, because a client is told a receipt only after COMMIT and an
error only when nothing was or will be committed, `AnswersAreFinal`.  `LocksFit` is the
lock order: what a transaction still has to lock lies above all it has locked
(`Below`: claim, owner controls, account controls, hold, limit row, balances, each
kind in ascending order), and what it saves it has locked or has found missing, the
evidence, which is next to last, apart.  In a circle in which nobody inserts a missing
row, nobody is saving, so everybody waits for a lock of somebody whose own next lock is
higher; a finite set has a last such call, a contradiction.  `Sorted` chooses the
ascending enumeration of a set of accounts; that there is one for every finite set
(`CanBeSorted`) is shown by taking a least counterexample, which the well-foundedness
of inclusion on finite sets provides.

**Delivery.**  `DeliveryInv`: a process beyond binding serves books bound to its consumer,
and one about to acknowledge holds an event that is in that consumer's inbox
(`WorkerFits`); so are acknowledgements still on the wire, and requests on the wire go
where the book is bound (`WireFits`); inbox and projection have the same committed
facts (`InboxFits`), committed once per operation (`OnceCommitted`); what is retired is
in the inbox (`DeliveredFits`).  Commits, bindings and inbox rows only grow, so facts
about them outlive the crash of the process that established them.  The refinement of
`Mirror` goes action by action; most steps leave the mirrored state alone.

**Runtime.**  `RuntimeInv` says what may still be alive at each point of `Serve`
(`ServersFit`), that no handler runs once `GracefulStop` is done (`CallsFit`), and that a
probe still querying has less time left than the drain (`ProbesFit`), which is why
`Shutdown` never gives up on one.

**Setup.**  `SetupInv`: all statements a run has passed are done (`Done`), and stay done
whatever the others do: nothing is dropped, and a right that is granted is never one
that is revoked.  The last statement of each kind, the version recorded, readable, the
routes writable, then stands for all before it (`DatabaseFits`).

**Only model-checked.**
Liveness is out of the prover's reach: `EveryCallAnswered`,
`EveryFactDelivered`, `WindsDown`, `SetupCompletes`.  Every invariant and every action
property of the runs is stated by a theorem.

## 5. Not modelled

- gRPC decoding, status codes and TLS identities (`transport/`), configuration
  (`app/config.go`), command line flags and connection strings: functions of one input
  that keep no state.  What they produce (a caller with permissions and subjects, a set
  of books, a consumer) is an input or a constant of the modules.
- JSON, canonical bytes, signatures and digests as such; the manifest of a snapshot, line
  ordinals, and the bounds on the size of an export, which fail it as a whole.
- `GetOperation` and `GetBalance`, which only read one row.
- The listener of Reconciliation (`runEvents`): it shuts its server down like `Serve` does
  its own, but without waiting for handlers once its drain deadline has passed; to the
  inbox that is the crash of `Delivery`, at any point of `Accept`.
- Builds with different migration texts against one database; only one is in the
  repository.
- Generated code, the other services' scaffolds, repository tooling.

`PROVIDER_CAPACITY_EXCEEDED` is modelled but cannot happen with the fixture's single
pool, which is what the second part of `Backed` says.  In `Transact` the commands are of
one day and one policy, and a fee is charged.  That a committed receipt has one fact is
in `Delivery` the guard `Unrecorded`, which `InsertedOnce` of `Transact` justifies: both
rows are inserted in one transaction, under keys no second call can insert again.

## 6. Plan

1. `Ledger`, `Delivery`, `Mirror`, `Transact`, and the theorems of section 4: done.
2. `Verify` and `Audit`, `Runtime`, `Setup`, `Escrow` and its refinement: done.
3. Theorems about `Ledger` and its refinement of `Escrow`, about `Transact`, `Delivery`
   and its refinement of `Mirror`, `Runtime` and `Setup`: done.
4. The sums over the history, and with them `BalancesMatchHistory`, `UsageMatchesHistory`,
   `Backed` and `NoIntegrityFault`: done.
5. That the verifier accepts every reachable book, and no snapshot of one damaged in a
   way that `MissingRows`, `AlteredMoney` or `AlteredRecords` lists: done.
