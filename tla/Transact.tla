------------------------------ MODULE Transact ------------------------------
(***************************************************************************)
(* How concurrent calls of Execute share the database.                     *)
(*                                                                         *)
(* A call runs its closure in a SERIALIZABLE transaction, at most Retries  *)
(* times: it looks for its receipt, loads and locks the rows of its        *)
(* command one statement after the other, evaluates, writes the plan row   *)
(* by row and commits.  Any statement may fail, and COMMIT may be refused, *)
(* rolled back or left in doubt.  What the rows contain is the subject of  *)
(* module Ledger: here the verdict of the evaluation is any that the rows  *)
(* found allow.  An owner has one limit row, the commands being of one day *)
(* and under one posting policy.                                           *)
(*                                                                         *)
(* The database is external: a statement waits for the rows another        *)
(* transaction has written and, if it locks, for those it has locked; an   *)
(* absent row is not locked.  COMMIT may be refused for any reason, but    *)
(* what it validates is left open: the properties here rest on the row     *)
(* locks, the unique keys and the retry loop alone.                        *)
(*                                                                         *)
(* A definition named after a defect (SourceFirst, ...) is the mutation of *)
(* the definition that follows it and is used by nothing.                  *)
(***************************************************************************)
EXTENDS Integers, Sequences, FiniteSets

CONSTANTS
  Calls,       \* calls of Execute; a client that tries again makes another call
  Command,     \* the command of each call
  Owner,       \* the owner of each account; ids are numbers, ordered as ids are
  Pool, Fee,   \* the accounts the posting policy names
  Existing,    \* the rows that exist at first
  Retries,     \* how often a transaction is tried, 8 in the code
  NoCall

Spends == {"TRANSFER_INTERNAL", "RESERVE_PAYOUT"}
OnHolds == {"MARK_HOLD_EXPOSED", "CAPTURE_PAYOUT", "RELEASE_PAYOUT"}
Settling == OnHolds \ {"MARK_HOLD_EXPOSED"}
Kinds == Spends \cup OnHolds \cup {"CREATE_ACCOUNT", "SET_ACCOUNT_CONTROL"}

\* payment, hold and evidence matter to the kinds that have them; account is the
\* source of a spend, the source of the hold, or the account created or controlled
\* (itself, or the subject that owns it).
Commands == [op : Nat, kind : Kinds, payment : Nat, hold : Nat, evidence : Nat,
             account : DOMAIN Owner, beneficiary : DOMAIN Owner,
             controls : {"subject", "account"}]

Key(class, id) == <<class, id>>
Keys == {"claim", "subject", "account", "accounts", "hold", "usage", "balance", "evidence", "op"}
          \X Nat

Ops == {Command[c].op : c \in Calls}

ASSUME TransactAssumption ==
  /\ DOMAIN Owner \subseteq Nat /\ {Pool, Fee} \subseteq DOMAIN Owner
  /\ \A a \in DOMAIN Owner : Owner[a] \in Nat
  /\ Command \in [Calls -> Commands] /\ IsFiniteSet(Calls)
  /\ Existing \subseteq Keys /\ \A o \in Ops : Key("op", o) \notin Existing
  /\ Retries \in Nat \ {0} /\ NoCall \notin Calls

VARIABLES
  rows,      \* the keys of the rows that exist
  receipts,  \* financial_operations: the call that wrote it and the outcome
  session    \* what each call is doing

vars == <<rows, receipts, session>>

NoReceipt == [by |-> NoCall, outcome |-> "NONE"]
Open == [locks |-> {}, written |-> {}, absent |-> {}, todo |-> <<>>,
         outcome |-> "NONE", replay |-> NoReceipt]
Idle == [phase |-> "idle", attempt |-> 0, tx |-> Open, status |-> "none", receipt |-> NoReceipt]

-----------------------------------------------------------------------------
(***************************************************************************)
(* The rows of a command, in the order Load reads and Save writes them.    *)
(***************************************************************************)
\* The keys of one kind, by id.
Sorted(class, ids) ==
  LET s == CHOOSE t \in [1 .. Cardinality(ids) -> ids] :
             \A i, j \in 1 .. Cardinality(ids) : i < j => t[i] < t[j]
  IN  [i \in 1 .. Cardinality(ids) |-> Key(class, s[i])]
When(condition, keys) == IF condition THEN keys ELSE <<>>

\* found: the hold of the command was discovered.
AccountsOf(m, found) ==
  CASE m.kind = "CREATE_ACCOUNT" -> {m.account}
    [] m.kind = "SET_ACCOUNT_CONTROL" -> IF m.controls = "account" THEN {m.account} ELSE {}
    [] m.kind = "TRANSFER_INTERNAL" -> {m.account, m.beneficiary, Fee}
    [] m.kind = "RESERVE_PAYOUT" -> {m.account, Pool, Fee}
    [] OTHER -> IF found THEN {m.account, Pool, Fee} ELSE {}

Controlled(m) == Key(m.controls, IF m.controls = "account" THEN m.account ELSE Owner[m.account])

SourceFirst(m, known) ==
  IF m.kind = "SET_ACCOUNT_CONTROL" THEN <<Controlled(m)>>
  ELSE LET controlled == (known \cup {m.account}) \ {Fee}
       IN  <<Key("subject", Owner[m.account])>>
             \o Sorted("subject", {Owner[a] : a \in controlled} \ {Owner[m.account]})
             \o Sorted("account", controlled)
\* The controls of the accounts known, fee income apart, and of the one to be
\* created: subjects first, each kind by id.
ControlOrder(m, known) ==
  IF m.kind = "SET_ACCOUNT_CONTROL" THEN <<Controlled(m)>>
  ELSE LET created == IF m.kind = "CREATE_ACCOUNT" THEN {m.account} ELSE {}
           controlled == (known \cup created) \ {Fee}
       IN  Sorted("subject", {Owner[a] : a \in controlled}) \o Sorted("account", controlled)

\* What Load locks once the accounts are read: controls, hold, limit row, balances.
LockOrder(m, accounts, known, found) ==
  ControlOrder(m, known)
    \o When(m.kind \in OnHolds /\ found, <<Key("hold", m.hold)>>)
    \o When(m.kind \in Spends \cup Settling /\ m.account \in known,
            <<Key("usage", Owner[m.account])>>)
    \o Sorted("balance", accounts)

\* The balances an applied plan changes (a fee is charged).
BalancesOf(m) ==
  CASE m.kind = "CREATE_ACCOUNT" -> <<m.account>>
    [] m.kind = "TRANSFER_INTERNAL" -> <<m.account, m.beneficiary, Fee>>
    [] m.kind \in {"RESERVE_PAYOUT", "RELEASE_PAYOUT"} -> <<m.account, Pool>>
    [] m.kind = "CAPTURE_PAYOUT" -> <<m.account, Pool, Fee>>
    [] OTHER -> <<>>

\* Save: the plan of an applied command, or what remains of it on a rejection, and
\* the receipt last.  Events, journals and facts have keys of their own and are
\* written with the row they belong to.
SaveOrder(m, outcome, proof, absent) ==
  LET applied == outcome = "APPLIED"
      balances == BalancesOf(m)
      created(k) == When(m.account # Fee /\ k \in absent, <<k>>)
  IN  When(applied,
           When(m.kind = "CREATE_ACCOUNT",
                <<Key("accounts", m.account)>> \o created(Key("subject", Owner[m.account]))
                                               \o created(Key("account", m.account)))
             \o When(m.kind = "SET_ACCOUNT_CONTROL", <<Controlled(m)>>)
             \o [i \in DOMAIN balances |-> Key("balance", balances[i])]
             \o When(m.kind \in OnHolds \cup {"RESERVE_PAYOUT"}, <<Key("hold", m.hold)>>)
             \o When(m.kind \in Spends \cup Settling, <<Key("usage", Owner[m.account])>>))
        \o When(\/ m.kind \in Spends /\ Key("claim", m.payment) \in absent
                \/ m.kind \in OnHolds /\ applied, <<Key("claim", m.payment)>>)
        \o When(proof, <<Key("evidence", m.evidence)>>)
        \o <<Key("op", m.op)>>

-----------------------------------------------------------------------------
(***************************************************************************)
(* Statements.                                                             *)
(***************************************************************************)
Tx(c) == session[c].tx
InPhase(c, phases) == session[c].phase \in phases

NoKey == Key("none", 0)

\* The row of the next statement, and whether it is read FOR UPDATE or written.
NextKey(c) ==
  LET m == Command[c]
  IN  CASE InPhase(c, {"begin"}) -> Key("op", m.op)
        [] InPhase(c, {"claim"}) /\ m.kind \in Spends \cup OnHolds -> Key("claim", m.payment)
        [] InPhase(c, {"discover"}) /\ m.kind \in OnHolds \cup {"RESERVE_PAYOUT"} ->
             Key("hold", m.hold)
        [] InPhase(c, {"accounts", "load", "save"}) /\ Tx(c).todo # <<>> -> Head(Tx(c).todo)
        [] OTHER -> NoKey
Exclusive(c) == InPhase(c, {"claim", "load", "save"})

\* The calls whose transactions the next statement has to wait for.
WaitsFor(c) ==
  {d \in Calls \ {c} : \/ NextKey(c) \in Tx(d).written
                       \/ Exclusive(c) /\ NextKey(c) \in Tx(d).locks}

\* None of them can go on before another does.
Circle(S) == \A c \in S : WaitsFor(c) \cap S # {}

\* The transaction of c once it has read that row.
Read(c) ==
  LET k == NextKey(c)
  IN  IF k = NoKey THEN Tx(c)
      ELSE [Tx(c) EXCEPT !.absent = IF k \in rows THEN @ ELSE @ \cup {k},
                         !.locks = IF Exclusive(c) /\ k \in rows THEN @ \cup {k} ELSE @]

Move(c, phase, tx) == session' = [session EXCEPT ![c].phase = phase, ![c].tx = tx]

\* The transaction is over and the call returns: OK, ErrUnknown or another error,
\* among which the callers need not tell.
Return(s, status, receipt) ==
  [s EXCEPT !.phase = "answered", !.tx = Open, !.status = status, !.receipt = receipt]
Answer(c, status) == session' = [session EXCEPT ![c] = Return(@, status, NoReceipt)]

OneMore(s) == IF s.attempt < Retries
              THEN [s EXCEPT !.phase = "begin", !.tx = Open, !.attempt = @ + 1]
              ELSE Return(s, "Error", NoReceipt)
Uncounted(s) == [s EXCEPT !.phase = "begin", !.tx = Open]
\* Roll back and try again, Retries times in all.
Retry(s) == IF s.attempt + 1 < Retries
            THEN [s EXCEPT !.phase = "begin", !.tx = Open, !.attempt = @ + 1]
            ELSE Return(s, "Error", NoReceipt)

Invoke(c) ==
  /\ InPhase(c, {"idle"})
  /\ session' = [session EXCEPT ![c].phase = "begin"]
  /\ UNCHANGED <<rows, receipts>>

\* The canonical material is the command; these two have one operation id.
SameMaterial(c, d) == Command[c] = Command[d]

\* BEGIN and the look for an existing receipt, which the caller may not be allowed
\* to see.  A replay commits too, with nothing to write.
Operation(c) ==
  LET old == receipts[Command[c].op]
  IN  /\ InPhase(c, {"begin"}) /\ WaitsFor(c) = {}
      /\ \/ old = NoReceipt /\ Move(c, "claim", Read(c))
         \/ /\ old # NoReceipt
            /\ \/ Answer(c, "Error")
               \/ SameMaterial(c, old.by) /\ Move(c, "commit", [Read(c) EXCEPT !.replay = old])
               \/ ~SameMaterial(c, old.by) /\ Answer(c, "Error")
      /\ UNCHANGED <<rows, receipts>>

LockClaim(c) ==
  /\ InPhase(c, {"claim"}) /\ WaitsFor(c) = {}
  /\ Move(c, "discover", Read(c))
  /\ UNCHANGED <<rows, receipts>>

\* readHold without a lock finds the accounts to read next.
DiscoverHold(c) ==
  /\ InPhase(c, {"discover"}) /\ WaitsFor(c) = {}
  /\ Move(c, "accounts",
          [Read(c) EXCEPT !.todo = Sorted("accounts", AccountsOf(Command[c], NextKey(c) \in rows))])
  /\ UNCHANGED <<rows, receipts>>

\* readAccount one by one; then the keys to lock are collected and sorted.
ReadAccounts(c) ==
  LET m == Command[c]
      found == Key("hold", m.hold) \notin Tx(c).absent
      accounts == AccountsOf(m, found)
      known == {a \in accounts : Key("accounts", a) \notin Tx(c).absent}
  IN  /\ InPhase(c, {"accounts"}) /\ WaitsFor(c) = {}
      /\ IF Tx(c).todo # <<>> THEN Move(c, "accounts", [Read(c) EXCEPT !.todo = Tail(@)])
         ELSE Move(c, "load", [Tx(c) EXCEPT !.todo = LockOrder(m, accounts, known, found)])
      /\ UNCHANGED <<rows, receipts>>

Load(c) ==
  /\ InPhase(c, {"load"}) /\ Tx(c).todo # <<>> /\ WaitsFor(c) = {}
  /\ Move(c, "load", [Read(c) EXCEPT !.todo = Tail(@)])
  /\ UNCHANGED <<rows, receipts>>

\* What evaluate may return, given the rows that are missing; an account that exists
\* has its controls and its balance.
Missing(c) == Tx(c).absent \ {Key("op", Command[c].op)}
MayApply(c) ==
  LET m == Command[c]
      inserts == {Key("claim", m.payment)}
                   \cup (IF m.kind = "RESERVE_PAYOUT" THEN {Key("hold", m.hold)} ELSE {})
  IN  CASE m.kind = "CREATE_ACCOUNT" -> Key("accounts", m.account) \in Missing(c)
        [] m.kind \in Spends ->
             /\ inserts \subseteq Missing(c)
             /\ Missing(c) \subseteq inserts \cup {Key("usage", Owner[m.account])}
        [] OTHER -> Missing(c) = {}
MayReject(c) ==
  LET m == Command[c]
  IN  CASE m.kind \in OnHolds -> Key("hold", m.hold) \notin Missing(c)
        [] m.kind = "SET_ACCOUNT_CONTROL" -> Missing(c) = {}
        [] OTHER -> Key("accounts", m.account) \notin Missing(c)

\* A capture proves itself; a rejected one may have, and a release if it must.
Proofs(m, outcome) ==
  IF m.kind \notin Settling THEN {FALSE}
  ELSE IF m.kind = "CAPTURE_PAYOUT" /\ outcome = "APPLIED" THEN {TRUE}
  ELSE BOOLEAN

\* A technical error rolls back and is returned as it is.
Evaluate(c) ==
  LET decide(outcome) ==
        \E proof \in Proofs(Command[c], outcome) :
          Move(c, "save", [Tx(c) EXCEPT !.outcome = outcome,
                             !.todo = SaveOrder(Command[c], outcome, proof, Tx(c).absent)])
  IN  /\ InPhase(c, {"load"}) /\ Tx(c).todo = <<>>
      /\ \/ MayApply(c) /\ decide("APPLIED")
         \/ MayReject(c) /\ decide("REJECTED")
         \/ Answer(c, "Error")
      /\ UNCHANGED <<rows, receipts>>

Overwrites(c, k) == FALSE
\* An INSERT of a row that has appeared meanwhile is a unique violation (23505).
Collides(c, k) == k \in Tx(c).absent /\ k \in rows

\* Evidence is inserted unless it is there already; with another body, ErrConflict.
Save(c) ==
  LET k == NextKey(c)
  IN  /\ InPhase(c, {"save"}) /\ WaitsFor(c) = {}
      /\ \/ Collides(c, k) /\ session' = [session EXCEPT ![c] = Retry(@)]
         \/ k[1] = "evidence" /\ k \in rows /\ Answer(c, "Error")
         \/ /\ ~Collides(c, k)
            /\ Move(c, IF Tail(Tx(c).todo) = <<>> THEN "commit" ELSE "save",
                    [Tx(c) EXCEPT !.written = @ \cup {k}, !.todo = Tail(@)])
      /\ UNCHANGED <<rows, receipts>>

\* A statement fails: with 40001 or 23505 (the database may abort any transaction
\* to order it, and an UPDATE may match no row),
\* with 40003, or in another way.  COMMIT was not sent.
StatementFails(c) ==
  /\ InPhase(c, {"begin", "claim", "discover", "accounts", "load", "save"})
  /\ \/ session' = [session EXCEPT ![c] = Retry(@)]
     \/ \E status \in {"Error", "ErrUnknown"} : Answer(c, status)
  /\ UNCHANGED <<rows, receipts>>

\* The database detects that calls wait in a circle, and aborts one of them.
BreakCircle(c) ==
  /\ WaitsFor(c) # {} /\ \E S \in SUBSET Calls : c \in S /\ Circle(S)
  /\ session' = [session EXCEPT ![c] = Retry(@)]
  /\ UNCHANGED <<rows, receipts>>

-----------------------------------------------------------------------------
(***************************************************************************)
(* COMMIT.                                                                 *)
(***************************************************************************)
Receipt(c) == IF Tx(c).replay # NoReceipt THEN Tx(c).replay
              ELSE [by |-> c, outcome |-> Tx(c).outcome]

\* The writes of c take effect.
Install(c) ==
  /\ rows' = rows \cup Tx(c).written
  /\ receipts' = [receipts EXCEPT ![Command[c].op] = Receipt(c)]

Commit(c) ==
  /\ InPhase(c, {"commit"})
  /\ Install(c)
  /\ session' = [session EXCEPT ![c] = Return(@, "OK", Receipt(c))]

\* 40001, for any reason the database has.
CommitRefused(c) ==
  /\ InPhase(c, {"commit"})
  /\ session' = [session EXCEPT ![c] = Retry(@)]
  /\ UNCHANGED <<rows, receipts>>

CommitRolledBack(c) ==
  /\ InPhase(c, {"commit"})
  /\ Answer(c, "Error")
  /\ UNCHANGED <<rows, receipts>>

Presumed(c) == "Error"
\* An error of the transport around COMMIT says nothing of its outcome.
InDoubt(c) == "ErrUnknown"

\* The reply is lost or the deadline passes: the transaction may still commit,
\* before the caller is told or long after.
CommitUnanswered(c) ==
  /\ InPhase(c, {"commit"})
  /\ session' = [session EXCEPT ![c].phase = "doubt", ![c].status = InDoubt(c)]
  /\ UNCHANGED <<rows, receipts>>

Settle(c) ==
  /\ InPhase(c, {"doubt"})
  /\ session' = [session EXCEPT ![c].phase = "answered", ![c].tx = Open]
  /\ \/ Install(c)
     \/ UNCHANGED <<rows, receipts>>

Init ==
  /\ rows = Existing
  /\ receipts = [o \in Ops |-> NoReceipt]
  /\ session = [c \in Calls |-> Idle]

\* What a call does when nothing fails.
Advance(c) ==
  \/ Operation(c) \/ LockClaim(c) \/ DiscoverHold(c) \/ ReadAccounts(c) \/ Load(c)
  \/ Evaluate(c) \/ Save(c) \/ BreakCircle(c) \/ Commit(c) \/ Settle(c)

Next ==
  \E c \in Calls :
    \/ Invoke(c) \/ Operation(c) \/ LockClaim(c) \/ DiscoverHold(c) \/ ReadAccounts(c)
    \/ Load(c) \/ Evaluate(c) \/ Save(c) \/ StatementFails(c) \/ BreakCircle(c)
    \/ Commit(c) \/ CommitRefused(c) \/ CommitRolledBack(c) \/ CommitUnanswered(c) \/ Settle(c)

Spec == Init /\ [][Next]_vars

\* A call that can go on does; the database breaks circles and settles what is in doubt.
FairSpec == Spec /\ \A c \in Calls : WF_vars(Advance(c))

-----------------------------------------------------------------------------
(***************************************************************************)
(* Properties.                                                             *)
(***************************************************************************)
Phases == {"idle", "begin", "claim", "discover", "accounts", "load", "save", "commit", "doubt",
           "answered"}

\* Every session is well formed; in particular no transaction is tried more than
\* Retries times.
TypeOK ==
  /\ rows \subseteq Keys
  /\ \A o \in Ops : receipts[o].by \in Calls \cup {NoCall}
  /\ \A c \in Calls :
       /\ session[c].phase \in Phases /\ session[c].attempt \in 0 .. Retries - 1
       /\ Tx(c).absent \cup Tx(c).written \subseteq Keys
       /\ Tx(c).locks \subseteq rows

\* An answer is final.  A receipt the caller was given is the one recorded for the
\* operation, and it was recorded for the same instruction; after any error but
\* ErrUnknown nothing of this call has been recorded or will ever be.
AnswersAreFinal ==
  \A c \in Calls :
    LET recorded == receipts[Command[c].op]
    IN  /\ session[c].status = "OK" =>
             /\ recorded = session[c].receipt /\ recorded # NoReceipt
             /\ Command[recorded.by] = Command[c]
        /\ session[c].status = "Error" => recorded.by # c

Inserted(r) ==
  LET m == Command[r.by]
  IN  IF r.outcome # "APPLIED" THEN {}
      ELSE IF m.kind \in Spends THEN {Key("claim", m.payment)}
      ELSE IF m.kind = "CREATE_ACCOUNT" THEN {Key("accounts", m.account)} ELSE {}

\* A payment is admitted once and an account opened once, however many commands for
\* it run at the same time: the row each found missing is inserted by one of them.
InsertedOnce ==
  \A o, q \in Ops : o # q => Inserted(receipts[o]) \cap Inserted(receipts[q]) = {}

\* Rows that exist are contested in one order: calls wait for each other in a circle
\* only where one of them inserts a row it has found missing.
CirclesNeedAMissingRow ==
  \A S \in (SUBSET Calls) \ {{}} :
    Circle(S) => \E c \in S : InPhase(c, {"save"}) /\ NextKey(c) \in Tx(c).absent

\* Every call is answered, however often its transaction is aborted and whatever the
\* calls it contends with do: again and again there is none outstanding (each call is
\* made once).
EveryCallAnswered ==
  []<>(\A c \in Calls : session[c].phase # "idle" => session[c].status # "none")
=============================================================================
