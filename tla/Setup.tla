------------------------------- MODULE Setup --------------------------------
(***************************************************************************)
(* Setting a database up: Migrate, GrantRuntime and the administration     *)
(* commands that call them, and what a starting service checks of the      *)
(* result (Ready, ReadyForBooks, BindOutboxConsumer).                      *)
(*                                                                         *)
(* The statements of a run are sent one by one, each in a transaction of   *)
(* its own.  Several runs may be under way; any may fail, be killed or     *)
(* time out at any statement, whose effect is then unknown, and be run     *)
(* again.  The services start meanwhile.                                   *)
(*                                                                         *)
(* Two databases have this shape, the Ledger's and the reconciliation      *)
(* inbox's; service says which.  "commands" stands for the fifteen tables  *)
(* between books and the outbox, "outbox" for outbox_facts, its delivery   *)
(* table and index; a right on such a group is the right on those of its   *)
(* tables that the statement names.  One build is deployed, so a recorded  *)
(* checksum is always the one expected.                                    *)
(*                                                                         *)
(* RecordBeforeLast, InheritedCreate, RoutesFirst and CreateOnce are       *)
(* defects of the definitions they stand before, and are used by nothing.  *)
(***************************************************************************)
EXTENDS Integers, Sequences

CONSTANTS
  Admins,      \* runs of the administration command that may overlap
  Publishing,  \* whether the Ledger's configuration names an outbox consumer
  MaxFaults    \* bound on failures of a run

ASSUME OutboxAssumption == Publishing \in BOOLEAN
ASSUME FaultsAssumption == MaxFaults \in Nat

VARIABLES
  service,   \* whose database it is; never changes
  created,   \* tables that exist
  recorded,  \* versions in schema_migrations
  rights,    \* privileges of the runtime role, inherited ones included
  book,      \* a fixture book exists
  admin,     \* next statement of each run; 0 when it is not running
  runtime,   \* the service: "down", "ready" or "serving"
  faults     \* failures so far

vars == <<service, created, recorded, rights, book, admin, runtime, faults>>

-----------------------------------------------------------------------------
(***************************************************************************)
(* The statements of a run.                                                *)
(***************************************************************************)
Migrations ==
  IF service = "ledger"
  THEN <<<<"schema_migrations", "books", "commands", "outbox">>, <<"outbox_routes">>>>
  ELSE <<<<"schema_migrations", "event_inbox", "ledger_operations">>>>
SchemaVersion == Len(Migrations)
Tables == UNION {{Migrations[v][i] : i \in DOMAIN Migrations[v]} : v \in DOMAIN Migrations}

References(t) ==
  CASE t \in {"commands", "outbox_routes"} -> {"books"}
    [] t = "outbox" -> {"commands"}
    [] t = "ledger_operations" -> {"event_inbox"}
    [] OTHER -> {}

Creates(v) == [i \in DOMAIN Migrations[v] |-> [do |-> "create", table |-> Migrations[v][i]]]
RecordBeforeLast(v) ==
  LET n == Len(Creates(v))
  IN  SubSeq(Creates(v), 1, n - 1) \o <<[do |-> "record", version |-> v], Creates(v)[n]>>
        \o (IF service = "ledger" THEN <<[do |-> "check", version |-> v]>> ELSE <<>>)
Migration(v) ==
  Creates(v) \o <<[do |-> "record", version |-> v]>>
    \o (IF service = "ledger" THEN <<[do |-> "check", version |-> v]>> ELSE <<>>)

\* The schema's CREATE right comes by way of the public role or of the role
\* itself, and there is one on the database.
MayCreate == {<<"CREATE", "public">>, <<"CREATE", "schema">>, <<"CREATE", "database">>}
Statement(do, rs) == [do |-> do, rights |-> rs]
On(privilege, ts) == {<<privilege, t>> : t \in ts}

InheritedCreate == <<Statement("revoke", {<<"CREATE", "schema">>}),
                     Statement("revoke", {<<"CREATE", "database">>})>>
Revocations == <<Statement("revoke", {<<"CREATE", "public">>}),
                 Statement("revoke", {<<"CREATE", "schema">>}),
                 Statement("revoke", {<<"CREATE", "database">>})>>
Admittance == <<Statement("grant", {<<"CONNECT", "database">>}),
                Statement("grant", {<<"USAGE", "schema">>})>>
OnRoutes == Statement("grant", On("SELECT", {"outbox_routes"}) \cup On("INSERT", {"outbox_routes"}))
RoutesFirst ==
  IF service = "ledger"
  THEN <<Statement("grant", On("SELECT", {"schema_migrations", "books", "commands", "outbox"})),
         OnRoutes,
         Statement("grant", On("INSERT", {"commands", "outbox"})),
         Statement("grant", On("UPDATE", {"commands", "outbox"}))>>
  ELSE <<Statement("grant", On("SELECT", Tables)),
         Statement("grant", On("INSERT", {"event_inbox", "ledger_operations"}))>>
TableGrants ==
  IF service = "ledger"
  THEN <<Statement("grant", On("SELECT", {"schema_migrations", "books", "commands", "outbox"})),
         Statement("grant", On("INSERT", {"commands", "outbox"})),
         Statement("grant", On("UPDATE", {"commands", "outbox"})),
         OnRoutes>>
  ELSE <<Statement("grant", On("SELECT", Tables)),
         Statement("grant", On("INSERT", {"event_inbox", "ledger_operations"}))>>
GrantRuntime == Revocations \o Admittance \o TableGrants

Script ==
  IF service = "ledger"
  THEN Migration(1) \o Migration(2) \o <<[do |-> "ready"]>> \o GrantRuntime
  ELSE Migration(1) \o GrantRuntime \o <<[do |-> "ready"]>>

-----------------------------------------------------------------------------
Init ==
  /\ service \in {"ledger", "inbox"}
  /\ created = {} /\ recorded = {} /\ rights \in SUBSET MayCreate /\ book = FALSE
  /\ admin = [a \in Admins |-> 0]
  /\ runtime = "down" /\ faults = 0

\* The newest row of schema_migrations is this build's.
Ready == SchemaVersion \in recorded /\ \A v \in recorded : v <= SchemaVersion

\* CREATE TABLE IF NOT EXISTS needs the tables it refers to, a GRANT its own.
CreateOnce(s) ==
  CASE s.do = "create" -> s.table \notin created /\ References(s.table) \subseteq created
    [] s.do = "record" -> "schema_migrations" \in created
    [] s.do = "check" -> s.version \in recorded
    [] s.do = "ready" -> Ready
    [] s.do = "revoke" -> TRUE
    [] s.do = "grant" -> {r[2] : r \in s.rights} \subseteq created \cup {"database", "schema"}
Succeeds(s) ==
  CASE s.do = "create" -> References(s.table) \subseteq created
    [] s.do = "record" -> "schema_migrations" \in created
    [] s.do = "check" -> s.version \in recorded
    [] s.do = "ready" -> Ready
    [] s.do = "revoke" -> TRUE
    [] s.do = "grant" -> {r[2] : r \in s.rights} \subseteq created \cup {"database", "schema"}

Execute(s) ==
  /\ created' = IF s.do = "create" THEN created \cup {s.table} ELSE created
  /\ recorded' = IF s.do = "record" THEN recorded \cup {s.version} ELSE recorded
  /\ rights' = CASE s.do = "revoke" -> rights \ s.rights
                 [] s.do = "grant" -> rights \cup s.rights
                 [] OTHER -> rights

Running(a) == admin[a] \in DOMAIN Script

\* ledger-admin -action=migrate, reconciliation-admin: also on a database already set up.
Begin(a) ==
  /\ ~Running(a)
  /\ admin' = [admin EXCEPT ![a] = 1]
  /\ UNCHANGED <<service, created, recorded, rights, book, runtime, faults>>

\* The next statement; an error ends the run.
Step(a) ==
  /\ Running(a)
  /\ IF Succeeds(Script[admin[a]])
     THEN Execute(Script[admin[a]]) /\ admin' = [admin EXCEPT ![a] = @ + 1]
     ELSE UNCHANGED <<created, recorded, rights>> /\ admin' = [admin EXCEPT ![a] = 0]
  /\ UNCHANGED <<service, book, runtime, faults>>

\* The run dies, or its 30 seconds are over, and its last statement took effect or not.
Fail(a) ==
  /\ Running(a) /\ faults < MaxFaults
  /\ \/ Succeeds(Script[admin[a]]) /\ Execute(Script[admin[a]])
     \/ UNCHANGED <<created, recorded, rights>>
  /\ admin' = [admin EXCEPT ![a] = 0]
  /\ faults' = faults + 1
  /\ UNCHANGED <<service, book, runtime>>

\* ledger-admin -action=fixture.
CreateFixture ==
  /\ service = "ledger" /\ ~book /\ Ready
  /\ book' = TRUE
  /\ UNCHANGED <<service, created, recorded, rights, admin, runtime, faults>>

-----------------------------------------------------------------------------
(***************************************************************************)
(* The service's own start.                                                *)
(***************************************************************************)
Entry == {<<"CONNECT", "database">>, <<"USAGE", "schema">>}

\* ReadyForBooks of the Ledger's Open, Ready of the inbox.
PassReady ==
  /\ runtime = "down" /\ Ready
  /\ Entry \cup On("SELECT", {"schema_migrations"}) \subseteq rights
  /\ service = "ledger" => book /\ On("SELECT", {"books"}) \subseteq rights
  /\ runtime' = IF service = "ledger" /\ Publishing THEN "ready" ELSE "serving"
  /\ UNCHANGED <<service, created, recorded, rights, book, admin, faults>>

\* BindOutboxConsumer needs the last grant; without it Open fails.
Bind ==
  /\ runtime = "ready"
  /\ runtime' = IF OnRoutes.rights \cup On("SELECT", {"outbox"}) \subseteq rights
                THEN "serving" ELSE "down"
  /\ UNCHANGED <<service, created, recorded, rights, book, admin, faults>>

Stop ==
  /\ runtime = "serving"
  /\ runtime' = "down"
  /\ UNCHANGED <<service, created, recorded, rights, book, admin, faults>>

Next ==
  \/ \E a \in Admins : Begin(a) \/ Step(a) \/ Fail(a)
  \/ CreateFixture \/ PassReady \/ Bind \/ Stop

\* A run goes on until it ends, and the operator repeats one that failed.
Fairness == \A a \in Admins : WF_vars(Step(a)) /\ WF_vars(Begin(a) /\ admin[a] = 0)

Spec == Init /\ [][Next]_vars /\ Fairness

-----------------------------------------------------------------------------
(***************************************************************************)
(* Properties.                                                             *)
(***************************************************************************)
Granted == (UNION {s.rights : s \in {GrantRuntime[i] : i \in DOMAIN GrantRuntime}}) \ MayCreate

\* A schema that Ready accepts is whole: no interrupted or concurrent Migrate leaves
\* its version recorded without every table of both migrations, so neither a
\* fixture nor a service starts on half a schema.
ReadySchemaIsWhole == Ready => created = Tables

\* A service that was let in cannot change the schema: by the time ReadyForBooks can
\* read what it checks, every way in which the runtime role may CREATE is revoked,
\* also the one inherited from the public role.
RuntimeCannotCreate == runtime # "down" => rights \cap MayCreate = {}

\* A Ledger that publishes has exactly the rights of GrantRuntime, all of them, from
\* the moment it serves: binding its consumer waits for the last grant, though
\* GrantRuntime was interrupted, repeated or still under way.
PublisherHasItsRights ==
  runtime = "serving" /\ service = "ledger" /\ Publishing => rights = Granted

\* A setup that was interrupted is completed by running it again, wherever it
\* stopped and however runs overlapped: every statement may be repeated.
SetupCompletes == <>[](Ready /\ rights = Granted)
=============================================================================
