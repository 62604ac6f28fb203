---------------------------- MODULE SetupProofs -----------------------------
(***************************************************************************)
(* Theorems about Setup for any number of overlapping runs of the          *)
(* administration command and any number of failures.                      *)
(***************************************************************************)
EXTENDS Setup, TLAPS

-----------------------------------------------------------------------------
(***************************************************************************)
(* The scripts, statement by statement.                                    *)
(***************************************************************************)
Create(t) == [do |-> "create", table |-> t]
Record(v) == [do |-> "record", version |-> v]
Check(v) == [do |-> "check", version |-> v]

LedgerScript ==
  <<Create("schema_migrations"), Create("books"), Create("commands"), Create("outbox")>>
    \o <<Record(1)>> \o <<Check(1)>>
    \o (<<Create("outbox_routes")>> \o <<Record(2)>> \o <<Check(2)>>)
    \o <<[do |-> "ready"]>> \o (Revocations \o Admittance \o TableGrants)

InboxScript ==
  <<Create("schema_migrations"), Create("event_inbox"), Create("ledger_operations")>>
    \o <<Record(1)>> \o <<>> \o (Revocations \o Admittance \o TableGrants) \o <<[do |-> "ready"]>>

\* The Ledger has two migrations, the inbox one.
LEMMA SchemaIs ==
  /\ service = "ledger" =>
       /\ SchemaVersion = 2
       /\ Tables = {"schema_migrations", "books", "commands", "outbox", "outbox_routes"}
  /\ service = "inbox" =>
       /\ SchemaVersion = 1
       /\ Tables = {"schema_migrations", "event_inbox", "ledger_operations"}
<1>1. ASSUME service = "ledger"
      PROVE  /\ SchemaVersion = 2
             /\ Tables = {"schema_migrations", "books", "commands", "outbox", "outbox_routes"}
  <2>1. Migrations = <<<<"schema_migrations", "books", "commands", "outbox">>, <<"outbox_routes">>>>
    BY <1>1 DEF Migrations
  <2>2. DOMAIN Migrations = {1, 2} /\ DOMAIN Migrations[1] = {1, 2, 3, 4} /\ DOMAIN Migrations[2] = {1}
    BY <2>1
  <2> QED BY <2>1, <2>2 DEF SchemaVersion, Tables
<1>2. ASSUME service = "inbox"
      PROVE  /\ SchemaVersion = 1
             /\ Tables = {"schema_migrations", "event_inbox", "ledger_operations"}
  <2>1. Migrations = <<<<"schema_migrations", "event_inbox", "ledger_operations">>>>
    BY <1>2 DEF Migrations
  <2>2. DOMAIN Migrations = {1} /\ DOMAIN Migrations[1] = {1, 2, 3}
    BY <2>1
  <2> QED BY <2>1, <2>2 DEF SchemaVersion, Tables
<1> QED BY <1>1, <1>2

\* The script of ledger-admin -action=migrate.
LEMMA LedgerScriptIs == ASSUME service = "ledger" PROVE Script = LedgerScript
<1>1. Creates(1) = <<Create("schema_migrations"), Create("books"), Create("commands"),
                     Create("outbox")>>
  BY DEF Creates, Migrations, Create
<1>2. Creates(2) = <<Create("outbox_routes")>>
  BY DEF Creates, Migrations, Create
<1> QED BY <1>1, <1>2 DEF Script, LedgerScript, Migration, Record, Check, GrantRuntime

\* The script of reconciliation-admin.
LEMMA InboxScriptIs == ASSUME service = "inbox" PROVE Script = InboxScript
<1>1. Creates(1) = <<Create("schema_migrations"), Create("event_inbox"),
                     Create("ledger_operations")>>
  BY DEF Creates, Migrations, Create
<1> QED BY <1>1 DEF Script, InboxScript, Migration, Record, GrantRuntime

\* Its nineteen statements.
LEMMA LedgerStatements ==
  ASSUME service = "ledger"
  PROVE  /\ Len(LedgerScript) = 19 /\ DOMAIN LedgerScript = 1 .. 19
         /\ LedgerScript[1] = Create("schema_migrations") /\ LedgerScript[2] = Create("books")
         /\ LedgerScript[3] = Create("commands") /\ LedgerScript[4] = Create("outbox")
         /\ LedgerScript[5] = Record(1) /\ LedgerScript[6] = Check(1)
         /\ LedgerScript[7] = Create("outbox_routes")
         /\ LedgerScript[8] = Record(2) /\ LedgerScript[9] = Check(2)
         /\ LedgerScript[10] = [do |-> "ready"]
         /\ LedgerScript[11] = GrantRuntime[1] /\ LedgerScript[12] = GrantRuntime[2]
         /\ LedgerScript[13] = GrantRuntime[3] /\ LedgerScript[14] = GrantRuntime[4]
         /\ LedgerScript[15] = GrantRuntime[5] /\ LedgerScript[16] = GrantRuntime[6]
         /\ LedgerScript[17] = GrantRuntime[7] /\ LedgerScript[18] = GrantRuntime[8]
         /\ LedgerScript[19] = GrantRuntime[9]
<1>1. Len(LedgerScript) = 19 /\ DOMAIN LedgerScript = 1 .. 19
  BY DEF LedgerScript, Revocations, Admittance, TableGrants
<1>2. /\ LedgerScript[1] = Create("schema_migrations") /\ LedgerScript[2] = Create("books")
      /\ LedgerScript[3] = Create("commands") /\ LedgerScript[4] = Create("outbox")
      /\ LedgerScript[5] = Record(1) /\ LedgerScript[6] = Check(1)
      /\ LedgerScript[7] = Create("outbox_routes")
      /\ LedgerScript[8] = Record(2) /\ LedgerScript[9] = Check(2)
      /\ LedgerScript[10] = [do |-> "ready"]
  BY DEF LedgerScript, Revocations, Admittance, TableGrants
<1>3. /\ LedgerScript[11] = GrantRuntime[1] /\ LedgerScript[12] = GrantRuntime[2]
      /\ LedgerScript[13] = GrantRuntime[3] /\ LedgerScript[14] = GrantRuntime[4]
      /\ LedgerScript[15] = GrantRuntime[5] /\ LedgerScript[16] = GrantRuntime[6]
      /\ LedgerScript[17] = GrantRuntime[7] /\ LedgerScript[18] = GrantRuntime[8]
      /\ LedgerScript[19] = GrantRuntime[9]
  BY DEF LedgerScript, Revocations, Admittance, TableGrants, GrantRuntime
<1> QED BY <1>1, <1>2, <1>3

\* The twelve of the inbox's.
LEMMA InboxStatements ==
  ASSUME service = "inbox"
  PROVE  /\ Len(InboxScript) = 12 /\ DOMAIN InboxScript = 1 .. 12
         /\ InboxScript[1] = Create("schema_migrations")
         /\ InboxScript[2] = Create("event_inbox")
         /\ InboxScript[3] = Create("ledger_operations") /\ InboxScript[4] = Record(1)
         /\ InboxScript[5] = GrantRuntime[1] /\ InboxScript[6] = GrantRuntime[2]
         /\ InboxScript[7] = GrantRuntime[3] /\ InboxScript[8] = GrantRuntime[4]
         /\ InboxScript[9] = GrantRuntime[5] /\ InboxScript[10] = GrantRuntime[6]
         /\ InboxScript[11] = GrantRuntime[7]
         /\ InboxScript[12] = [do |-> "ready"]
<1>1. Len(InboxScript) = 12 /\ DOMAIN InboxScript = 1 .. 12
  BY DEF InboxScript, Revocations, Admittance, TableGrants
<1>2. /\ InboxScript[1] = Create("schema_migrations")
      /\ InboxScript[2] = Create("event_inbox")
      /\ InboxScript[3] = Create("ledger_operations") /\ InboxScript[4] = Record(1)
      /\ InboxScript[12] = [do |-> "ready"]
  BY DEF InboxScript, Revocations, Admittance, TableGrants
<1>3. /\ InboxScript[5] = GrantRuntime[1] /\ InboxScript[6] = GrantRuntime[2]
      /\ InboxScript[7] = GrantRuntime[3] /\ InboxScript[8] = GrantRuntime[4]
      /\ InboxScript[9] = GrantRuntime[5] /\ InboxScript[10] = GrantRuntime[6]
      /\ InboxScript[11] = GrantRuntime[7]
  BY DEF InboxScript, Revocations, Admittance, TableGrants, GrantRuntime
<1> QED BY <1>1, <1>2, <1>3

\* GrantRuntime's statements: three revocations, then the grants.
LEMMA GrantStatements ==
  /\ GrantRuntime[1] = Statement("revoke", {<<"CREATE", "public">>})
  /\ GrantRuntime[2] = Statement("revoke", {<<"CREATE", "schema">>})
  /\ GrantRuntime[3] = Statement("revoke", {<<"CREATE", "database">>})
  /\ GrantRuntime[4] = Statement("grant", {<<"CONNECT", "database">>})
  /\ GrantRuntime[5] = Statement("grant", {<<"USAGE", "schema">>})
  /\ service = "ledger" =>
       /\ DOMAIN GrantRuntime = 1 .. 9
       /\ GrantRuntime[6] =
            Statement("grant", On("SELECT", {"schema_migrations", "books", "commands", "outbox"}))
       /\ GrantRuntime[7] = Statement("grant", On("INSERT", {"commands", "outbox"}))
       /\ GrantRuntime[8] = Statement("grant", On("UPDATE", {"commands", "outbox"}))
       /\ GrantRuntime[9] = OnRoutes
  /\ service = "inbox" =>
       /\ DOMAIN GrantRuntime = 1 .. 7
       /\ GrantRuntime[6] = Statement("grant", On("SELECT", Tables))
       /\ GrantRuntime[7] = Statement("grant", On("INSERT", {"event_inbox", "ledger_operations"}))
<1>1. /\ GrantRuntime[1] = Statement("revoke", {<<"CREATE", "public">>})
      /\ GrantRuntime[2] = Statement("revoke", {<<"CREATE", "schema">>})
      /\ GrantRuntime[3] = Statement("revoke", {<<"CREATE", "database">>})
      /\ GrantRuntime[4] = Statement("grant", {<<"CONNECT", "database">>})
      /\ GrantRuntime[5] = Statement("grant", {<<"USAGE", "schema">>})
  BY DEF GrantRuntime, Revocations, Admittance, TableGrants
<1>2. ASSUME service = "ledger"
      PROVE  /\ DOMAIN GrantRuntime = 1 .. 9
             /\ GrantRuntime[6] = Statement("grant",
                  On("SELECT", {"schema_migrations", "books", "commands", "outbox"}))
             /\ GrantRuntime[7] = Statement("grant", On("INSERT", {"commands", "outbox"}))
             /\ GrantRuntime[8] = Statement("grant", On("UPDATE", {"commands", "outbox"}))
             /\ GrantRuntime[9] = OnRoutes
  BY <1>2 DEF GrantRuntime, Revocations, Admittance, TableGrants
<1>3. ASSUME service = "inbox"
      PROVE  /\ DOMAIN GrantRuntime = 1 .. 7
             /\ GrantRuntime[6] = Statement("grant", On("SELECT", Tables))
             /\ GrantRuntime[7] =
                  Statement("grant", On("INSERT", {"event_inbox", "ledger_operations"}))
  BY <1>3 DEF GrantRuntime, Revocations, Admittance, TableGrants
<1> QED BY <1>1, <1>2, <1>3

-----------------------------------------------------------------------------
(***************************************************************************)
(* What the proofs use of a script.                                        *)
(***************************************************************************)
Is(i, do) == i \in DOMAIN Script /\ Script[i].do = do
ReadsVersion == <<"SELECT", "schema_migrations">>
WritesRoutes == <<"INSERT", "outbox_routes">>

Statements ==
  /\ Len(Script) \in Nat /\ DOMAIN Script = 1 .. Len(Script)
  /\ \A i \in DOMAIN Script :
       /\ Script[i].do \in {"create", "record", "check", "ready", "revoke", "grant"}
       /\ Is(i, "create") => Script[i].table \in Tables
       /\ Is(i, "record") => Script[i].version \in 1 .. SchemaVersion
       /\ Is(i, "revoke") => Script[i].rights \subseteq MayCreate
       /\ Is(i, "grant") => Script[i].rights \subseteq Granted

Effects ==
  /\ \A t \in Tables : \E i \in DOMAIN Script : Is(i, "create") /\ Script[i].table = t
  /\ \A r \in MayCreate : \E i \in DOMAIN Script : Is(i, "revoke") /\ r \in Script[i].rights
  /\ \A r \in Granted : \E i \in DOMAIN Script : Is(i, "grant") /\ r \in Script[i].rights

\* The order that matters: the version is recorded after every table is created, the
\* version can be read after every right to create is revoked, and the routes can be
\* written after everything else is granted.
Order ==
  \A i, j \in DOMAIN Script :
    /\ Is(i, "record") /\ Script[i].version = SchemaVersion /\ Is(j, "create") => j < i
    /\ Is(i, "grant") /\ ReadsVersion \in Script[i].rights /\ Is(j, "revoke") => j < i
    /\ /\ service = "ledger" /\ Is(i, "grant") /\ WritesRoutes \in Script[i].rights
       /\ Is(j, "grant")
       => j <= i

\* The rights a GRANT or a REVOKE names.
LEMMA RightsAre ==
  /\ \A do, rs : Statement(do, rs).do = do /\ Statement(do, rs).rights = rs
  /\ \A privilege, ts, r : r \in On(privilege, ts) <=> \E t \in ts : r = <<privilege, t>>
  /\ OnRoutes.do = "grant"
  /\ OnRoutes.rights = {<<"SELECT", "outbox_routes">>, <<"INSERT", "outbox_routes">>}
<1>1. \A do, rs : Statement(do, rs).do = do /\ Statement(do, rs).rights = rs  BY DEF Statement
<1>2. \A privilege, ts, r : r \in On(privilege, ts) <=> \E t \in ts : r = <<privilege, t>>
  BY DEF On
<1>3. OnRoutes.do = "grant"  BY <1>1 DEF OnRoutes
<1>4. OnRoutes.rights = {<<"SELECT", "outbox_routes">>, <<"INSERT", "outbox_routes">>}
  BY <1>1, <1>2 DEF OnRoutes
<1> QED BY <1>1, <1>2, <1>3, <1>4

\* The rights of GrantRuntime are those some statement of it names, but CREATE.
LEMMA GrantedIs ==
  \A r : r \in Granted <=>
    r \notin MayCreate /\ \E i \in DOMAIN GrantRuntime : r \in GrantRuntime[i].rights
<1> DEFINE S == {GrantRuntime[i] : i \in DOMAIN GrantRuntime}
           R == {s.rights : s \in S}
<1>1. \A r : r \in Granted <=> r \notin MayCreate /\ \E s \in S : r \in s.rights
  <2>1. Granted = (UNION R) \ MayCreate  BY Zenon DEF Granted
  <2>2. \A x : x \in R <=> \E s \in S : x = s.rights  BY Zenon
  <2> HIDE DEF R, S
  <2> QED BY <2>1, <2>2
<1>2. \A r : (\E s \in S : r \in s.rights)
               <=> (\E i \in DOMAIN GrantRuntime : r \in GrantRuntime[i].rights)
  OBVIOUS
<1> QED BY <1>1, <1>2

\* What GrantRuntime leaves the runtime role with, in the Ledger's database.
LEMMA LedgerRights ==
  ASSUME service = "ledger"
  PROVE  \A r : r \in Granted <=> \E i \in 4 .. 9 : r \in GrantRuntime[i].rights
<1>1. DOMAIN GrantRuntime = 1 .. 9  BY GrantStatements
<1>2. \A r : r \in Granted <=>
        r \notin MayCreate /\ \E i \in 1 .. 9 : r \in GrantRuntime[i].rights
  BY <1>1, GrantedIs
<1>3. \A i \in 1 .. 3 : GrantRuntime[i].rights \subseteq MayCreate
  BY GrantStatements, RightsAre DEF MayCreate
<1>4. \A i \in 4 .. 9 : GrantRuntime[i].rights \cap MayCreate = {}
  <2>1. ASSUME NEW i \in 4 .. 9, NEW r \in GrantRuntime[i].rights PROVE r \notin MayCreate
    <3>1. r[1] \in {"CONNECT", "USAGE", "SELECT", "INSERT", "UPDATE"}
      <4>1. CASE i = 4  BY <2>1, <4>1, GrantStatements, RightsAre
      <4>2. CASE i = 5  BY <2>1, <4>2, GrantStatements, RightsAre
      <4>3. CASE i = 6  BY <2>1, <4>3, GrantStatements, RightsAre
      <4>4. CASE i = 7  BY <2>1, <4>4, GrantStatements, RightsAre
      <4>5. CASE i = 8  BY <2>1, <4>5, GrantStatements, RightsAre
      <4>6. CASE i = 9  BY <2>1, <4>6, GrantStatements, RightsAre
      <4> QED BY <4>1, <4>2, <4>3, <4>4, <4>5, <4>6
    <3>2. \A m \in MayCreate : m[1] = "CREATE"  BY DEF MayCreate
    <3> QED BY <3>1, <3>2
  <2> QED BY <2>1
<1> QED BY <1>2, <1>3, <1>4

\* And in the inbox's.
LEMMA InboxRights ==
  ASSUME service = "inbox"
  PROVE  \A r : r \in Granted <=> \E i \in 4 .. 7 : r \in GrantRuntime[i].rights
<1>1. DOMAIN GrantRuntime = 1 .. 7  BY GrantStatements
<1>2. \A r : r \in Granted <=>
        r \notin MayCreate /\ \E i \in 1 .. 7 : r \in GrantRuntime[i].rights
  BY <1>1, GrantedIs
<1>3. \A i \in 1 .. 3 : GrantRuntime[i].rights \subseteq MayCreate
  BY GrantStatements, RightsAre DEF MayCreate
<1>4. \A i \in 4 .. 7 : GrantRuntime[i].rights \cap MayCreate = {}
  <2>1. ASSUME NEW i \in 4 .. 7, NEW r \in GrantRuntime[i].rights PROVE r \notin MayCreate
    <3>1. r[1] \in {"CONNECT", "USAGE", "SELECT", "INSERT"}
      <4>1. CASE i = 4  BY <2>1, <4>1, GrantStatements, RightsAre
      <4>2. CASE i = 5  BY <2>1, <4>2, GrantStatements, RightsAre
      <4>3. CASE i = 6  BY <2>1, <4>3, GrantStatements, RightsAre
      <4>4. CASE i = 7  BY <2>1, <4>4, GrantStatements, RightsAre
      <4> QED BY <4>1, <4>2, <4>3, <4>4
    <3>2. \A m \in MayCreate : m[1] = "CREATE"  BY DEF MayCreate
    <3> QED BY <3>1, <3>2
  <2> QED BY <2>1
<1> QED BY <1>2, <1>3, <1>4

\* What each statement of the Ledger's script does.
LEMMA LedgerDoes ==
  ASSUME service = "ledger"
  PROVE  /\ Len(Script) = 19 /\ DOMAIN Script = 1 .. 19
         /\ \A i \in 1 .. 19 :
              /\ Is(i, "create") <=> i \in {1, 2, 3, 4, 7}
              /\ Is(i, "record") <=> i \in {5, 8}
              /\ Is(i, "revoke") <=> i \in 11 .. 13
              /\ Is(i, "grant") <=> i \in 14 .. 19
              /\ Script[i].do \in {"create", "record", "check", "ready", "revoke", "grant"}
         /\ Script[1].table = "schema_migrations" /\ Script[2].table = "books"
         /\ Script[3].table = "commands" /\ Script[4].table = "outbox"
         /\ Script[7].table = "outbox_routes"
         /\ Script[5].version = 1 /\ Script[8].version = 2
         /\ \A i \in 1 .. 9 : Script[10 + i].rights = GrantRuntime[i].rights
<1>1. Script = LedgerScript  BY LedgerScriptIs
<1>2. Len(Script) = 19 /\ DOMAIN Script = 1 .. 19  BY <1>1, LedgerStatements
<1>3. /\ Script[1].do = "create" /\ Script[2].do = "create" /\ Script[3].do = "create"
      /\ Script[4].do = "create" /\ Script[5].do = "record" /\ Script[6].do = "check"
      /\ Script[7].do = "create" /\ Script[8].do = "record" /\ Script[9].do = "check"
      /\ Script[10].do = "ready"
  BY <1>1, LedgerStatements DEF Create, Record, Check
<1>4. /\ Script[1].table = "schema_migrations" /\ Script[2].table = "books"
      /\ Script[3].table = "commands" /\ Script[4].table = "outbox"
      /\ Script[7].table = "outbox_routes"
      /\ Script[5].version = 1 /\ Script[8].version = 2
  BY <1>1, LedgerStatements DEF Create, Record, Check
<1>5. /\ Script[11] = GrantRuntime[1] /\ Script[12] = GrantRuntime[2]
      /\ Script[13] = GrantRuntime[3] /\ Script[14] = GrantRuntime[4]
      /\ Script[15] = GrantRuntime[5] /\ Script[16] = GrantRuntime[6]
      /\ Script[17] = GrantRuntime[7] /\ Script[18] = GrantRuntime[8]
      /\ Script[19] = GrantRuntime[9]
  BY <1>1, LedgerStatements
<1>6. /\ Script[11].do = "revoke" /\ Script[12].do = "revoke" /\ Script[13].do = "revoke"
      /\ Script[14].do = "grant" /\ Script[15].do = "grant" /\ Script[16].do = "grant"
      /\ Script[17].do = "grant" /\ Script[18].do = "grant" /\ Script[19].do = "grant"
  BY <1>5, GrantStatements, RightsAre
<1>7. \A i \in 1 .. 9 : Script[10 + i].rights = GrantRuntime[i].rights  BY <1>5
<1>8. \A i \in 1 .. 19 :
        i \in {1, 2, 3, 4, 5, 6, 7, 8, 9, 10, 11, 12, 13, 14, 15, 16, 17, 18, 19}
  OBVIOUS
<1>9. ASSUME NEW i \in 1 .. 19
      PROVE  /\ Is(i, "create") <=> i \in {1, 2, 3, 4, 7}
             /\ Is(i, "record") <=> i \in {5, 8}
             /\ Is(i, "revoke") <=> i \in 11 .. 13
             /\ Is(i, "grant") <=> i \in 14 .. 19
             /\ Script[i].do \in {"create", "record", "check", "ready", "revoke", "grant"}
  BY <1>2, <1>3, <1>6, <1>8 DEF Is
<1> QED BY <1>2, <1>4, <1>7, <1>9

\* And of the inbox's.
LEMMA InboxDoes ==
  ASSUME service = "inbox"
  PROVE  /\ Len(Script) = 12 /\ DOMAIN Script = 1 .. 12
         /\ \A i \in 1 .. 12 :
              /\ Is(i, "create") <=> i \in 1 .. 3
              /\ Is(i, "record") <=> i = 4
              /\ Is(i, "revoke") <=> i \in 5 .. 7
              /\ Is(i, "grant") <=> i \in 8 .. 11
              /\ Script[i].do \in {"create", "record", "check", "ready", "revoke", "grant"}
         /\ Script[1].table = "schema_migrations" /\ Script[2].table = "event_inbox"
         /\ Script[3].table = "ledger_operations" /\ Script[4].version = 1
         /\ \A i \in 1 .. 7 : Script[4 + i].rights = GrantRuntime[i].rights
<1>1. Script = InboxScript  BY InboxScriptIs
<1>2. Len(Script) = 12 /\ DOMAIN Script = 1 .. 12  BY <1>1, InboxStatements
<1>3. /\ Script[1].do = "create" /\ Script[2].do = "create" /\ Script[3].do = "create"
      /\ Script[4].do = "record" /\ Script[12].do = "ready"
  BY <1>1, InboxStatements DEF Create, Record
<1>4. /\ Script[1].table = "schema_migrations" /\ Script[2].table = "event_inbox"
      /\ Script[3].table = "ledger_operations" /\ Script[4].version = 1
  BY <1>1, InboxStatements DEF Create, Record
<1>5. /\ Script[5] = GrantRuntime[1] /\ Script[6] = GrantRuntime[2]
      /\ Script[7] = GrantRuntime[3] /\ Script[8] = GrantRuntime[4]
      /\ Script[9] = GrantRuntime[5] /\ Script[10] = GrantRuntime[6]
      /\ Script[11] = GrantRuntime[7]
  BY <1>1, InboxStatements
<1>6. /\ Script[5].do = "revoke" /\ Script[6].do = "revoke" /\ Script[7].do = "revoke"
      /\ Script[8].do = "grant" /\ Script[9].do = "grant" /\ Script[10].do = "grant"
      /\ Script[11].do = "grant"
  BY <1>5, GrantStatements, RightsAre
<1>7. \A i \in 1 .. 7 : Script[4 + i].rights = GrantRuntime[i].rights  BY <1>5
<1>8. \A i \in 1 .. 12 : i \in {1, 2, 3, 4, 5, 6, 7, 8, 9, 10, 11, 12}
  OBVIOUS
<1>9. ASSUME NEW i \in 1 .. 12
      PROVE  /\ Is(i, "create") <=> i \in 1 .. 3
             /\ Is(i, "record") <=> i = 4
             /\ Is(i, "revoke") <=> i \in 5 .. 7
             /\ Is(i, "grant") <=> i \in 8 .. 11
             /\ Script[i].do \in {"create", "record", "check", "ready", "revoke", "grant"}
  BY <1>2, <1>3, <1>6, <1>8 DEF Is
<1> QED BY <1>2, <1>4, <1>7, <1>9

\* The Ledger's script is in order.
LEMMA LedgerInOrder == ASSUME service = "ledger" PROVE Statements /\ Effects /\ Order
<1>1. /\ SchemaVersion = 2
      /\ Tables = {"schema_migrations", "books", "commands", "outbox", "outbox_routes"}
  BY SchemaIs
<1>2. /\ GrantRuntime[1].rights = {<<"CREATE", "public">>}
      /\ GrantRuntime[2].rights = {<<"CREATE", "schema">>}
      /\ GrantRuntime[3].rights = {<<"CREATE", "database">>}
  BY GrantStatements, RightsAre
<1>3. \A i \in 14 .. 19 : Script[i].rights = GrantRuntime[i - 10].rights /\ i - 10 \in 4 .. 9
  <2>1. ASSUME NEW i \in 14 .. 19
        PROVE  Script[i].rights = GrantRuntime[i - 10].rights /\ i - 10 \in 4 .. 9
    <3>1. i - 10 \in 1 .. 9 /\ 10 + (i - 10) = i  OBVIOUS
    <3>2. Script[10 + (i - 10)].rights = GrantRuntime[i - 10].rights  BY <3>1, LedgerDoes
    <3> QED BY <3>1, <3>2
  <2> QED BY <2>1
<1>4. /\ Script[11].rights = {<<"CREATE", "public">>}
      /\ Script[12].rights = {<<"CREATE", "schema">>}
      /\ Script[13].rights = {<<"CREATE", "database">>}
  <2>1. /\ Script[10 + 1].rights = GrantRuntime[1].rights
        /\ Script[10 + 2].rights = GrantRuntime[2].rights
        /\ Script[10 + 3].rights = GrantRuntime[3].rights
    BY LedgerDoes
  <2> QED BY <1>2, <2>1
<1>5. \A i \in 14 .. 19 : Script[i].rights \subseteq Granted  BY <1>3, LedgerRights
<1>6. \A r \in Granted : \E i \in 14 .. 19 : r \in Script[i].rights
  <2>1. ASSUME NEW r \in Granted PROVE \E i \in 14 .. 19 : r \in Script[i].rights
    <3>1. PICK j \in 4 .. 9 : r \in GrantRuntime[j].rights  BY LedgerRights
    <3>2. Script[10 + j].rights = GrantRuntime[j].rights  BY LedgerDoes
    <3>3. 10 + j \in 14 .. 19  OBVIOUS
    <3> QED BY <3>1, <3>2, <3>3
  <2> QED BY <2>1
<1>7. \A i \in 14 .. 18 : WritesRoutes \notin Script[i].rights
  <2>1. ASSUME NEW j \in 4 .. 8 PROVE WritesRoutes \notin GrantRuntime[j].rights
    BY GrantStatements, RightsAre DEF WritesRoutes
  <2> QED BY <1>3, <2>1
<1>8. Statements
  <2>1. ASSUME NEW i \in 1 .. 19
        PROVE  /\ Is(i, "create") => Script[i].table \in Tables
               /\ Is(i, "record") => Script[i].version \in 1 .. SchemaVersion
               /\ Is(i, "revoke") => Script[i].rights \subseteq MayCreate
               /\ Is(i, "grant") => Script[i].rights \subseteq Granted
    <3>1. Is(i, "create") => Script[i].table \in Tables  BY <1>1, LedgerDoes
    <3>2. Is(i, "record") => Script[i].version \in 1 .. SchemaVersion  BY <1>1, LedgerDoes
    <3>3. Is(i, "revoke") => Script[i].rights \subseteq MayCreate
      BY <1>4, LedgerDoes DEF MayCreate
    <3>4. Is(i, "grant") => Script[i].rights \subseteq Granted  BY <1>5, LedgerDoes
    <3> QED BY <3>1, <3>2, <3>3, <3>4
  <2>2. Len(Script) \in Nat /\ DOMAIN Script = 1 .. Len(Script)
    <3>1. Len(Script) = 19 /\ DOMAIN Script = 1 .. 19  BY LedgerDoes
    <3>2. Len(Script) \in Nat  BY <3>1
    <3> QED BY <3>1, <3>2, Zenon
  <2>3. \A i \in 1 .. 19 :
          Script[i].do \in {"create", "record", "check", "ready", "revoke", "grant"}
    BY LedgerDoes
  <2>4. DOMAIN Script = 1 .. 19  BY LedgerDoes
  <2> QED BY <2>1, <2>2, <2>3, <2>4 DEF Statements
<1>9. Effects
  <2>1. \A t \in Tables : \E i \in DOMAIN Script : Is(i, "create") /\ Script[i].table = t
    BY <1>1, LedgerDoes
  <2>2. \A r \in MayCreate : \E i \in DOMAIN Script : Is(i, "revoke") /\ r \in Script[i].rights
    BY <1>4, LedgerDoes DEF MayCreate
  <2>3. \A r \in Granted : \E i \in DOMAIN Script : Is(i, "grant") /\ r \in Script[i].rights
    BY <1>6, LedgerDoes
  <2> QED BY <2>1, <2>2, <2>3 DEF Effects
<1>10. Order
  <2>1. ASSUME NEW i \in 1 .. 19, NEW j \in 1 .. 19
        PROVE  /\ Is(i, "record") /\ Script[i].version = SchemaVersion /\ Is(j, "create") => j < i
               /\ Is(i, "grant") /\ ReadsVersion \in Script[i].rights /\ Is(j, "revoke") => j < i
               /\ Is(i, "grant") /\ WritesRoutes \in Script[i].rights /\ Is(j, "grant") => j <= i
    <3>1. Is(i, "record") /\ Script[i].version = SchemaVersion /\ Is(j, "create") => j < i
      BY <1>1, LedgerDoes
    <3>2. Is(i, "grant") /\ Is(j, "revoke") => j < i  BY LedgerDoes
    <3>3. Is(i, "grant") /\ WritesRoutes \in Script[i].rights => i = 19  BY <1>7, LedgerDoes
    <3> QED BY <3>1, <3>2, <3>3
  <2> QED BY <2>1, LedgerDoes DEF Order
<1> QED BY <1>8, <1>9, <1>10

\* So is the inbox's.
LEMMA InboxInOrder == ASSUME service = "inbox" PROVE Statements /\ Effects /\ Order
<1>1. SchemaVersion = 1 /\ Tables = {"schema_migrations", "event_inbox", "ledger_operations"}
  BY SchemaIs
<1>2. /\ GrantRuntime[1].rights = {<<"CREATE", "public">>}
      /\ GrantRuntime[2].rights = {<<"CREATE", "schema">>}
      /\ GrantRuntime[3].rights = {<<"CREATE", "database">>}
  BY GrantStatements, RightsAre
<1>3. \A i \in 8 .. 11 : Script[i].rights = GrantRuntime[i - 4].rights /\ i - 4 \in 4 .. 7
  <2>1. ASSUME NEW i \in 8 .. 11
        PROVE  Script[i].rights = GrantRuntime[i - 4].rights /\ i - 4 \in 4 .. 7
    <3>1. i - 4 \in 1 .. 7 /\ 4 + (i - 4) = i  OBVIOUS
    <3>2. Script[4 + (i - 4)].rights = GrantRuntime[i - 4].rights  BY <3>1, InboxDoes
    <3> QED BY <3>1, <3>2
  <2> QED BY <2>1
<1>4. /\ Script[5].rights = {<<"CREATE", "public">>}
      /\ Script[6].rights = {<<"CREATE", "schema">>}
      /\ Script[7].rights = {<<"CREATE", "database">>}
  <2>1. /\ Script[4 + 1].rights = GrantRuntime[1].rights
        /\ Script[4 + 2].rights = GrantRuntime[2].rights
        /\ Script[4 + 3].rights = GrantRuntime[3].rights
    BY InboxDoes
  <2> QED BY <1>2, <2>1
<1>5. \A i \in 8 .. 11 : Script[i].rights \subseteq Granted  BY <1>3, InboxRights
<1>6. \A r \in Granted : \E i \in 8 .. 11 : r \in Script[i].rights
  <2>1. ASSUME NEW r \in Granted PROVE \E i \in 8 .. 11 : r \in Script[i].rights
    <3>1. PICK j \in 4 .. 7 : r \in GrantRuntime[j].rights  BY InboxRights
    <3>2. Script[4 + j].rights = GrantRuntime[j].rights  BY InboxDoes
    <3>3. 4 + j \in 8 .. 11  OBVIOUS
    <3> QED BY <3>1, <3>2, <3>3
  <2> QED BY <2>1
<1>7. Statements
  <2>1. ASSUME NEW i \in 1 .. 12
        PROVE  /\ Is(i, "create") => Script[i].table \in Tables
               /\ Is(i, "record") => Script[i].version \in 1 .. SchemaVersion
               /\ Is(i, "revoke") => Script[i].rights \subseteq MayCreate
               /\ Is(i, "grant") => Script[i].rights \subseteq Granted
    <3>1. Is(i, "create") => Script[i].table \in Tables  BY <1>1, InboxDoes
    <3>2. Is(i, "record") => Script[i].version \in 1 .. SchemaVersion  BY <1>1, InboxDoes
    <3>3. Is(i, "revoke") => Script[i].rights \subseteq MayCreate
      BY <1>4, InboxDoes DEF MayCreate
    <3>4. Is(i, "grant") => Script[i].rights \subseteq Granted  BY <1>5, InboxDoes
    <3> QED BY <3>1, <3>2, <3>3, <3>4
  <2>2. Len(Script) \in Nat /\ DOMAIN Script = 1 .. Len(Script)
    <3>1. Len(Script) = 12 /\ DOMAIN Script = 1 .. 12  BY InboxDoes
    <3>2. Len(Script) \in Nat  BY <3>1
    <3> QED BY <3>1, <3>2, Zenon
  <2>3. \A i \in 1 .. 12 :
          Script[i].do \in {"create", "record", "check", "ready", "revoke", "grant"}
    BY InboxDoes
  <2>4. DOMAIN Script = 1 .. 12  BY InboxDoes
  <2> QED BY <2>1, <2>2, <2>3, <2>4 DEF Statements
<1>8. Effects
  <2>1. \A t \in Tables : \E i \in DOMAIN Script : Is(i, "create") /\ Script[i].table = t
    BY <1>1, InboxDoes
  <2>2. \A r \in MayCreate : \E i \in DOMAIN Script : Is(i, "revoke") /\ r \in Script[i].rights
    BY <1>4, InboxDoes DEF MayCreate
  <2>3. \A r \in Granted : \E i \in DOMAIN Script : Is(i, "grant") /\ r \in Script[i].rights
    BY <1>6, InboxDoes
  <2> QED BY <2>1, <2>2, <2>3 DEF Effects
<1>9. Order
  <2>1. ASSUME NEW i \in 1 .. 12, NEW j \in 1 .. 12
        PROVE  /\ Is(i, "record") /\ Is(j, "create") => j < i
               /\ Is(i, "grant") /\ Is(j, "revoke") => j < i
    BY InboxDoes
  <2> QED BY <2>1, InboxDoes DEF Order
<1> QED BY <1>7, <1>8, <1>9

-----------------------------------------------------------------------------
(***************************************************************************)
(* The inductive invariant.                                                *)
(*                                                                         *)
(* Whatever a run has behind it is done and stays done: no statement of    *)
(* any run undoes another's.  So what the last statement of a kind shows   *)
(* (the version recorded, the version readable, the routes writable) shows *)
(* that all that comes before it in the script is done too.                *)
(***************************************************************************)
Done(i) ==
  /\ Is(i, "create") => Script[i].table \in created
  /\ Is(i, "revoke") => Script[i].rights \cap rights = {}
  /\ Is(i, "grant") => Script[i].rights \subseteq rights

Passed(n) == \A i \in DOMAIN Script : i < n => Done(i)

DatabaseFits ==
  /\ created \subseteq Tables /\ recorded \subseteq 1 .. SchemaVersion
  /\ rights \subseteq MayCreate \cup Granted
  /\ SchemaVersion \in recorded => Tables \subseteq created
  /\ ReadsVersion \in rights => rights \cap MayCreate = {}
  /\ service = "ledger" /\ WritesRoutes \in rights => Granted \subseteq rights

RuntimeFits ==
  /\ runtime \in {"down", "ready", "serving"}
  /\ runtime # "down" => ReadsVersion \in rights
  /\ runtime = "serving" /\ service = "ledger" /\ Publishing => WritesRoutes \in rights

SetupInv ==
  /\ service \in {"ledger", "inbox"} /\ admin \in [Admins -> Nat]
  /\ DatabaseFits /\ RuntimeFits
  /\ \A a \in Admins : Passed(admin[a])

\* Either script is in order.
LEMMA InOrder == ASSUME SetupInv PROVE Statements /\ Effects /\ Order
BY LedgerInOrder, InboxInOrder DEF SetupInv

\* The scripts depend on nothing but whose database it is.
LEMMA ScriptStays ==
  ASSUME service' = service
  PROVE  /\ Script' = Script /\ Tables' = Tables /\ SchemaVersion' = SchemaVersion
         /\ Granted' = Granted
<1>1. Migrations' = Migrations  BY DEF Migrations
<1>2. Tables' = Tables /\ SchemaVersion' = SchemaVersion  BY <1>1 DEF Tables, SchemaVersion
<1>3. TableGrants' = TableGrants  BY <1>2 DEF TableGrants
<1>4. GrantRuntime' = GrantRuntime  BY <1>3 DEF GrantRuntime
<1>5. Granted' = Granted  BY <1>4 DEF Granted
<1>6. Creates(1)' = Creates(1) /\ Creates(2)' = Creates(2)  BY <1>1 DEF Creates
<1>7. Migration(1)' = Migration(1) /\ Migration(2)' = Migration(2)  BY <1>6 DEF Migration
<1>8. Script' = Script  BY <1>4, <1>7 DEF Script
<1> QED BY <1>2, <1>5, <1>8

\* No right is both granted and revoked.
LEMMA GrantsDiffer == Granted \cap MayCreate = {}
BY GrantedIs

\* A statement of a run that has done all before it: it is then done itself,
\* undoes nothing, and keeps the database as it should be.
LEMMA ExecuteKeeps ==
  ASSUME SetupInv, NEW i \in DOMAIN Script, Passed(i), Execute(Script[i]), service' = service
  PROVE  /\ DatabaseFits' /\ Done(i)' /\ \A j \in DOMAIN Script : Done(j) => Done(j)'
         /\ rights \cap Granted \subseteq rights'
<1> DEFINE s == Script[i]
<1>1. Statements /\ Effects /\ Order  BY InOrder
<1>2. /\ Script' = Script /\ Tables' = Tables /\ SchemaVersion' = SchemaVersion
      /\ Granted' = Granted
  BY ScriptStays
<1>3. /\ created' = IF s.do = "create" THEN created \cup {s.table} ELSE created
      /\ recorded' = IF s.do = "record" THEN recorded \cup {s.version} ELSE recorded
      /\ s.do = "revoke" => rights' = rights \ s.rights
      /\ s.do = "grant" => rights' = rights \cup s.rights
      /\ s.do \notin {"revoke", "grant"} => rights' = rights
  BY DEF Execute
<1>4. /\ s.do \in {"create", "record", "check", "ready", "revoke", "grant"}
      /\ s.do = "create" => s.table \in Tables
      /\ s.do = "record" => s.version \in 1 .. SchemaVersion
      /\ s.do = "revoke" => s.rights \subseteq MayCreate
      /\ s.do = "grant" => s.rights \subseteq Granted
  BY <1>1 DEF Statements, Is
<1>5. /\ created \subseteq Tables /\ recorded \subseteq 1 .. SchemaVersion
      /\ rights \subseteq MayCreate \cup Granted
      /\ SchemaVersion \in recorded => Tables \subseteq created
      /\ ReadsVersion \in rights => rights \cap MayCreate = {}
      /\ service = "ledger" /\ WritesRoutes \in rights => Granted \subseteq rights
  BY DEF SetupInv, DatabaseFits
<1>6. rights \cap Granted \subseteq rights'  BY <1>3, <1>4, GrantsDiffer
<1>7. ASSUME NEW j \in DOMAIN Script, Done(j) PROVE Done(j)'
  <2>1. Is(j, "create") => Script[j].table \in created'  BY <1>3, <1>7 DEF Done
  <2>2. Is(j, "revoke") => Script[j].rights \cap rights' = {}
    <3>1. Is(j, "revoke") => Script[j].rights \cap rights = {} /\ Script[j].rights \subseteq MayCreate
      BY <1>1, <1>7 DEF Done, Statements
    <3> QED BY <1>3, <1>4, <3>1, GrantsDiffer
  <2>3. Is(j, "grant") => Script[j].rights \subseteq rights'
    <3>1. Is(j, "grant") => Script[j].rights \subseteq rights /\ Script[j].rights \subseteq Granted
      BY <1>1, <1>7 DEF Done, Statements
    <3> QED BY <1>6, <3>1
  <2> QED BY <1>2, <2>1, <2>2, <2>3 DEF Done, Is
<1>8. Done(i)'
  <2>1. Is(i, "create") => Script[i].table \in created'  BY <1>3 DEF Is
  <2>2. Is(i, "revoke") => Script[i].rights \cap rights' = {}  BY <1>3 DEF Is
  <2>3. Is(i, "grant") => Script[i].rights \subseteq rights'  BY <1>3 DEF Is
  <2> QED BY <1>2, <2>1, <2>2, <2>3 DEF Done, Is
<1>9. SchemaVersion \in recorded' => Tables \subseteq created'
  <2>1. CASE SchemaVersion \in recorded  BY <1>3, <1>5, <2>1
  <2>2. CASE s.do = "record" /\ s.version = SchemaVersion
    <3>1. \A j \in DOMAIN Script : Is(j, "create") => Script[j].table \in created
      BY <1>1, <2>2 DEF Order, Is, Passed, Done
    <3>2. Tables \subseteq created  BY <1>1, <3>1 DEF Effects
    <3> QED BY <1>3, <3>2
  <2> QED BY <1>3, <2>1, <2>2
<1>10. ReadsVersion \in rights' => rights' \cap MayCreate = {}
  <2>1. CASE ReadsVersion \in rights
    <3>1. rights \cap MayCreate = {}  BY <1>5, <2>1
    <3> QED BY <1>3, <1>4, <3>1, GrantsDiffer
  <2>2. CASE s.do = "grant" /\ ReadsVersion \in s.rights
    <3>1. \A j \in DOMAIN Script : Is(j, "revoke") => Script[j].rights \cap rights = {}
      BY <1>1, <2>2 DEF Order, Is, Passed, Done
    <3>2. rights \cap MayCreate = {}  BY <1>1, <3>1 DEF Effects
    <3> QED BY <1>3, <1>4, <2>2, <3>2, GrantsDiffer
  <2> QED BY <1>3, <1>4, <2>1, <2>2
<1>11. service = "ledger" /\ WritesRoutes \in rights' => Granted \subseteq rights'
  <2>1. CASE service = "ledger" /\ WritesRoutes \in rights  BY <1>5, <1>6, <2>1
  <2>2. CASE service = "ledger" /\ s.do = "grant" /\ WritesRoutes \in s.rights
    <3>1. ASSUME NEW j \in DOMAIN Script, Is(j, "grant") PROVE Script[j].rights \subseteq rights'
      <4>1. j <= i  BY <1>1, <2>2, <3>1 DEF Order, Is
      <4>2. CASE j = i  BY <1>3, <2>2, <4>2
      <4>3. CASE j # i
        <5>1. j < i  BY <1>1, <4>1, <4>3 DEF Statements
        <5>2. Script[j].rights \subseteq rights  BY <3>1, <5>1 DEF Passed, Done
        <5> QED BY <1>3, <2>2, <5>2
      <4> QED BY <4>2, <4>3
    <3> QED BY <1>1, <3>1 DEF Effects
  <2> QED BY <1>3, <1>4, <2>1, <2>2
<1>12. /\ created' \subseteq Tables /\ recorded' \subseteq 1 .. SchemaVersion
       /\ rights' \subseteq MayCreate \cup Granted
  BY <1>3, <1>4, <1>5
<1>13. DatabaseFits'  BY <1>2, <1>9, <1>10, <1>11, <1>12 DEF DatabaseFits
<1> QED BY <1>6, <1>7, <1>8, <1>13

\* Rights the service relies on are never taken from it.
LEMMA RuntimeStays ==
  ASSUME SetupInv, rights \cap Granted \subseteq rights', service' = service, runtime' = runtime
  PROVE  RuntimeFits'
<1>1. ReadsVersion \notin MayCreate /\ WritesRoutes \notin MayCreate
  BY DEF ReadsVersion, WritesRoutes, MayCreate
<1>2. rights \subseteq MayCreate \cup Granted  BY DEF SetupInv, DatabaseFits
<1>3. /\ ReadsVersion \in rights => ReadsVersion \in rights'
      /\ WritesRoutes \in rights => WritesRoutes \in rights'
  BY <1>1, <1>2
<1> QED BY <1>3 DEF SetupInv, RuntimeFits, ReadsVersion, WritesRoutes

\* Steps that leave the tables and the rights alone.
LEMMA DatabaseStays ==
  ASSUME SetupInv, UNCHANGED <<service, created, recorded, rights>>
  PROVE  DatabaseFits' /\ \A n : Passed(n) => Passed(n)'
<1>1. /\ Script' = Script /\ Tables' = Tables /\ SchemaVersion' = SchemaVersion
      /\ Granted' = Granted
  BY ScriptStays
<1>2. DatabaseFits'  BY <1>1 DEF SetupInv, DatabaseFits, ReadsVersion, WritesRoutes
<1>3. \A n : Passed(n) => Passed(n)'  BY <1>1 DEF Passed, Done, Is
<1> QED BY <1>2, <1>3

\* A statement, with what becomes of the run that sent it.
LEMMA StatementKeeps ==
  ASSUME SetupInv, NEW a \in Admins, NEW i \in DOMAIN Script, admin[a] = i,
         Execute(Script[i]), service' = service, runtime' = runtime,
         NEW n \in {0, i + 1}, admin' = [admin EXCEPT ![a] = n]
  PROVE  SetupInv'
<1>1. admin \in [Admins -> Nat] /\ \A b \in Admins : Passed(admin[b])
  BY DEF SetupInv
<1>2. Passed(i)  BY <1>1
<1>3. /\ DatabaseFits' /\ Done(i)' /\ \A j \in DOMAIN Script : Done(j) => Done(j)'
      /\ rights \cap Granted \subseteq rights'
  BY <1>2, ExecuteKeeps
<1>4. Statements  BY InOrder
<1>5. DOMAIN Script \subseteq Nat  BY <1>4 DEF Statements
<1>6. Script' = Script  BY ScriptStays
<1>7. admin' \in [Admins -> Nat]  BY <1>1, <1>5
<1>8. \A m \in Nat : Passed(m) => Passed(m)'  BY <1>3, <1>6 DEF Passed
<1>9. Passed(n)'
  <2>1. CASE n = 0  BY <1>5, <1>6, <2>1 DEF Passed
  <2>2. CASE n = i + 1
    <3>1. ASSUME NEW j \in DOMAIN Script, j < i + 1 PROVE Done(j)'
      <4>1. CASE j = i  BY <1>3, <4>1
      <4>2. CASE j # i
        <5>1. j < i  BY <1>5, <3>1, <4>2
        <5> QED BY <1>2, <1>3, <5>1 DEF Passed
      <4> QED BY <4>1, <4>2
    <3> QED BY <1>6, <2>2, <3>1 DEF Passed
  <2> QED BY <2>1, <2>2
<1>10. ASSUME NEW b \in Admins PROVE Passed(admin[b])'
  <2>1. CASE b = a
    <3>1. admin'[b] = n  BY <1>1, <2>1
    <3> QED BY <1>9, <3>1 DEF Passed
  <2>2. CASE b # a
    <3>1. admin'[b] = admin[b] /\ admin[b] \in Nat  BY <1>1, <2>2
    <3>2. PICK m \in Nat : m = admin[b]  BY <3>1
    <3>3. Passed(m)'  BY <1>1, <1>8, <3>2
    <3> QED BY <3>1, <3>2, <3>3 DEF Passed
  <2> QED BY <2>1, <2>2
<1>11. RuntimeFits'  BY <1>3, RuntimeStays
<1> QED BY <1>3, <1>7, <1>10, <1>11 DEF SetupInv

\* A run begins or ends without a statement.
LEMMA RunKeeps ==
  ASSUME SetupInv, NEW a \in Admins, NEW n \in {0, 1}, admin' = [admin EXCEPT ![a] = n],
         UNCHANGED <<service, created, recorded, rights, runtime>>
  PROVE  SetupInv'
<1>1. admin \in [Admins -> Nat] /\ \A b \in Admins : Passed(admin[b])
  BY DEF SetupInv
<1>2. DatabaseFits' /\ \A m : Passed(m) => Passed(m)'  BY DatabaseStays
<1>3. Statements  BY InOrder
<1>4. Passed(n)
  <2>1. \A i \in DOMAIN Script : ~(i < n)  BY <1>3 DEF Statements
  <2> QED BY <2>1 DEF Passed
<1>5. ASSUME NEW b \in Admins PROVE Passed(admin[b])'
  <2>1. PICK m \in Nat : m = admin'[b] /\ Passed(m)  BY <1>1, <1>4
  <2>2. Passed(m)'  BY <1>2, <2>1
  <2> QED BY <2>1, <2>2 DEF Passed
<1>6. RuntimeFits'  BY RuntimeStays
<1>7. admin' \in [Admins -> Nat]  BY <1>1
<1> QED BY <1>2, <1>5, <1>6, <1>7 DEF SetupInv

\* Steps of the service itself, which runs no statement of a script.
LEMMA ServiceKeeps ==
  ASSUME SetupInv, UNCHANGED <<service, created, recorded, rights, admin>>, RuntimeFits'
  PROVE  SetupInv'
<1>1. DatabaseFits' /\ \A m : Passed(m) => Passed(m)'  BY DatabaseStays
<1>2. ASSUME NEW b \in Admins PROVE Passed(admin[b])'
  <2>1. PICK m : m = admin[b] /\ Passed(m)  BY DEF SetupInv
  <2>2. Passed(m)'  BY <1>1, <2>1
  <2> QED BY <2>1, <2>2 DEF Passed
<1> QED BY <1>1, <1>2 DEF SetupInv

-----------------------------------------------------------------------------
(***************************************************************************)
(* Theorems.                                                               *)
(***************************************************************************)
\* Every step keeps the invariant.
LEMMA NextKeepsSetup == ASSUME SetupInv, [Next]_vars PROVE SetupInv'
<1>1. ASSUME NEW a \in Admins, Begin(a) PROVE SetupInv'
  BY <1>1, RunKeeps DEF Begin
<1>2. ASSUME NEW a \in Admins, Step(a) PROVE SetupInv'
  <2>1. PICK i \in DOMAIN Script : admin[a] = i  BY <1>2 DEF Step, Running
  <2>2. CASE Execute(Script[i]) /\ admin' = [admin EXCEPT ![a] = @ + 1]
    <3>1. admin' = [admin EXCEPT ![a] = i + 1]  BY <2>1, <2>2
    <3>2. service' = service /\ runtime' = runtime  BY <1>2 DEF Step
    <3> QED BY <2>1, <2>2, <3>1, <3>2, StatementKeeps
  <2>3. CASE UNCHANGED <<created, recorded, rights>> /\ admin' = [admin EXCEPT ![a] = 0]
    BY <1>2, <2>3, RunKeeps DEF Step
  <2> QED BY <1>2, <2>1, <2>2, <2>3 DEF Step
<1>3. ASSUME NEW a \in Admins, Fail(a) PROVE SetupInv'
  <2>1. PICK i \in DOMAIN Script : admin[a] = i  BY <1>3 DEF Fail, Running
  <2>2. CASE Execute(Script[i])
    BY <1>3, <2>1, <2>2, StatementKeeps DEF Fail
  <2>3. CASE UNCHANGED <<created, recorded, rights>>
    BY <1>3, <2>3, RunKeeps DEF Fail
  <2> QED BY <1>3, <2>1, <2>2, <2>3 DEF Fail
<1>4. CASE CreateFixture
  <2>1. UNCHANGED <<service, created, recorded, rights, admin, runtime>>
    BY <1>4 DEF CreateFixture
  <2>2. RuntimeFits'  BY <2>1, RuntimeStays
  <2> QED BY <2>1, <2>2, ServiceKeeps
<1>5. CASE PassReady
  <2>1. UNCHANGED <<service, created, recorded, rights, admin>>  BY <1>5 DEF PassReady
  <2>2. ReadsVersion \in rights  BY <1>5, RightsAre DEF PassReady, ReadsVersion
  <2>3. /\ runtime' \in {"ready", "serving"}
        /\ service = "ledger" /\ Publishing => runtime' = "ready"
    BY <1>5 DEF PassReady
  <2>4. RuntimeFits'  BY <2>1, <2>2, <2>3 DEF RuntimeFits, ReadsVersion, WritesRoutes
  <2> QED BY <2>1, <2>4, ServiceKeeps
<1>6. CASE Bind
  <2>1. UNCHANGED <<service, created, recorded, rights, admin>>  BY <1>6 DEF Bind
  <2>2. ReadsVersion \in rights  BY <1>6 DEF Bind, SetupInv, RuntimeFits
  <2>3. /\ runtime' \in {"down", "serving"}
        /\ runtime' = "serving" => WritesRoutes \in rights
    BY <1>6, RightsAre DEF Bind, WritesRoutes
  <2>4. RuntimeFits'  BY <2>1, <2>2, <2>3 DEF RuntimeFits, ReadsVersion, WritesRoutes
  <2> QED BY <2>1, <2>4, ServiceKeeps
<1>7. CASE Stop
  <2>1. UNCHANGED <<service, created, recorded, rights, admin>> /\ runtime' = "down"
    BY <1>7 DEF Stop
  <2>2. RuntimeFits'  BY <2>1 DEF RuntimeFits
  <2> QED BY <2>1, <2>2, ServiceKeeps
<1>8. CASE UNCHANGED vars
  <2>1. UNCHANGED <<service, created, recorded, rights, admin, runtime>>  BY <1>8 DEF vars
  <2>2. RuntimeFits'  BY <2>1, RuntimeStays
  <2> QED BY <2>1, <2>2, ServiceKeeps
<1> QED BY <1>1, <1>2, <1>3, <1>4, <1>5, <1>6, <1>7, <1>8 DEF Next

\* The inductive invariant of setting a database up: what a run has behind it is done
\* and stays done, however many runs overlap and wherever they fail.
THEOREM SetupInvariant == Spec => []SetupInv
<1>1. Init => SetupInv
  <2> SUFFICES ASSUME Init PROVE SetupInv  OBVIOUS
  <2>1. service \in {"ledger", "inbox"}  BY DEF Init
  <2>2. Statements  BY <2>1, LedgerInOrder, InboxInOrder
  <2>3. ReadsVersion \notin MayCreate /\ WritesRoutes \notin MayCreate
    BY DEF ReadsVersion, WritesRoutes, MayCreate
  <2>4. DatabaseFits  BY <2>3 DEF Init, DatabaseFits
  <2>5. RuntimeFits  BY DEF Init, RuntimeFits
  <2>6. admin \in [Admins -> Nat] /\ \A a \in Admins : admin[a] = 0  BY DEF Init
  <2>7. ASSUME NEW a \in Admins PROVE Passed(admin[a])
    <3>1. \A i \in DOMAIN Script : ~(i < 0)  BY <2>2 DEF Statements
    <3> QED BY <2>6, <3>1 DEF Passed
  <2> QED BY <2>1, <2>4, <2>5, <2>6, <2>7 DEF SetupInv
<1>2. SetupInv /\ [Next]_vars => SetupInv'  BY NextKeepsSetup
<1> QED BY <1>1, <1>2, PTL DEF Spec

\* Ready accepts only a whole schema, however Migrate was interrupted or overlapped.
THEOREM ReadyMeansWhole == Spec => []ReadySchemaIsWhole
<1>1. SetupInv => ReadySchemaIsWhole
  BY DEF SetupInv, DatabaseFits, ReadySchemaIsWhole, Ready
<1> QED BY <1>1, SetupInvariant, PTL

\* A service that was let in can create nothing, whatever the role could at first.
THEOREM RuntimeNeverCreates == Spec => []RuntimeCannotCreate
<1>1. SetupInv => RuntimeCannotCreate
  BY DEF SetupInv, DatabaseFits, RuntimeFits, RuntimeCannotCreate
<1> QED BY <1>1, SetupInvariant, PTL

\* A Ledger that publishes has the rights of GrantRuntime, all of them and no others.
THEOREM PublisherIsGranted == Spec => []PublisherHasItsRights
<1>1. SetupInv => PublisherHasItsRights
  BY DEF SetupInv, DatabaseFits, RuntimeFits, PublisherHasItsRights
<1> QED BY <1>1, SetupInvariant, PTL

=============================================================================
