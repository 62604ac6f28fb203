---------------------------- MODULE AuditProofs -----------------------------
(***************************************************************************)
(* Theorems about the histories and the export: the verifier accepts every *)
(* book the Ledger can reach, and no such book with a row gone, an amount  *)
(* altered or a record altered.                                            *)
(***************************************************************************)
EXTENDS Audit, LedgerMoneyProofs

-----------------------------------------------------------------------------
(***************************************************************************)
(* Histories as chains.  A row that was written n times has the events 1   *)
(* to n, each of which starts from where the one before ended.             *)
(***************************************************************************)
Chained(es, row) ==
  /\ \A e \in es : /\ e.version \in 1 .. row.version /\ e.after.version = e.version
                   /\ e.version = 1 => e.before = {}
                   /\ e.version = row.version => e.after = row
  /\ \A i \in 1 .. row.version : \E e \in es : e.version = i
  /\ \A d, e \in es : d.version = e.version => d = e
  /\ \A d, e \in es : d.version = e.version - 1 => e.before = {d.after}

\* The event of the next version continues the chain.
LEMMA ChainGrows ==
  ASSUME NEW es, NEW row, row.version \in Nat, Chained(es, row),
         NEW new, new.version = row.version + 1,
         NEW x, x.version = new.version, x.after = new,
         x.before = IF row.version = 0 THEN {} ELSE {row}
  PROVE  Chained(es \cup {x}, new)
<1> DEFINE n == row.version
<1>1. \A e \in es : /\ e.version \in 1 .. n /\ e.after.version = e.version
                    /\ e.version = 1 => e.before = {}
                    /\ e.version = n => e.after = row
  BY DEF Chained
<1>2. x.version = n + 1 /\ new.version = n + 1 /\ n \in Nat  OBVIOUS
<1>3. ASSUME NEW e \in es \cup {x}
      PROVE  /\ e.version \in 1 .. (n + 1) /\ e.after.version = e.version
             /\ e.version = 1 => e.before = {}
             /\ e.version = n + 1 => e.after = new
  <2>1. CASE e \in es
    <3>1. e.version \in 1 .. n  BY <1>1, <2>1
    <3>2. e.version \in 1 .. (n + 1) /\ e.version # n + 1  BY <1>2, <3>1
    <3> QED  BY <1>1, <2>1, <3>2
  <2>2. CASE e = x
    <3>1. e.version = 1 => n = 0  BY <1>2, <2>2
    <3> QED  BY <1>2, <2>2, <3>1
  <2> QED  BY <2>1, <2>2
<1>4. ASSUME NEW i \in 1 .. (n + 1) PROVE \E e \in es \cup {x} : e.version = i
  <2>1. CASE i = n + 1  BY <1>2, <2>1
  <2>2. CASE i # n + 1
    <3>1. i \in 1 .. n  BY <1>2, <2>2
    <3> QED  BY <3>1 DEF Chained
  <2> QED  BY <2>1, <2>2
<1>5. ASSUME NEW d \in es \cup {x}, NEW e \in es \cup {x}, d.version = e.version PROVE d = e
  <2>1. CASE d \in es /\ e \in es  BY <1>5, <2>1 DEF Chained
  <2>2. \A f \in es : f.version \in 1 .. n /\ f.version # n + 1
    <3> TAKE f \in es
    <3>1. f.version \in 1 .. n  BY <1>1
    <3> QED  BY <1>2, <3>1
  <2> QED  BY <1>2, <1>5, <2>1, <2>2
<1>6. ASSUME NEW d \in es \cup {x}, NEW e \in es \cup {x}, d.version = e.version - 1
      PROVE  e.before = {d.after}
  <2>1. CASE d \in es /\ e \in es  BY <1>6, <2>1 DEF Chained
  <2>2. CASE d \in es /\ e = x
    <3>1. d.version = n /\ d.version \in 1 .. n  BY <1>1, <1>2, <1>6, <2>2
    <3>2. n # 0  BY <3>1
    <3> QED  BY <1>1, <2>2, <3>1, <3>2
  <2>3. CASE d = x /\ e \in es
    <3>1. e.version \in 1 .. n  BY <1>1, <2>3
    <3>2. e.version - 1 = n + 1  BY <1>2, <1>6, <2>3
    <3> QED  BY <1>2, <3>1, <3>2
  <2>4. CASE d = x /\ e = x
    <3>1. n + 1 = n + 1 - 1  BY <1>2, <1>6, <2>4
    <3> QED  BY <1>2, <3>1
  <2> QED  BY <2>1, <2>2, <2>3, <2>4
<1> HIDE DEF n
<1>7. new.version = n + 1  BY <1>2
<1> QED  BY <1>3, <1>4, <1>5, <1>6, <1>7 DEF Chained

\* The histories of a table: each row has its chain, and no event is of another row.
Unbroken(log, rows) ==
  /\ \A e \in log : e.key \in DOMAIN rows
  /\ \A k \in DOMAIN rows : Chained(V!EventsOf(log, k), rows[k])

\* A plan writes a row under its next version, or not at all.
Advances(old, new) ==
  /\ DOMAIN new = DOMAIN old
  /\ \A k \in DOMAIN old : /\ old[k].version \in Nat
                           /\ new[k] = old[k] \/ new[k].version = old[k].version + 1

\* Save adds to the histories what the plan changed.
LEMMA ChangesChain ==
  ASSUME NEW log, NEW old, NEW new, NEW op, Unbroken(log, old), Advances(old, new)
  PROVE  Unbroken(log \cup Changes(old, new, op), new)
<1> DEFINE K == {x \in DOMAIN old : old[x] # new[x]}
           ev == [k \in K |-> Event(k, new[k].version, op,
                                   IF old[k].version = 0 THEN {} ELSE {old[k]}, new[k])]
           more == Changes(old, new, op)
<1>1. more = {ev[k] : k \in K}  BY DEF Changes
<1>2. \A k \in K : /\ ev[k].key = k /\ ev[k].version = new[k].version /\ ev[k].after = new[k]
                   /\ ev[k].before = IF old[k].version = 0 THEN {} ELSE {old[k]}
  BY DEF Event
<1>3. DOMAIN new = DOMAIN old  BY DEF Advances
<1>4. \A k \in K : ev[k].key = k  BY <1>2
<1> HIDE DEF ev
<1>5. (\A e \in more : \E k \in K : e = ev[k]) /\ (\A k \in K : ev[k] \in more)  BY <1>1
<1>6. K \subseteq DOMAIN old  OBVIOUS
<1> HIDE DEF more
<1>7. \A e \in log \cup more : e.key \in DOMAIN new
  <2> HIDE DEF K
  <2>1. \A e \in log : e.key \in DOMAIN new  BY <1>3 DEF Unbroken
  <2>2. \A e \in more : e.key \in DOMAIN new  BY <1>3, <1>5, <1>6, <1>4
  <2> QED  BY <2>1, <2>2
<1>8. ASSUME NEW k \in DOMAIN new
      PROVE  Chained(V!EventsOf(log \cup more, k), new[k])
  <2>1. Chained(V!EventsOf(log, k), old[k])  BY <1>3 DEF Unbroken
  <2>2. CASE k \in K
    <3>2. old[k].version \in Nat /\ new[k].version = old[k].version + 1
      BY <2>2 DEF Advances
    <3> HIDE DEF K
    <3>1. V!EventsOf(log \cup more, k) = V!EventsOf(log, k) \cup {ev[k]}
      BY <1>4, <1>5, <2>2 DEF V!EventsOf
    <3>3. /\ ev[k].version = new[k].version /\ ev[k].after = new[k]
          /\ ev[k].before = IF old[k].version = 0 THEN {} ELSE {old[k]}
      BY <1>2, <2>2
    <3>4. Chained(V!EventsOf(log, k) \cup {ev[k]}, new[k])
      BY <2>1, <3>2, <3>3, ChainGrows
    <3> QED  BY <3>1, <3>4
  <2>3. CASE k \notin K
    <3>1. new[k] = old[k]  BY <1>3, <2>3
    <3> HIDE DEF K
    <3>2. V!EventsOf(log \cup more, k) = V!EventsOf(log, k)
      BY <1>4, <1>5, <2>3 DEF V!EventsOf
    <3> QED  BY <2>1, <3>1, <3>2
  <2> QED  BY <2>2, <2>3
<1>9. Unbroken(log \cup more, new)  BY <1>7, <1>8 DEF Unbroken
<1> QED  BY <1>9 DEF more

\* A row that was never written has no events.
LEMMA ChainEmpty ==
  ASSUME NEW es, NEW row, row.version = 0, Chained(es, row)
  PROVE  es = {}
<1>1. \A e \in es : e.version \in 1 .. 0  BY DEF Chained
<1> QED  BY <1>1

\* A chain has as many events as the row has versions.
LEMMA ChainCounts ==
  ASSUME NEW es, NEW n \in Nat, \A e \in es : e.version \in 1 .. n,
         \A i \in 1 .. n : \E e \in es : e.version = i,
         \A d, e \in es : d.version = e.version => d = e
  PROVE  Cardinality(es) = n /\ {e.version : e \in es} = 1 .. n
<1> DEFINE f == [i \in 1 .. n |-> CHOOSE e \in es : e.version = i]
<1>1. \A i \in 1 .. n : f[i] \in es /\ f[i].version = i  OBVIOUS
<1>2. \A e \in es : e.version \in 1 .. n /\ f[e.version] = e  BY <1>1
<1>3. f \in [1 .. n -> es]  BY <1>1
<1> HIDE DEF f
<1>4. f \in Bijection(1 .. n, es)
  <2>1. \A i, j \in 1 .. n : f[i] = f[j] => i = j  BY <1>1
  <2>2. \A e \in es : \E i \in 1 .. n : f[i] = e  BY <1>2
  <2> QED  BY <1>3, <2>1, <2>2 DEF Bijection, Injection, Surjection, IsInjective
<1>5. IsFiniteSet(1 .. n) /\ Cardinality(1 .. n) = n
  BY FS_Interval
<1>6. Cardinality(es) = n  BY <1>4, <1>5, FS_Bijection DEF ExistsBijection
<1>7. {e.version : e \in es} = 1 .. n  OBVIOUS
<1> QED  BY <1>6, <1>7

-----------------------------------------------------------------------------
(***************************************************************************)
(* The histories of holds, whose bodies carry the expiry as precisely as   *)
(* it was read.                                                            *)
(***************************************************************************)

\* An expiry that was stored once is stored the same again.
LEMMA TruncateTwice ==
  ASSUME NEW t \in Int
  PROVE  V!Truncate(t) \in Int /\ V!Truncate(V!Truncate(t)) = V!Truncate(t)
<1> DEFINE q == t \div Micro
<1>1. Micro \in Nat /\ Micro > 0  BY MicroAssumption
<1>2. q \in Int  BY <1>1
<1>3. (q * Micro) \div Micro = q
  <2> DEFINE d == (q * Micro) \div Micro
             r == (q * Micro) % Micro
  <2> HIDE DEF q
  <2>1. q * Micro \in Int  BY <1>1, <1>2
  <2>2. d \in Int /\ r \in Int /\ 0 <= r /\ r < Micro /\ q * Micro = Micro * d + r  BY <1>1, <2>1
  <2> HIDE DEF d, r
  <2>3. CASE q = d  BY <2>3 DEF d
  <2>4. CASE q > d
    <3>1. PICK n \in Nat : q = d + 1 + n  BY <1>2, <2>2, <2>4
    <3>2. q * Micro = d * Micro + Micro + n * Micro  BY <1>1, <2>2, <3>1
    <3>3. n * Micro >= 0 /\ n * Micro \in Int  BY <1>1, <3>1
    <3> QED  BY <1>1, <2>2, <3>2, <3>3
  <2>5. CASE q < d
    <3>1. PICK n \in Nat : d = q + 1 + n  BY <1>2, <2>2, <2>5
    <3>2. d * Micro = q * Micro + Micro + n * Micro  BY <1>1, <1>2, <2>2, <3>1
    <3>3. n * Micro >= 0 /\ n * Micro \in Int  BY <1>1, <3>1
    <3> QED  BY <1>1, <2>1, <2>2, <3>2, <3>3
  <2> QED  BY <1>2, <2>2, <2>3, <2>4, <2>5
<1>4. V!Truncate(t) = q * Micro  BY DEF V!Truncate
<1> HIDE DEF q
<1>5. q * Micro \in Int  BY <1>1, <1>2
<1> QED  BY <1>3, <1>4, <1>5 DEF V!Truncate

\* The body of a hold with these terms.
Body(terms, state, version, expiry) ==
  [terms |-> terms, state |-> state, version |-> version, expiresAt |-> expiry]

HoldChained(es, terms, stored, row) ==
  /\ \A e \in es : /\ e.version \in 1 .. row.version
                   /\ e.after = Body(terms, e.after.state, e.version, e.after.expiresAt)
                   /\ V!Truncate(e.after.expiresAt) = stored
                   /\ e.version = 1 => e.before = {} /\ e.after.state = "RESERVED"
                   /\ e.version = row.version => e.after.state = row.state
  /\ \A i \in 1 .. row.version : \E e \in es : e.version = i
  /\ \A d, e \in es : d.version = e.version => d = e
  /\ \A d, e \in es : d.version = e.version - 1 =>
       /\ e.before = {Body(terms, d.after.state, d.version, stored)}
       /\ <<d.after.state, e.after.state>> \in V!HoldMoves

\* The event of the next version continues the chain of a hold.
LEMMA HoldChainGrows ==
  ASSUME NEW es, NEW terms, NEW stored, V!Truncate(stored) = stored,
         NEW row, row.version \in Nat \ {0}, HoldChained(es, terms, stored, row),
         NEW new, new.version = row.version + 1, <<row.state, new.state>> \in V!HoldMoves,
         NEW x, x.version = new.version, x.after = Body(terms, new.state, new.version, stored),
         x.before = {Body(terms, row.state, row.version, stored)}
  PROVE  HoldChained(es \cup {x}, terms, stored, new)
<1> DEFINE n == row.version
<1>1. \A e \in es : /\ e.version \in 1 .. n
                    /\ e.after = Body(terms, e.after.state, e.version, e.after.expiresAt)
                    /\ V!Truncate(e.after.expiresAt) = stored
                    /\ e.version = 1 => e.before = {} /\ e.after.state = "RESERVED"
                    /\ e.version = n => e.after.state = row.state
  BY DEF HoldChained
<1>2. x.version = n + 1 /\ new.version = n + 1 /\ n \in Nat /\ n # 0  OBVIOUS
<1>3. x.after.state = new.state /\ x.after.expiresAt = stored /\ x.after.version = n + 1
  BY <1>2 DEF Body
<1> HIDE DEF n
<1>4. \A f \in es : f.version \in 1 .. n /\ f.version \in Int /\ f.version # n + 1
  <2> TAKE f \in es
  <2>1. f.version \in 1 .. n  BY <1>1
  <2> QED  BY <1>2, <2>1
<1>5. ASSUME NEW e \in es \cup {x}
      PROVE  /\ e.version \in 1 .. (n + 1)
             /\ e.after = Body(terms, e.after.state, e.version, e.after.expiresAt)
             /\ V!Truncate(e.after.expiresAt) = stored
             /\ e.version = 1 => e.before = {} /\ e.after.state = "RESERVED"
             /\ e.version = n + 1 => e.after.state = new.state
  <2>1. CASE e \in es
    <3>1. e.version \in 1 .. n /\ e.version # n + 1  BY <1>4, <2>1
    <3>2. e.version \in 1 .. (n + 1)  BY <1>2, <3>1
    <3> QED  BY <1>1, <2>1, <3>1, <3>2
  <2>2. CASE e = x
    <3>1. e.version = n + 1 /\ e.version # 1 /\ e.version \in 1 .. (n + 1)  BY <1>2, <2>2
    <3> QED  BY <1>2, <1>3, <2>2, <3>1
  <2> QED  BY <2>1, <2>2
<1>6. ASSUME NEW i \in 1 .. (n + 1) PROVE \E e \in es \cup {x} : e.version = i
  <2>1. CASE i = n + 1  BY <1>2, <2>1
  <2>2. CASE i # n + 1
    <3>1. i \in 1 .. n  BY <1>2, <2>2
    <3> QED  BY <3>1 DEF HoldChained, n
  <2> QED  BY <2>1, <2>2
<1>7. ASSUME NEW d \in es \cup {x}, NEW e \in es \cup {x}, d.version = e.version PROVE d = e
  <2>1. CASE d \in es /\ e \in es  BY <1>7, <2>1 DEF HoldChained
  <2> QED  BY <1>2, <1>4, <1>7, <2>1
<1>8. ASSUME NEW d \in es \cup {x}, NEW e \in es \cup {x}, d.version = e.version - 1
      PROVE  /\ e.before = {Body(terms, d.after.state, d.version, stored)}
             /\ <<d.after.state, e.after.state>> \in V!HoldMoves
  <2>1. CASE d \in es /\ e \in es  BY <1>8, <2>1 DEF HoldChained
  <2>2. CASE d \in es /\ e = x
    <3>1. d.version = n  BY <1>2, <1>4, <1>8, <2>2
    <3>2. d.after.state = row.state  BY <1>1, <2>2, <3>1
    <3> QED  BY <1>3, <2>2, <3>1, <3>2 DEF n
  <2>3. CASE d = x /\ e \in es
    <3>1. e.version \in 1 .. n  BY <1>4, <2>3
    <3>2. e.version - 1 = n + 1  BY <1>2, <1>8, <2>3
    <3> QED  BY <1>2, <3>1, <3>2
  <2>4. CASE d = x /\ e = x
    <3>1. n + 1 = n + 1 - 1  BY <1>2, <1>8, <2>4
    <3> QED  BY <1>2, <3>1
  <2> QED  BY <2>1, <2>2, <2>3, <2>4
<1>9. new.version = n + 1  BY <1>2
<1> QED  BY <1>5, <1>6, <1>7, <1>8, <1>9 DEF HoldChained

\* A new hold starts a chain, with the expiry of the command.
LEMMA HoldChainStarts ==
  ASSUME NEW terms, NEW expiry, NEW new, new.version = 1, new.state = "RESERVED",
         NEW x, x.version = 1, x.after = Body(terms, "RESERVED", 1, expiry), x.before = {}
  PROVE  HoldChained({x}, terms, V!Truncate(expiry), new)
<1>1. x.after.state = "RESERVED" /\ x.after.expiresAt = expiry  BY DEF Body
<1>2. x.after = Body(terms, x.after.state, x.version, x.after.expiresAt)  BY <1>1
<1>3. x.version \in 1 .. 1 /\ x.version # x.version - 1  OBVIOUS
<1>4. \A i \in 1 .. 1 : x.version = i  OBVIOUS
<1> QED  BY <1>1, <1>2, <1>3, <1>4 DEF HoldChained

-----------------------------------------------------------------------------
(***************************************************************************)
(* What stays on record of each operation, claim and hold.                 *)
(***************************************************************************)
\* The terms of a spend that was admitted, to be paid to this account.
Sound(t, payee) ==
  /\ t \in Terms /\ t.policy \in DOMAIN Policies /\ Policies[t.policy].fee = t.fee
  /\ t.source \in Accounts \ (Pools \cup FeeAccounts)
  /\ payee \in Accounts \ FeeAccounts /\ payee # t.source
  /\ Exists(t.source) /\ Exists(payee)
  /\ Total(t) <= MaxAmount

\* The evidence of an operation, as resolution_evidence has it.
Proof(e, ref) == /\ e \in Evidence /\ evidence[e.id] = e
                 /\ e.payment = ref.payment /\ e.hold = ref.hold

FixtureRecorded ==
  /\ receipts[FixtureOp].outcome = "APPLIED" /\ receipts[FixtureOp].request = NoRequest
  /\ journal[FixtureOp] = {Line(FundedPool, "DEBIT", Funding), Line(FundedWallet, "CREDIT", Funding)}
  /\ Exists(FundedWallet)

\* What a receipt says: an admission decided its payment, a transfer posted its lines
\* and counts on its day, a capture posted the lines of the hold it captured, on evidence
\* of that payout, and nothing else posted anything.
TransferRecord(x) ==
  LET r == receipts[x].request
  IN  /\ Sound(r.terms, r.terms.beneficiary) /\ journal[x] = TransferLines(r.terms)
      /\ receipts[x].bucket \in Buckets
      /\ usage[<<owner[r.terms.source], receipts[x].bucket>>].version > 0
CaptureRecord(x) ==
  LET r == receipts[x].request
      h == r.ref.hold
      e == r.evidence
  IN  /\ hold[h].state = "CAPTURED" /\ journal[x] = HoldLines(h)
      /\ e.final = "FINAL_SUCCESS" /\ e.routed /\ e.attempt = hold[h].reserve.attempt
      /\ e.principal = hold[h].reserve.terms.principal
      /\ e.beneficiary = hold[h].reserve.terms.beneficiary
RecordOf(x) ==
  LET r == receipts[x].request
  IN  /\ r \in Requests
      /\ r \in Transfers \cup Reserves => claim[r.terms.payment].state # "ABSENT"
      /\ Applied(x, Transfers) => TransferRecord(x)
      /\ Applied(x, Captures) => CaptureRecord(x)
      /\ ~Applied(x, Transfers \cup Captures) => journal[x] = {}
      /\ EvidenceKept(x) # {} => Proof(r.evidence, r.ref)

\* What a claim says: its admission is the operation that decided it, its result the
\* latest about the payment.
About(r, p) ==
  \/ r \in Transfers \cup Reserves /\ r.terms.payment = p
  \/ r \in Exposes \cup Captures \cup Releases /\ r.ref.payment = p
ClaimRecord(p) ==
  LET c == claim[p]
  IN  /\ c.admission \in Ops /\ c.result \in Ops
      /\ receipts[c.admission].outcome = (IF c.state = "REJECTED" THEN "REJECTED" ELSE "APPLIED")
      /\ receipts[c.admission].request \in Transfers \cup Reserves
      /\ receipts[c.admission].request.terms.payment = p
      /\ receipts[c.result].outcome # "NONE"
      /\ About(receipts[c.result].request, p)

ClaimsRecorded == \A p \in Payments : claim[p].state # "ABSENT" => ClaimRecord(p)

\* What a hold says, beside its terms.
HoldRecord(h) ==
  /\ Policies[hold[h].reserve.terms.policy].fee = hold[h].reserve.terms.fee
  /\ Policies[hold[h].reserve.terms.policy].pool = hold[h].reserve.pool

\* What the verifier finds on record, for all operations, claims and holds.
RecordInv ==
  /\ FixtureRecorded
  /\ \A x \in Ops \ {FixtureOp} : receipts[x].outcome # "NONE" => RecordOf(x)
  /\ ClaimsRecorded
  /\ \A h \in Holds : hold[h].state # "ABSENT" => HoldRecord(h)
  /\ \A h \in Holds : hold[h].state = "ABSENT" <=> hold[h].version = 0
  /\ \A a \in Accounts : Exists(a) <=> balance[a].version > 0

\* What every step keeps of it.
RecordsKept ==
  /\ HistoryKept /\ OwnersStay /\ DaysCreep
  /\ \A p \in Payments : ClaimAdvances(p)

\* A record of an operation stays true: what it speaks of is never taken back.
LEMMA RecordStays ==
  ASSUME BookInv, RecordsKept, NEW x \in Ops, receipts[x].outcome # "NONE", RecordOf(x)
  PROVE  RecordOf(x)'
<1> DEFINE r == receipts[x].request
<1>1. receipts'[x] = receipts[x] /\ journal'[x] = journal[x]
  BY DEF RecordsKept, HistoryKept, ReceiptsKept
<1>2. r \in Requests  BY DEF RecordOf
<1>3. ASSUME r \in Transfers \cup Reserves PROVE claim'[r.terms.payment].state # "ABSENT"
  <2>1. r.terms.payment \in Payments /\ claim[r.terms.payment].state # "ABSENT"
    BY <1>3, PaymentTypes DEF RecordOf
  <2>2. ClaimAdvances(r.terms.payment)  BY <2>1 DEF RecordsKept
  <2> QED  BY <2>1, <2>2 DEF ClaimAdvances
<1>4. ASSUME Applied(x, Transfers) PROVE TransferRecord(x)'
  <2>1. TransferRecord(x)  BY <1>4 DEF RecordOf
  <2>2. r.terms.source \in Accounts /\ r.terms.beneficiary \in Accounts
        /\ Exists(r.terms.source) /\ Exists(r.terms.beneficiary)
    BY <2>1 DEF TransferRecord, Sound
  <2>3. owner'[r.terms.source] = owner[r.terms.source]
        /\ owner'[r.terms.beneficiary] = owner[r.terms.beneficiary]
    BY <2>2 DEF RecordsKept, OwnersStay
  <2>4. Sound(r.terms, r.terms.beneficiary)'
    BY <1>1, <2>1, <2>2, <2>3 DEF TransferRecord, Sound, Exists
  <2> DEFINE k == <<owner[r.terms.source], receipts[x].bucket>>
  <2>5. k \in Owners \X Buckets /\ usage[k].version > 0
    BY <2>1, <2>2, KeysOf DEF TransferRecord, BookInv, LedgerInv
  <2>6. usage'[k].version > 0
    <3>1. usage[k].version \in Nat  BY <2>5, UsageCounts DEF BookInv, Counter
    <3>2. usage'[k].version \in {usage[k].version, usage[k].version + 1}
      BY <2>5 DEF RecordsKept, DaysCreep
    <3> QED  BY <2>5, <3>1, <3>2
  <2> QED  BY <1>1, <2>1, <2>3, <2>4, <2>6 DEF TransferRecord
<1>5. ASSUME Applied(x, Captures) PROVE CaptureRecord(x)'
  <2>1. CaptureRecord(x)  BY <1>5 DEF RecordOf
  <2>2. r.ref.hold \in Holds /\ hold[r.ref.hold].state = "CAPTURED"
    BY <1>5, <2>1, RefTypes DEF CaptureRecord, Applied
  <2>3. hold'[r.ref.hold] = hold[r.ref.hold]
    BY <2>2 DEF RecordsKept, HistoryKept, HoldsKept
  <2>4. HoldLines(r.ref.hold)' = HoldLines(r.ref.hold)
    BY <1>1, <2>3 DEF HoldLines, HoldFeeAccount
  <2> QED  BY <1>1, <2>1, <2>3, <2>4 DEF CaptureRecord
<1>6. ASSUME EvidenceKept(x)' # {} PROVE Proof(r.evidence, r.ref)'
  <2>1. EvidenceKept(x) # {}  BY <1>1, <1>6 DEF EvidenceKept
  <2>2. Proof(r.evidence, r.ref)  BY <2>1 DEF RecordOf
  <2>3. r.evidence.id \in EvidenceIds /\ r.evidence # NoEvidence
    BY <2>2, IdAssumption DEF Proof, Evidence
  <2>4. evidence'[r.evidence.id] = r.evidence
    BY <2>2, <2>3 DEF Proof, RecordsKept, HistoryKept, EvidenceStays
  <2> QED  BY <1>1, <2>2, <2>4 DEF Proof
<1>7. /\ Applied(x, Transfers)' = Applied(x, Transfers)
      /\ Applied(x, Captures)' = Applied(x, Captures)
      /\ Applied(x, Transfers \cup Captures)' = Applied(x, Transfers \cup Captures)
  BY <1>1 DEF Applied
<1>8. ~Applied(x, Transfers \cup Captures) => journal'[x] = {}
  BY <1>1 DEF RecordOf
<1>9. EvidenceKept(x)' # {} => Proof(receipts[x].request.evidence, receipts[x].request.ref)'
  BY <1>1, <1>6
<1> QED  BY <1>1, <1>2, <1>3, <1>4, <1>5, <1>7, <1>8, <1>9 DEF RecordOf

\* Every step keeps what is on record.
LEMMA StepKeeps ==
  ASSUME BookInv, Next
  PROVE  RecordsKept
<1>1. LedgerInv  BY DEF BookInv
<1>2. \A p \in Payments : ClaimAdvances(p)
  <2> SUFFICES \E op : Commits(op)  BY DEF Commits
  <2> HIDE DEF Commits
  <2> QED  BY <1>1, TransferCommits, ReserveCommits, CreateCommits, SetControlCommits,
              ExposeCommits, CaptureCommits, ReleaseCommits DEF Next
<1>3. DaysCreep
  <2>1. PICK op \in Ops : Shape(op)  BY <1>1, NextShape
  <2> QED  BY <2>1, ShapeDays
<1> QED  BY <1>1, <1>2, <1>3, NextHistory, NextBook DEF RecordsKept

\* A rejected command posts nothing and keeps verified evidence at most.
LEMMA RejectRecords ==
  ASSUME BookInv, JournalsRecorded, NEW r \in Requests, receipts[r.op].outcome = "NONE",
         NEW v, Reject(r, v),
         r \in Transfers \cup Reserves => claim'[r.terms.payment].state # "ABSENT",
         r \in Captures \cup Releases /\ r.evidence # NoEvidence /\ v = "STATE_CONFLICT"
           => Proof(r.evidence, r.ref)'
  PROVE  RecordOf(r.op)'
<1>1. LedgerInv /\ r.op \in Ops  BY RequestOps DEF BookInv
<1>2. receipts'[r.op] = Receipt("REJECTED", v, r, NoBucket)
  BY <1>1 DEF Reject, LedgerInv, TypeOK
<1>3. /\ receipts'[r.op].outcome = "REJECTED" /\ receipts'[r.op].request = r
      /\ receipts'[r.op].reason = v
  BY <1>2 DEF Receipt
<1>4. journal'[r.op] = {}  BY <1>1 DEF JournalsRecorded, Reject, money
<1>5. EvidenceKept(r.op)' # {} => Proof(r.evidence, r.ref)'
  BY <1>3 DEF EvidenceKept
<1>6. ~Applied(r.op, Transfers)' /\ ~Applied(r.op, Captures)'
      /\ ~Applied(r.op, Transfers \cup Captures)'
  BY <1>3 DEF Applied
<1>7. EvidenceKept(r.op)' # {}
        => Proof(receipts[r.op].request.evidence, receipts[r.op].request.ref)'
  BY <1>3, <1>5
<1> QED  BY <1>3, <1>4, <1>6, <1>7 DEF RecordOf

\* Evidence that was verified and kept is about the payout it was sent for.
LEMMA KeptProof ==
  ASSUME BookInv, NEW r \in Captures \cup Releases, r.evidence \in Evidence, NEW now,
         RefVerdict(r) = "APPLIED", EvidenceBinds(r.ref.hold, r.evidence, now),
         NEW v \in {"APPLIED", "STATE_CONFLICT"}, KeepEvidence(r.evidence, v)
  PROVE  Proof(r.evidence, r.ref)'
<1> DEFINE e == r.evidence
<1>1. e.id \in EvidenceIds  BY DEF Evidence
<1>2. evidence \in [EvidenceIds -> Evidence \cup {NoEvidence}]
  BY DEF BookInv, LedgerInv, TypeOK
<1>3. evidence'[e.id] = e  BY <1>1, <1>2 DEF KeepEvidence
<1>4. e.hold = r.ref.hold /\ e.payment = hold[r.ref.hold].reserve.terms.payment
  BY DEF EvidenceBinds
<1>5. r.ref.payment = hold[r.ref.hold].reserve.terms.payment  BY DEF RefVerdict
<1> QED  BY <1>3, <1>4, <1>5 DEF Proof

\* An applied command that is about neither a transfer nor evidence posts nothing.
LEMMA PlainRecords ==
  ASSUME BookInv, JournalsRecorded, NEW r \in Requests, receipts[r.op].outcome = "NONE",
         NEW b, Record(r, b), r \notin Transfers \cup Captures, UNCHANGED journal,
         r \in Reserves => claim'[r.terms.payment].state # "ABSENT",
         r \in Releases /\ r.evidence # NoEvidence => Proof(r.evidence, r.ref)'
  PROVE  RecordOf(r.op)'
<1>1. LedgerInv /\ r.op \in Ops  BY RequestOps DEF BookInv
<1>2. receipts'[r.op].outcome = "APPLIED" /\ receipts'[r.op].request = r
  BY <1>1, RecordEffect
<1>3. journal'[r.op] = {}  BY <1>1 DEF JournalsRecorded
<1>4. EvidenceKept(r.op)' # {} => Proof(r.evidence, r.ref)'
  BY <1>2 DEF EvidenceKept
<1>5. ~Applied(r.op, Transfers)' /\ ~Applied(r.op, Captures)'
      /\ ~Applied(r.op, Transfers \cup Captures)'
  BY <1>2 DEF Applied
<1>6. EvidenceKept(r.op)' # {}
        => Proof(receipts[r.op].request.evidence, receipts[r.op].request.ref)'
  BY <1>2, <1>4
<1> QED  BY <1>2, <1>3, <1>5, <1>6 DEF RecordOf

\* A rejected admission has its payment decided.
LEMMA RejectAdmissionRecords ==
  ASSUME BookInv, JournalsRecorded, NEW r \in Transfers \cup Reserves,
         receipts[r.op].outcome = "NONE", NEW v, RejectAdmission(r, v)
  PROVE  RecordOf(r.op)'
<1>1. r \in Requests /\ r \notin Captures \cup Releases  BY KindsDiffer DEF Requests
<1>2. r.terms.payment \in Payments /\ claim \in [Payments -> Claim]
  BY PaymentTypes DEF BookInv, LedgerInv, TypeOK
<1>3. claim'[r.terms.payment].state # "ABSENT"  BY <1>2 DEF RejectAdmission
<1>4. Reject(r, v)  BY DEF RejectAdmission
<1> QED  BY <1>1, <1>3, <1>4, RejectRecords

\* An admission is at the fee of its policy, and its total is an amount.
LEMMA AdmitPrice ==
  ASSUME LedgerInv, NEW r \in Transfers \cup Reserves, NEW now \in Times,
         AdmitVerdict(r, now) = "APPLIED"
  PROVE  Policies[r.terms.policy].fee = r.terms.fee /\ Total(r.terms) <= MaxAmount
<1>1. Policies[r.terms.policy].fee = r.terms.fee  BY DEF AdmitVerdict
<1>2. ~(Total(r.terms) > MaxAmount)  BY AdmitFacts DEF LedgerInv
<1>3. Total(r.terms) \in Nat  BY TermsTypes, BoundsAssumption DEF Terms, Amounts, Total
<1> QED  BY <1>1, <1>2, <1>3, BoundsAssumption

\* A transfer records its lines, and the row of its day.
LEMMA TransferRecords ==
  ASSUME BookInv, JournalsRecorded, NEW r \in Transfers, NEW now \in Times,
         TransferInternal(r, now)
  PROVE  RecordOf(r.op)'
<1> DEFINE t == r.terms
           k == <<owner[t.source], Bucket(now)>>
<1>1. receipts[r.op].outcome = "NONE"  BY DEF TransferInternal, Fresh
<1>2. CASE RejectAdmission(r, TransferVerdict(r, now))
  BY <1>1, <1>2, RejectAdmissionRecords
<1>3. CASE ~RejectAdmission(r, TransferVerdict(r, now))
  <2>1. /\ TransferVerdict(r, now) = "APPLIED"
        /\ journal' = [journal EXCEPT ![r.op] = TransferLines(t)]
        /\ balance' = PostAll(balance, TransferLines(t))
        /\ usage' = [usage EXCEPT ![k] = AdmitUsage(@, t.principal, FALSE)]
        /\ claim' = [claim EXCEPT ![t.payment] =
                       [state |-> "APPLIED", admission |-> r.op, hold |-> NoHold,
                        result |-> r.op]]
        /\ Record(r, Bucket(now)) /\ UNCHANGED owner
    BY <1>3 DEF TransferInternal
  <2>2. AdmitVerdict(r, now) = "APPLIED"  BY <2>1 DEF TransferVerdict
  <2>3. LedgerInv /\ r \in Requests /\ r.op \in Ops
    BY RequestOps DEF BookInv, Requests
  <2>4. receipts'[r.op] = Receipt("APPLIED", NoReason, r, Bucket(now))
    BY <2>1, <2>3 DEF Record, LedgerInv, TypeOK
  <2>5. /\ receipts'[r.op].outcome = "APPLIED" /\ receipts'[r.op].request = r
        /\ receipts'[r.op].bucket = Bucket(now)
    BY <2>4 DEF Receipt
  <2>6. journal'[r.op] = TransferLines(t)  BY <2>1, <2>3 DEF LedgerInv, TypeOK
  <2>7. claim'[t.payment].state # "ABSENT"
    <3>1. claim'[t.payment] = [state |-> "APPLIED", admission |-> r.op, hold |-> NoHold,
                               result |-> r.op]
      BY <2>1, <2>3, AdmissionClaim
    <3> QED  BY <3>1
  <2>8. usage'[k].version > 0 /\ Bucket(now) \in Buckets
    BY <2>1, <2>2, <2>3, AdmissionCreeps, BucketType
  <2>9. Sound(t, t.beneficiary)'
    <3>1. /\ t \in Terms /\ t.source \in Accounts \ (Pools \cup FeeAccounts)
          /\ t.beneficiary \in Accounts \ (Pools \cup FeeAccounts)
          /\ t.source # t.beneficiary /\ t.policy \in DOMAIN Policies
          /\ Exists(t.source) /\ Exists(t.beneficiary)
      BY <2>1, <2>3, TransferEffect
    <3>2. Policies[t.policy].fee = t.fee /\ Total(t) <= MaxAmount  BY <2>2, <2>3, AdmitPrice
    <3> HIDE DEF t
    <3>3. Exists(t.source)' /\ Exists(t.beneficiary)'  BY <2>1, <3>1 DEF Exists
    <3> QED  BY <3>1, <3>2, <3>3 DEF Sound
  <2>10. TransferRecord(r.op)'
    BY <2>1, <2>5, <2>6, <2>8, <2>9 DEF TransferRecord
  <2>11. /\ Applied(r.op, Transfers \cup Captures)' /\ ~Applied(r.op, Captures)'
         /\ EvidenceKept(r.op)' = {}
    BY <2>5, KindsDiffer DEF Applied, EvidenceKept
  <2> QED  BY <2>3, <2>5, <2>7, <2>10, <2>11 DEF RecordOf
<1> QED  BY <1>2, <1>3

\* A reservation records that its payment is decided.
LEMMA ReserveRecords ==
  ASSUME BookInv, JournalsRecorded, NEW r \in Reserves, NEW now \in Times, ReservePayout(r, now)
  PROVE  RecordOf(r.op)'
<1>1. receipts[r.op].outcome = "NONE"  BY DEF ReservePayout, Fresh
<1>2. CASE RejectAdmission(r, ReserveVerdict(r, now))
  BY <1>1, <1>2, RejectAdmissionRecords
<1>3. CASE ~RejectAdmission(r, ReserveVerdict(r, now))
  <2> DEFINE c == [state |-> "RESERVED", admission |-> r.op, hold |-> r.hold, result |-> r.op]
  <2>1. /\ claim' = [claim EXCEPT ![r.terms.payment] = c]
        /\ Record(r, Bucket(now)) /\ UNCHANGED journal
    BY <1>3 DEF ReservePayout
  <2>2. LedgerInv /\ r \in Requests /\ r \notin Transfers \cup Captures \cup Releases
    BY KindsDiffer DEF BookInv, Requests
  <2>3. c.state # "ABSENT"  OBVIOUS
  <2> HIDE DEF c
  <2>4. claim'[r.terms.payment] = c  BY <2>1, <2>2, AdmissionClaim
  <2> QED  BY <1>1, <2>1, <2>2, <2>3, <2>4, PlainRecords
<1> QED  BY <1>2, <1>3

\* The other commands that need no evidence.
LEMMA PlainCommandsRecord ==
  ASSUME BookInv, JournalsRecorded, NEW r \in Creates \cup SetControls \cup Exposes,
         \/ CreateAccount(r) /\ r \in Creates
         \/ SetAccountControl(r) /\ r \in SetControls
         \/ \E now \in Times, known \in BOOLEAN : MarkHoldExposed(r, now, known) /\ r \in Exposes
  PROVE  RecordOf(r.op)'
<1>1. r \in Requests /\ r \notin Transfers \cup Reserves \cup Captures \cup Releases
  BY KindsDiffer DEF Requests
<1>2. receipts[r.op].outcome = "NONE"
  BY DEF CreateAccount, SetAccountControl, MarkHoldExposed, Fresh
<1>3. (\E v : Reject(r, v)) \/ (Record(r, NoBucket) /\ UNCHANGED journal)
  BY DEF CreateAccount, SetAccountControl, MarkHoldExposed, money
<1> QED  BY <1>1, <1>2, <1>3, RejectRecords, PlainRecords

\* A capture records the lines of its hold, on evidence of its attempt.
LEMMA CaptureRecords ==
  ASSUME BookInv, JournalsRecorded, NEW r \in Captures, NEW now \in Times, CapturePayout(r, now)
  PROVE  RecordOf(r.op)'
<1> DEFINE h == r.ref.hold
           e == r.evidence
           v == CaptureVerdict(r, now)
<1>1. /\ receipts[r.op].outcome = "NONE" /\ KeepEvidence(e, v)
      /\ r \in Requests /\ r \notin Transfers \cup Reserves /\ r.op \in Ops
  BY KindsDiffer, RequestOps DEF CapturePayout, Fresh, Requests
<1>2. LedgerInv /\ e \in Evidence  BY RequestAssumption DEF BookInv, CaptureRequest
<1>3. v \in {"APPLIED", "STATE_CONFLICT"} =>
        /\ RefVerdict(r) = "APPLIED" /\ EvidenceBinds(h, e, now)
        /\ e.final = "FINAL_SUCCESS"
  BY DEF CaptureVerdict, RefVerdict
<1>4. v \in {"APPLIED", "STATE_CONFLICT"} => Proof(e, r.ref)'
  <2> HIDE DEF v
  <2> QED  BY <1>1, <1>2, <1>3, KeptProof
<1>5. CASE Reject(r, v)  BY <1>1, <1>4, <1>5, RejectRecords
<1>6. CASE ~Reject(r, v)
  <2>1. /\ v = "APPLIED" /\ MoveHold(r, "CAPTURED") /\ Record(r, hold[h].bucket)
        /\ journal' = [journal EXCEPT ![r.op] = HoldLines(h)]
    BY <1>6 DEF CapturePayout
  <2>2. receipts'[r.op].outcome = "APPLIED" /\ receipts'[r.op].request = r
    BY <1>1, <1>2, <2>1, RecordEffect
  <2>3. hold'[h].state = "CAPTURED" /\ hold'[h].reserve = hold[h].reserve
    BY <1>2, <1>3, <2>1, MoveHoldEffect
  <2>4. journal'[r.op] = HoldLines(h)  BY <1>1, <1>2, <2>1 DEF LedgerInv, TypeOK
  <2>5. HoldLines(h)' = HoldLines(h)  BY <2>3 DEF HoldLines, HoldFeeAccount
  <2>6. /\ e.final = "FINAL_SUCCESS" /\ e.routed /\ e.attempt = hold[h].reserve.attempt
        /\ e.principal = hold[h].reserve.terms.principal
        /\ e.beneficiary = hold[h].reserve.terms.beneficiary
    BY <1>3, <2>1 DEF EvidenceBinds
  <2>7. CaptureRecord(r.op)'  BY <2>2, <2>3, <2>4, <2>5, <2>6 DEF CaptureRecord
  <2>8. Proof(receipts[r.op].request.evidence, receipts[r.op].request.ref)'
    BY <1>4, <2>1, <2>2
  <2>9. Applied(r.op, Transfers \cup Captures)' /\ ~Applied(r.op, Transfers)'
    BY <1>1, <2>2 DEF Applied
  <2> QED  BY <1>1, <2>2, <2>7, <2>8, <2>9 DEF RecordOf
<1> QED  BY <1>5, <1>6

\* A release records the evidence it was given, if any.
LEMMA ReleaseRecords ==
  ASSUME BookInv, JournalsRecorded, NEW r \in Releases, NEW now \in Times, ReleasePayout(r, now)
  PROVE  RecordOf(r.op)'
<1> DEFINE v == ReleaseVerdict(r, now)
<1>1. /\ receipts[r.op].outcome = "NONE"
      /\ r \in Requests /\ r \notin Transfers \cup Reserves \cup Captures
  BY KindsDiffer DEF ReleasePayout, Fresh, Requests
<1>2. ASSUME r.evidence # NoEvidence, v \in {"APPLIED", "STATE_CONFLICT"}
      PROVE  Proof(r.evidence, r.ref)'
  <2>1. r.evidence \in Evidence /\ r.reason = "FINAL_FAILURE"
    BY <1>2, RequestAssumption DEF ReleaseRequest
  <2>2. RefVerdict(r) = "APPLIED" /\ EvidenceBinds(r.ref.hold, r.evidence, now)
    BY <1>2, <2>1 DEF ReleaseVerdict, RefVerdict
  <2>3. KeepEvidence(r.evidence, v)  BY <1>2 DEF ReleasePayout
  <2> HIDE DEF v
  <2> QED  BY <1>2, <2>1, <2>2, <2>3, KeptProof
<1>3. CASE Reject(r, v)  BY <1>1, <1>2, <1>3, RejectRecords
<1>4. CASE ~Reject(r, v)
  <2>1. v = "APPLIED" /\ Record(r, hold[r.ref.hold].bucket) /\ UNCHANGED journal
    BY <1>4 DEF ReleasePayout
  <2> QED  BY <1>1, <1>2, <2>1, PlainRecords
<1> QED  BY <1>3, <1>4

\* Every operation on record is there with what it says.
LEMMA StepRecords ==
  ASSUME BookInv, JournalsRecorded, Next, RecordInv
  PROVE  /\ FixtureRecorded'
         /\ \A x \in Ops \ {FixtureOp} : receipts'[x].outcome # "NONE" => RecordOf(x)'
<1>1. RecordsKept  BY StepKeeps
<1>2. FixtureRecorded'
  <2>1. receipts'[FixtureOp] = receipts[FixtureOp] /\ journal'[FixtureOp] = journal[FixtureOp]
    BY <1>1, IdAssumption
    DEF RecordInv, FixtureRecorded, RecordsKept, HistoryKept, ReceiptsKept
  <2>2. Exists(FundedWallet)'
    BY <1>1, IdAssumption DEF RecordInv, FixtureRecorded, RecordsKept, OwnersStay, Exists
  <2> QED  BY <2>1, <2>2 DEF RecordInv, FixtureRecorded
<1>3. PICK r \in Requests : RecordOf(r.op)' /\ \A x \in Ops \ {r.op} : receipts'[x] = receipts[x]
  <2>1. \E r \in Requests : /\ RecordOf(r.op)'
                            /\ \/ \E b : Record(r, b)
                               \/ \E v : Reject(r, v)
    <3>1. CASE \E r \in Creates : CreateAccount(r)
      <4>1. PICK r \in Creates : CreateAccount(r)  BY <3>1
      <4>2. RecordOf(r.op)'  BY <4>1, PlainCommandsRecord
      <4> QED  BY <4>1, <4>2 DEF CreateAccount, Requests
    <3>2. CASE \E r \in SetControls : SetAccountControl(r)
      <4>1. PICK r \in SetControls : SetAccountControl(r)  BY <3>2
      <4>2. RecordOf(r.op)'  BY <4>1, PlainCommandsRecord
      <4> QED  BY <4>1, <4>2 DEF SetAccountControl, Requests
    <3>3. CASE \E r \in Transfers, now \in Times : TransferInternal(r, now)
      <4>1. PICK r \in Transfers, now \in Times : TransferInternal(r, now)  BY <3>3
      <4>2. RecordOf(r.op)'  BY <4>1, TransferRecords
      <4> QED  BY <4>1, <4>2 DEF TransferInternal, RejectAdmission, Requests
    <3>4. CASE \E r \in Reserves, now \in Times : ReservePayout(r, now)
      <4>1. PICK r \in Reserves, now \in Times : ReservePayout(r, now)  BY <3>4
      <4>2. RecordOf(r.op)'  BY <4>1, ReserveRecords
      <4> QED  BY <4>1, <4>2 DEF ReservePayout, RejectAdmission, Requests
    <3>5. CASE \E r \in Exposes, now \in Times, known \in BOOLEAN : MarkHoldExposed(r, now, known)
      <4>1. PICK r \in Exposes, now \in Times, known \in BOOLEAN : MarkHoldExposed(r, now, known)
        BY <3>5
      <4>2. RecordOf(r.op)'  BY <4>1, PlainCommandsRecord
      <4> QED  BY <4>1, <4>2 DEF MarkHoldExposed, Requests
    <3>6. CASE \E r \in Captures, now \in Times : CapturePayout(r, now)
      <4>1. PICK r \in Captures, now \in Times : CapturePayout(r, now)  BY <3>6
      <4>2. RecordOf(r.op)'  BY <4>1, CaptureRecords
      <4> QED  BY <4>1, <4>2 DEF CapturePayout, Requests
    <3>7. CASE \E r \in Releases, now \in Times : ReleasePayout(r, now)
      <4>1. PICK r \in Releases, now \in Times : ReleasePayout(r, now)  BY <3>7
      <4>2. RecordOf(r.op)'  BY <4>1, ReleaseRecords
      <4> QED  BY <4>1, <4>2 DEF ReleasePayout, Requests
    <3> QED  BY <3>1, <3>2, <3>3, <3>4, <3>5, <3>6, <3>7 DEF Next
  <2>2. LedgerInv  BY DEF BookInv
  <2> QED  BY <2>1, <2>2, RecordEffect, RejectEffect
<1>4. ASSUME NEW x \in Ops \ {FixtureOp}, receipts'[x].outcome # "NONE"
      PROVE  RecordOf(x)'
  <2>1. CASE x = r.op  BY <1>3, <2>1
  <2>2. CASE x # r.op
    <3>1. receipts[x].outcome # "NONE" /\ RecordOf(x)  BY <1>3, <1>4, <2>2 DEF RecordInv
    <3> QED  BY <1>1, <3>1, RecordStays
  <2> QED  BY <2>1, <2>2
<1> QED  BY <1>2, <1>4

\* A claim nobody writes goes on saying so: its two operations are on record.
LEMMA ClaimRecordStays ==
  ASSUME ReceiptsKept, NEW p \in Payments, claim'[p] = claim[p], ClaimRecord(p)
  PROVE  ClaimRecord(p)'
<1> DEFINE c == claim[p]
<1>1. /\ c.admission \in Ops /\ receipts[c.admission].outcome # "NONE"
      /\ c.result \in Ops /\ receipts[c.result].outcome # "NONE"
  BY DEF ClaimRecord
<1>2. receipts'[c.admission] = receipts[c.admission] /\ receipts'[c.result] = receipts[c.result]
  BY <1>1 DEF ReceiptsKept
<1> QED  BY <1>2 DEF ClaimRecord, About

\* An admission writes the claim of the payment it decides.
LEMMA AdmissionClaims ==
  ASSUME LedgerInv, ReceiptsKept, ClaimsRecorded, NEW r \in Transfers \cup Reserves,
         receipts'[r.op].outcome \in {"APPLIED", "REJECTED"}, receipts'[r.op].request = r,
         NEW c, c.admission = r.op, c.result = r.op,
         receipts'[r.op].outcome = (IF c.state = "REJECTED" THEN "REJECTED" ELSE "APPLIED"),
         claim' = [claim EXCEPT ![r.terms.payment] = c]
  PROVE  ClaimsRecorded'
<1>1. /\ r.terms.payment \in Payments /\ claim'[r.terms.payment] = c
      /\ \A q \in Payments \ {r.terms.payment} : claim'[q] = claim[q]
  BY AdmissionClaim
<1>2. r.op \in Ops  BY RequestOps DEF Requests
<1>3. ASSUME NEW p \in Payments, claim'[p].state # "ABSENT" PROVE ClaimRecord(p)'
  <2>1. CASE p = r.terms.payment
    <3>1. About(r, p)  BY <2>1 DEF About
    <3>2. receipts'[r.op].outcome # "NONE"  OBVIOUS
    <3> QED  BY <1>1, <1>2, <2>1, <3>1, <3>2 DEF ClaimRecord
  <2>2. CASE p # r.terms.payment
    <3>1. claim'[p] = claim[p] /\ ClaimRecord(p)  BY <1>1, <1>3, <2>2 DEF ClaimsRecorded
    <3> QED  BY <3>1, ClaimRecordStays
  <2> QED  BY <2>1, <2>2
<1> QED  BY <1>3 DEF ClaimsRecorded

\* A command that moves a hold becomes the result of its claim.
LEMMA MoveClaims ==
  ASSUME LedgerInv, ReceiptsKept, ClaimsRecorded, NEW r \in Exposes \cup Captures \cup Releases,
         NEW state \in {"EXPOSED", "CAPTURED", "RELEASED"}, RefVerdict(r) = "APPLIED",
         MoveHold(r, state), NEW b, Record(r, b)
  PROVE  ClaimsRecorded'
<1> DEFINE q == r.ref.payment
<1>1. /\ q \in Payments /\ hold[r.ref.hold].state # "ABSENT"
      /\ claim[q].state = hold[r.ref.hold].state
      /\ claim'[q].state = state /\ claim'[q].result = r.op
      /\ claim'[q].admission = claim[q].admission
      /\ \A p \in Payments \ {q} : claim'[p] = claim[p]
  BY MoveHoldEffect
<1>2. r \in Requests /\ r.op \in Ops  BY RequestOps DEF Requests
<1>3. receipts'[r.op].outcome = "APPLIED" /\ receipts'[r.op].request = r  BY <1>2, RecordEffect
<1>4. hold[r.ref.hold].state # "REJECTED"
  <2>1. hold \in [Holds -> Hold] /\ r.ref.hold \in Holds  BY RefTypes DEF LedgerInv, TypeOK
  <2> QED  BY <2>1 DEF Hold, HoldStates
<1>5. ASSUME NEW p \in Payments, claim'[p].state # "ABSENT" PROVE ClaimRecord(p)'
  <2>1. CASE p = q
    <3>1. ClaimRecord(q)  BY <1>1, <2>1 DEF ClaimsRecorded
    <3>2. /\ claim[q].admission \in Ops
          /\ receipts[claim[q].admission].outcome = "APPLIED"
          /\ receipts[claim[q].admission].request \in Transfers \cup Reserves
          /\ receipts[claim[q].admission].request.terms.payment = q
      BY <1>1, <1>4, <3>1 DEF ClaimRecord
    <3>3. receipts'[claim[q].admission] = receipts[claim[q].admission]
      BY <3>2 DEF ReceiptsKept
    <3>4. About(r, q)  BY DEF About
    <3>5. claim'[q].state # "REJECTED"  BY <1>1
    <3> QED  BY <1>1, <1>2, <1>3, <2>1, <3>2, <3>3, <3>4, <3>5 DEF ClaimRecord
  <2>2. CASE p # q
    <3>1. claim'[p] = claim[p] /\ ClaimRecord(p)  BY <1>1, <1>5, <2>2 DEF ClaimsRecorded
    <3> QED  BY <3>1, ClaimRecordStays
  <2> QED  BY <2>1, <2>2
<1> QED  BY <1>5 DEF ClaimsRecorded

\* A command that writes no claim leaves them.
LEMMA QuietClaims ==
  ASSUME ReceiptsKept, ClaimsRecorded, UNCHANGED claim
  PROVE  ClaimsRecorded'
BY ClaimRecordStays DEF ClaimsRecorded

\* A rejected admission decides an undecided payment.
LEMMA RejectAdmissionClaims ==
  ASSUME LedgerInv, ReceiptsKept, ClaimsRecorded, NEW r \in Transfers \cup Reserves, NEW v,
         RejectAdmission(r, v)
  PROVE  ClaimsRecorded'
<1> DEFINE c == [state |-> "REJECTED", admission |-> r.op, hold |-> NoHold, result |-> r.op]
<1>1. CASE claim[r.terms.payment].state # "ABSENT"
  BY <1>1, QuietClaims DEF RejectAdmission
<1>2. CASE claim[r.terms.payment].state = "ABSENT"
  <2>1. claim' = [claim EXCEPT ![r.terms.payment] = c] /\ Reject(r, v)
    BY <1>2 DEF RejectAdmission
  <2>2. r \in Requests  BY DEF Requests
  <2>3. receipts'[r.op].outcome = "REJECTED" /\ receipts'[r.op].request = r
    BY <2>1, <2>2, RejectEffect
  <2>4. c.admission = r.op /\ c.result = r.op /\ c.state = "REJECTED"  OBVIOUS
  <2> HIDE DEF c
  <2> QED  BY <2>1, <2>3, <2>4, AdmissionClaims
<1> QED  BY <1>1, <1>2

\* Every step keeps the claims recorded.
LEMMA StepClaims ==
  ASSUME LedgerInv, ClaimsRecorded, Next
  PROVE  ClaimsRecorded'
<1>1. ReceiptsKept  BY NextHistory DEF HistoryKept
<1>2. CASE \E r \in Creates : CreateAccount(r)
  BY <1>1, <1>2, QuietClaims DEF CreateAccount
<1>3. CASE \E r \in SetControls : SetAccountControl(r)
  BY <1>1, <1>3, QuietClaims DEF SetAccountControl
<1>4. CASE \E r \in Transfers, now \in Times : TransferInternal(r, now)
  <2>1. PICK r \in Transfers, now \in Times : TransferInternal(r, now)  BY <1>4
  <2> DEFINE c == [state |-> "APPLIED", admission |-> r.op, hold |-> NoHold, result |-> r.op]
  <2>2. CASE RejectAdmission(r, TransferVerdict(r, now))
    BY <1>1, <2>2, RejectAdmissionClaims
  <2>3. CASE ~RejectAdmission(r, TransferVerdict(r, now))
    <3>1. claim' = [claim EXCEPT ![r.terms.payment] = c] /\ Record(r, Bucket(now))
      BY <2>1, <2>3 DEF TransferInternal
    <3>2. receipts'[r.op].outcome = "APPLIED" /\ receipts'[r.op].request = r
      BY <3>1, RecordEffect DEF Requests
    <3>3. c.admission = r.op /\ c.result = r.op /\ c.state = "APPLIED"  OBVIOUS
    <3> HIDE DEF c
    <3> QED  BY <1>1, <3>1, <3>2, <3>3, AdmissionClaims
  <2> QED  BY <2>2, <2>3
<1>5. CASE \E r \in Reserves, now \in Times : ReservePayout(r, now)
  <2>1. PICK r \in Reserves, now \in Times : ReservePayout(r, now)  BY <1>5
  <2> DEFINE c == [state |-> "RESERVED", admission |-> r.op, hold |-> r.hold, result |-> r.op]
  <2>2. CASE RejectAdmission(r, ReserveVerdict(r, now))
    BY <1>1, <2>2, RejectAdmissionClaims
  <2>3. CASE ~RejectAdmission(r, ReserveVerdict(r, now))
    <3>1. claim' = [claim EXCEPT ![r.terms.payment] = c] /\ Record(r, Bucket(now))
      BY <2>1, <2>3 DEF ReservePayout
    <3>2. receipts'[r.op].outcome = "APPLIED" /\ receipts'[r.op].request = r
      BY <3>1, RecordEffect DEF Requests
    <3>3. c.admission = r.op /\ c.result = r.op /\ c.state = "RESERVED"  OBVIOUS
    <3> HIDE DEF c
    <3> QED  BY <1>1, <3>1, <3>2, <3>3, AdmissionClaims
  <2> QED  BY <2>2, <2>3
<1>6. CASE \E r \in Exposes, now \in Times, known \in BOOLEAN : MarkHoldExposed(r, now, known)
  <2>1. PICK r \in Exposes, now \in Times, known \in BOOLEAN : MarkHoldExposed(r, now, known)
    BY <1>6
  <2>2. CASE UNCHANGED claim  BY <1>1, <2>2, QuietClaims
  <2>3. CASE ~UNCHANGED claim
    <3>1. ExposeVerdict(r, now, known) = "APPLIED" /\ MoveHold(r, "EXPOSED") /\ Record(r, NoBucket)
      BY <2>1, <2>3 DEF MarkHoldExposed
    <3>2. RefVerdict(r) = "APPLIED"  BY <3>1 DEF ExposeVerdict
    <3> QED  BY <1>1, <3>1, <3>2, MoveClaims
  <2> QED  BY <2>2, <2>3
<1>7. CASE \E r \in Captures, now \in Times : CapturePayout(r, now)
  <2>1. PICK r \in Captures, now \in Times : CapturePayout(r, now)  BY <1>7
  <2>2. CASE UNCHANGED claim  BY <1>1, <2>2, QuietClaims
  <2>3. CASE ~UNCHANGED claim
    <3>1. /\ CaptureVerdict(r, now) = "APPLIED" /\ MoveHold(r, "CAPTURED")
          /\ Record(r, hold[r.ref.hold].bucket)
      BY <2>1, <2>3 DEF CapturePayout
    <3>2. RefVerdict(r) = "APPLIED"  BY <3>1 DEF CaptureVerdict
    <3> QED  BY <1>1, <3>1, <3>2, MoveClaims
  <2> QED  BY <2>2, <2>3
<1>8. CASE \E r \in Releases, now \in Times : ReleasePayout(r, now)
  <2>1. PICK r \in Releases, now \in Times : ReleasePayout(r, now)  BY <1>8
  <2>2. CASE UNCHANGED claim  BY <1>1, <2>2, QuietClaims
  <2>3. CASE ~UNCHANGED claim
    <3>1. /\ ReleaseVerdict(r, now) = "APPLIED" /\ MoveHold(r, "RELEASED")
          /\ Record(r, hold[r.ref.hold].bucket)
      BY <2>1, <2>3 DEF ReleasePayout
    <3>2. RefVerdict(r) = "APPLIED"  BY <3>1 DEF ReleaseVerdict
    <3> QED  BY <1>1, <3>1, <3>2, MoveClaims
  <2> QED  BY <2>2, <2>3
<1> QED  BY <1>2, <1>3, <1>4, <1>5, <1>6, <1>7, <1>8 DEF Next

-----------------------------------------------------------------------------
(***************************************************************************)
(* Every row a command changes takes its next version.                     *)
(***************************************************************************)
RowAdvances(a) ==
  \/ balance'[a] = balance[a] /\ owner'[a] = owner[a]
  \/ Exists(a) /\ owner'[a] = owner[a] /\ balance'[a].version = balance[a].version + 1
  \/ ~Exists(a) /\ owner'[a] # NoOwner /\ balance'[a].version = 1
DayAdvances(o, b) ==
  \/ usage'[<<o, b>>] = usage[<<o, b>>]
  \/ usage'[<<o, b>>].version = usage[<<o, b>>].version + 1
HoldSteps(h) ==
  \/ hold'[h] = hold[h]
  \/ /\ hold[h].state = "ABSENT" /\ hold'[h].state = "RESERVED" /\ hold'[h].version = 1
     /\ HoldRecord(h)'
  \/ /\ hold[h].state # "ABSENT" /\ hold'[h].version = hold[h].version + 1
     /\ hold'[h].reserve = hold[h].reserve
     /\ hold'[h].owner = hold[h].owner /\ hold'[h].bucket = hold[h].bucket
     /\ <<hold[h].state, hold'[h].state>> \in V!HoldMoves
ControlAdvances(k) ==
  control'[k] = control[k] \/ control'[k].version = control[k].version + 1

\* A journal has a line on the account.
Names(lines, a) == \E l \in lines : l.account = a

\* A journal writes the rows it names and no others.
LEMMA PostAllWrites ==
  ASSUME NEW b \in [Accounts -> Row], NEW lines,
         \A l \in lines : l.side \in {"DEBIT", "CREDIT"} /\ l.amount \in Nat,
         NEW a \in Accounts
  PROVE  IF Names(lines, a)
         THEN PostAll(b, lines)[a].version = b[a].version + 1
         ELSE PostAll(b, lines)[a] = b[a]
<1>1. b[a] \in Row  OBVIOUS
<1>2. CASE Names(lines, a)
  <2> DEFINE m == CHOOSE l \in lines : l.account = a
  <2>1. m \in lines  BY <1>2 DEF Names
  <2>2. PostAll(b, lines)[a] = Touched(Post(b[a], m.side, m.amount))  BY <1>2 DEF PostAll, Names
  <2>3. m.side \in {"DEBIT", "CREDIT"} /\ m.amount \in Nat  BY <2>1
  <2> HIDE DEF m
  <2>4. Post(b[a], m.side, m.amount) \in Row
        /\ Post(b[a], m.side, m.amount).version = b[a].version
    BY <1>1, <2>3, RowVersions
  <2> QED  BY <1>2, <2>2, <2>4, RowVersions
<1>3. CASE ~Names(lines, a)  BY <1>3 DEF PostAll, Names
<1> QED  BY <1>2, <1>3

\* A spend names its three accounts and no others.
LEMMA PostingsAccounts ==
  ASSUME NEW source, NEW payee, NEW feeAccount, NEW principal, NEW fee, NEW a
  PROVE  LET lines == Postings(source, payee, feeAccount, principal, fee)
         IN  /\ Names(lines, a) => a \in {source, payee, feeAccount}
             /\ a \in {source, payee} => Names(lines, a)
<1> DEFINE lines == Postings(source, payee, feeAccount, principal, fee)
           d == Line(source, "DEBIT", principal + fee)
           c == Line(payee, "CREDIT", principal)
<1>1. \A l \in lines : l.account \in {source, payee, feeAccount}  BY DEF Postings, Line
<1>2. d \in lines /\ c \in lines  BY DEF Postings
<1>3. d.account = source /\ c.account = payee  BY DEF Line
<1> HIDE DEF lines, d, c
<1>4. Names(lines, a) => a \in {source, payee, feeAccount}  BY <1>1 DEF Names
<1>5. a \in {source, payee} => Names(lines, a)  BY <1>2, <1>3 DEF Names
<1> QED  BY <1>4, <1>5 DEF lines

\* Whatever its shape, a command writes balances that way.
LEMMA ShapeAdvances ==
  ASSUME BookInv, NEW op, Shape(op), NEW a \in Accounts
  PROVE  RowAdvances(a)
<1>1. LedgerInv /\ balance \in [Accounts -> Row] /\ balance[a] \in Row
  BY BalanceRows DEF BookInv
<1>2. CASE Idle(op) \/ \E h \in Holds : Shows(op, h)
  BY <1>2 DEF Idle, Shows, Moves, RowAdvances
<1>3. CASE \E x \in Accounts : Opens(op, x)
  <2>1. PICK x \in Accounts : Opens(op, x)  BY <1>3
  <2>2. /\ balance' = [balance EXCEPT ![x] = NewBalance] /\ ~Exists(x)
        /\ owner'[x] # NoOwner /\ \A y \in Accounts \ {x} : owner'[y] = owner[y]
    BY <2>1 DEF Opens
  <2>3. NewBalance.version = 1  BY DEF NewBalance
  <2>4. CASE a = x  BY <1>1, <2>2, <2>3, <2>4 DEF RowAdvances
  <2>5. CASE a # x  BY <1>1, <2>2, <2>5 DEF RowAdvances
  <2> QED  BY <2>4, <2>5
<1>4. CASE \E r \in Transfers, now \in Times :
             TransferVerdict(r, now) = "APPLIED" /\ Pays(op, r, Bucket(now))
  <2>1. PICK r \in Transfers, now \in Times :
          TransferVerdict(r, now) = "APPLIED" /\ Pays(op, r, Bucket(now))
    BY <1>4
  <2> DEFINE t == r.terms
             fees == Policies[t.policy].feeAccount
             lines == TransferLines(t)
  <2>2. balance' = PostAll(balance, lines) /\ UNCHANGED owner  BY <2>1 DEF Pays
  <2>3. /\ Exists(t.source) /\ Exists(t.beneficiary) /\ fees \in FeeAccounts
        /\ t.principal \in Nat /\ t.fee \in Nat
    BY <1>1, <2>1, <2>2, TransferEffect
  <2>4. Exists(fees)  BY <2>3 DEF BookInv, AccountsComplete
  <2>5. \A l \in lines : l.side \in {"DEBIT", "CREDIT"} /\ l.amount \in Nat
    BY <2>3, PostingsSides DEF TransferLines
  <2>6. Names(lines, a) => a \in {t.source, t.beneficiary, fees}
    BY PostingsAccounts DEF TransferLines
  <2> HIDE DEF lines, t, fees
  <2>7. CASE Names(lines, a)
    <3>1. balance'[a].version = balance[a].version + 1  BY <1>1, <2>2, <2>5, <2>7, PostAllWrites
    <3> QED  BY <2>2, <2>3, <2>4, <2>6, <2>7, <3>1 DEF RowAdvances
  <2>8. CASE ~Names(lines, a)
    <3>1. balance'[a] = balance[a]  BY <1>1, <2>2, <2>5, <2>8, PostAllWrites
    <3> QED  BY <2>2, <3>1 DEF RowAdvances
  <2> QED  BY <2>7, <2>8
<1>5. CASE \E r \in Reserves, now \in Times :
             ReserveVerdict(r, now) = "APPLIED" /\ Encumbers(op, r, Bucket(now))
  <2>1. PICK r \in Reserves, now \in Times :
          ReserveVerdict(r, now) = "APPLIED" /\ Encumbers(op, r, Bucket(now))
    BY <1>5
  <2> DEFINE t == r.terms
  <2>2. /\ balance' = [balance EXCEPT ![t.source] = Touched(Reserve(@, Total(t))),
                                      ![r.pool] = Touched(Reserve(@, t.principal))]
        /\ UNCHANGED owner
    BY <2>1 DEF Encumbers
  <2>3. /\ t.source \in Accounts /\ r.pool \in Accounts /\ r.pool # t.source
        /\ t.principal \in Nat /\ t.fee \in Nat /\ Exists(t.source) /\ Exists(r.pool)
    BY <1>1, <2>1, <2>2, ReserveEffect
  <2>4. Total(t) \in Nat  BY <2>3 DEF Total
  <2> HIDE DEF t
  <2>5. balance'[a] = IF a = t.source THEN Touched(Reserve(balance[a], Total(t)))
                      ELSE IF a = r.pool THEN Touched(Reserve(balance[a], t.principal))
                      ELSE balance[a]
    BY <1>1, <2>2, <2>3
  <2>6. \A n \in Nat : Touched(Reserve(balance[a], n)).version = balance[a].version + 1
    <3> TAKE n \in Nat
    <3>1. Reserve(balance[a], n) \in Row /\ Reserve(balance[a], n).version = balance[a].version
      BY <1>1, RowVersions
    <3> QED  BY <3>1, RowVersions
  <2> QED  BY <2>2, <2>3, <2>4, <2>5, <2>6 DEF RowAdvances
<1>6. CASE \E h \in Holds : Settles(op, h)
  <2>1. PICK h \in Holds : Settles(op, h)  BY <1>6
  <2> DEFINE t == hold[h].reserve.terms
             pool == hold[h].reserve.pool
             b == Unencumbered(h)
             lines == HoldLines(h)
  <2>2. hold[h].state # "ABSENT" /\ balance' = PostAll(b, lines) /\ UNCHANGED owner
    BY <2>1 DEF Settles, Moves, Outstanding
  <2>3. t.principal \in Nat /\ t.fee \in Nat  BY <1>1, <2>2, HoldAmounts
  <2>4. \A l \in lines : l.side \in {"DEBIT", "CREDIT"} /\ l.amount \in Nat
    BY <2>3, PostingsSides DEF HoldLines
  <2>5. b \in [Accounts -> Row] /\ b[a].version = balance[a].version
    BY <1>1, <2>2, UnencumberedVersions
  <2>6. /\ Names(lines, a) => a \in {t.source, pool, HoldFeeAccount(h)}
        /\ a \in {t.source, pool} => Names(lines, a)
    BY PostingsAccounts DEF HoldLines
  <2>7. Exists(t.source) /\ Exists(pool) /\ Exists(HoldFeeAccount(h))
    BY <2>2, HoldAccountsExist
  <2>8. a \notin {t.source, pool} => b[a] = balance[a]
    BY <1>1, <2>2, HoldFacts DEF Unencumbered
  <2> HIDE DEF t, pool, b, lines
  <2>9. CASE Names(lines, a)
    <3>1. balance'[a].version = balance[a].version + 1
      BY <2>2, <2>4, <2>5, <2>9, PostAllWrites
    <3> QED  BY <2>2, <2>6, <2>7, <2>9, <3>1 DEF RowAdvances
  <2>10. CASE ~Names(lines, a)
    <3>1. balance'[a] = b[a]  BY <2>2, <2>4, <2>5, <2>10, PostAllWrites
    <3> QED  BY <2>2, <2>6, <2>8, <2>10, <3>1 DEF RowAdvances
  <2> QED  BY <2>9, <2>10
<1>7. CASE \E h \in Holds : GivesBack(op, h)
  <2>1. PICK h \in Holds : GivesBack(op, h)  BY <1>7
  <2>2. /\ hold[h].state # "ABSENT" /\ UNCHANGED owner
        /\ balance'[a] = IF a \in {hold[h].reserve.terms.source, hold[h].reserve.pool}
                         THEN Touched(Unencumbered(h)[a]) ELSE balance[a]
    BY <2>1 DEF GivesBack, Moves, Outstanding
  <2>3. Unencumbered(h) \in [Accounts -> Row] /\ Unencumbered(h)[a].version = balance[a].version
    BY <1>1, <2>2, UnencumberedVersions
  <2>4. Touched(Unencumbered(h)[a]).version = balance[a].version + 1
    BY <2>3, RowVersions
  <2>5. Exists(hold[h].reserve.terms.source) /\ Exists(hold[h].reserve.pool)
    BY <2>2, HoldAccountsExist
  <2> QED  BY <2>2, <2>4, <2>5 DEF RowAdvances
<1> QED  BY <1>2, <1>3, <1>4, <1>5, <1>6, <1>7 DEF Shape

\* One limit row is written, the others stay.
LEMMA DayWrite ==
  ASSUME LedgerInv, NEW x \in Owners, NEW y \in Buckets, NEW v,
         v.version = usage[<<x, y>>].version + 1, usage' = [usage EXCEPT ![<<x, y>>] = v],
         NEW o \in Owners, NEW b \in Buckets
  PROVE  DayAdvances(o, b)
<1>1. usage \in [Owners \X Buckets -> Counter]  BY UsageCounts
<1>2. usage'[<<o, b>>] = IF o = x /\ b = y THEN v ELSE usage[<<o, b>>]
  BY <1>1, DayWritten
<1> QED  BY <1>2 DEF DayAdvances

\* An admission writes the limit row of its owner and day.
LEMMA AdmissionDay ==
  ASSUME LedgerInv, NEW r \in Transfers \cup Reserves, NEW now \in Times,
         AdmitVerdict(r, now) = "APPLIED", NEW flag \in BOOLEAN,
         usage' = [usage EXCEPT ![<<owner[r.terms.source], Bucket(now)>>] =
                     AdmitUsage(@, r.terms.principal, flag)],
         NEW o \in Owners, NEW b \in Buckets
  PROVE  DayAdvances(o, b)
<1> DEFINE x == owner[r.terms.source]
           y == Bucket(now)
           n == r.terms.principal
           v == AdmitUsage(usage[<<x, y>>], n, flag)
<1>1. <<x, y>> \in Owners \X Buckets  BY AdmitUsageType DEF LedgerInv
<1>2. x \in Owners /\ y \in Buckets  BY <1>1
<1>3. usage \in [Owners \X Buckets -> Counter] /\ usage[<<x, y>>] \in Counter
  BY <1>1, UsageCounts
<1>4. n \in Nat  BY TermsTypes, BoundsAssumption DEF Terms, Amounts
<1>5. usage' = [usage EXCEPT ![<<x, y>>] = v]  BY <1>1, <1>3
<1>6. v.version = usage[<<x, y>>].version + 1  BY <1>3, <1>4, CounterVersions
<1> HIDE DEF x, y, n, v
<1> QED  BY <1>2, <1>5, <1>6, DayWrite

\* A resolution writes the limit row its hold was admitted on.
LEMMA ResolutionDay ==
  ASSUME LedgerInv, NEW h \in Holds, hold[h].state # "ABSENT", NEW flag \in BOOLEAN,
         SettleUsage(h, flag), NEW o \in Owners, NEW b \in Buckets
  PROVE  DayAdvances(o, b)
<1> DEFINE x == hold[h].owner
           y == hold[h].bucket
           n == hold[h].reserve.terms.principal
           v == ResolveUsage(usage[<<x, y>>], n, flag)
<1>1. <<x, y>> \in Owners \X Buckets /\ n \in Nat  BY HoldFacts
<1>2. x \in Owners /\ y \in Buckets  BY <1>1
<1>3. usage \in [Owners \X Buckets -> Counter] /\ usage[<<x, y>>] \in Counter
  BY <1>1, UsageCounts
<1>4. usage' = [usage EXCEPT ![<<x, y>>] = v]  BY <1>1, <1>3 DEF SettleUsage
<1>5. v.version = usage[<<x, y>>].version + 1  BY <1>1, <1>3, CounterVersions
<1> HIDE DEF x, y, n, v
<1> QED  BY <1>2, <1>4, <1>5, DayWrite

\* Whatever its shape, a command writes limit rows that way.
LEMMA ShapeDayAdvances ==
  ASSUME BookInv, NEW op, Shape(op), NEW o \in Owners, NEW b \in Buckets
  PROVE  DayAdvances(o, b)
<1>1. LedgerInv  BY DEF BookInv
<1>2. CASE UNCHANGED usage  BY <1>2 DEF DayAdvances
<1>3. CASE \E r \in Transfers, now \in Times :
             TransferVerdict(r, now) = "APPLIED" /\ Pays(op, r, Bucket(now))
  <2>1. PICK r \in Transfers, now \in Times :
          TransferVerdict(r, now) = "APPLIED" /\ Pays(op, r, Bucket(now))
    BY <1>3
  <2>2. AdmitVerdict(r, now) = "APPLIED"  BY <2>1 DEF TransferVerdict
  <2>3. usage' = [usage EXCEPT ![<<owner[r.terms.source], Bucket(now)>>] =
                    AdmitUsage(@, r.terms.principal, FALSE)]
    BY <2>1 DEF Pays
  <2> QED  BY <1>1, <2>2, <2>3, AdmissionDay
<1>4. CASE \E r \in Reserves, now \in Times :
             ReserveVerdict(r, now) = "APPLIED" /\ Encumbers(op, r, Bucket(now))
  <2>1. PICK r \in Reserves, now \in Times :
          ReserveVerdict(r, now) = "APPLIED" /\ Encumbers(op, r, Bucket(now))
    BY <1>4
  <2>2. AdmitVerdict(r, now) = "APPLIED"  BY <2>1 DEF ReserveVerdict
  <2>3. usage' = [usage EXCEPT ![<<owner[r.terms.source], Bucket(now)>>] =
                    AdmitUsage(@, r.terms.principal, TRUE)]
    BY <2>1 DEF Encumbers
  <2> QED  BY <1>1, <2>2, <2>3, AdmissionDay
<1>5. CASE \E h \in Holds : Settles(op, h) \/ GivesBack(op, h)
  <2>1. PICK h \in Holds : Settles(op, h) \/ GivesBack(op, h)  BY <1>5
  <2>2. hold[h].state # "ABSENT"  BY <2>1 DEF Settles, GivesBack, Moves, Outstanding
  <2>3. SettleUsage(h, TRUE) \/ SettleUsage(h, FALSE)  BY <2>1 DEF Settles, GivesBack
  <2> QED  BY <1>1, <2>2, <2>3, ResolutionDay
<1> QED  BY <1>2, <1>3, <1>4, <1>5 DEF Shape, Idle, Opens, Shows

\* A hold that moves on makes one of the four moves.
LEMMA MovesSteps ==
  ASSUME NEW op, NEW h \in Holds, NEW state, Moves(op, h, state), NEW i \in Holds,
         <<hold[h].state, state>> \in V!HoldMoves,
         hold'[h].version = hold[h].version + 1
  PROVE  HoldSteps(i)
BY DEF Moves, Outstanding, HoldSteps

\* Whatever its shape, a command steps holds that way.
LEMMA ShapeHoldSteps ==
  ASSUME BookInv, NEW op, Shape(op), NEW i \in Holds
  PROVE  HoldSteps(i)
<1>1. hold \in [Holds -> Hold]  BY DEF BookInv, LedgerInv, TypeOK
<1>2. CASE UNCHANGED hold  BY <1>2 DEF HoldSteps
<1>3. CASE \E r \in Reserves, now \in Times :
             ReserveVerdict(r, now) = "APPLIED" /\ Encumbers(op, r, Bucket(now))
  <2>1. PICK r \in Reserves, now \in Times :
          ReserveVerdict(r, now) = "APPLIED" /\ Encumbers(op, r, Bucket(now))
    BY <1>3
  <2> DEFINE n == [state |-> "RESERVED", version |-> 1, reserve |-> r,
                   owner |-> owner[r.terms.source], bucket |-> Bucket(now)]
  <2>2. /\ r.hold \in Holds /\ hold[r.hold].state = "ABSENT"
        /\ hold' = [hold EXCEPT ![r.hold] = n]
    BY <2>1 DEF Encumbers
  <2>3. n.state = "RESERVED" /\ n.version = 1 /\ n.reserve = r  OBVIOUS
  <2>4. AdmitVerdict(r, now) = "APPLIED" /\ Policies[r.terms.policy].pool = r.pool
    BY <2>1 DEF ReserveVerdict
  <2>5. Policies[r.terms.policy].fee = r.terms.fee  BY <2>4, AdmitPrice DEF BookInv
  <2> HIDE DEF n
  <2>6. hold'[r.hold] = n /\ \A h \in Holds \ {r.hold} : hold'[h] = hold[h]  BY <1>1, <2>2
  <2>7. HoldRecord(r.hold)'  BY <2>3, <2>4, <2>5, <2>6 DEF HoldRecord
  <2> QED  BY <2>2, <2>3, <2>6, <2>7 DEF HoldSteps
<1>4. CASE \E h \in Holds : Shows(op, h) \/ Settles(op, h) \/ GivesBack(op, h)
  <2>1. PICK h \in Holds : Shows(op, h) \/ Settles(op, h) \/ GivesBack(op, h)  BY <1>4
  <2>2. PICK state \in {"EXPOSED", "CAPTURED", "RELEASED"} :
          Moves(op, h, state) /\ <<hold[h].state, state>> \in V!HoldMoves
    BY <2>1 DEF Shows, Settles, GivesBack, Moves, Outstanding, V!HoldMoves
  <2>3. hold'[h].version = hold[h].version + 1  BY <2>2 DEF Moves
  <2> QED  BY <2>2, <2>3, MovesSteps
<1> QED  BY <1>2, <1>3, <1>4 DEF Shape, Idle, Opens, Pays

\* A command that writes controls writes their next version.
LEMMA NextControls ==
  ASSUME LedgerInv, Next, NEW k \in ControlKeys
  PROVE  ControlAdvances(k)
<1>1. control \in [ControlKeys -> Control]  BY DEF LedgerInv, TypeOK
<1>2. CASE UNCHANGED control  BY <1>2 DEF ControlAdvances
<1>3. CASE \E r \in Creates : CreateAccount(r)
  <2>1. PICK r \in Creates : CreateAccount(r)  BY <1>3
  <2>2. CASE ~UNCHANGED control
    <3>1. (control'[k] = NewControl(k) /\ control[k].version = 0) \/ control'[k] = control[k]
      BY <2>1, <2>2 DEF CreateAccount, Reject
    <3>2. NewControl(k).version = 0 + 1  BY DEF NewControl
    <3> QED  BY <3>1, <3>2 DEF ControlAdvances
  <2> QED  BY <1>2, <2>2
<1>4. CASE \E r \in SetControls : SetAccountControl(r)
  <2>1. PICK r \in SetControls : SetAccountControl(r)  BY <1>4
  <2> DEFINE c == control[r.key]
             n == [version |-> c.version + 1,
                   epoch |-> IF r.revokeGrants THEN c.epoch + 1 ELSE c.epoch,
                   debitFrozen |-> r.debitFrozen, creditFrozen |-> r.creditFrozen,
                   dailyCap |-> r.dailyCap]
  <2>2. CASE ~UNCHANGED control
    <3>1. control' = [control EXCEPT ![r.key] = n]
      BY <2>1, <2>2 DEF SetAccountControl, Reject
    <3>2. n.version = c.version + 1  OBVIOUS
    <3> HIDE DEF n
    <3> QED  BY <1>1, <3>1, <3>2 DEF ControlAdvances
  <2> QED  BY <1>2, <2>2
<1> QED
  BY <1>2, <1>3, <1>4
  DEF Next, TransferInternal, ReservePayout, RejectAdmission, MarkHoldExposed, CapturePayout,
      ReleasePayout, Reject

\* Whatever is committed, what the verifier finds on record stays there.
LEMMA NextRecords ==
  ASSUME BookInv, BookInv', JournalsRecorded, RecordInv, Next
  PROVE  RecordInv'
<1>1. PICK op \in Ops : Shape(op)  BY NextShape DEF BookInv
<1>2. /\ FixtureRecorded'
      /\ \A x \in Ops \ {FixtureOp} : receipts'[x].outcome # "NONE" => RecordOf(x)'
  BY StepRecords
<1>3. ClaimsRecorded'  BY StepClaims DEF BookInv, RecordInv
<1>4. \A h \in Holds : HoldSteps(h)  BY <1>1, ShapeHoldSteps
<1>5. \A a \in Accounts : RowAdvances(a)  BY <1>1, ShapeAdvances
<1>6. \A h \in Holds : hold'[h].state # "ABSENT" => HoldRecord(h)'
  <2> TAKE h \in Holds
  <2>1. CASE hold'[h].reserve = hold[h].reserve /\ (hold'[h].state # "ABSENT" => hold[h].state # "ABSENT")
    BY <2>1 DEF RecordInv, HoldRecord
  <2> QED  BY <1>4, <2>1 DEF HoldSteps
<1>7. \A h \in Holds : hold'[h].state = "ABSENT" <=> hold'[h].version = 0
  <2> TAKE h \in Holds
  <2>1. hold[h].version \in Nat
    BY BoundsAssumption DEF BookInv, LedgerInv, TypeOK, Hold, Versions
  <2>2. \A s : <<hold[h].state, s>> \in V!HoldMoves => s # "ABSENT"  BY DEF V!HoldMoves
  <2>3. hold[h].state = "ABSENT" <=> hold[h].version = 0  BY DEF RecordInv
  <2>4. HoldSteps(h)  BY <1>4
  <2>5. CASE hold'[h] = hold[h]  BY <2>3, <2>5
  <2>6. CASE hold'[h] # hold[h]
    <3>1. /\ hold'[h].state # "ABSENT"
          /\ hold'[h].version = 1 \/ hold'[h].version = hold[h].version + 1
      BY <2>2, <2>4, <2>6 DEF HoldSteps
    <3> QED  BY <2>1, <3>1
  <2> QED  BY <2>5, <2>6
<1>8. \A a \in Accounts : Exists(a)' <=> balance'[a].version > 0
  <2> TAKE a \in Accounts
  <2> DEFINE v == balance[a].version
             w == balance'[a].version
  <2>1. v \in Nat  BY BalanceRows DEF BookInv, Row
  <2>2. Exists(a) <=> v > 0  BY DEF RecordInv
  <2>3. RowAdvances(a)  BY <1>5
  <2>4. \/ w = v /\ owner'[a] = owner[a]
        \/ Exists(a) /\ owner'[a] = owner[a] /\ w = v + 1
        \/ owner'[a] # NoOwner /\ w = 1
    BY <2>3 DEF RowAdvances
  <2> HIDE DEF v, w
  <2>5. (owner'[a] # NoOwner) <=> w > 0  BY <2>1, <2>2, <2>4 DEF Exists
  <2> QED  BY <2>5 DEF Exists, w
<1> QED  BY <1>2, <1>3, <1>6, <1>7, <1>8 DEF RecordInv

\* Nor does a step that commits nothing change it.
LEMMA IdleRecords == RecordInv /\ UNCHANGED vars => RecordInv'
<1> SUFFICES ASSUME RecordInv, UNCHANGED vars PROVE RecordInv'  OBVIOUS
<1>1. UNCHANGED <<balance, owner, control, claim, hold>>  BY DEF vars
<1>2. UNCHANGED <<journal, usage, receipts, evidence>>  BY DEF vars
<1>3. FixtureRecorded'  BY <1>1, <1>2 DEF RecordInv, FixtureRecorded, Exists
<1>4. \A x \in Ops \ {FixtureOp} : receipts'[x].outcome # "NONE" => RecordOf(x)'
  <2> SUFFICES ASSUME NEW x \in Ops \ {FixtureOp}, receipts[x].outcome # "NONE"
               PROVE  RecordOf(x)'
    BY <1>2
  <2>1. RecordOf(x)  BY DEF RecordInv
  <2>2. TransferRecord(x) => TransferRecord(x)'
    BY <1>1, <1>2 DEF TransferRecord, Sound, Exists
  <2>3. CaptureRecord(x) => CaptureRecord(x)'
    BY <1>1, <1>2 DEF CaptureRecord, HoldLines, HoldFeeAccount
  <2>4. \A e, ref : Proof(e, ref) => Proof(e, ref)'  BY <1>2 DEF Proof
  <2>5. EvidenceKept(x)' = EvidenceKept(x)  BY <1>2 DEF EvidenceKept
  <2>6. /\ Applied(x, Transfers)' <=> Applied(x, Transfers)
        /\ Applied(x, Captures)' <=> Applied(x, Captures)
        /\ Applied(x, Transfers \cup Captures)' <=> Applied(x, Transfers \cup Captures)
    BY <1>2 DEF Applied
  <2> QED  BY <1>1, <1>2, <2>1, <2>2, <2>3, <2>4, <2>5, <2>6 DEF RecordOf
<1>5. ClaimsRecorded'
  <2>1. \A p \in Payments : ClaimRecord(p) => ClaimRecord(p)'
    BY <1>1, <1>2 DEF ClaimRecord, About
  <2> QED  BY <1>1, <2>1 DEF RecordInv, ClaimsRecorded
<1>6. \A h \in Holds : hold'[h].state # "ABSENT" => HoldRecord(h)'
  BY <1>1 DEF RecordInv, HoldRecord
<1>7. \A h \in Holds : hold'[h].state = "ABSENT" <=> hold'[h].version = 0
  BY <1>1 DEF RecordInv
<1>8. \A a \in Accounts : Exists(a)' <=> balance'[a].version > 0
  BY <1>1 DEF RecordInv, Exists
<1> QED  BY <1>3, <1>4, <1>5, <1>6, <1>7, <1>8 DEF RecordInv

\* The fixture records itself and nothing else.
LEMMA InitRecords == Init => RecordInv
<1> SUFFICES ASSUME Init PROVE RecordInv  OBVIOUS
<1>1. LedgerInv  BY InitInv
<1>2. FixtureRecorded
  <2>1. receipts[FixtureOp] = Receipt("APPLIED", NoReason, NoRequest, NoBucket)
    BY IdAssumption DEF Init
  <2>2. receipts[FixtureOp].outcome = "APPLIED" /\ receipts[FixtureOp].request = NoRequest
    BY <2>1 DEF Receipt
  <2>3. journal[FixtureOp] = {Line(FundedPool, "DEBIT", Funding),
                              Line(FundedWallet, "CREDIT", Funding)}
    BY IdAssumption DEF Init
  <2>4. Exists(FundedWallet)  BY IdAssumption DEF Init, Exists
  <2> QED  BY <2>2, <2>3, <2>4 DEF FixtureRecorded
<1>3. \A x \in Ops \ {FixtureOp} : receipts[x].outcome = "NONE"
  <2> TAKE x \in Ops \ {FixtureOp}
  <2>1. receipts[x] = Receipt("NONE", NoReason, NoRequest, NoBucket)  BY DEF Init
  <2> QED  BY <2>1 DEF Receipt
<1>4. \A p \in Payments : claim[p].state = "ABSENT"  BY DEF Init
<1>5. \A h \in Holds : hold[h].state = "ABSENT" /\ hold[h].version = 0  BY DEF Init
<1>6. \A a \in Accounts : Exists(a) <=> balance[a].version > 0  BY DEF Init
<1> QED  BY <1>2, <1>3, <1>4, <1>5, <1>6 DEF RecordInv, ClaimsRecorded

\* All that a recorded book promises its verifier.
RecordedBook == SoundBook /\ JournalsRecorded /\ RecordInv /\ ExecutionInv

\* Whatever is committed, what the rows of a book say of each other stays true.
LEMMA BookRecorded == Spec => []RecordedBook
<1>1. Init => JournalsRecorded /\ RecordInv /\ ExecutionInv
  BY InitBalances, InitRecords, InitExecutes
<1>2. BookInv /\ BookInv' /\ JournalsRecorded /\ BalancesMatchHistory /\ [Next]_vars
        => JournalsRecorded'
  BY NextBalances
<1>3. BookInv /\ BookInv' /\ JournalsRecorded /\ RecordInv /\ [Next]_vars => RecordInv'
  <2> SUFFICES ASSUME BookInv, BookInv', JournalsRecorded, RecordInv, [Next]_vars
               PROVE  RecordInv'
    OBVIOUS
  <2>1. CASE Next  BY <2>1, NextRecords
  <2>2. CASE UNCHANGED vars  BY <2>2, IdleRecords
  <2> QED  BY <2>1, <2>2
<1>4. BookInv /\ ExecutionInv /\ [Next]_vars => ExecutionInv'  BY NextExecutes DEF BookInv
<1>5. RecordedBook <=> /\ BookInv /\ BalancesMatchHistory /\ UsageMatchesHistory /\ FullyBacked
                       /\ CountInv /\ JournalsRecorded /\ RecordInv /\ ExecutionInv
  BY DEF RecordedBook, SoundBook
<1> QED  BY <1>1, <1>2, <1>3, <1>4, <1>5, BookInvariant, BalancesAreHistory, UsageIsHistory,
            BookIsBacked, CountsHold, PTL DEF Spec

-----------------------------------------------------------------------------
(***************************************************************************)
(* The histories of the book.                                              *)
(***************************************************************************)
\* The history of holds: each has its chain, and no event is of anything else.
HoldsUnbroken(log, rows) ==
  /\ \A e \in log : e.key \in Holds
  /\ \A h \in Holds : HoldChained(V!EventsOf(log, h), FixedTerms(h, rows[h]),
                                  V!Truncate(rows[h].reserve.expiresAt), rows[h])

\* A plan leaves a hold, records a new one or makes one move with it.
HoldRowAdvances(old, new) ==
  \/ new = old
  \/ /\ old.version = 0 /\ new.version = 1 /\ new.state = "RESERVED"
     /\ new.reserve.expiresAt \in Int
  \/ /\ old.version \in Nat \ {0} /\ new.version = old.version + 1
     /\ new.reserve = old.reserve /\ new.owner = old.owner /\ new.bucket = old.bucket
     /\ new.reserve.expiresAt \in Int
     /\ <<old.state, new.state>> \in V!HoldMoves

\* A hold that was never recorded has no events.
LEMMA HoldChainEmpty ==
  ASSUME NEW es, NEW terms, NEW stored, NEW row, row.version = 0,
         HoldChained(es, terms, stored, row)
  PROVE  es = {}
<1>1. \A e \in es : e.version \in 1 .. 0  BY DEF HoldChained
<1> QED  BY <1>1

\* The event of a hold that Save writes, if it changed.
HoldEvent(h, old, new, op) ==
  LET stored == V!Truncate(new.reserve.expiresAt)
  IN  IF old.version = 0
      THEN Event(h, 1, op, {}, HoldBody(h, new, new.reserve.expiresAt))
      ELSE Event(h, new.version, op, {HoldBody(h, old, stored)}, HoldBody(h, new, stored))

\* It continues the chain of its hold.
LEMMA HoldEventChains ==
  ASSUME NEW es, NEW h, NEW old, NEW new, NEW op, HoldRowAdvances(old, new), new # old,
         HoldChained(es, FixedTerms(h, old), V!Truncate(old.reserve.expiresAt), old)
  PROVE  HoldChained(es \cup {HoldEvent(h, old, new, op)}, FixedTerms(h, new),
                     V!Truncate(new.reserve.expiresAt), new)
<1> DEFINE x == HoldEvent(h, old, new, op)
           stored == V!Truncate(new.reserve.expiresAt)
           terms == FixedTerms(h, new)
<1>1. CASE old.version = 0
  <2>1. new.version = 1 /\ new.state = "RESERVED"  BY <1>1 DEF HoldRowAdvances
  <2>2. x = Event(h, 1, op, {}, HoldBody(h, new, new.reserve.expiresAt))
    BY <1>1 DEF HoldEvent
  <2>3. x.version = 1 /\ x.before = {} /\ x.after = HoldBody(h, new, new.reserve.expiresAt)
    BY <2>2 DEF Event
  <2>4. x.after = Body(terms, "RESERVED", 1, new.reserve.expiresAt)
    BY <2>1, <2>3 DEF HoldBody, Body
  <2>5. es = {}  BY <1>1, HoldChainEmpty
  <2> HIDE DEF x, terms
  <2>6. HoldChained({x}, terms, V!Truncate(new.reserve.expiresAt), new)
    BY <2>1, <2>3, <2>4, HoldChainStarts
  <2> QED  BY <2>5, <2>6 DEF x, terms
<1>2. CASE old.version # 0
  <2>1. /\ old.version \in Nat \ {0} /\ new.version = old.version + 1
        /\ new.reserve = old.reserve /\ new.owner = old.owner /\ new.bucket = old.bucket
        /\ new.reserve.expiresAt \in Int /\ <<old.state, new.state>> \in V!HoldMoves
    BY <1>2 DEF HoldRowAdvances
  <2>2. FixedTerms(h, old) = terms  BY <2>1 DEF FixedTerms
  <2>3. x = Event(h, new.version, op, {HoldBody(h, old, stored)}, HoldBody(h, new, stored))
    BY <1>2 DEF HoldEvent
  <2>4. /\ x.version = new.version /\ x.before = {HoldBody(h, old, stored)}
        /\ x.after = HoldBody(h, new, stored)
    BY <2>3 DEF Event
  <2>5. HoldBody(h, old, stored) = Body(terms, old.state, old.version, stored)
    BY <2>2 DEF HoldBody, Body
  <2>6. HoldBody(h, new, stored) = Body(terms, new.state, new.version, stored)
    BY DEF HoldBody, Body
  <2>7. V!Truncate(stored) = stored  BY <2>1, TruncateTwice
  <2>8. HoldChained(es, terms, stored, old)  BY <2>1, <2>2
  <2> HIDE DEF x, stored, terms
  <2>9. HoldChained(es \cup {x}, terms, stored, new)
    BY <2>1, <2>4, <2>5, <2>6, <2>7, <2>8, HoldChainGrows
  <2> QED  BY <2>9 DEF x, stored, terms
<1> QED  BY <1>1, <1>2

\* Save adds to the history of holds what the plan changed.
LEMMA HoldChangesChain ==
  ASSUME NEW log, NEW old, NEW new, NEW op, HoldsUnbroken(log, old),
         \A h \in Holds : HoldRowAdvances(old[h], new[h])
  PROVE  HoldsUnbroken(log \cup HoldChanges(old, new, op), new)
<1> DEFINE K == {x \in Holds : old[x] # new[x]}
           ev == [h \in K |-> HoldEvent(h, old[h], new[h], op)]
           more == HoldChanges(old, new, op)
<1>1. more = {ev[h] : h \in K}  BY DEF HoldChanges, HoldEvent
<1>2. \A h \in K : ev[h] = HoldEvent(h, old[h], new[h], op)  OBVIOUS
<1>3. \A h \in K : ev[h].key = h  BY DEF HoldEvent, Event
<1> HIDE DEF ev
<1>4. (\A e \in more : \E h \in K : e = ev[h]) /\ (\A h \in K : ev[h] \in more)  BY <1>1
<1>5. K \subseteq Holds  OBVIOUS
<1> HIDE DEF more
<1>6. \A e \in log \cup more : e.key \in Holds
  <2> HIDE DEF K
  <2>1. \A e \in log : e.key \in Holds  BY DEF HoldsUnbroken
  <2>2. \A e \in more : e.key \in Holds  BY <1>3, <1>4, <1>5
  <2> QED  BY <2>1, <2>2
<1>7. ASSUME NEW h \in Holds
      PROVE  HoldChained(V!EventsOf(log \cup more, h), FixedTerms(h, new[h]),
                         V!Truncate(new[h].reserve.expiresAt), new[h])
  <2>1. HoldChained(V!EventsOf(log, h), FixedTerms(h, old[h]),
                    V!Truncate(old[h].reserve.expiresAt), old[h])
    BY DEF HoldsUnbroken
  <2>2. CASE h \in K
    <3>1. new[h] # old[h]  BY <2>2
    <3> HIDE DEF K
    <3>2. V!EventsOf(log \cup more, h) = V!EventsOf(log, h) \cup {ev[h]}
      BY <1>3, <1>4, <2>2 DEF V!EventsOf
    <3>3. ev[h] = HoldEvent(h, old[h], new[h], op)  BY <1>2, <2>2
    <3>4. HoldRowAdvances(old[h], new[h])  OBVIOUS
    <3>5. HoldChained(V!EventsOf(log, h) \cup {HoldEvent(h, old[h], new[h], op)},
                      FixedTerms(h, new[h]), V!Truncate(new[h].reserve.expiresAt), new[h])
      BY <2>1, <3>1, <3>4, HoldEventChains
    <3> QED  BY <3>2, <3>3, <3>5
  <2>3. CASE h \notin K
    <3>1. new[h] = old[h]  BY <2>3
    <3> HIDE DEF K
    <3>2. V!EventsOf(log \cup more, h) = V!EventsOf(log, h)
      BY <1>3, <1>4, <2>3 DEF V!EventsOf
    <3> QED  BY <2>1, <3>1, <3>2
  <2> QED  BY <2>2, <2>3
<1>8. HoldsUnbroken(log \cup more, new)  BY <1>6, <1>7 DEF HoldsUnbroken
<1> QED  BY <1>8 DEF more

\* A transfer that was applied counts on the day it was recorded.
Timed ==
  /\ recordedAt \in [Ops -> Times \cup {NoBucket}]
  /\ \A x \in Ops : Applied(x, Transfers) =>
       recordedAt[x] \in Times /\ receipts[x].bucket = Bucket(recordedAt[x])

\* Every event was written by an operation that was applied.
EventsApplied(log) == \A e \in log : e.op \in Ops /\ receipts[e.op].outcome = "APPLIED"

\* The histories of a book.
HistoryInv ==
  /\ Unbroken(accountEvents, balance) /\ Unbroken(controlEvents, control)
  /\ Unbroken(limitEvents, usage) /\ HoldsUnbroken(holdEvents, hold)
  /\ EventsApplied(accountEvents) /\ EventsApplied(controlEvents)
  /\ EventsApplied(limitEvents) /\ EventsApplied(holdEvents)
  /\ Timed

\* One operation saves its plan: it is applied, or it changed no row.
Saved(op) ==
  /\ Save(op) /\ op \in Ops /\ receipts[op].outcome = "NONE"
  /\ \/ receipts'[op].outcome = "APPLIED"
     \/ UNCHANGED <<balance, control, hold, usage>>
  /\ \A x \in Ops \ {op} : receipts'[x] = receipts[x]

\* What a command that is no transfer saves.
LEMMA UntimedSaves ==
  ASSUME LedgerInv, Timed, NEW r \in Requests \ Transfers, receipts[r.op].outcome = "NONE",
         (\E b : Record(r, b)) \/ (\E v : Reject(r, v)), Untimed(r.op)
  PROVE  Saved(r.op) /\ Timed'
<1>1. /\ receipts'[r.op].request = r /\ \A x \in Ops \ {r.op} : receipts'[x] = receipts[x]
      /\ \/ receipts'[r.op].outcome = "APPLIED"
         \/ UNCHANGED <<balance, control, hold, usage>>
  <2>1. CASE \E b : Record(r, b)  BY <2>1, RecordEffect
  <2>2. CASE \E v : Reject(r, v)  BY <2>2, RejectEffect
  <2> QED  BY <2>1, <2>2
<1>2. Save(r.op) /\ UNCHANGED recordedAt  BY DEF Untimed
<1>3. r.op \in Ops  BY RequestOps
<1>4. Saved(r.op)  BY <1>1, <1>2, <1>3 DEF Saved
<1>5. \A x \in Ops : Applied(x, Transfers)' => Applied(x, Transfers) /\ receipts'[x] = receipts[x]
  BY <1>1 DEF Applied
<1>6. Timed'  BY <1>2, <1>5 DEF Timed
<1> QED  BY <1>4, <1>6

\* What a transfer saves, with the reading of its clock.
LEMMA TransferSaves ==
  ASSUME LedgerInv, Timed, NEW r \in Transfers, NEW now \in Times, TransferInternal(r, now),
         recordedAt' = [recordedAt EXCEPT ![r.op] = now], Save(r.op)
  PROVE  Saved(r.op) /\ Timed'
<1>1. r \in Requests /\ r.op \in Ops  BY RequestOps DEF Requests
<1>2. receipts[r.op].outcome = "NONE"  BY DEF TransferInternal, Fresh
<1>3. /\ \A x \in Ops \ {r.op} : receipts'[x] = receipts[x]
      /\ \/ receipts'[r.op] = Receipt("APPLIED", NoReason, r, Bucket(now))
         \/ /\ receipts'[r.op].outcome = "REJECTED"
            /\ UNCHANGED <<balance, control, hold, usage>>
  <2>1. CASE Record(r, Bucket(now))
    BY <1>1, <2>1, RecordEffect DEF Record, LedgerInv, TypeOK
  <2>2. CASE RejectAdmission(r, TransferVerdict(r, now))
    BY <1>1, <2>2, RejectEffect DEF RejectAdmission
  <2> QED  BY <2>1, <2>2 DEF TransferInternal
<1>4. Saved(r.op)
  <2>1. Receipt("APPLIED", NoReason, r, Bucket(now)).outcome = "APPLIED"  BY DEF Receipt
  <2> QED  BY <1>1, <1>2, <1>3, <2>1 DEF Saved
<1>5. /\ recordedAt' \in [Ops -> Times \cup {NoBucket}] /\ recordedAt'[r.op] = now
      /\ \A x \in Ops \ {r.op} : recordedAt'[x] = recordedAt[x]
  BY <1>1 DEF Timed
<1>6. ASSUME NEW x \in Ops, Applied(x, Transfers)'
      PROVE  recordedAt'[x] \in Times /\ receipts'[x].bucket = Bucket(recordedAt'[x])
  <2>1. CASE x = r.op
    <3>1. receipts'[x] = Receipt("APPLIED", NoReason, r, Bucket(now))
      BY <1>3, <1>6, <2>1 DEF Applied
    <3>2. receipts'[x].bucket = Bucket(now)  BY <3>1 DEF Receipt
    <3> QED  BY <1>5, <2>1, <3>2
  <2>2. CASE x # r.op
    <3>1. receipts'[x] = receipts[x] /\ recordedAt'[x] = recordedAt[x]  BY <1>3, <1>5, <2>2
    <3>2. Applied(x, Transfers)  BY <1>6, <3>1 DEF Applied
    <3> QED  BY <3>1, <3>2 DEF Timed
  <2> QED  BY <2>1, <2>2
<1> QED  BY <1>4, <1>5, <1>6 DEF Timed

\* Every command of the book saves its plan.
LEMMA NextSaves ==
  ASSUME LedgerInv, Timed, AuditNext
  PROVE  Next /\ Timed' /\ \E op : Saved(op)
<1>1. /\ \A r \in Creates \cup SetControls \cup Reserves \cup Exposes \cup Captures \cup Releases :
           r \in Requests \ Transfers
  BY KindsDiffer DEF Requests
<1>2. CASE \E r \in Creates : CreateAccount(r) /\ Untimed(r.op)
  <2>1. PICK r \in Creates : CreateAccount(r) /\ Untimed(r.op)  BY <1>2
  <2>2. /\ receipts[r.op].outcome = "NONE"
        /\ (\E b : Record(r, b)) \/ (\E v : Reject(r, v))
    BY <2>1 DEF CreateAccount, Fresh
  <2> QED  BY <1>1, <2>1, <2>2, UntimedSaves DEF Next
<1>3. CASE \E r \in SetControls : SetAccountControl(r) /\ Untimed(r.op)
  <2>1. PICK r \in SetControls : SetAccountControl(r) /\ Untimed(r.op)  BY <1>3
  <2>2. /\ receipts[r.op].outcome = "NONE"
        /\ (\E b : Record(r, b)) \/ (\E v : Reject(r, v))
    BY <2>1 DEF SetAccountControl, Fresh
  <2> QED  BY <1>1, <2>1, <2>2, UntimedSaves DEF Next
<1>4. CASE \E r \in Transfers, now \in Times :
             /\ TransferInternal(r, now)
             /\ recordedAt' = [recordedAt EXCEPT ![r.op] = now]
             /\ Save(r.op)
  BY <1>4, TransferSaves DEF Next
<1>5. CASE \E r \in Reserves, now \in Times : ReservePayout(r, now) /\ Untimed(r.op)
  <2>1. PICK r \in Reserves, now \in Times : ReservePayout(r, now) /\ Untimed(r.op)  BY <1>5
  <2>2. /\ receipts[r.op].outcome = "NONE"
        /\ (\E b : Record(r, b)) \/ (\E v : Reject(r, v))
    BY <2>1 DEF ReservePayout, RejectAdmission, Fresh
  <2> QED  BY <1>1, <2>1, <2>2, UntimedSaves DEF Next
<1>6. CASE \E r \in Exposes, now \in Times, known \in BOOLEAN :
             MarkHoldExposed(r, now, known) /\ Untimed(r.op)
  <2>1. PICK r \in Exposes, now \in Times, known \in BOOLEAN :
               MarkHoldExposed(r, now, known) /\ Untimed(r.op)
    BY <1>6
  <2>2. /\ receipts[r.op].outcome = "NONE"
        /\ (\E b : Record(r, b)) \/ (\E v : Reject(r, v))
    BY <2>1 DEF MarkHoldExposed, Fresh
  <2> QED  BY <1>1, <2>1, <2>2, UntimedSaves DEF Next
<1>7. CASE \E r \in Captures, now \in Times : CapturePayout(r, now) /\ Untimed(r.op)
  <2>1. PICK r \in Captures, now \in Times : CapturePayout(r, now) /\ Untimed(r.op)  BY <1>7
  <2>2. /\ receipts[r.op].outcome = "NONE"
        /\ (\E b : Record(r, b)) \/ (\E v : Reject(r, v))
    BY <2>1 DEF CapturePayout, Fresh
  <2> QED  BY <1>1, <2>1, <2>2, UntimedSaves DEF Next
<1>8. CASE \E r \in Releases, now \in Times : ReleasePayout(r, now) /\ Untimed(r.op)
  <2>1. PICK r \in Releases, now \in Times : ReleasePayout(r, now) /\ Untimed(r.op)  BY <1>8
  <2>2. /\ receipts[r.op].outcome = "NONE"
        /\ (\E b : Record(r, b)) \/ (\E v : Reject(r, v))
    BY <2>1 DEF ReleasePayout, Fresh
  <2> QED  BY <1>1, <2>1, <2>2, UntimedSaves DEF Next
<1> QED  BY <1>2, <1>3, <1>4, <1>5, <1>6, <1>7, <1>8 DEF AuditNext

\* Every row a step writes takes its next version.
LEMMA NextAdvances ==
  ASSUME BookInv, BookInv', RecordInv, Next
  PROVE  Advances(balance, balance') /\ Advances(control, control') /\ Advances(usage, usage')
<1>1. PICK op \in Ops : Writes(op) /\ Shape(op)  BY NextShape DEF BookInv
<1>2. LedgerInv /\ LedgerInv'  BY DEF BookInv
<1>3. /\ balance \in [Accounts -> Balance] /\ balance' \in [Accounts -> Balance]
      /\ control \in [ControlKeys -> Control] /\ control' \in [ControlKeys -> Control]
      /\ usage \in [Owners \X Buckets -> Usage] /\ usage' \in [Owners \X Buckets -> Usage]
  BY <1>2 DEF LedgerInv, TypeOK
<1>4. Versions \subseteq Nat  BY BoundsAssumption DEF Versions
<1>5. Advances(balance, balance')
  <2> SUFFICES ASSUME NEW a \in Accounts
               PROVE  /\ balance[a].version \in Nat
                      /\ \/ balance'[a] = balance[a]
                         \/ balance'[a].version = balance[a].version + 1
    BY <1>3 DEF Advances
  <2>1. balance[a].version \in Nat  BY <1>3, <1>4 DEF Balance
  <2>2. RowAdvances(a)  BY <1>1, ShapeAdvances
  <2>3. ~Exists(a) => balance[a].version = 0  BY <2>1 DEF RecordInv
  <2> QED  BY <2>1, <2>2, <2>3 DEF RowAdvances
<1>6. Advances(control, control')
  <2> SUFFICES ASSUME NEW k \in ControlKeys
               PROVE  /\ control[k].version \in Nat
                      /\ \/ control'[k] = control[k]
                         \/ control'[k].version = control[k].version + 1
    BY <1>3 DEF Advances
  <2>1. control[k].version \in Nat  BY <1>3, <1>4 DEF Control
  <2> QED  BY <1>2, <2>1, NextControls DEF ControlAdvances
<1>7. Advances(usage, usage')
  <2> SUFFICES ASSUME NEW o \in Owners, NEW b \in Buckets
               PROVE  /\ usage[<<o, b>>].version \in Nat
                      /\ \/ usage'[<<o, b>>] = usage[<<o, b>>]
                         \/ usage'[<<o, b>>].version = usage[<<o, b>>].version + 1
    BY <1>3 DEF Advances
  <2>1. usage[<<o, b>>].version \in Nat  BY <1>3, <1>4 DEF Usage
  <2> QED  BY <1>1, <2>1, ShapeDayAdvances DEF DayAdvances
<1> QED  BY <1>5, <1>6, <1>7

\* So does every hold.
LEMMA NextHoldAdvances ==
  ASSUME BookInv, BookInv', RecordInv, Next, NEW h \in Holds
  PROVE  HoldRowAdvances(hold[h], hold'[h])
<1>1. PICK op \in Ops : Writes(op) /\ Shape(op)  BY NextShape DEF BookInv
<1>2. LedgerInv /\ LedgerInv'  BY DEF BookInv
<1>3. HoldSteps(h)  BY <1>1, ShapeHoldSteps
<1>4. hold[h].version \in Nat
  BY <1>2, BoundsAssumption DEF LedgerInv, TypeOK, Hold, Versions
<1>5. hold[h].state = "ABSENT" <=> hold[h].version = 0  BY DEF RecordInv
<1>6. hold'[h].state # "ABSENT" => hold'[h].reserve \in Reserves
  BY <1>2 DEF LedgerInv, HoldsWellFormed
<1>7. \A r \in Reserves : r.expiresAt \in Int  BY RequestAssumption DEF ReserveRequest
<1>8. \A s \in {"ABSENT"} : \A t : <<t, s>> \notin V!HoldMoves  BY DEF V!HoldMoves
<1> QED  BY <1>3, <1>4, <1>5, <1>6, <1>7, <1>8 DEF HoldSteps, HoldRowAdvances

\* What a plan adds to a history was written by its operation.
LEMMA AppliedStays ==
  ASSUME NEW log, EventsApplied(log), NEW op, Saved(op), NEW more,
         \A e \in more : e.op = op /\ receipts'[op].outcome = "APPLIED"
  PROVE  \A e \in log \cup more : e.op \in Ops /\ receipts'[e.op].outcome = "APPLIED"
BY DEF EventsApplied, Saved

\* The events of a plan that changed nothing are none.
LEMMA ChangesApplied ==
  ASSUME NEW op, Saved(op), NEW old, NEW new,
         receipts'[op].outcome = "APPLIED" \/ new = old
  PROVE  /\ \A e \in Changes(old, new, op) : e.op = op /\ receipts'[op].outcome = "APPLIED"
         /\ \A e \in HoldChanges(old, new, op) : e.op = op /\ receipts'[op].outcome = "APPLIED"
<1>1. \A e \in Changes(old, new, op) : e.op = op /\ new # old  BY DEF Changes, Event
<1>2. \A e \in HoldChanges(old, new, op) : e.op = op /\ new # old  BY DEF HoldChanges, Event
<1> QED  BY <1>1, <1>2

\* Every step keeps the histories of a book.
LEMMA NextHistories ==
  ASSUME BookInv, BookInv', RecordInv, HistoryInv, AuditNext
  PROVE  HistoryInv'
<1>1. Next /\ Timed' /\ \E op : Saved(op)  BY NextSaves DEF BookInv, HistoryInv
<1>2. PICK op : Saved(op)  BY <1>1
<1>3. /\ Advances(balance, balance') /\ Advances(control, control') /\ Advances(usage, usage')
      /\ \A h \in Holds : HoldRowAdvances(hold[h], hold'[h])
  BY <1>1, NextAdvances, NextHoldAdvances
<1>4. /\ accountEvents' = accountEvents \cup Changes(balance, balance', op)
      /\ controlEvents' = controlEvents \cup Changes(control, control', op)
      /\ holdEvents' = holdEvents \cup HoldChanges(hold, hold', op)
      /\ limitEvents' = limitEvents \cup Changes(usage, usage', op)
  BY <1>2 DEF Saved, Save
<1>5. /\ Unbroken(accountEvents', balance') /\ Unbroken(controlEvents', control')
      /\ Unbroken(limitEvents', usage')
  BY <1>3, <1>4, ChangesChain DEF HistoryInv
<1>6. HoldsUnbroken(holdEvents', hold')  BY <1>3, <1>4, HoldChangesChain DEF HistoryInv
<1>7. \/ receipts'[op].outcome = "APPLIED"
      \/ balance' = balance /\ control' = control /\ hold' = hold /\ usage' = usage
  BY <1>2 DEF Saved
<1>8. /\ \A e \in Changes(balance, balance', op) : e.op = op /\ receipts'[op].outcome = "APPLIED"
      /\ \A e \in Changes(control, control', op) : e.op = op /\ receipts'[op].outcome = "APPLIED"
      /\ \A e \in Changes(usage, usage', op) : e.op = op /\ receipts'[op].outcome = "APPLIED"
      /\ \A e \in HoldChanges(hold, hold', op) : e.op = op /\ receipts'[op].outcome = "APPLIED"
  BY <1>2, <1>7, ChangesApplied
<1>9. /\ EventsApplied(accountEvents)' /\ EventsApplied(controlEvents)'
      /\ EventsApplied(limitEvents)' /\ EventsApplied(holdEvents)'
  <2>1. EventsApplied(accountEvents)'
    BY <1>2, <1>4, <1>8, AppliedStays DEF HistoryInv, EventsApplied
  <2>2. EventsApplied(controlEvents)'
    BY <1>2, <1>4, <1>8, AppliedStays DEF HistoryInv, EventsApplied
  <2>3. EventsApplied(limitEvents)'
    BY <1>2, <1>4, <1>8, AppliedStays DEF HistoryInv, EventsApplied
  <2>4. EventsApplied(holdEvents)'
    BY <1>2, <1>4, <1>8, AppliedStays DEF HistoryInv, EventsApplied
  <2> QED  BY <2>1, <2>2, <2>3, <2>4
<1> QED  BY <1>1, <1>5, <1>6, <1>9 DEF HistoryInv, Unbroken, HoldsUnbroken

\* The fixture writes the first event of the rows it writes, and of no others.
LEMMA FixtureChains ==
  ASSUME NEW rows, NEW log, NEW K, K = {k \in DOMAIN rows : rows[k].version = 1},
         \A k \in DOMAIN rows : rows[k].version \in {0, 1},
         log = {Event(k, 1, FixtureOp, {}, rows[k]) : k \in K}
  PROVE  Unbroken(log, rows) /\ \A e \in log : e.op = FixtureOp
<1> DEFINE ev == [k \in K |-> Event(k, 1, FixtureOp, {}, rows[k])]
<1>1. log = {ev[k] : k \in K}  OBVIOUS
<1>2. \A k \in K : /\ ev[k].key = k /\ ev[k].version = 1 /\ ev[k].after = rows[k]
                   /\ ev[k].before = {} /\ ev[k].op = FixtureOp
  BY DEF Event
<1>3. \A k \in K : ev[k].key = k  BY <1>2
<1>4. \A k \in K : ev[k].op = FixtureOp  BY <1>2
<1>5. K \subseteq DOMAIN rows /\ \A k \in K : rows[k].version = 1  OBVIOUS
<1> HIDE DEF ev
<1>6. (\A e \in log : \E k \in K : e = ev[k]) /\ \A k \in K : ev[k] \in log  BY <1>1
<1>7. ASSUME NEW k \in DOMAIN rows PROVE Chained(V!EventsOf(log, k), rows[k])
  <2> DEFINE es == V!EventsOf(log, k)
  <2>1. CASE rows[k].version = 1
    <3>1. k \in K  BY <2>1
    <3>2. es = {ev[k]}  BY ONLY <1>6, <1>3, <3>1 DEF V!EventsOf
    <3> DEFINE x == ev[k]
    <3>3. x.version = 1 /\ x.after = rows[k] /\ x.before = {}
      BY <1>2, <3>1
    <3>4. es = {x}  BY <3>2
    <3> HIDE DEF x, es
    <3>5. \A e \in es : e = x  BY <3>4
    <3>6. \A i \in 1 .. 1 : i = 1  OBVIOUS
    <3>7. \A e \in es : /\ e.version \in 1 .. rows[k].version /\ e.after.version = e.version
                        /\ e.version = 1 => e.before = {}
                        /\ e.version = rows[k].version => e.after = rows[k]
      BY <2>1, <3>3, <3>5
    <3>8. \A i \in 1 .. rows[k].version : \E e \in es : e.version = i
      BY <2>1, <3>3, <3>4, <3>6
    <3>9. /\ \A d, e \in es : d.version = e.version => d = e
          /\ \A d, e \in es : d.version = e.version - 1 => e.before = {d.after}
      BY <3>3, <3>5
    <3>10. Chained(es, rows[k])  BY <3>7, <3>8, <3>9 DEF Chained
    <3> QED  BY <3>10 DEF es
  <2>2. CASE rows[k].version = 0
    <3>1. k \notin K  BY <1>5, <2>2
    <3>2. es = {}  BY ONLY <1>6, <1>3, <3>1 DEF V!EventsOf
    <3> HIDE DEF es
    <3>3. Chained(es, rows[k])  BY <2>2, <3>2 DEF Chained
    <3> QED  BY <3>3 DEF es
  <2> QED  BY <2>1, <2>2
<1>8. \A e \in log : e.key \in DOMAIN rows /\ e.op = FixtureOp
  BY ONLY <1>6, <1>3, <1>4, <1>5
<1> QED  BY <1>7, <1>8 DEF Unbroken

\* The fixture leaves the histories of its rows.
LEMMA InitHistories == AuditInit => HistoryInv
<1> SUFFICES ASSUME AuditInit PROVE HistoryInv  OBVIOUS
<1>1. Init /\ LedgerInv  BY InitInv DEF AuditInit
<1>2. receipts[FixtureOp].outcome = "APPLIED" /\ FixtureOp \in Ops
  BY <1>1, InitRecords, IdAssumption DEF RecordInv, FixtureRecorded
<1>3. Unbroken(accountEvents, balance) /\ EventsApplied(accountEvents)
  <2>1. DOMAIN balance = Accounts  BY <1>1 DEF LedgerInv, TypeOK
  <2>2. \A a \in Accounts : balance[a].version = (IF Exists(a) THEN 1 ELSE 0)
    BY <1>1 DEF Init
  <2>3. {x \in Accounts : Exists(x)} = {k \in DOMAIN balance : balance[k].version = 1}
    BY <2>1, <2>2
  <2>4. accountEvents = {Event(a, 1, FixtureOp, {}, balance[a]) : a \in {x \in Accounts : Exists(x)}}
    BY DEF AuditInit
  <2>5. Unbroken(accountEvents, balance) /\ \A e \in accountEvents : e.op = FixtureOp
    BY <2>1, <2>2, <2>3, <2>4, FixtureChains
  <2> QED  BY <1>2, <2>5 DEF EventsApplied
<1>4. Unbroken(controlEvents, control) /\ EventsApplied(controlEvents)
  <2>1. DOMAIN control = ControlKeys  BY <1>1 DEF LedgerInv, TypeOK
  <2>2. \A k \in ControlKeys : NewControl(k).version = 1 /\ NoControl.version = 0
    BY DEF NewControl, NoControl
  <2>3. \A k \in ControlKeys : control[k] \in {NewControl(k), NoControl}
    BY <1>1 DEF Init
  <2>4. \A k \in DOMAIN control : control[k].version \in {0, 1}  BY <2>1, <2>2, <2>3
  <2>5. controlEvents = {Event(k, 1, FixtureOp, {}, control[k]) :
                           k \in {x \in ControlKeys : control[x].version = 1}}
    BY DEF AuditInit
  <2>6. Unbroken(controlEvents, control) /\ \A e \in controlEvents : e.op = FixtureOp
    BY <2>1, <2>4, <2>5, FixtureChains
  <2> QED  BY <1>2, <2>6 DEF EventsApplied
<1>5. Unbroken(limitEvents, usage) /\ EventsApplied(limitEvents)
  <2>1. limitEvents = {}  BY DEF AuditInit
  <2>2. DOMAIN usage = Owners \X Buckets  BY <1>1 DEF LedgerInv, TypeOK
  <2>3. \A o \in Owners, b \in Buckets : usage[<<o, b>>].version = 0  BY <1>1 DEF Init
  <2>4. \A k \in DOMAIN usage : usage[k].version = 0  BY <2>2, <2>3
  <2>5. \A k : V!EventsOf({}, k) = {}  BY DEF V!EventsOf
  <2> QED  BY <2>1, <2>4, <2>5 DEF Unbroken, Chained, EventsApplied
<1>6. HoldsUnbroken(holdEvents, hold) /\ EventsApplied(holdEvents)
  <2>1. holdEvents = {}  BY DEF AuditInit
  <2>2. \A h \in Holds : hold[h].version = 0  BY <1>1 DEF Init
  <2>3. \A k : V!EventsOf({}, k) = {}  BY DEF V!EventsOf
  <2> QED  BY <2>1, <2>2, <2>3 DEF HoldsUnbroken, HoldChained, EventsApplied
<1>7. Timed
  <2>1. recordedAt = [o \in Ops |-> NoBucket]  BY DEF AuditInit
  <2>2. \A x \in Ops : receipts[x].request = NoRequest  BY <1>1 DEF Init, Receipt
  <2>3. NoRequest \notin Transfers  BY IdAssumption DEF Requests
  <2> QED  BY <2>1, <2>2, <2>3 DEF Timed, Applied
<1> QED  BY <1>3, <1>4, <1>5, <1>6, <1>7 DEF HistoryInv

\* A book and its histories at rest.
LEMMA IdleHistories == HistoryInv /\ UNCHANGED auditVars => HistoryInv'
<1> SUFFICES ASSUME HistoryInv, UNCHANGED auditVars PROVE HistoryInv'  OBVIOUS
<1>1. UNCHANGED <<balance, control, hold, usage, receipts, recordedAt>>
  BY DEF auditVars, vars
<1>2. UNCHANGED <<accountEvents, controlEvents, holdEvents, limitEvents>>
  BY DEF auditVars, events
<1>3. Timed'  BY <1>1 DEF HistoryInv, Timed, Applied
<1>4. /\ EventsApplied(accountEvents)' /\ EventsApplied(controlEvents)'
      /\ EventsApplied(limitEvents)' /\ EventsApplied(holdEvents)'
  BY <1>1, <1>2 DEF HistoryInv, EventsApplied
<1>5. /\ Unbroken(accountEvents', balance') /\ Unbroken(controlEvents', control')
      /\ Unbroken(limitEvents', usage') /\ HoldsUnbroken(holdEvents', hold')
  BY <1>1, <1>2 DEF HistoryInv
<1> QED  BY <1>3, <1>4, <1>5 DEF HistoryInv, Unbroken, HoldsUnbroken

\* A book with histories is a book: nothing of the Ledger is left out or added.
LEMMA AuditIsLedger == AuditSpec => Spec
<1>1. AuditInit => Init  BY DEF AuditInit
<1>2. AuditNext => Next  BY DEF AuditNext, Next
<1>3. UNCHANGED auditVars => UNCHANGED vars  BY DEF auditVars
<1> QED  BY <1>1, <1>2, <1>3, PTL DEF AuditSpec, Spec

\* Every reachable book has the whole history of each of its rows (save.go): one event
\* for each version, each from where the one before ended, the last of them the row as
\* it is, and all of them by operations that were applied.
THEOREM HistoriesUnbroken == AuditSpec => [](RecordedBook /\ HistoryInv)
<1>1. AuditInit => HistoryInv  BY InitHistories
<1>2. RecordedBook /\ RecordedBook' /\ HistoryInv /\ [AuditNext]_auditVars => HistoryInv'
  BY NextHistories, IdleHistories DEF RecordedBook, SoundBook
<1> QED  BY <1>1, <1>2, AuditIsLedger, BookRecorded, PTL DEF AuditSpec

-----------------------------------------------------------------------------
(***************************************************************************)
(* A sum over other indices.                                               *)
(***************************************************************************)
Images(k, X) == {k[x] : x \in X}

\* Summing f over X, or g over the indices k gives its members, is the same.
LEMMA SumImage ==
  ASSUME NEW f, NEW g, Summable(f), Summable(g), NEW k \in [DOMAIN f -> DOMAIN g],
         \A x, y \in DOMAIN f : k[x] = k[y] => x = y,
         \A x \in DOMAIN f : g[k[x]] = f[x]
  PROVE  SumFunctionOnSet(f, DOMAIN f) = SumFunctionOnSet(g, Images(k, DOMAIN f))
<1> DEFINE S == DOMAIN f
           Bad == {X \in SUBSET S : SumFunctionOnSet(f, X) # SumFunctionOnSet(g, Images(k, X))}
<1> SUFFICES ASSUME S \in Bad PROVE FALSE  OBVIOUS
<1>1. IsFiniteSet(S) /\ Bad \in SUBSET SUBSET S /\ Bad # {}  BY DEF Summable
<1> HIDE DEF Bad, S
<1>2. PICK X \in Bad : IsFiniteSet(X) /\ \A Y \in SUBSET X : Y # X => Y \notin Bad
  BY <1>1, SmallestSet
<1> USE DEF Bad, S
<1>3. X \subseteq DOMAIN f /\ Images(k, X) \subseteq DOMAIN g  BY DEF Images
<1>4. IsFiniteSet(Images(k, X))  BY <1>3, FS_Subset DEF Summable
<1>5. CASE X = {}
  <2>1. Images(k, X) = {}  BY <1>5 DEF Images
  <2>2. SumFunctionOnSet(f, {}) = 0 /\ SumFunctionOnSet(g, {}) = 0  BY FS_EmptySet, SumChosen
  <2> QED  BY <1>2, <1>5, <2>1, <2>2
<1>6. CASE X # {}
  <2>1. PICK x \in X : TRUE  BY <1>6
  <2>2. Images(k, X \ {x}) = Images(k, X) \ {k[x]}  BY <1>3 DEF Images
  <2>3. X \ {x} \in SUBSET X /\ X \ {x} # X  OBVIOUS
  <2>4. SumFunctionOnSet(f, X \ {x}) = SumFunctionOnSet(g, Images(k, X \ {x}))
    BY <1>2, <1>3, <2>3
  <2>5. SumFunctionOnSet(f, X) = f[x] + SumFunctionOnSet(f, X \ {x})
    BY <1>2, <1>3, SumWithout DEF Summable
  <2>6. k[x] \in Images(k, X)  BY DEF Images
  <2>7. SumFunctionOnSet(g, Images(k, X)) = g[k[x]] + SumFunctionOnSet(g, Images(k, X) \ {k[x]})
    BY <1>3, <1>4, <2>6, SumWithout DEF Summable
  <2>8. g[k[x]] = f[x]  BY <1>3
  <2> QED  BY <1>2, <2>2, <2>4, <2>5, <2>7, <2>8
<1> QED  BY <1>5, <1>6

\* What is zero adds nothing.
LEMMA SumRestZero ==
  ASSUME NEW g, Summable(g), NEW I, I \subseteq DOMAIN g, \A y \in DOMAIN g \ I : g[y] = 0
  PROVE  SumFunctionOnSet(g, DOMAIN g) = SumFunctionOnSet(g, I)
<1> DEFINE S == DOMAIN g \ I
           Bad == {X \in SUBSET S : SumFunctionOnSet(g, I \cup X) # SumFunctionOnSet(g, I)}
<1>1. I \cup S = DOMAIN g  OBVIOUS
<1> SUFFICES ASSUME S \in Bad PROVE FALSE  BY <1>1
<1>2. IsFiniteSet(S) /\ Bad \in SUBSET SUBSET S /\ Bad # {}  BY FS_Subset DEF Summable
<1> HIDE DEF Bad, S
<1>3. PICK X \in Bad : IsFiniteSet(X) /\ \A Y \in SUBSET X : Y # X => Y \notin Bad
  BY <1>2, SmallestSet
<1> USE DEF Bad, S
<1>4. X \subseteq DOMAIN g \ I  OBVIOUS
<1>5. CASE X = {}
  <2>1. I \cup X = I  BY <1>5
  <2> QED  BY <1>3, <2>1
<1>6. CASE X # {}
  <2>1. PICK x \in X : TRUE  BY <1>6
  <2>2. (I \cup X) \ {x} = I \cup (X \ {x})  BY <1>4
  <2>3. X \ {x} \in SUBSET X /\ X \ {x} # X  OBVIOUS
  <2>4. SumFunctionOnSet(g, I \cup (X \ {x})) = SumFunctionOnSet(g, I)  BY <1>3, <1>4, <2>3
  <2>5. I \cup X \subseteq DOMAIN g /\ IsFiniteSet(I \cup X) /\ IsFiniteSet(I)
    BY <1>4, FS_Subset DEF Summable
  <2>6. SumFunctionOnSet(g, I \cup X) = g[x] + SumFunctionOnSet(g, (I \cup X) \ {x})
    BY <2>5, SumWithout DEF Summable
  <2>7. g[x] = 0 /\ SumFunctionOnSet(g, I) \in Int
    BY <1>4, <2>5, SumInt DEF Summable
  <2>8. SumFunctionOnSet(g, I \cup X) = g[x] + SumFunctionOnSet(g, I)  BY <2>2, <2>4, <2>6
  <2> HIDE DEF Bad, S
  <2>9. SumFunctionOnSet(g, I \cup X) = SumFunctionOnSet(g, I)  BY <2>7, <2>8
  <2> QED  BY <1>3, <2>9 DEF Bad
<1> QED  BY <1>5, <1>6

\* Summing f, or g over other indices, is the same where g has f's values, once each, and
\* zero besides.
LEMMA SumReindex ==
  ASSUME NEW f, NEW g, Summable(f), Summable(g), NEW k \in [DOMAIN f -> DOMAIN g],
         \A x, y \in DOMAIN f : k[x] = k[y] => x = y,
         \A x \in DOMAIN f : g[k[x]] = f[x],
         \A y \in DOMAIN g : (\A x \in DOMAIN f : k[x] # y) => g[y] = 0
  PROVE  SumFunction(f) = SumFunction(g)
<1>1. SumFunctionOnSet(f, DOMAIN f) = SumFunctionOnSet(g, Images(k, DOMAIN f))  BY SumImage
<1>2. Images(k, DOMAIN f) \subseteq DOMAIN g
      /\ \A y \in DOMAIN g \ Images(k, DOMAIN f) : g[y] = 0
  BY DEF Images
<1>3. SumFunctionOnSet(g, DOMAIN g) = SumFunctionOnSet(g, Images(k, DOMAIN f))
  BY <1>2, SumRestZero
<1> QED  BY <1>1, <1>3 DEF SumFunction

-----------------------------------------------------------------------------
(***************************************************************************)
(* The export, table by table.                                             *)
(***************************************************************************)
\* The tables of the snapshot.
LEMMA Tables ==
  /\ Snapshot.accounts = [a \in {x \in Accounts : Exists(x)} |->
                            [owner |-> owner[a], purpose |-> Purpose(a)]]
  /\ Snapshot.policies = Policies
  /\ Snapshot.accountEvents = accountEvents /\ Snapshot.controlEvents = controlEvents
  /\ Snapshot.holdEvents = holdEvents /\ Snapshot.limitEvents = limitEvents
BY DEF Snapshot

\* accounts
LEMMA AccountTable ==
  /\ DOMAIN Snapshot.accounts = {x \in Accounts : Exists(x)}
  /\ \A a \in Accounts : Exists(a) => /\ Snapshot.accounts[a].owner = owner[a]
                                      /\ Snapshot.accounts[a].purpose = Purpose(a)
<1> DEFINE row == [a \in {x \in Accounts : Exists(x)} |->
                     [owner |-> owner[a], purpose |-> Purpose(a)]]
<1>1. Snapshot.accounts = row  BY DEF Snapshot
<1>2. /\ DOMAIN row = {x \in Accounts : Exists(x)}
      /\ \A a \in Accounts : Exists(a) => row[a].owner = owner[a] /\ row[a].purpose = Purpose(a)
  OBVIOUS
<1> HIDE DEF row
<1> QED  BY <1>1, <1>2

\* account_balances
LEMMA BalanceTable ==
  /\ DOMAIN Snapshot.balances = {x \in Accounts : balance[x].version > 0}
  /\ \A a \in DOMAIN Snapshot.balances :
       LET b == Snapshot.balances[a]
       IN  /\ b.purpose = Purpose(a) /\ b.debits = balance[a].debits
           /\ b.credits = balance[a].credits /\ b.held = balance[a].held
           /\ b.version = balance[a].version
<1> DEFINE row == [a \in {x \in Accounts : balance[x].version > 0} |->
                   [purpose |-> Purpose(a), debits |-> balance[a].debits,
                    credits |-> balance[a].credits, held |-> balance[a].held,
                    version |-> balance[a].version]]
<1>1. Snapshot.balances = row  BY DEF Snapshot
<1>2. /\ DOMAIN row = {x \in Accounts : balance[x].version > 0}
      /\ \A a \in DOMAIN row :
           /\ row[a].purpose = Purpose(a) /\ row[a].debits = balance[a].debits
           /\ row[a].credits = balance[a].credits /\ row[a].held = balance[a].held
           /\ row[a].version = balance[a].version
  OBVIOUS
<1> HIDE DEF row
<1> QED  BY <1>1, <1>2

\* spending_controls
LEMMA ControlTable ==
  /\ DOMAIN Snapshot.controls = {x \in ControlKeys : control[x].version > 0}
  /\ \A k \in DOMAIN Snapshot.controls : Snapshot.controls[k] = control[k]
<1>1. Snapshot.controls = [k \in {x \in ControlKeys : control[x].version > 0} |-> control[k]]
  BY DEF Snapshot
<1> QED  BY <1>1

\* limit_usage
LEMMA UsageTable ==
  /\ DOMAIN Snapshot.usage = {x \in Owners \X Buckets : usage[x].version > 0}
  /\ \A k \in DOMAIN Snapshot.usage : Snapshot.usage[k] = usage[k]
<1>1. Snapshot.usage = [k \in {x \in Owners \X Buckets : usage[x].version > 0} |-> usage[k]]
  BY DEF Snapshot
<1> QED  BY <1>1

\* business_claims
LEMMA ClaimTable ==
  /\ DOMAIN Snapshot.claims = {x \in Payments : claim[x].state # "ABSENT"}
  /\ \A p \in DOMAIN Snapshot.claims :
       LET c == Snapshot.claims[p]
       IN  /\ c.admission = claim[p].admission /\ c.hold = claim[p].hold
           /\ c.outcome = (IF claim[p].state = "REJECTED" THEN "REJECTED" ELSE "APPLIED")
           /\ c.material = Material(claim[p].admission)
           /\ c.state = claim[p].state /\ c.result = claim[p].result
<1> DEFINE row == [p \in {x \in Payments : claim[x].state # "ABSENT"} |->
                 [admission |-> claim[p].admission, hold |-> claim[p].hold,
                  outcome |-> IF claim[p].state = "REJECTED" THEN "REJECTED" ELSE "APPLIED",
                  material |-> Material(claim[p].admission),
                  state |-> claim[p].state, result |-> claim[p].result]]
<1>1. Snapshot.claims = row  BY DEF Snapshot
<1>2. /\ DOMAIN row = {x \in Payments : claim[x].state # "ABSENT"}
      /\ \A p \in DOMAIN row :
           /\ row[p].admission = claim[p].admission /\ row[p].hold = claim[p].hold
           /\ row[p].outcome = (IF claim[p].state = "REJECTED" THEN "REJECTED" ELSE "APPLIED")
           /\ row[p].material = Material(claim[p].admission)
           /\ row[p].state = claim[p].state /\ row[p].result = claim[p].result
  OBVIOUS
<1> HIDE DEF row
<1> QED  BY <1>1, <1>2

\* holds
LEMMA HoldTable ==
  /\ DOMAIN Snapshot.holds = {x \in Holds : hold[x].state # "ABSENT"}
  /\ \A h \in DOMAIN Snapshot.holds :
       LET row == Snapshot.holds[h]
       IN  /\ row.payment = hold[h].reserve.terms.payment
           /\ row.attempt = hold[h].reserve.attempt
           /\ row.terms = FixedTerms(h, hold[h]) /\ row.state = hold[h].state
           /\ row.version = hold[h].version
<1> DEFINE row == [h \in {x \in Holds : hold[x].state # "ABSENT"} |->
                [payment |-> hold[h].reserve.terms.payment, attempt |-> hold[h].reserve.attempt,
                 terms |-> FixedTerms(h, hold[h]), state |-> hold[h].state,
                 version |-> hold[h].version]]
<1>1. Snapshot.holds = row  BY DEF Snapshot
<1>2. /\ DOMAIN row = {x \in Holds : hold[x].state # "ABSENT"}
      /\ \A h \in DOMAIN row :
           /\ row[h].payment = hold[h].reserve.terms.payment
           /\ row[h].attempt = hold[h].reserve.attempt
           /\ row[h].terms = FixedTerms(h, hold[h]) /\ row[h].state = hold[h].state
           /\ row[h].version = hold[h].version
  OBVIOUS
<1> HIDE DEF row
<1> QED  BY <1>1, <1>2

\* The terms of a hold, as the snapshot has them.
LEMMA HoldTermsAre ==
  ASSUME NEW h, NEW row
  PROVE  LET fixed == FixedTerms(h, row)
         IN  /\ fixed.id = h /\ fixed.terms = row.reserve.terms /\ fixed.owner = row.owner
             /\ fixed.attempt = row.reserve.attempt /\ fixed.pool = row.reserve.pool
             /\ fixed.feeAccount = Policies[row.reserve.terms.policy].feeAccount
             /\ fixed.bucket = row.bucket
BY DEF FixedTerms

\* A line of a journal as the digest has it, and as journal_lines has it.
Digested(l) == [account |-> l.account, side |-> l.side, units |-> l.amount]
Stored(o, l) == [journal |-> o, account |-> l.account, side |-> l.side, units |-> l.amount]

\* journals
LEMMA JournalTable ==
  /\ DOMAIN Snapshot.journals = {x \in Ops : journal[x] # {}}
  /\ \A o \in DOMAIN Snapshot.journals :
       LET row == Snapshot.journals[o]
       IN  /\ row.op = o /\ row.template = Material(o).kind
           /\ row.digest = {Digested(l) : l \in journal[o]}
<1> DEFINE row == [o \in {x \in Ops : journal[x] # {}} |->
                   [op |-> o, template |-> Material(o).kind,
                    digest |-> {[account |-> l.account, side |-> l.side, units |-> l.amount] :
                                  l \in journal[o]}]]
<1>1. Snapshot.journals = row  BY DEF Snapshot
<1>2. /\ DOMAIN row = {x \in Ops : journal[x] # {}}
      /\ \A o \in DOMAIN row :
           /\ row[o].op = o /\ row[o].template = Material(o).kind
           /\ row[o].digest = {Digested(l) : l \in journal[o]}
  BY DEF Digested
<1> HIDE DEF row
<1> QED  BY <1>1, <1>2

\* journal_lines
LEMMA LineTable ==
  /\ \A o \in Ops : \A l \in journal[o] : Stored(o, l) \in Snapshot.lines
  /\ \A x \in Snapshot.lines : \E o \in Ops : \E l \in journal[o] : x = Stored(o, l)
<1>1. Snapshot.lines = UNION {{Stored(o, l) : l \in journal[o]} : o \in Ops}
  BY DEF Snapshot, Stored
<1> QED  BY <1>1

\* resolution_evidence
LEMMA EvidenceTable ==
  /\ DOMAIN Snapshot.evidence = {x \in EvidenceIds : evidence[x] # NoEvidence}
  /\ \A e \in DOMAIN Snapshot.evidence : /\ Snapshot.evidence[e].digest = evidence[e]
                                         /\ Snapshot.evidence[e].body = evidence[e]
<1> DEFINE row == [e \in {x \in EvidenceIds : evidence[x] # NoEvidence} |->
                     [digest |-> evidence[e], body |-> evidence[e]]]
<1>1. Snapshot.evidence = row  BY DEF Snapshot
<1>2. /\ DOMAIN row = {x \in EvidenceIds : evidence[x] # NoEvidence}
      /\ \A e \in DOMAIN row : row[e].digest = evidence[e] /\ row[e].body = evidence[e]
  OBVIOUS
<1> HIDE DEF row
<1> QED  BY <1>1, <1>2

\* financial_operations and their facts
LEMMA OperationTable ==
  /\ DOMAIN Snapshot.operations = Recorded /\ DOMAIN Snapshot.facts = Recorded
  /\ \A o \in Recorded :
       LET op == Snapshot.operations[o]
       IN  /\ op.material = Material(o) /\ op.hash = Material(o)
           /\ op.outcome = receipts[o].outcome /\ op.receipt = ReceiptBody(o)
  /\ \A o \in Recorded : /\ Snapshot.facts[o].op = o
                         /\ Snapshot.facts[o].body = ReceiptBody(o)
<1> DEFINE row == [o \in Recorded |->
                     [material |-> Material(o), hash |-> Material(o),
                      outcome |-> receipts[o].outcome, receipt |-> ReceiptBody(o)]]
           fact == [o \in Recorded |-> [op |-> o, body |-> ReceiptBody(o)]]
<1>1. Snapshot.operations = row /\ Snapshot.facts = fact  BY DEF Snapshot
<1>2. /\ DOMAIN row = Recorded
      /\ \A o \in Recorded :
           /\ row[o].material = Material(o) /\ row[o].hash = Material(o)
           /\ row[o].outcome = receipts[o].outcome /\ row[o].receipt = ReceiptBody(o)
  OBVIOUS
<1>3. /\ DOMAIN fact = Recorded
      /\ \A o \in Recorded : fact[o].op = o /\ fact[o].body = ReceiptBody(o)
  OBVIOUS
<1> HIDE DEF row, fact
<1> QED  BY <1>1, <1>2, <1>3

\* The kind of a request says which it is.
LEMMA KindSays ==
  ASSUME NEW r \in Requests
  PROVE  /\ r.kind = "CREATE_ACCOUNT" <=> r \in Creates
         /\ r.kind = "SET_ACCOUNT_CONTROL" <=> r \in SetControls
         /\ r.kind = "TRANSFER_INTERNAL" <=> r \in Transfers
         /\ r.kind = "RESERVE_PAYOUT" <=> r \in Reserves
         /\ r.kind = "MARK_HOLD_EXPOSED" <=> r \in Exposes
         /\ r.kind = "CAPTURE_PAYOUT" <=> r \in Captures
         /\ r.kind = "RELEASE_PAYOUT" <=> r \in Releases
BY KindsDiffer DEF Requests

\* The instruction of a request keeps what the request is about.
LEMMA InstructionIs ==
  ASSUME NEW r \in Requests
  PROVE  /\ Instruction(r).kind = r.kind
         /\ r \in Transfers \cup Reserves => Instruction(r).terms = r.terms
         /\ r \in Exposes \cup Captures \cup Releases => Instruction(r).ref = r.ref
<1>1. r \in Creates => "kind" \in DOMAIN r  BY RequestAssumption DEF CreateRequest
<1>2. r \in SetControls => "kind" \in DOMAIN r  BY RequestAssumption DEF SetControlRequest
<1>3. r \in Transfers => {"kind", "terms"} \subseteq DOMAIN r
  BY RequestAssumption DEF TransferRequest
<1>4. r \in Reserves => {"kind", "terms"} \subseteq DOMAIN r
  BY RequestAssumption DEF ReserveRequest
<1>5. r \in Exposes => {"kind", "ref"} \subseteq DOMAIN r
  BY RequestAssumption DEF ExposeRequest
<1>6. r \in Captures => {"kind", "ref"} \subseteq DOMAIN r
  BY RequestAssumption DEF CaptureRequest
<1>7. r \in Releases => {"kind", "ref"} \subseteq DOMAIN r
  BY RequestAssumption DEF ReleaseRequest
<1>8. "kind" \in DOMAIN r
  BY <1>1, <1>2, <1>3, <1>4, <1>5, <1>6, <1>7 DEF Requests
<1>9. \A f \in DOMAIN r \ {"op", "caller"} : Instruction(r)[f] = r[f]  BY DEF Instruction
<1>10. Instruction(r).kind = r.kind  BY <1>8, <1>9
<1>11. "terms" \in DOMAIN r => Instruction(r).terms = r.terms  BY <1>9
<1>12. "ref" \in DOMAIN r => Instruction(r).ref = r.ref  BY <1>9
<1> QED  BY <1>3, <1>4, <1>5, <1>6, <1>7, <1>10, <1>11, <1>12

\* What the digest of a recorded operation is of.
LEMMA MaterialIs ==
  ASSUME RecordInv, NEW o \in Recorded
  PROVE  LET m == Material(o)
             r == receipts[o].request
         IN  /\ o = FixtureOp => m.kind = "FIXTURE_FUND" /\ m.units = Funding
             /\ o # FixtureOp =>
                  /\ r \in Requests /\ RecordOf(o) /\ m.kind = r.kind
                  /\ r \in Transfers \cup Reserves => m.terms = r.terms
                  /\ r \in Exposes \cup Captures \cup Releases => m.ref = r.ref
             /\ o \in Ops /\ receipts[o].outcome # "NONE"
<1>1. o = FixtureOp => Material(o) = [kind |-> "FIXTURE_FUND", units |-> Funding]
  BY DEF Material
<1>2. o # FixtureOp => Material(o) = Instruction(receipts[o].request)  BY DEF Material
<1>3. o \in Ops /\ receipts[o].outcome # "NONE"  BY DEF Recorded
<1>4. o # FixtureOp => RecordOf(o)  BY <1>3 DEF RecordInv
<1>5. o # FixtureOp => receipts[o].request \in Requests  BY <1>4 DEF RecordOf
<1> QED  BY <1>1, <1>2, <1>3, <1>4, <1>5, InstructionIs

\* What every receipt has.
LEMMA ReceiptIs ==
  ASSUME NEW o
  PROVE  LET r == ReceiptBody(o)
         IN  /\ r.op = o /\ r.kind = Material(o).kind /\ r.hash = Material(o)
             /\ r.outcome = receipts[o].outcome /\ r.journal = JournalId(o)
             /\ r.evidence = EvidenceKept(o) /\ r.recordedAt = recordedAt[o] /\ r.event = o
BY DEF ReceiptBody

\* What the receipt of an admission has.
LEMMA AdmissionReceipt ==
  ASSUME NEW o, Material(o).kind \in {"TRANSFER_INTERNAL", "RESERVE_PAYOUT"}
  PROVE  /\ ReceiptBody(o).payment = {Material(o).terms.payment}
         /\ ReceiptBody(o).policy = {Material(o).terms.policy} \cap DOMAIN Policies
BY DEF ReceiptBody

\* What the receipt of a command on a hold has.
LEMMA ResolutionReceipt ==
  ASSUME NEW o,
         Material(o).kind \in {"MARK_HOLD_EXPOSED", "CAPTURE_PAYOUT", "RELEASE_PAYOUT"}
  PROVE  /\ ReceiptBody(o).payment = {Material(o).ref.payment}
         /\ ReceiptBody(o).hold = {Material(o).ref.hold}
BY DEF ReceiptBody

-----------------------------------------------------------------------------
(***************************************************************************)
(* The parts of the check, one lemma each.                                 *)
(***************************************************************************)
\* The verifier counts and adds as the Ledger does.
LEMMA SameCount ==
  ASSUME NEW S
  PROVE  V!Cardinality(S) = Cardinality(S)
BY DEF V!Cardinality, Cardinality

\* So it does with sums.
LEMMA SameSum ==
  ASSUME NEW f
  PROVE  V!SumFunction(f) = SumFunction(f)
BY DEF V!SumFunction, V!SumFunctionOnSet, V!FoldFunctionOnSet, V!MapThenFoldSet,
       SumFunction, SumFunctionOnSet, FoldFunctionOnSet, MapThenFoldSet

\* Every account has a purpose the verifier knows.
LEMMA AccountsPass == ~V!BadAccounts(Snapshot)
BY AccountTable DEF V!BadAccounts, Purpose

\* An operation has its own journal, if any.
LEMMA JournalsOfIs ==
  ASSUME NEW o \in Ops
  PROVE  V!JournalsOf(Snapshot, o) = JournalId(o)
BY JournalTable DEF V!JournalsOf, JournalId

\* Every journal was posted by an operation on record, and by no other.
LEMMA JournalsOwned ==
  ASSUME JournalsRecorded
  PROVE  ~V!OrphanJournals(Snapshot)
<1>1. \A j \in DOMAIN Snapshot.journals :
        Snapshot.journals[j].op \in DOMAIN Snapshot.operations
  BY JournalTable, OperationTable DEF JournalsRecorded, Recorded
<1>2. ASSUME NEW o \in DOMAIN Snapshot.operations
      PROVE  ~(Cardinality(V!JournalsOf(Snapshot, o)) > 1)
  <2>1. o \in Ops  BY OperationTable DEF Recorded
  <2>2. JournalId(o) = {} \/ JournalId(o) = {o}  BY DEF JournalId
  <2>3. Cardinality(JournalId(o)) \in {0, 1}  BY <2>2, FS_EmptySet, FS_Singleton
  <2> QED  BY <2>1, <2>3, JournalsOfIs
<1> QED  BY <1>1, <1>2, SameCount DEF V!OrphanJournals

\* Every fact is of one operation on record.
LEMMA FactsOwned == ~V!OrphanFacts(Snapshot)
BY OperationTable DEF V!OrphanFacts

\* A payment that was admitted is claimed, by the admission that was applied.
LEMMA AdmissionsClaimed ==
  ASSUME RecordInv, ExecutionInv, NEW o \in Recorded
  PROVE  ~V!AdmissionUnclaimed(Snapshot, o)
<1> DEFINE op == Snapshot.operations[o]
           m == Material(o)
           p == m.terms.payment
<1>1. /\ op.material = m /\ op.outcome = receipts[o].outcome /\ op.receipt = ReceiptBody(o)
  BY OperationTable
<1>2. op.receipt.kind = m.kind  BY <1>1, ReceiptIs
<1>3. CASE m.kind \notin {"TRANSFER_INTERNAL", "RESERVE_PAYOUT"}
  BY <1>2, <1>3 DEF V!AdmissionUnclaimed
<1>4. CASE m.kind \in {"TRANSFER_INTERNAL", "RESERVE_PAYOUT"}
  <2> DEFINE r == receipts[o].request
  <2>1. o # FixtureOp /\ m.kind = r.kind /\ r \in Requests /\ RecordOf(o) /\ o \in Ops
    BY <1>4, MaterialIs
  <2>2. r \in Transfers \cup Reserves  BY <1>4, <2>1, KindSays
  <2>3. m.terms = r.terms  BY <2>1, <2>2, MaterialIs
  <2>4. p \in Payments  BY <2>2, <2>3, TermsTypes DEF Terms
  <2>5. claim[p].state # "ABSENT"  BY <2>1, <2>2, <2>3 DEF RecordOf
  <2>6. p \in DOMAIN Snapshot.claims  BY <2>4, <2>5, ClaimTable
  <2>7. op.receipt.payment = {p}  BY <1>1, <1>4, AdmissionReceipt
  <2>8. receipts[o].outcome = "APPLIED" => claim[p].admission = o
    BY <2>1, <2>2, <2>3 DEF ExecutionInv, ExecutionOf, Applied
  <2>9. Snapshot.claims[p].admission = claim[p].admission  BY <2>6, ClaimTable
  <2>10. op.material.terms.payment = p  BY <1>1
  <2> QED  BY <1>1, <2>6, <2>7, <2>8, <2>9, <2>10 DEF V!AdmissionUnclaimed
<1> QED  BY <1>3, <1>4

\* Only an applied operation posted a journal.
LEMMA PostedApplied ==
  ASSUME RecordInv, NEW o \in Recorded, journal[o] # {}
  PROVE  receipts[o].outcome = "APPLIED"
<1>1. CASE o = FixtureOp  BY <1>1 DEF RecordInv, FixtureRecorded
<1>2. CASE o # FixtureOp  BY <1>2, MaterialIs DEF RecordOf, Applied
<1> QED  BY <1>1, <1>2

\* Every operation agrees with its receipt, its fact, its journal and its claim.
LEMMA OperationsPass ==
  ASSUME LedgerInv, RecordInv, ExecutionInv, NEW o \in Recorded
  PROVE  ~V!BadOperation(Snapshot, o)
<1> DEFINE op == Snapshot.operations[o]
           r == op.receipt
<1>1. /\ op.material = Material(o) /\ op.hash = Material(o) /\ op.outcome = receipts[o].outcome
      /\ r = ReceiptBody(o)
  BY OperationTable
<1>2. /\ r.op = o /\ r.kind = Material(o).kind /\ r.hash = Material(o)
      /\ r.outcome = receipts[o].outcome /\ r.journal = JournalId(o) /\ r.event = o
  BY <1>1, ReceiptIs
<1>3. o \in Ops /\ receipts[o].outcome \in {"APPLIED", "REJECTED"}
  BY DEF Recorded, LedgerInv, TypeOK, Operation
<1>4. V!HasFact(Snapshot, o)
  <2>1. Snapshot.facts[o].op = o /\ Snapshot.facts[o].body = r /\ o \in DOMAIN Snapshot.facts
    BY <1>1, OperationTable
  <2> QED  BY <1>2, <2>1 DEF V!HasFact
<1>5. r.journal = V!JournalsOf(Snapshot, o)  BY <1>2, <1>3, JournalsOfIs
<1>6. ASSUME NEW j \in r.journal \cap DOMAIN Snapshot.journals
      PROVE  op.outcome = "APPLIED" /\ Snapshot.journals[j].template = r.kind
  <2>1. j = o /\ journal[o] # {}  BY <1>2 DEF JournalId
  <2>2. Snapshot.journals[j].template = Material(o).kind  BY <2>1, JournalTable
  <2> QED  BY <1>1, <1>2, <2>1, <2>2, PostedApplied
<1>7. ~V!AdmissionUnclaimed(Snapshot, o)  BY AdmissionsClaimed
<1> HIDE DEF op
<1> QED  BY <1>1, <1>2, <1>3, <1>4, <1>5, <1>6, <1>7 DEF V!BadOperation, op

\* A journal as a spend or the fixture posts it: valid, two or three lines, and all of
\* them on accounts that exist.
SoundLines(lines) ==
  /\ ValidJournal(lines) /\ \A l \in lines : l \in JournalLine /\ Exists(l.account)
  /\ IsFiniteSet(lines) /\ Cardinality(lines) \in {2, 3}

\* What a spend posts is such a journal.
LEMMA SpendSound ==
  ASSUME NEW source \in Accounts, NEW payee \in Accounts, NEW feeAccount \in Accounts,
         source # payee, source # feeAccount, payee # feeAccount,
         Exists(source), Exists(payee), Exists(feeAccount),
         NEW principal \in Nat, principal > 0, NEW fee \in Nat, principal + fee <= MaxAmount
  PROVE  SoundLines(Postings(source, payee, feeAccount, principal, fee))
<1> DEFINE lines == Postings(source, payee, feeAccount, principal, fee)
           x == Line(source, "DEBIT", principal + fee)
           y == Line(payee, "CREDIT", principal)
           z == Line(feeAccount, "CREDIT", fee)
<1>1. ValidJournal(lines) /\ IsFiniteSet(lines)  BY PostingsValid, PostingsFinite
<1>2. lines = {x, y} \cup (IF fee = 0 THEN {} ELSE {z})  BY DEF Postings
<1>3. x.account = source /\ y.account = payee /\ z.account = feeAccount  BY DEF Line
<1>4. x \in JournalLine /\ y \in JournalLine /\ z \in JournalLine
  BY BoundsAssumption DEF JournalLine, Amounts, Line
<1> HIDE DEF lines, x, y, z
<1>5. x # y /\ x # z /\ y # z  BY <1>3
<1>6. Cardinality({x, y}) = 2 /\ IsFiniteSet({x, y})
  <2>1. IsFiniteSet({x}) /\ Cardinality({x}) = 1  BY FS_Singleton
  <2>2. {x, y} = {x} \cup {y} /\ y \notin {x}  BY <1>5
  <2> QED  BY <2>1, <2>2, FS_AddElement
<1>7. fee # 0 => Cardinality(lines) = 3
  <2>1. fee # 0 => lines = {x, y} \cup {z} /\ z \notin {x, y}  BY <1>2, <1>5
  <2> QED  BY <1>6, <2>1, FS_AddElement
<1>8. fee = 0 => lines = {x, y}  BY <1>2
<1>9. Cardinality(lines) \in {2, 3}  BY <1>6, <1>7, <1>8
<1>10. \A l \in lines : l \in JournalLine /\ Exists(l.account)  BY <1>2, <1>3, <1>4
<1>11. SoundLines(lines)  BY <1>1, <1>9, <1>10 DEF SoundLines
<1> QED  BY <1>11 DEF lines

\* So is what the fixture posts.
LEMMA FixtureSound ==
  ASSUME BookInv, RecordInv
  PROVE  SoundLines(journal[FixtureOp])
<1> DEFINE lines == journal[FixtureOp]
           x == Line(FundedPool, "DEBIT", Funding)
           y == Line(FundedWallet, "CREDIT", Funding)
           D == {m \in lines : m.side = "DEBIT"}
           C == {m \in lines : m.side = "CREDIT"}
           d == [l \in D |-> l.amount]
           c == [l \in C |-> l.amount]
<1>1. /\ x.account = FundedPool /\ x.side = "DEBIT" /\ x.amount = Funding
      /\ y.account = FundedWallet /\ y.side = "CREDIT" /\ y.amount = Funding
  BY DEF Line
<1>2. lines = {x, y}  BY DEF RecordInv, FixtureRecorded
<1>3. x \in JournalLine /\ y \in JournalLine
  BY BoundsAssumption, IdAssumption DEF JournalLine, Amounts, Line
<1>4. FundedPool # FundedWallet /\ FundedPool \in Accounts /\ FundedWallet \in Accounts
  BY IdAssumption
<1>5. Funding \in Nat /\ Funding > 0  BY BoundsAssumption, FundingAssumption DEF Amounts
<1>6. journal[FixtureOp] \in SUBSET JournalLine
  BY IdAssumption DEF BookInv, LedgerInv, TypeOK
<1> HIDE DEF lines, x, y
<1>7. x # y  BY <1>1, <1>4
<1>8. IsFiniteSet(lines) /\ Cardinality(lines) = 2
  <2>1. IsFiniteSet({x}) /\ Cardinality({x}) = 1  BY FS_Singleton
  <2>2. lines = {x} \cup {y} /\ y \notin {x}  BY <1>2, <1>7
  <2> QED  BY <2>1, <2>2, FS_AddElement
<1>9. D = {x} /\ C = {y}  BY <1>1, <1>2
<1>10. Summable(d) /\ Summable(c)
  <2> HIDE DEF D, C
  <2>1. IsFiniteSet(D) /\ IsFiniteSet(C)  BY <1>9, FS_Singleton
  <2>2. \A l \in D \cup C : l.amount \in Int  BY <1>1, <1>5, <1>9
  <2> QED  BY <2>1, <2>2 DEF Summable
<1>11. At(d, x) = Funding /\ At(c, y) = Funding /\ DOMAIN d \subseteq {x} /\ DOMAIN c \subseteq {y}
  <2> HIDE DEF D, C
  <2> QED  BY <1>1, <1>9 DEF At
<1> HIDE DEF d, c, D, C
<1>12. SumFunction(d) = Funding /\ SumFunction(c) = Funding  BY <1>10, <1>11, SumOfOne
<1>13. SideTotal(lines, "DEBIT") = Funding /\ SideTotal(lines, "CREDIT") = Funding
  BY <1>12 DEF SideTotal, d, c, D, C
<1>14. ValidJournal(lines)
  <2>1. \A l, m \in lines : l.account = m.account => l = m  BY <1>1, <1>2, <1>4
  <2>2. \A l \in lines : l.amount > 0  BY <1>1, <1>2, <1>5
  <2> QED  BY <1>13, <2>1, <2>2 DEF ValidJournal
<1>15. Exists(FundedPool) /\ Exists(FundedWallet)
  BY IdAssumption DEF BookInv, AccountsComplete, RecordInv, FixtureRecorded
<1>16. \A l \in lines : l \in JournalLine /\ Exists(l.account)  BY <1>1, <1>2, <1>3, <1>15
<1>17. SoundLines(lines)  BY <1>8, <1>14, <1>16 DEF SoundLines
<1> QED  BY <1>17 DEF lines

\* Every journal is such a journal.
LEMMA JournalsSound ==
  ASSUME SoundBook, JournalsRecorded, RecordInv, NEW o \in Ops, journal[o] # {}
  PROVE  SoundLines(journal[o])
<1>1. o \in Recorded  BY DEF JournalsRecorded, Recorded
<1>2. CASE o = FixtureOp  BY <1>2, FixtureSound DEF SoundBook
<1>3. CASE o # FixtureOp
  <2>1. RecordOf(o)  BY <1>1, <1>3, MaterialIs
  <2> DEFINE r == receipts[o].request
  <2>2. CASE Applied(o, Transfers)
    <3> DEFINE t == r.terms
               f == Policies[t.policy].feeAccount
    <3>1. Sound(t, t.beneficiary) /\ journal[o] = TransferLines(t)
      BY <2>1, <2>2 DEF RecordOf, TransferRecord
    <3>2. /\ t.source \in Accounts \ (Pools \cup FeeAccounts) /\ Exists(t.source)
          /\ t.beneficiary \in Accounts \ FeeAccounts /\ t.beneficiary # t.source
          /\ Exists(t.beneficiary) /\ t.policy \in DOMAIN Policies /\ t \in Terms
          /\ Total(t) <= MaxAmount
      BY <3>1 DEF Sound
    <3>3. f \in FeeAccounts /\ f \in Accounts /\ Exists(f)
      BY <3>2, PolicyAssumption, IdAssumption DEF SoundBook, BookInv, AccountsComplete
    <3>4. t.principal \in Nat /\ t.principal > 0 /\ t.fee \in Nat
      BY <3>2, BoundsAssumption DEF Terms, Amounts
    <3>5. t.principal + t.fee <= MaxAmount  BY <3>2 DEF Total
    <3>6. journal[o] = Postings(t.source, t.beneficiary, f, t.principal, t.fee)
      BY <3>1 DEF TransferLines
    <3> HIDE DEF t, f
    <3> QED  BY <3>2, <3>3, <3>4, <3>5, <3>6, SpendSound
  <2>3. CASE Applied(o, Captures)
    <3> DEFINE h == r.ref.hold
               t == hold[h].reserve.terms
               f == HoldFeeAccount(h)
               pool == hold[h].reserve.pool
    <3>1. hold[h].state = "CAPTURED" /\ journal[o] = HoldLines(h)
      BY <2>1, <2>3 DEF RecordOf, CaptureRecord
    <3>2. h \in Holds  BY <2>3, RefTypes DEF Applied
    <3>3. /\ hold[h].reserve \in Reserves /\ t.source \notin Pools \cup FeeAccounts
          /\ pool \in Pools /\ t.policy \in DOMAIN Policies
      BY <3>1, <3>2 DEF SoundBook, BookInv, LedgerInv, HoldsWellFormed
    <3>4. t \in Terms  BY <3>3, TermsTypes
    <3>5. /\ t.principal \in Nat /\ t.principal > 0 /\ t.fee \in Nat /\ t.source \in Accounts
      <4>1. \A u \in Terms : /\ u.principal \in Nat /\ u.principal > 0 /\ u.fee \in Nat
                             /\ u.source \in Accounts
        BY BoundsAssumption DEF Terms, Amounts
      <4> QED  BY <3>4, <4>1
    <3>6. f \in FeeAccounts /\ f \in Accounts /\ pool \in Accounts /\ pool \notin FeeAccounts
      BY <3>3, PolicyAssumption, IdAssumption DEF HoldFeeAccount
    <3>7. Exists(t.source) /\ Exists(pool) /\ Exists(f)
      BY <3>1, <3>2, HoldAccountsExist DEF SoundBook
    <3>8. t.principal + t.fee <= MaxAmount
      BY <3>1, <3>2 DEF SoundBook, CountInv, HoldsCounted, HoldTotal, Total
    <3>9. journal[o] = Postings(t.source, pool, f, t.principal, t.fee)  BY <3>1 DEF HoldLines
    <3>10. t.source # pool /\ t.source # f /\ pool # f  BY <3>3, <3>6
    <3> HIDE DEF t, f, pool
    <3> QED  BY <3>5, <3>6, <3>7, <3>8, <3>9, <3>10, SpendSound
  <2>4. CASE ~Applied(o, Transfers \cup Captures)  BY <2>1, <2>4 DEF RecordOf
  <2> QED  BY <2>2, <2>3, <2>4 DEF Applied
<1> QED  BY <1>2, <1>3

\* The parts of a line are the same in the journal, its digest and its table.
LEMMA LineParts ==
  ASSUME NEW o, NEW l
  PROVE  /\ Stored(o, l).journal = o /\ Stored(o, l).account = l.account
         /\ Stored(o, l).side = l.side /\ Stored(o, l).units = l.amount
         /\ Digested(l).account = l.account /\ Digested(l).side = l.side
         /\ Digested(l).units = l.amount /\ V!Entry(Stored(o, l)) = Digested(l)
BY DEF Stored, Digested, V!Entry

\* Every line is of a journal, on an account, of an amount and on a side.
LEMMA LinesPass ==
  ASSUME SoundBook, JournalsRecorded, RecordInv, NEW x \in Snapshot.lines
  PROVE  ~V!BadLine(Snapshot, x)
<1>1. PICK o \in Ops : \E l \in journal[o] : x = Stored(o, l)  BY LineTable
<1>2. PICK l \in journal[o] : x = Stored(o, l)  BY <1>1
<1>3. SoundLines(journal[o])  BY JournalsSound
<1>4. l \in JournalLine /\ Exists(l.account) /\ l.amount > 0
  BY <1>3 DEF SoundLines, ValidJournal
<1>5. /\ l.account \in Accounts /\ l.side \in {"DEBIT", "CREDIT"} /\ l.amount \in Int
      /\ l.amount <= MaxAmount /\ MaxAmount \in Nat
  BY <1>4, BoundsAssumption DEF JournalLine, Amounts
<1>6. /\ x.journal = o /\ x.account = l.account /\ x.side = l.side /\ x.units = l.amount
  BY <1>2, LineParts
<1>7. o \in DOMAIN Snapshot.journals  BY <1>2, JournalTable
<1>8. l.account \in DOMAIN Snapshot.accounts  BY <1>4, <1>5, AccountTable
<1> QED  BY <1>4, <1>5, <1>6, <1>7, <1>8 DEF V!BadLine

\* The lines of a journal are what its digest is of.
LEMMA EntriesAre ==
  ASSUME SoundBook, JournalsRecorded, RecordInv, NEW o \in Ops, journal[o] # {}
  PROVE  V!Entries(Snapshot, o) = {Digested(l) : l \in journal[o]}
<1>1. SoundLines(journal[o])  BY JournalsSound
<1>2. \A l \in journal[o] : l.account \in DOMAIN Snapshot.accounts
  BY <1>1, AccountTable DEF SoundLines, JournalLine
<1>3. \A l \in journal[o] : Stored(o, l) \in V!LinesOf(Snapshot, o)
  BY <1>2, LineTable, LineParts DEF V!LinesOf
<1>4. \A x \in V!LinesOf(Snapshot, o) : \E l \in journal[o] : x = Stored(o, l)
  <2> TAKE x \in V!LinesOf(Snapshot, o)
  <2>1. x \in Snapshot.lines /\ x.journal = o  BY DEF V!LinesOf
  <2>2. PICK p \in Ops : \E l \in journal[p] : x = Stored(p, l)  BY <2>1, LineTable
  <2>3. p = o  BY <2>1, <2>2, LineParts
  <2> QED  BY <2>2, <2>3
<1>5. \A e \in V!Entries(Snapshot, o) : \E l \in journal[o] : e = Digested(l)
  BY <1>4, LineParts DEF V!Entries
<1>6. \A l \in journal[o] : Digested(l) \in V!Entries(Snapshot, o)
  BY <1>3, LineParts DEF V!Entries
<1> QED  BY <1>5, <1>6

\* A journal and its digest have as many lines, and the same sums.
LEMMA DigestCounts ==
  ASSUME NEW lines \in SUBSET JournalLine, IsFiniteSet(lines), NEW entries,
         entries = {Digested(l) : l \in lines}
  PROVE  /\ Cardinality(entries) = Cardinality(lines)
         /\ \A side : V!SumOfSide(entries, side) = SideTotal(lines, side)
<1> DEFINE k == [l \in lines |-> Digested(l)]
<1>1. \A l \in lines : /\ k[l].account = l.account /\ k[l].side = l.side
                       /\ k[l].units = l.amount
  BY LineParts
<1>2. \A l, m \in lines : k[l] = k[m] => l = m
  <2>1. \A l, m \in JournalLine : l.account = m.account /\ l.side = m.side /\ l.amount = m.amount
          => l = m
    BY DEF JournalLine
  <2> HIDE DEF k
  <2> QED  BY <1>1, <2>1
<1>3. entries = {k[l] : l \in lines}  OBVIOUS
<1>4. k \in [lines -> entries]  BY <1>3
<1>5. \A e \in entries : \E l \in lines : e = k[l]  BY <1>3
<1>6. Cardinality(entries) = Cardinality(lines) /\ IsFiniteSet(entries)
  <2> HIDE DEF k
  <2>1. k \in Bijection(lines, entries)
    BY <1>2, <1>4, <1>5 DEF Bijection, Injection, Surjection, IsInjective
  <2> QED  BY <2>1, FS_Bijection DEF ExistsBijection
<1>7. ASSUME NEW side PROVE V!SumOfSide(entries, side) = SideTotal(lines, side)
  <2> DEFINE L == {m \in lines : m.side = side}
             E == {d \in entries : d.side = side}
             f == [l \in L |-> l.amount]
             g == [e \in E |-> e.units]
             kl == [l \in L |-> k[l]]
  <2>1. \A l \in L : l \in lines /\ k[l] \in E /\ k[l].units = l.amount /\ l.amount \in Int
    <3>1. \A l \in lines : l.amount \in Int
      BY BoundsAssumption DEF JournalLine, Amounts
    <3> HIDE DEF k
    <3> QED  BY <1>1, <1>4, <3>1
  <2>2. \A e \in E : \E l \in L : e = k[l]
    <3> HIDE DEF k
    <3> QED  BY <1>1, <1>5
  <2>3. IsFiniteSet(L) /\ IsFiniteSet(E)  BY <1>6, FS_Subset
  <2> HIDE DEF k, L, E
  <2>4. Summable(f)  BY <2>1, <2>3 DEF Summable
  <2>5. Summable(g)  BY <2>1, <2>2, <2>3 DEF Summable
  <2>6. kl \in [DOMAIN f -> DOMAIN g]  BY <2>1
  <2>7. \A x, y \in DOMAIN f : kl[x] = kl[y] => x = y  BY <1>2, <2>1
  <2>8. \A x \in DOMAIN f : g[kl[x]] = f[x]  BY <2>1
  <2>9. \A y \in DOMAIN g : \E x \in DOMAIN f : kl[x] = y  BY <2>2
  <2> HIDE DEF kl, f, g
  <2>10. SumFunction(f) = SumFunction(g)  BY <2>4, <2>5, <2>6, <2>7, <2>8, <2>9, SumReindex
  <2>11. V!SumOfSide(entries, side) = SumFunction(g)  BY SameSum DEF V!SumOfSide, g, E
  <2>12. SideTotal(lines, side) = SumFunction(f)  BY DEF SideTotal, f, L
  <2> QED  BY <2>10, <2>11, <2>12
<1> QED  BY <1>6, <1>7

\* Every journal balances, names an account once and has the digest of its lines.
LEMMA JournalsPass ==
  ASSUME SoundBook, JournalsRecorded, RecordInv, NEW o \in DOMAIN Snapshot.journals
  PROVE  ~V!BadJournal(Snapshot, o)
<1>1. o \in Ops /\ journal[o] # {}  BY JournalTable
<1> DEFINE entries == V!Entries(Snapshot, o)
<1>2. entries = {Digested(l) : l \in journal[o]}  BY <1>1, EntriesAre
<1>3. SoundLines(journal[o])  BY <1>1, JournalsSound
<1>4. /\ ValidJournal(journal[o]) /\ journal[o] \in SUBSET JournalLine
      /\ IsFiniteSet(journal[o]) /\ Cardinality(journal[o]) \in {2, 3}
  BY <1>3 DEF SoundLines
<1> HIDE DEF entries
<1>5. /\ Cardinality(entries) = Cardinality(journal[o])
      /\ \A side : V!SumOfSide(entries, side) = SideTotal(journal[o], side)
  BY <1>2, <1>4, DigestCounts
<1>6. V!Cardinality(entries) \in 2 .. 8  BY <1>4, <1>5, SameCount
<1>7. V!SumOfSide(entries, "DEBIT") = V!SumOfSide(entries, "CREDIT")
  BY <1>4, <1>5 DEF ValidJournal
<1>8. \A d, e \in entries : d.account = e.account => d = e
  BY <1>2, <1>4, LineParts DEF ValidJournal
<1>9. entries = Snapshot.journals[o].digest  BY <1>2, JournalTable
<1> QED  BY <1>6, <1>7, <1>8, <1>9 DEF V!BadJournal, entries

\* Every hold is from a wallet against its policy's pool, and its payment is claimed by it.
LEMMA HoldsPass ==
  ASSUME SoundBook, RecordInv, NEW h \in DOMAIN Snapshot.holds
  PROVE  ~V!BadHold(Snapshot, h)
<1> DEFINE row == Snapshot.holds[h]
           fixed == row.terms
           t == fixed.terms
           q == hold[h].reserve
           c == Snapshot.claims[row.payment]
<1>1. h \in Holds /\ hold[h].state # "ABSENT"  BY HoldTable
<1>2. /\ row.payment = q.terms.payment /\ row.attempt = q.attempt
      /\ fixed = FixedTerms(h, hold[h]) /\ row.state = hold[h].state
  BY HoldTable
<1>3. /\ fixed.id = h /\ t = q.terms /\ fixed.owner = hold[h].owner
      /\ fixed.attempt = q.attempt /\ fixed.pool = q.pool
      /\ fixed.feeAccount = Policies[q.terms.policy].feeAccount
  BY <1>2, HoldTermsAre
<1>4. LedgerInv /\ BookInv  BY DEF SoundBook, BookInv
<1>5. /\ q \in Reserves /\ q.terms.source \notin Pools \cup FeeAccounts /\ q.pool \in Pools
      /\ q.terms.policy \in DOMAIN Policies
  BY <1>1, <1>4 DEF LedgerInv, HoldsWellFormed
<1>6. q.terms \in Terms  BY <1>5, TermsTypes
<1>7. /\ q.terms.source \in Accounts /\ q.terms.principal \in Int /\ q.terms.principal > 0
      /\ q.terms.payment \in Payments
  <2>1. \A u \in Terms : /\ u.principal \in Int /\ u.principal > 0
                         /\ u.source \in Accounts /\ u.payment \in Payments
    BY BoundsAssumption DEF Terms, Amounts
  <2> QED  BY <1>6, <2>1
<1>8. Exists(q.terms.source) /\ Exists(q.pool)  BY <1>1, <1>4, HoldAccountsExist
<1>9. V!Has(Snapshot, q.terms.source, "WALLET")
  BY <1>5, <1>7, <1>8, AccountTable DEF V!Has, Purpose
<1>10. V!Has(Snapshot, q.pool, "PROVIDER_POOL")
  BY <1>5, <1>8, IdAssumption, AccountTable DEF V!Has, Purpose
<1>11. Snapshot.accounts[q.terms.source].owner = hold[h].owner
  BY <1>1, <1>4, <1>7, <1>8, AccountTable DEF BookInv, HoldsOwned, Owned
<1>12. ~(V!Total(q.terms) > MaxAmount)
  <2>1. HoldTotal(h) <= MaxAmount  BY <1>1 DEF SoundBook, CountInv, HoldsCounted
  <2>2. HoldTotal(h) = V!Total(q.terms)  BY DEF HoldTotal, Total, V!Total
  <2>3. q.terms.fee \in Int /\ MaxAmount \in Int
    <3>1. \A u \in Terms : u.fee \in Int  BY BoundsAssumption DEF Terms, Amounts
    <3> QED  BY <1>6, <3>1, BoundsAssumption
  <2>4. V!Total(q.terms) \in Int  BY <1>7, <2>3 DEF V!Total
  <2> QED  BY <2>1, <2>2, <2>3, <2>4
<1>13. /\ Policies[q.terms.policy].pool = q.pool /\ Policies[q.terms.policy].fee = q.terms.fee
  BY <1>1 DEF RecordInv, HoldRecord
<1>14. claim[q.terms.payment].hold = h /\ claim[q.terms.payment].state = hold[h].state
  BY <1>1, <1>4 DEF LedgerInv, HoldClaimAgreement
<1>15. /\ row.payment \in DOMAIN Snapshot.claims /\ c.hold = h /\ c.state = row.state
  BY <1>1, <1>2, <1>7, <1>14, ClaimTable
<1>16. row.state \in V!Outstanding \cup {"CAPTURED", "RELEASED"}
  BY <1>1, <1>2, <1>4 DEF LedgerInv, TypeOK, Hold, HoldStates, V!Outstanding
<1>17. Snapshot.policies = Policies  BY Tables
<1>18. ~(q.terms.principal <= 0)  BY <1>7
<1> HIDE DEF q, c, row
<1>19. /\ V!Has(Snapshot, t.source, "WALLET") /\ V!Has(Snapshot, fixed.pool, "PROVIDER_POOL")
       /\ Snapshot.accounts[t.source].owner = fixed.owner
       /\ ~(t.principal <= 0) /\ ~(V!Total(t) > MaxAmount)
       /\ t.policy \in DOMAIN Snapshot.policies
       /\ Snapshot.policies[t.policy].pool = fixed.pool
       /\ Snapshot.policies[t.policy].feeAccount = fixed.feeAccount
       /\ Snapshot.policies[t.policy].fee = t.fee
       /\ fixed.id = h /\ fixed.attempt = row.attempt /\ t.payment = row.payment
  BY <1>2, <1>3, <1>5, <1>9, <1>10, <1>11, <1>12, <1>13, <1>17, <1>18
<1> QED  BY <1>15, <1>16, <1>19 DEF V!BadHold, row, c

\* Every claim has its admission and its result on record, both about its payment.
LEMMA ClaimsPass ==
  ASSUME RecordInv, NEW p \in DOMAIN Snapshot.claims
  PROVE  ~V!BadClaim(Snapshot, p)
<1> DEFINE c == Snapshot.claims[p]
           x == claim[p].admission
           y == claim[p].result
<1>1. p \in Payments /\ claim[p].state # "ABSENT"  BY ClaimTable
<1>2. ClaimRecord(p)  BY <1>1 DEF RecordInv, ClaimsRecorded
<1>3. /\ c.admission = x /\ c.result = y /\ c.material = Material(x)
      /\ c.outcome = (IF claim[p].state = "REJECTED" THEN "REJECTED" ELSE "APPLIED")
  BY ClaimTable
<1>4. /\ x \in Ops /\ y \in Ops
      /\ receipts[x].outcome = (IF claim[p].state = "REJECTED" THEN "REJECTED" ELSE "APPLIED")
      /\ receipts[x].request \in Transfers \cup Reserves
      /\ receipts[x].request.terms.payment = p
      /\ receipts[y].outcome # "NONE" /\ About(receipts[y].request, p)
  BY <1>2 DEF ClaimRecord
<1>5. x \in Recorded /\ y \in Recorded  BY <1>4 DEF Recorded
<1>6. x # FixtureOp /\ y # FixtureOp
  <2>1. NoRequest \notin Requests  BY IdAssumption
  <2>2. receipts[FixtureOp].request = NoRequest  BY DEF RecordInv, FixtureRecorded
  <2>3. receipts[x].request \in Requests /\ receipts[y].request \in Requests
    BY <1>4 DEF About, Requests
  <2> QED  BY <2>1, <2>2, <2>3
<1> DEFINE q == receipts[y].request
<1>7. /\ Material(x).kind = receipts[x].request.kind /\ Material(x).terms.payment = p
      /\ Material(y).kind = q.kind
      /\ q \in Transfers \cup Reserves => Material(y).terms = q.terms
      /\ q \in Exposes \cup Captures \cup Releases => Material(y).ref = q.ref
  BY <1>4, <1>5, <1>6, MaterialIs
<1>8. ReceiptBody(x).payment = {p}
  <2>1. Material(x).kind \in {"TRANSFER_INTERNAL", "RESERVE_PAYOUT"}  BY <1>4, <1>7, KindsDiffer
  <2> QED  BY <1>7, <2>1, AdmissionReceipt
<1>9. ReceiptBody(y).payment = {p}
  <2>1. CASE q \in Transfers \cup Reserves /\ q.terms.payment = p
    <3>1. Material(y).kind \in {"TRANSFER_INTERNAL", "RESERVE_PAYOUT"}
      BY <1>7, <2>1, KindsDiffer
    <3> QED  BY <1>7, <2>1, <3>1, AdmissionReceipt
  <2>2. CASE q \in Exposes \cup Captures \cup Releases /\ q.ref.payment = p
    <3>1. Material(y).kind \in {"MARK_HOLD_EXPOSED", "CAPTURE_PAYOUT", "RELEASE_PAYOUT"}
      BY <1>7, <2>2, KindsDiffer
    <3> QED  BY <1>7, <2>2, <3>1, ResolutionReceipt
  <2> QED  BY <1>4, <2>1, <2>2 DEF About
<1>10. /\ Snapshot.operations[x].outcome = receipts[x].outcome
       /\ Snapshot.operations[x].hash = Material(x)
       /\ Snapshot.operations[x].receipt = ReceiptBody(x)
       /\ Snapshot.operations[y].receipt = ReceiptBody(y)
       /\ x \in DOMAIN Snapshot.operations /\ y \in DOMAIN Snapshot.operations
  BY <1>5, OperationTable
<1> HIDE DEF c, x, y, q
<1> QED  BY <1>3, <1>4, <1>8, <1>9, <1>10 DEF V!BadClaim, c

\* An event that starts from where the one before ended starts from it as stored, too.
LEMMA SameStart ==
  ASSUME NEW x
  PROVE  V!HistoryEqual({x}, x)
BY DEF V!HistoryEqual

\* A history that is a chain is not broken.
LEMMA ChainPasses ==
  ASSUME NEW log, NEW key, NEW row, row.version \in Nat \ {0},
         Chained(V!EventsOf(log, key), row)
  PROVE  ~V!BrokenHistory(log, key, row.version)
<1> DEFINE es == V!EventsOf(log, key)
           n == row.version
<1>1. \A e \in es : /\ e.version \in 1 .. n /\ e.after.version = e.version
                    /\ e.version = 1 => e.before = {}
  BY DEF Chained
<1>2. \A d, e \in es : d.version = e.version - 1 => V!HistoryEqual(e.before, d.after)
  BY SameStart DEF Chained
<1>3. Cardinality(es) = n /\ {e.version : e \in es} = 1 .. n
  <2>1. \A i \in 1 .. n : \E e \in es : e.version = i  BY DEF Chained
  <2>2. \A d, e \in es : d.version = e.version => d = e  BY DEF Chained
  <2>3. n \in Nat /\ \A e \in es : e.version \in 1 .. n  BY <1>1
  <2> HIDE DEF es, n
  <2> QED  BY <2>1, <2>2, <2>3, ChainCounts
<1>4. V!Cardinality(es) = n  BY <1>3, SameCount
<1>5. n \in Nat /\ n # 0  OBVIOUS
<1> HIDE DEF es, n
<1>6. ~V!BrokenHistory(log, key, n)  BY <1>1, <1>2, <1>3, <1>4, <1>5 DEF V!BrokenHistory, es
<1> QED  BY <1>6 DEF n

\* The newest event of a chain is the row.
LEMMA ChainTip ==
  ASSUME NEW es, NEW row, row.version \in Nat \ {0}, Chained(es, row),
         NEW e \in es, \A d \in es : d.version <= e.version
  PROVE  e.after = row
<1>1. PICK d \in es : d.version = row.version  BY DEF Chained
<1>2. d.version <= e.version /\ e.version \in 1 .. row.version  BY DEF Chained
<1>3. e.version = row.version  BY <1>1, <1>2
<1> QED  BY <1>3 DEF Chained

\* The verifier finds nothing wrong with the histories of a table that are unbroken.
LEMMA HistoryPasses ==
  ASSUME NEW table, NEW log, NEW rows, NEW current, Unbroken(log, rows), EventsApplied(log),
         \A k \in DOMAIN rows : rows[k].version \in Nat,
         DOMAIN current = {k \in DOMAIN rows : rows[k].version > 0},
         \A k \in DOMAIN current : current[k].version = rows[k].version,
         \A k \in DOMAIN current : V!SameAsTip(table, rows[k], current[k])
  PROVE  ~V!BadHistories(Snapshot, table, log, current)
<1>1. ASSUME NEW e \in log PROVE e.key \in DOMAIN current /\ V!Applied(Snapshot, e.op)
  <2>1. e.key \in DOMAIN rows  BY DEF Unbroken
  <2>2. Chained(V!EventsOf(log, e.key), rows[e.key])  BY <2>1 DEF Unbroken
  <2>3. e \in V!EventsOf(log, e.key)  BY DEF V!EventsOf
  <2>4. rows[e.key].version # 0  BY <2>2, <2>3, ChainEmpty
  <2>5. e.key \in DOMAIN current  BY <2>1, <2>4
  <2>6. e.op \in Recorded /\ receipts[e.op].outcome = "APPLIED"  BY DEF EventsApplied, Recorded
  <2> QED  BY <2>5, <2>6, OperationTable DEF V!Applied
<1>2. ~V!OrphanHistory(Snapshot, log, current)  BY <1>1 DEF V!OrphanHistory
<1>3. ASSUME NEW k \in DOMAIN current
      PROVE  /\ ~V!BrokenHistory(log, k, current[k].version)
             /\ \A e \in V!EventsOf(log, k) :
                  (\A d \in V!EventsOf(log, k) : d.version <= e.version) =>
                    V!SameAsTip(table, e.after, current[k])
  <2>1. Chained(V!EventsOf(log, k), rows[k])  BY DEF Unbroken
  <2>2. rows[k].version \in Nat \ {0}  OBVIOUS
  <2>3. ~V!BrokenHistory(log, k, rows[k].version)  BY <2>1, <2>2, ChainPasses
  <2>4. ASSUME NEW e \in V!EventsOf(log, k), \A d \in V!EventsOf(log, k) : d.version <= e.version
        PROVE  V!SameAsTip(table, e.after, current[k])
    <3>1. e.after = rows[k]  BY <2>1, <2>2, <2>4, ChainTip
    <3> QED  BY <3>1
  <2> QED  BY <2>3, <2>4
<1> QED  BY <1>2, <1>3 DEF V!BadHistories

\* The histories of balances, controls and limits are in order.
LEMMA HistoriesPass ==
  ASSUME BookInv, RecordInv, HistoryInv
  PROVE  LET s == Snapshot
         IN  /\ ~V!BadHistories(s, "account_events", s.accountEvents, s.balances)
             /\ ~V!BadHistories(s, "control_events", s.controlEvents, s.controls)
             /\ ~V!BadHistories(s, "limit_events", s.limitEvents, s.usage)
<1>1. Versions \subseteq Nat  BY BoundsAssumption DEF Versions
<1>2. ~V!BadHistories(Snapshot, "account_events", accountEvents, Snapshot.balances)
  <2>1. Unbroken(accountEvents, balance) /\ EventsApplied(accountEvents)  BY DEF HistoryInv
  <2>2. DOMAIN balance = Accounts /\ \A a \in Accounts : balance[a].version \in Nat
    BY <1>1 DEF BookInv, LedgerInv, TypeOK, Balance
  <2>3. DOMAIN Snapshot.balances = {a \in DOMAIN balance : balance[a].version > 0}
    BY <2>2, BalanceTable
  <2>4. \A a \in DOMAIN Snapshot.balances : /\ Snapshot.balances[a].version = balance[a].version
                                            /\ V!SameTotals(balance[a], Snapshot.balances[a])
    BY BalanceTable DEF V!SameTotals
  <2>5. \A a \in DOMAIN Snapshot.balances :
          V!SameAsTip("account_events", balance[a], Snapshot.balances[a])
    BY <2>4 DEF V!SameAsTip
  <2> QED  BY <2>1, <2>2, <2>3, <2>4, <2>5, HistoryPasses
<1>3. ~V!BadHistories(Snapshot, "control_events", controlEvents, Snapshot.controls)
  <2>1. Unbroken(controlEvents, control) /\ EventsApplied(controlEvents)  BY DEF HistoryInv
  <2>2. DOMAIN control = ControlKeys /\ \A a \in ControlKeys : control[a].version \in Nat
    BY <1>1 DEF BookInv, LedgerInv, TypeOK, Control
  <2>3. DOMAIN Snapshot.controls = {a \in DOMAIN control : control[a].version > 0}
    BY <2>2, ControlTable
  <2>4. \A a \in DOMAIN Snapshot.controls : Snapshot.controls[a] = control[a]  BY ControlTable
  <2>5. \A a \in DOMAIN Snapshot.controls :
          V!SameAsTip("control_events", control[a], Snapshot.controls[a])
    BY <2>4 DEF V!SameAsTip, V!SameControl
  <2> QED  BY <2>1, <2>2, <2>3, <2>4, <2>5, HistoryPasses
<1>4. ~V!BadHistories(Snapshot, "limit_events", limitEvents, Snapshot.usage)
  <2>1. Unbroken(limitEvents, usage) /\ EventsApplied(limitEvents)  BY DEF HistoryInv
  <2>2. DOMAIN usage = Owners \X Buckets /\ \A a \in Owners \X Buckets : usage[a].version \in Nat
    BY UsageCounts DEF BookInv, LedgerInv, TypeOK, Counter
  <2>3. DOMAIN Snapshot.usage = {a \in DOMAIN usage : usage[a].version > 0}
    BY <2>2, UsageTable
  <2>4. \A a \in DOMAIN Snapshot.usage : Snapshot.usage[a] = usage[a]  BY UsageTable
  <2>5. \A a \in DOMAIN Snapshot.usage :
          V!SameAsTip("limit_events", usage[a], Snapshot.usage[a])
    BY <2>4 DEF V!SameAsTip, V!SameUsage
  <2> QED  BY <2>1, <2>2, <2>3, <2>4, <2>5, HistoryPasses
<1> QED  BY <1>2, <1>3, <1>4, Tables

\* An expiry that was read back compares as it was stored.
LEMMA SameStoredStart ==
  ASSUME NEW terms, NEW state, NEW version, NEW stored, NEW expiry,
         V!Truncate(stored) = stored, V!Truncate(expiry) = stored
  PROVE  V!HistoryEqual({Body(terms, state, version, stored)},
                        Body(terms, state, version, expiry))
<1> DEFINE b == Body(terms, state, version, stored)
           c == Body(terms, state, version, expiry)
<1>1. "expiresAt" \in DOMAIN b /\ "expiresAt" \in DOMAIN c  BY DEF Body
<1>2. b.expiresAt = stored /\ c.expiresAt = expiry  BY DEF Body
<1>3. [b EXCEPT !.expiresAt = stored] = [c EXCEPT !.expiresAt = stored]  BY DEF Body
<1> HIDE DEF b, c
<1>4. V!HistoryEqual({b}, c)
  BY <1>1, <1>2, <1>3 DEF V!HistoryEqual
<1> QED  BY <1>4 DEF b, c

\* The body of a hold has its terms and its version.
LEMMA BodyParts ==
  \A terms, state, version, expiry : /\ Body(terms, state, version, expiry).terms = terms
                                     /\ Body(terms, state, version, expiry).version = version
BY DEF Body

\* The chain of a hold is not broken, and its newest event is the hold.
LEMMA HoldChainPasses ==
  ASSUME NEW log, NEW key, NEW terms, NEW stored, V!Truncate(stored) = stored,
         NEW row, row.version \in Nat \ {0},
         HoldChained(V!EventsOf(log, key), terms, stored, row)
  PROVE  /\ ~V!BrokenHistory(log, key, row.version)
         /\ \A e \in V!EventsOf(log, key) :
              (\A d \in V!EventsOf(log, key) : d.version <= e.version) =>
                e.after.state = row.state /\ e.after.terms = terms
<1> DEFINE es == V!EventsOf(log, key)
           n == row.version
<1>1. \A e \in es : e.version \in 1 .. n /\ (e.version = 1 => e.before = {})
  BY DEF HoldChained
<1>2. \A e \in es : e.after.version = e.version /\ e.after.terms = terms
  BY BodyParts DEF HoldChained
<1>3. ASSUME NEW d \in es, NEW e \in es, d.version = e.version - 1
      PROVE  V!HistoryEqual(e.before, d.after)
  <2>1. e.before = {Body(terms, d.after.state, d.version, stored)}  BY <1>3 DEF HoldChained
  <2>2. /\ d.after = Body(terms, d.after.state, d.version, d.after.expiresAt)
        /\ V!Truncate(d.after.expiresAt) = stored
    BY DEF HoldChained
  <2> DEFINE st == d.after.state
             v == d.version
             x == d.after.expiresAt
  <2> HIDE DEF st, v, x
  <2>3. e.before = {Body(terms, st, v, stored)}  BY <2>1 DEF st, v
  <2>4. d.after = Body(terms, st, v, x) /\ V!Truncate(x) = stored  BY <2>2 DEF st, v, x
  <2>5. V!HistoryEqual({Body(terms, st, v, stored)}, Body(terms, st, v, x))
    BY <2>4, SameStoredStart
  <2> QED  BY <2>3, <2>4, <2>5
<1>4. Cardinality(es) = n /\ {e.version : e \in es} = 1 .. n
  <2>1. \A i \in 1 .. n : \E e \in es : e.version = i  BY DEF HoldChained
  <2>2. \A d, e \in es : d.version = e.version => d = e  BY DEF HoldChained
  <2>3. n \in Nat /\ \A e \in es : e.version \in 1 .. n  BY <1>1
  <2> HIDE DEF es, n
  <2> QED  BY <2>1, <2>2, <2>3, ChainCounts
<1>5. V!Cardinality(es) = n  BY <1>4, SameCount
<1>6. n \in Nat /\ n # 0  OBVIOUS
<1>7. ASSUME NEW e \in es, \A d \in es : d.version <= e.version PROVE e.after.state = row.state
  <2>1. PICK d \in es : d.version = n  BY DEF HoldChained
  <2>2. d.version <= e.version /\ e.version \in 1 .. n  BY <1>1, <1>7
  <2>3. e.version = n  BY <1>6, <2>1, <2>2
  <2> QED  BY <2>3 DEF HoldChained
<1> HIDE DEF es, n
<1>8. ~V!BrokenHistory(log, key, n)
  BY <1>1, <1>2, <1>3, <1>4, <1>5, <1>6 DEF V!BrokenHistory, es
<1> QED  BY <1>2, <1>7, <1>8 DEF n, es

\* The histories of holds are in order, and each hold made only the moves it may make.
LEMMA HoldHistoriesPass ==
  ASSUME BookInv, RecordInv, HistoryInv
  PROVE  LET s == Snapshot
         IN  /\ ~V!BadHistories(s, "hold_events", s.holdEvents, s.holds)
             /\ ~V!BadHoldMoves(s)
<1> DEFINE s == Snapshot
           chain(h) == HoldChained(V!EventsOf(holdEvents, h), FixedTerms(h, hold[h]),
                                   V!Truncate(hold[h].reserve.expiresAt), hold[h])
<1>1. (\A e \in holdEvents : e.key \in Holds) /\ EventsApplied(holdEvents)
  BY DEF HistoryInv, HoldsUnbroken
<1>2. \A h \in Holds : chain(h)  BY DEF HistoryInv, HoldsUnbroken
<1>3. DOMAIN s.holds = {h \in Holds : hold[h].version # 0}  BY HoldTable DEF RecordInv
<1>4. \A h \in Holds : hold[h].version \in Nat
  BY BoundsAssumption DEF BookInv, LedgerInv, TypeOK, Hold, Versions
<1>5. ASSUME NEW e \in holdEvents PROVE e.key \in DOMAIN s.holds /\ V!Applied(s, e.op)
  <2>1. e.key \in Holds /\ chain(e.key)  BY <1>1, <1>2
  <2>2. e \in V!EventsOf(holdEvents, e.key)  BY DEF V!EventsOf
  <2>3. hold[e.key].version # 0  BY <2>1, <2>2, HoldChainEmpty
  <2>4. e.op \in Recorded /\ receipts[e.op].outcome = "APPLIED"
    BY <1>1 DEF EventsApplied, Recorded
  <2> QED  BY <1>3, <2>1, <2>3, <2>4, OperationTable DEF V!Applied
<1>6. ~V!OrphanHistory(s, holdEvents, s.holds)  BY <1>5 DEF V!OrphanHistory
<1>7. ASSUME NEW h \in DOMAIN s.holds
      PROVE  /\ ~V!BrokenHistory(holdEvents, h, s.holds[h].version)
             /\ \A e \in V!EventsOf(holdEvents, h) :
                  (\A d \in V!EventsOf(holdEvents, h) : d.version <= e.version) =>
                    V!SameAsTip("hold_events", e.after, s.holds[h])
  <2> DEFINE terms == FixedTerms(h, hold[h])
             stored == V!Truncate(hold[h].reserve.expiresAt)
             row == hold[h]
  <2>1. h \in Holds /\ row.version \in Nat \ {0}  BY <1>3, <1>4
  <2>2. s.holds[h].version = row.version /\ s.holds[h].state = row.state /\ s.holds[h].terms = terms
    BY HoldTable
  <2>3. V!Truncate(stored) = stored
    <3>1. row.state # "ABSENT"  BY <2>1 DEF RecordInv
    <3>2. row.reserve \in Reserves  BY <2>1, <3>1 DEF BookInv, LedgerInv, HoldsWellFormed
    <3>3. row.reserve.expiresAt \in Int  BY <3>2, RequestAssumption DEF ReserveRequest
    <3> QED  BY <3>3, TruncateTwice
  <2>4. HoldChained(V!EventsOf(holdEvents, h), terms, stored, row)  BY <1>2, <2>1
  <2> HIDE DEF terms, stored, row, s
  <2>5. /\ ~V!BrokenHistory(holdEvents, h, row.version)
        /\ \A e \in V!EventsOf(holdEvents, h) :
             (\A d \in V!EventsOf(holdEvents, h) : d.version <= e.version) =>
               e.after.state = row.state /\ e.after.terms = terms
    BY <2>1, <2>3, <2>4, HoldChainPasses
  <2> QED  BY <2>2, <2>5 DEF V!SameAsTip, V!SameHold
<1>8. ~V!BadHistories(s, "hold_events", holdEvents, s.holds)  BY <1>6, <1>7 DEF V!BadHistories
<1>9. ASSUME NEW e \in holdEvents
      PROVE  /\ e.version = 1 => e.after.state = "RESERVED"
             /\ \A d \in V!EventsOf(holdEvents, e.key) :
                  d.version = e.version - 1 =>
                    /\ <<d.after.state, e.after.state>> \in V!HoldMoves
                    /\ d.after.terms = e.after.terms
  <2>1. chain(e.key)  BY <1>1, <1>2
  <2>2. e \in V!EventsOf(holdEvents, e.key)  BY DEF V!EventsOf
  <2>3. \A d \in V!EventsOf(holdEvents, e.key) : d.after.terms = FixedTerms(e.key, hold[e.key])
    BY <2>1, BodyParts DEF HoldChained
  <2> QED  BY <2>1, <2>2, <2>3 DEF HoldChained
<1>10. ~V!BadHoldMoves(s)  BY <1>9, Tables DEF V!BadHoldMoves
<1> QED  BY <1>8, <1>10, Tables

\* The evidence an operation kept is on record, about its payment and its hold.
LEMMA EvidencePasses ==
  ASSUME RecordInv, NEW o \in Recorded
  PROVE  ~V!BadEvidence(Snapshot, o)
<1> DEFINE r == receipts[o].request
           b == ReceiptBody(o)
<1>1. Snapshot.operations[o].receipt = b /\ b.evidence = EvidenceKept(o)
  BY OperationTable, ReceiptIs
<1>2. ASSUME NEW e \in EvidenceKept(o)
      PROVE  LET proof == Snapshot.evidence[e].body
             IN  /\ e \in DOMAIN Snapshot.evidence /\ proof.id = e
                 /\ {proof.payment} = b.payment /\ {proof.hold} = b.hold
  <2>1. o # FixtureOp /\ r \in Captures \cup Releases /\ e = r.evidence.id
    BY <1>2 DEF EvidenceKept
  <2>2. RecordOf(o) /\ Material(o).kind = r.kind /\ Material(o).ref = r.ref
    BY <2>1, MaterialIs
  <2>3. Proof(r.evidence, r.ref)  BY <1>2, <2>2 DEF RecordOf
  <2>4. /\ r.evidence \in Evidence /\ evidence[e] = r.evidence
        /\ r.evidence.payment = r.ref.payment /\ r.evidence.hold = r.ref.hold
    BY <2>1, <2>3 DEF Proof
  <2>5. e \in EvidenceIds /\ evidence[e] # NoEvidence
    BY <2>1, <2>4, IdAssumption DEF Evidence
  <2>6. e \in DOMAIN Snapshot.evidence /\ Snapshot.evidence[e].body = r.evidence
    BY <2>4, <2>5, EvidenceTable
  <2>7. b.payment = {r.ref.payment} /\ b.hold = {r.ref.hold}
    <3>1. Material(o).kind \in {"CAPTURE_PAYOUT", "RELEASE_PAYOUT"}  BY <2>1, <2>2, KindsDiffer
    <3> QED  BY <2>2, <3>1, ResolutionReceipt
  <2> QED  BY <2>1, <2>4, <2>6, <2>7
<1> HIDE DEF b
<1> QED  BY <1>1, <1>2 DEF V!BadEvidence

\* A spend posts what the verifier expects of one.
LEMMA SpendExpected ==
  ASSUME NEW t, t.principal \in Nat, t.principal > 0, t.fee \in Nat, NEW payee, NEW feeAccount
  PROVE  {Digested(l) : l \in Postings(t.source, payee, feeAccount, t.principal, t.fee)}
           = V!Expected(t, payee, feeAccount)
<1> DEFINE x == Line(t.source, "DEBIT", t.principal + t.fee)
           y == Line(payee, "CREDIT", t.principal)
           z == Line(feeAccount, "CREDIT", t.fee)
           lines == Postings(t.source, payee, feeAccount, t.principal, t.fee)
           u == [account |-> t.source, side |-> "DEBIT", units |-> V!Total(t)]
           v == [account |-> payee, side |-> "CREDIT", units |-> t.principal]
           w == [account |-> feeAccount, side |-> "CREDIT", units |-> t.fee]
<1>1. Digested(x) = u /\ Digested(y) = v /\ Digested(z) = w  BY DEF Digested, Line, V!Total
<1>2. u.units > 0 /\ v.units > 0 /\ (w.units > 0 <=> t.fee # 0)  BY DEF V!Total
<1>3. lines = {x, y} \cup (IF t.fee = 0 THEN {} ELSE {z})  BY DEF Postings
<1>4. V!Expected(t, payee, feeAccount) = {e \in {u, v, w} : e.units > 0}  BY DEF V!Expected
<1> HIDE DEF x, y, z, u, v, w, lines
<1>5. {Digested(l) : l \in lines} = {e \in {u, v, w} : e.units > 0}
  <2>1. CASE t.fee = 0
    <3>1. lines = {x, y} /\ ~(w.units > 0)  BY <1>2, <1>3, <2>1
    <3>2. {Digested(l) : l \in lines} = {u, v}  BY <1>1, <3>1
    <3>3. {e \in {u, v, w} : e.units > 0} = {u, v}  BY <1>2, <3>1
    <3> QED  BY <3>2, <3>3
  <2>2. CASE t.fee # 0
    <3>1. lines = {x, y, z} /\ w.units > 0  BY <1>2, <1>3, <2>2
    <3>2. {Digested(l) : l \in lines} = {u, v, w}  BY <1>1, <3>1
    <3> QED  BY <1>2, <3>1, <3>2
  <2> QED  BY <2>1, <2>2
<1> QED  BY <1>4, <1>5 DEF lines

\* An operation that posted a spend has the journal the verifier expects.
LEMMA SpendPosts ==
  ASSUME SoundBook, JournalsRecorded, RecordInv, NEW o \in Recorded,
         NEW t, t.principal \in Nat, t.principal > 0, t.fee \in Nat,
         NEW payee, NEW feeAccount, payee # feeAccount,
         t.source \in Accounts, payee \in Accounts, feeAccount \in Accounts,
         Exists(t.source), Exists(payee), Exists(feeAccount),
         journal[o] = Postings(t.source, payee, feeAccount, t.principal, t.fee)
  PROVE  V!Posts(Snapshot, ReceiptBody(o), t, payee, feeAccount)
<1>1. o \in Ops  BY DEF Recorded
<1>2. journal[o] # {}  BY DEF Postings
<1>3. V!Entries(Snapshot, o) = V!Expected(t, payee, feeAccount)
  <2>1. V!Entries(Snapshot, o) = {Digested(l) : l \in journal[o]}  BY <1>1, <1>2, EntriesAre
  <2> QED  BY <2>1, SpendExpected
<1>4. o \in ReceiptBody(o).journal /\ o \in DOMAIN Snapshot.journals
  BY <1>1, <1>2, ReceiptIs, JournalTable DEF JournalId
<1>5. {t.source, payee, feeAccount} \subseteq DOMAIN Snapshot.accounts  BY AccountTable
<1> HIDE DEF Postings
<1> QED  BY <1>3, <1>4, <1>5 DEF V!Posts

\* A transfer posted what it was admitted for.
LEMMA TransferPasses ==
  ASSUME SoundBook, JournalsRecorded, RecordInv, NEW o \in Recorded, o # FixtureOp,
         Applied(o, Transfers)
  PROVE  V!TransferFits(Snapshot, Snapshot.operations[o])
<1> DEFINE r == receipts[o].request
           t == r.terms
           f == Policies[t.policy].feeAccount
           op == Snapshot.operations[o]
<1>1. RecordOf(o) /\ Material(o).kind = r.kind /\ Material(o).terms = t
  BY MaterialIs DEF Applied
<1>2. Sound(t, t.beneficiary) /\ journal[o] = TransferLines(t)
  BY <1>1 DEF RecordOf, TransferRecord
<1>3. /\ t.source \in Accounts /\ Exists(t.source)
      /\ t.beneficiary \in Accounts \ FeeAccounts /\ Exists(t.beneficiary)
      /\ t.policy \in DOMAIN Policies /\ Policies[t.policy].fee = t.fee /\ t \in Terms
  BY <1>2 DEF Sound
<1>4. f \in FeeAccounts /\ f \in Accounts /\ Exists(f)
  BY <1>3, PolicyAssumption, IdAssumption DEF SoundBook, BookInv, AccountsComplete
<1>5. t.principal \in Nat /\ t.principal > 0 /\ t.fee \in Nat
  BY <1>3, BoundsAssumption DEF Terms, Amounts
<1>6. journal[o] = Postings(t.source, t.beneficiary, f, t.principal, t.fee)
  BY <1>2 DEF TransferLines
<1>7. op.material.terms = t /\ op.receipt = ReceiptBody(o)  BY <1>1, OperationTable
<1>8. op.receipt.policy = {t.policy}
  <2>1. Material(o).kind = "TRANSFER_INTERNAL"  BY <1>1, KindsDiffer DEF Applied
  <2>2. ReceiptBody(o).policy = {t.policy} \cap DOMAIN Policies
    BY <1>1, <2>1, AdmissionReceipt
  <2> QED  BY <1>3, <1>7, <2>2
<1> HIDE DEF t, f, op
<1>9. t.beneficiary # f  BY <1>3, <1>4
<1>10. V!Posts(Snapshot, ReceiptBody(o), t, t.beneficiary, f)
  BY <1>3, <1>4, <1>5, <1>6, <1>9, SpendPosts
<1>11. Snapshot.policies = Policies /\ f = Policies[t.policy].feeAccount  BY Tables DEF f
<1>12. V!TransferFits(Snapshot, op)
  BY <1>3, <1>7, <1>8, <1>10, <1>11 DEF V!TransferFits
<1> QED  BY <1>12 DEF op

\* A capture posted what its hold was for, on evidence of that payout.
LEMMA CapturePasses ==
  ASSUME SoundBook, JournalsRecorded, RecordInv, NEW o \in Recorded, o # FixtureOp,
         Applied(o, Captures)
  PROVE  V!CaptureFits(Snapshot, Snapshot.operations[o])
<1> DEFINE r == receipts[o].request
           h == r.ref.hold
           e == r.evidence.id
           q == hold[h].reserve
           t == q.terms
           f == HoldFeeAccount(h)
           op == Snapshot.operations[o]
           fixed == Snapshot.holds[h].terms
           proof == Snapshot.evidence[e].body
<1>1. /\ RecordOf(o) /\ r \in Captures
      /\ Material(o).kind = r.kind /\ Material(o).ref = r.ref
  BY MaterialIs DEF Applied
<1>2. /\ hold[h].state = "CAPTURED" /\ journal[o] = HoldLines(h)
      /\ r.evidence.final = "FINAL_SUCCESS" /\ r.evidence.routed /\ r.evidence.attempt = q.attempt
      /\ r.evidence.principal = t.principal /\ r.evidence.beneficiary = t.beneficiary
  BY <1>1 DEF RecordOf, CaptureRecord
<1>3. h \in Holds /\ r.evidence \in Evidence
  BY <1>1, RefTypes, RequestAssumption DEF CaptureRequest
<1>4. /\ q \in Reserves /\ t.source \notin Pools \cup FeeAccounts
      /\ q.pool \in Pools /\ t.policy \in DOMAIN Policies
  BY <1>2, <1>3 DEF SoundBook, BookInv, LedgerInv, HoldsWellFormed
<1>5. t \in Terms  BY <1>4, TermsTypes
<1>6. t.principal \in Nat /\ t.principal > 0 /\ t.fee \in Nat /\ t.source \in Accounts
  <2>1. \A u \in Terms : /\ u.principal \in Nat /\ u.principal > 0 /\ u.fee \in Nat
                         /\ u.source \in Accounts
    BY BoundsAssumption DEF Terms, Amounts
  <2> QED  BY <1>5, <2>1
<1>7. f \in Accounts /\ q.pool \in Accounts /\ q.pool # f
  BY <1>4, PolicyAssumption, IdAssumption DEF HoldFeeAccount
<1>8. Exists(t.source) /\ Exists(q.pool) /\ Exists(f)
  BY <1>2, <1>3, HoldAccountsExist DEF SoundBook
<1>9. journal[o] = Postings(t.source, q.pool, f, t.principal, t.fee)  BY <1>2 DEF HoldLines
<1>10. V!Posts(Snapshot, ReceiptBody(o), t, q.pool, f)
  <2> HIDE DEF t, f, q
  <2> QED  BY <1>6, <1>7, <1>8, <1>9, SpendPosts
<1>11. op.receipt = ReceiptBody(o)  BY OperationTable
<1>12. op.receipt.hold = {h}
  <2>1. Material(o).kind = "CAPTURE_PAYOUT"  BY <1>1, KindsDiffer
  <2> QED  BY <1>1, <1>11, <2>1, ResolutionReceipt
<1>13. op.receipt.evidence = {e}
  <2>1. r.evidence # NoEvidence  BY <1>3, IdAssumption
  <2>2. EvidenceKept(o) = {e}  BY <1>1, <2>1 DEF EvidenceKept, Applied
  <2> QED  BY <1>11, <2>2, ReceiptIs
<1>14. e \in DOMAIN Snapshot.evidence /\ proof = r.evidence
  <2>1. Proof(r.evidence, r.ref)
    <3>1. r.evidence # NoEvidence  BY <1>3, IdAssumption
    <3>2. EvidenceKept(o) # {}  BY <1>1, <3>1 DEF EvidenceKept, Applied
    <3> QED  BY <1>1, <3>2 DEF RecordOf
  <2>2. e \in EvidenceIds /\ evidence[e] = r.evidence /\ r.evidence # NoEvidence
    BY <2>1, IdAssumption DEF Proof, Evidence
  <2> QED  BY <2>2, EvidenceTable
<1>15. /\ h \in DOMAIN Snapshot.holds /\ Snapshot.holds[h].state = hold[h].state
       /\ Snapshot.holds[h].attempt = q.attempt /\ fixed = FixedTerms(h, hold[h])
  BY <1>2, <1>3, HoldTable
<1>16. fixed.terms = t /\ fixed.pool = q.pool /\ fixed.feeAccount = f
  <2> DEFINE row == hold[h]
  <2> HIDE DEF row
  <2>1. /\ FixedTerms(h, row).terms = row.reserve.terms /\ FixedTerms(h, row).pool = row.reserve.pool
        /\ FixedTerms(h, row).feeAccount = Policies[row.reserve.terms.policy].feeAccount
    BY HoldTermsAre
  <2> QED  BY <1>15, <2>1 DEF row, HoldFeeAccount
<1> HIDE DEF e, h, t, f, q, op
<1>17. /\ Snapshot.holds[h].state = "CAPTURED" /\ proof.final = "FINAL_SUCCESS"
       /\ proof.routed /\ proof.attempt = Snapshot.holds[h].attempt
       /\ proof.principal = fixed.terms.principal
       /\ proof.beneficiary = fixed.terms.beneficiary
  BY <1>2, <1>14, <1>15, <1>16
<1>18. V!Posts(Snapshot, op.receipt, fixed.terms, fixed.pool, fixed.feeAccount)
  BY <1>10, <1>11, <1>16
<1>19. h \in op.receipt.hold \cap DOMAIN Snapshot.holds
       /\ e \in op.receipt.evidence \cap DOMAIN Snapshot.evidence
  BY <1>12, <1>13, <1>14, <1>15
<1>20. V!CaptureFits(Snapshot, op)  BY <1>17, <1>18, <1>19 DEF V!CaptureFits
<1> QED  BY <1>20 DEF op

\* The fixture posted its two lines.
LEMMA FixturePasses ==
  ASSUME SoundBook, JournalsRecorded, RecordInv, FixtureOp \in Recorded
  PROVE  V!FixtureFits(Snapshot, Snapshot.operations[FixtureOp])
<1> DEFINE x == Line(FundedPool, "DEBIT", Funding)
           y == Line(FundedWallet, "CREDIT", Funding)
           op == Snapshot.operations[FixtureOp]
           entries == V!Entries(Snapshot, FixtureOp)
<1>1. journal[FixtureOp] = {x, y} /\ FixtureOp \in Ops
  BY IdAssumption DEF RecordInv, FixtureRecorded
<1>2. entries = {Digested(x), Digested(y)}
  <2>1. entries = {Digested(l) : l \in journal[FixtureOp]}  BY <1>1, EntriesAre
  <2> QED  BY <1>1, <2>1
<1>3. /\ Digested(x).account = FundedPool /\ Digested(x).side = "DEBIT"
      /\ Digested(x).units = Funding
      /\ Digested(y).account = FundedWallet /\ Digested(y).side = "CREDIT"
      /\ Digested(y).units = Funding
  BY DEF Digested, Line
<1>4. Exists(FundedPool) /\ Exists(FundedWallet)
  BY IdAssumption DEF SoundBook, BookInv, AccountsComplete, RecordInv, FixtureRecorded
<1>5. V!Has(Snapshot, FundedPool, "PROVIDER_POOL") /\ V!Has(Snapshot, FundedWallet, "WALLET")
  BY <1>4, AccountTable, IdAssumption DEF V!Has, Purpose
<1>6. op.material.units = Funding /\ op.receipt.journal = {FixtureOp}
  <2>1. op.material = Material(FixtureOp) /\ op.receipt = ReceiptBody(FixtureOp)
    BY OperationTable
  <2>2. Material(FixtureOp).units = Funding  BY DEF Material
  <2>3. ReceiptBody(FixtureOp).journal = {FixtureOp}  BY <1>1, ReceiptIs DEF JournalId
  <2> QED  BY <2>1, <2>2, <2>3
<1>7. UNION {V!Entries(Snapshot, j) : j \in op.receipt.journal} = entries  BY <1>6
<1> HIDE DEF x, y, op, entries
<1>8. V!Cardinality(entries) = 2
  <2>1. Digested(x) # Digested(y)  BY <1>3
  <2>2. IsFiniteSet({Digested(x)}) /\ Cardinality({Digested(x)}) = 1  BY FS_Singleton
  <2>3. entries = {Digested(x)} \cup {Digested(y)} /\ Digested(y) \notin {Digested(x)}
    BY <1>2, <2>1
  <2>4. Cardinality(entries) = 2  BY <2>2, <2>3, FS_AddElement
  <2> QED  BY <2>4, SameCount
<1>9. \A e \in entries : /\ e.units = op.material.units
                         /\ \/ V!Has(Snapshot, e.account, "WALLET") /\ e.side = "CREDIT"
                            \/ V!Has(Snapshot, e.account, "PROVIDER_POOL") /\ e.side = "DEBIT"
  BY <1>2, <1>3, <1>5, <1>6
<1>10. V!FixtureFits(Snapshot, op)  BY <1>7, <1>8, <1>9 DEF V!FixtureFits
<1> QED  BY <1>10 DEF op

\* Every applied operation posted what its kind may post, and why.
LEMMA TemplatesPass ==
  ASSUME SoundBook, JournalsRecorded, RecordInv, NEW o \in Recorded
  PROVE  ~V!TemplateMismatch(Snapshot, o)
<1> DEFINE op == Snapshot.operations[o]
           kind == op.receipt.kind
<1>1. /\ op.outcome = receipts[o].outcome /\ kind = Material(o).kind
      /\ op.receipt.journal = JournalId(o)
  BY OperationTable, ReceiptIs
<1>2. CASE o = FixtureOp
  <2>1. kind = "FIXTURE_FUND"  BY <1>1, <1>2, MaterialIs
  <2>2. V!FixtureFits(Snapshot, op)  BY <1>2, FixturePasses
  <2> QED  BY <2>1, <2>2 DEF V!TemplateMismatch
<1>3. CASE o # FixtureOp /\ op.outcome = "APPLIED"
  <2> DEFINE r == receipts[o].request
  <2>1. RecordOf(o) /\ Material(o).kind = r.kind /\ r \in Requests  BY <1>3, MaterialIs
  <2>2. CASE r \in Transfers
    <3>1. Applied(o, Transfers)  BY <1>1, <1>3, <2>2 DEF Applied
    <3>2. V!TransferFits(Snapshot, op)  BY <1>3, <3>1, TransferPasses
    <3>3. kind = "TRANSFER_INTERNAL"  BY <1>1, <2>1, <2>2, KindsDiffer
    <3> QED  BY <3>2, <3>3 DEF V!TemplateMismatch
  <2>3. CASE r \in Captures
    <3>1. Applied(o, Captures)  BY <1>1, <1>3, <2>3 DEF Applied
    <3>2. V!CaptureFits(Snapshot, op)  BY <1>3, <3>1, CapturePasses
    <3>3. kind = "CAPTURE_PAYOUT"  BY <1>1, <2>1, <2>3, KindsDiffer
    <3> QED  BY <3>2, <3>3 DEF V!TemplateMismatch
  <2>4. CASE r \notin Transfers \cup Captures
    <3>1. kind \in V!NonPosting
      BY <1>1, <2>1, <2>4, KindsDiffer DEF V!NonPosting, Requests
    <3>2. journal[o] = {}  BY <2>1, <2>4 DEF RecordOf, Applied
    <3>3. op.receipt.journal = {}  BY <1>1, <3>2 DEF JournalId
    <3> QED  BY <3>1, <3>3 DEF V!TemplateMismatch
  <2> QED  BY <2>2, <2>3, <2>4
<1>4. CASE op.outcome # "APPLIED"  BY <1>4 DEF V!TemplateMismatch
<1> QED  BY <1>2, <1>3, <1>4

\* The total on a side of the lines of one account: one line at most is on it.
LEMMA AccountSide ==
  ASSUME NEW lines \in SUBSET JournalLine, IsFiniteSet(lines),
         \A l, m \in lines : l.account = m.account => l = m, NEW a, NEW side
  PROVE  LET total == SideTotal(LinesOf(lines, a), side)
         IN  /\ \A m \in lines : m.account = a /\ m.side = side => total = m.amount
             /\ (\A m \in lines : ~(m.account = a /\ m.side = side)) => total = 0
             /\ total \in Nat
<1> DEFINE on == LinesOf(lines, a)
           L == {l \in on : l.side = side}
           d == [l \in L |-> l.amount]
<1>1. SideTotal(on, side) = SumFunction(d)  BY DEF SideTotal
<1>2. IsFiniteSet(on) /\ IsFiniteSet(L) /\ on \in SUBSET JournalLine  BY FS_Subset DEF LinesOf
<1>3. SideTotal(on, side) \in Nat  BY <1>2, SideTotalNat
<1>4. \A l \in JournalLine : l.amount \in Int  BY BoundsAssumption DEF JournalLine, Amounts
<1>5. Summable(d)  BY <1>2, <1>4 DEF Summable
<1>6. \A m \in L : d[m] = m.amount /\ DOMAIN d = L  OBVIOUS
<1>7. ASSUME NEW m \in lines, m.account = a, m.side = side PROVE SumFunction(d) = m.amount
  <2>1. L \subseteq {m} /\ m \in L  BY <1>7 DEF LinesOf
  <2> HIDE DEF d, L
  <2>2. SumFunction(d) = At(d, m)  BY <1>5, <1>6, <2>1, SumOfOne
  <2> QED  BY <1>6, <2>1, <2>2 DEF At
<1>8. ASSUME \A m \in lines : ~(m.account = a /\ m.side = side) PROVE SumFunction(d) = 0
  <2>1. L = {} /\ DOMAIN d = L  BY <1>8 DEF LinesOf
  <2> HIDE DEF d, L
  <2>2. SumFunctionOnSet(d, DOMAIN d) = 0  BY <2>1, FS_EmptySet, SumZero
  <2> QED  BY <2>2 DEF SumFunction
<1> QED  BY <1>1, <1>3, <1>7, <1>8

\* The lines the verifier adds up for one side of an account.
PostedLines(s, a, side) ==
  {l \in s.lines : l.journal \in DOMAIN s.journals /\ l.account = a /\ l.side = side}

\* The verifier adds up the lines of an account as the Ledger's history does.
LEMMA TotalsAgree ==
  ASSUME SoundBook, JournalsRecorded, RecordInv, NEW a \in Accounts, NEW side
  PROVE  /\ V!SideTotal(Snapshot, a, side) = JournalTotal(a, side)
         /\ IsFiniteSet(PostedLines(Snapshot, a, side))
<1> DEFINE P == {l \in Snapshot.lines : /\ l.journal \in DOMAIN Snapshot.journals
                                        /\ l.account = a /\ l.side = side}
           f == [l \in P |-> l.units]
           g == [x \in Ops |-> SideTotal({l \in journal[x] : l.account = a}, side)]
           k == [l \in P |-> l.journal]
           on(m) == m.account = a /\ m.side = side
<1>1. ASSUME NEW o \in Ops
      PROVE  /\ \A m \in journal[o] : on(m) => g[o] = m.amount
             /\ (\A m \in journal[o] : ~on(m)) => g[o] = 0
             /\ g[o] \in Int
             /\ \A l, m \in journal[o] : l.account = m.account => l = m
             /\ \A m \in journal[o] : m.amount \in Int
  <2>1. journal[o] \in SUBSET JournalLine /\ IsFiniteSet(journal[o])
    BY DEF SoundBook, BookInv, LedgerInv, TypeOK, JournalsRecorded
  <2>2. \A l, m \in journal[o] : l.account = m.account => l = m
    <3>1. CASE journal[o] = {}  BY <3>1
    <3>2. CASE journal[o] # {}  BY <3>2, JournalsSound DEF SoundLines, ValidJournal
    <3> QED  BY <3>1, <3>2
  <2>3. \A l \in JournalLine : l.amount \in Int  BY BoundsAssumption DEF JournalLine, Amounts
  <2> DEFINE lines == journal[o]
             total == SideTotal(LinesOf(lines, a), side)
  <2>4. g[o] = total  BY DEF LinesOf
  <2> HIDE DEF g
  <2>5. /\ \A m \in lines : m.account = a /\ m.side = side => total = m.amount
        /\ (\A m \in lines : ~(m.account = a /\ m.side = side)) => total = 0
        /\ total \in Nat
    <3>1. /\ lines \in SUBSET JournalLine /\ IsFiniteSet(lines)
          /\ \A l, m \in lines : l.account = m.account => l = m
      BY <2>1, <2>2
    <3> HIDE DEF lines
    <3> QED  BY <3>1, AccountSide
  <2> HIDE DEF total
  <2> QED  BY <2>1, <2>2, <2>3, <2>4, <2>5
<1>2. ASSUME NEW l \in P
      PROVE  \E o \in Ops : \E m \in journal[o] :
               l = Stored(o, m) /\ on(m) /\ l.journal = o /\ l.units = m.amount
  <2>1. PICK o \in Ops : \E m \in journal[o] : l = Stored(o, m)  BY LineTable
  <2>2. PICK m \in journal[o] : l = Stored(o, m)  BY <2>1
  <2>3. on(m) /\ l.journal = o /\ l.units = m.amount  BY <2>2, LineParts
  <2> QED  BY <2>2, <2>3
<1>3. ASSUME NEW o \in Ops, NEW m \in journal[o], on(m)
      PROVE  Stored(o, m) \in P /\ Stored(o, m).journal = o
  BY <1>3, LineTable, LineParts, JournalTable
<1>4. DOMAIN f = P /\ DOMAIN g = Ops /\ DOMAIN k = P
      /\ (\A l \in P : f[l] = l.units /\ k[l] = l.journal)
  OBVIOUS
<1> HIDE DEF f, g, k, P, on
<1>5. k \in [P -> Ops]
  <2>1. \A l \in P : l.journal \in Ops  BY <1>2
  <2> QED  BY <1>4, <2>1 DEF k
<1>6. \A l, m \in P : k[l] = k[m] => l = m
  <2> SUFFICES ASSUME NEW l \in P, NEW m \in P, l.journal = m.journal PROVE l = m
    BY <1>4
  <2>1. PICK o \in Ops : \E x \in journal[o] : l = Stored(o, x) /\ on(x) /\ l.journal = o
    BY <1>2
  <2>2. PICK x \in journal[o] : l = Stored(o, x) /\ on(x)  BY <2>1
  <2>3. PICK y \in journal[o] : m = Stored(o, y) /\ on(y)  BY <1>2, <2>1
  <2>4. x.account = y.account  BY <2>2, <2>3 DEF on
  <2>5. x = y  BY <1>1, <2>4
  <2> QED  BY <2>2, <2>3, <2>5
<1>7. \A l \in P : g[k[l]] = f[l] /\ f[l] \in Int
  <2> TAKE l \in P
  <2>1. PICK o \in Ops : \E m \in journal[o] : on(m) /\ l.journal = o /\ l.units = m.amount
    BY <1>2
  <2>2. PICK m \in journal[o] : on(m) /\ l.journal = o /\ l.units = m.amount  BY <2>1
  <2>3. g[o] = m.amount /\ m.amount \in Int  BY <1>1, <2>2
  <2> QED  BY <1>4, <2>2, <2>3
<1>8. ASSUME NEW o \in Ops, \A l \in P : k[l] # o PROVE g[o] = 0
  <2>1. \A m \in journal[o] : ~on(m)  BY <1>3, <1>4, <1>8
  <2> QED  BY <1>1, <2>1
<1>9. Summable(f) /\ Summable(g) /\ IsFiniteSet(P)
  <2>1. IsFiniteSet(P)
    <3>1. k \in Injection(P, Ops)  BY <1>5, <1>6 DEF Injection, IsInjective
    <3> QED  BY <3>1, FiniteAssumption, FS_Injection DEF ExistsInjection
  <2> QED  BY <1>1, <1>4, <1>7, <2>1, FiniteAssumption DEF Summable
<1>10. SumFunction(f) = SumFunction(g)  BY <1>4, <1>5, <1>6, <1>7, <1>8, <1>9, SumReindex
<1>11. JournalTotal(a, side) = SumFunction(g)  BY DEF JournalTotal, g
<1>12. V!SideTotal(Snapshot, a, side) = SumFunction(f)
  <2>1. V!SideTotal(Snapshot, a, side) = V!SumFunction(f)  BY DEF V!SideTotal, f, P
  <2> QED  BY <2>1, SameSum
<1>13. P = PostedLines(Snapshot, a, side)  BY DEF P, PostedLines
<1> QED  BY <1>9, <1>10, <1>11, <1>12, <1>13

\* The snapshot's holds and their terms, as the Ledger has them.
LEMMA HoldsRead ==
  /\ \A states : V!HoldsIn(Snapshot, states)
                   = {h \in Holds : hold[h].state # "ABSENT" /\ hold[h].state \in states}
  /\ \A h \in Holds : hold[h].state # "ABSENT" =>
       /\ V!HoldTerms(Snapshot, h) = hold[h].reserve.terms
       /\ V!Total(V!HoldTerms(Snapshot, h)) = HoldTotal(h)
       /\ V!HoldTerms(Snapshot, h).principal = hold[h].reserve.terms.principal
       /\ V!HoldTerms(Snapshot, h).source = hold[h].reserve.terms.source
       /\ Snapshot.holds[h].terms.pool = hold[h].reserve.pool
       /\ V!LimitKey(Snapshot, h) = <<hold[h].owner, hold[h].bucket>>
<1>1. \A states : V!HoldsIn(Snapshot, states)
                    = {h \in Holds : hold[h].state # "ABSENT" /\ hold[h].state \in states}
  BY HoldTable DEF V!HoldsIn
<1>2. ASSUME NEW h \in Holds, hold[h].state # "ABSENT"
      PROVE  /\ V!HoldTerms(Snapshot, h) = hold[h].reserve.terms
             /\ Snapshot.holds[h].terms.pool = hold[h].reserve.pool
             /\ V!LimitKey(Snapshot, h) = <<hold[h].owner, hold[h].bucket>>
  <2> DEFINE row == hold[h]
  <2>1. Snapshot.holds[h].terms = FixedTerms(h, row)  BY <1>2, HoldTable
  <2> HIDE DEF row
  <2>2. /\ FixedTerms(h, row).terms = row.reserve.terms /\ FixedTerms(h, row).owner = row.owner
        /\ FixedTerms(h, row).pool = row.reserve.pool /\ FixedTerms(h, row).bucket = row.bucket
    BY HoldTermsAre
  <2> QED  BY <2>1, <2>2 DEF V!HoldTerms, V!LimitKey, row
<1>3. \A t : V!Total(t) = Total(t)  BY DEF V!Total, Total
<1> QED  BY <1>1, <1>2, <1>3 DEF HoldTotal

\* The verifier adds up what is held on an account as the Ledger does.
LEMMA HeldAgrees ==
  ASSUME BookInv, NEW a \in Accounts
  PROVE  V!HeldTotal(Snapshot, a) = HeldOn(a)
<1> DEFINE s == Snapshot
           open == {h \in V!HoldsIn(s, V!Outstanding) :
                      /\ V!HoldTerms(s, h).source \in DOMAIN s.accounts
                      /\ s.holds[h].terms.pool \in DOMAIN s.accounts}
           on == {h \in open : V!HoldTerms(s, h).source = a}
           from == {h \in open : s.holds[h].terms.pool = a}
           f == [h \in on |-> V!Total(V!HoldTerms(s, h))]
           g == [h \in from |-> V!HoldTerms(s, h).principal]
           u == [h \in HoldsOn(a) |-> HoldTotal(h)]
           v == [h \in HoldsFrom(a) |-> hold[h].reserve.terms.principal]
<1>1. V!HeldTotal(s, a) = V!SumFunction(f) + V!SumFunction(g)  BY DEF V!HeldTotal
<1>2. HeldOn(a) = SumFunction(u) + SumFunction(v)  BY DEF HeldOn
<1>3. \A h \in Holds : Outstanding(h) => hold[h].state # "ABSENT"  BY DEF Outstanding
<1>4. V!HoldsIn(s, V!Outstanding) = {h \in Holds : Outstanding(h)}
  BY HoldsRead DEF V!Outstanding, Outstanding
<1>5. \A h \in Holds : Outstanding(h) =>
        hold[h].reserve.terms.source \in DOMAIN s.accounts /\ hold[h].reserve.pool \in DOMAIN s.accounts
  <2> SUFFICES ASSUME NEW h \in Holds, Outstanding(h)
               PROVE  /\ hold[h].reserve.terms.source \in DOMAIN s.accounts
                      /\ hold[h].reserve.pool \in DOMAIN s.accounts
    OBVIOUS
  <2>1. hold[h].reserve \in Reserves /\ hold[h].reserve.pool \in Pools
    BY <1>3 DEF BookInv, LedgerInv, HoldsWellFormed
  <2>2. hold[h].reserve.terms.source \in Accounts
    <3>1. \A t \in Terms : t.source \in Accounts  BY DEF Terms
    <3> QED  BY <2>1, <3>1, TermsTypes
  <2>3. Exists(hold[h].reserve.terms.source) /\ Exists(hold[h].reserve.pool)
    BY <1>3, HoldAccountsExist
  <2> QED  BY <2>1, <2>2, <2>3, IdAssumption, AccountTable
<1>6. on = HoldsOn(a) /\ from = HoldsFrom(a)
  BY <1>3, <1>4, <1>5, HoldsRead DEF HoldsOn, HoldsFrom
<1>7. Summable(u) /\ Summable(v)  BY HeldSums DEF HeldParts, BookInv
<1>8. f = u
  <2>1. \A h \in HoldsOn(a) : V!Total(V!HoldTerms(s, h)) = HoldTotal(h)
    BY <1>3, HoldsRead DEF HoldsOn
  <2> HIDE DEF on
  <2> QED  BY <1>6, <2>1
<1>9. g = v
  <2>1. \A h \in HoldsFrom(a) : V!HoldTerms(s, h).principal = hold[h].reserve.terms.principal
    BY <1>3, HoldsRead DEF HoldsFrom
  <2> HIDE DEF from
  <2> QED  BY <1>6, <2>1
<1> HIDE DEF f, g, u, v
<1> QED  BY <1>1, <1>2, <1>8, <1>9, SameSum

\* Every account has its balance, which is what its journals and holds add up to.
LEMMA BalancesPass ==
  ASSUME SoundBook, JournalsRecorded, RecordInv
  PROVE  /\ \A a \in DOMAIN Snapshot.accounts : ~V!BadBalance(Snapshot, a)
         /\ DOMAIN Snapshot.balances = DOMAIN Snapshot.accounts
<1>1. DOMAIN Snapshot.balances = DOMAIN Snapshot.accounts
  BY BalanceTable, AccountTable DEF RecordInv
<1>2. ASSUME NEW a \in DOMAIN Snapshot.accounts PROVE ~V!BadBalance(Snapshot, a)
  <2> DEFINE b == Snapshot.balances[a]
             d == JournalTotal(a, "DEBIT")
             c == JournalTotal(a, "CREDIT")
             held == HeldOn(a)
  <2>1. a \in Accounts /\ Exists(a) /\ Snapshot.accounts[a].purpose = Purpose(a)
    BY AccountTable
  <2>2. a \in DOMAIN Snapshot.balances  BY <1>1
  <2>3. /\ b.purpose = Purpose(a) /\ b.debits = balance[a].debits
        /\ b.credits = balance[a].credits /\ b.held = balance[a].held
    BY <2>2, BalanceTable
  <2>4. balance[a].debits = d /\ balance[a].credits = c /\ balance[a].held = held
    BY <2>1 DEF SoundBook, BalancesMatchHistory
  <2>5. /\ V!SideTotal(Snapshot, a, "DEBIT") = d /\ V!SideTotal(Snapshot, a, "CREDIT") = c
        /\ V!HeldTotal(Snapshot, a) = held
    BY <2>1, TotalsAgree, HeldAgrees DEF SoundBook
  <2>6. V!Has(Snapshot, a, "PROVIDER_POOL") <=> Purpose(a) = "PROVIDER_POOL"
    BY <2>1 DEF V!Has
  <2>7. held <= (IF Purpose(a) = "PROVIDER_POOL" THEN d - c ELSE c - d)
    BY <2>1, <2>4 DEF SoundBook, BookInv, LedgerInv, NeverOverdrawn, Posted
  <2>8. d \in Int /\ c \in Int /\ held \in Int
    <3>1. balance[a] \in Balance  BY <2>1 DEF SoundBook, BookInv, LedgerInv, TypeOK
    <3>2. balance[a].debits \in Int /\ balance[a].credits \in Int /\ balance[a].held \in Int
      BY <3>1, BoundsAssumption DEF Balance, Wides
    <3> QED  BY <2>4, <3>2
  <2> HIDE DEF d, c, held, b
  <2>9. b.purpose = Snapshot.accounts[a].purpose /\ b.debits = d /\ b.credits = c /\ b.held = held
    BY <2>1, <2>3, <2>4
  <2>10. ~((IF V!Has(Snapshot, a, "PROVIDER_POOL") THEN d - c ELSE c - d) < held)
    BY <2>6, <2>7, <2>8
  <2> QED  BY <2>2, <2>5, <2>9, <2>10 DEF V!BadBalance, b
<1> QED  BY <1>1, <1>2

\* The verifier counts the holds of a limit row as the Ledger does.
LEMMA HoldsCountAlike ==
  ASSUME NEW o, NEW b, NEW states, "ABSENT" \notin states
  PROVE  V!Principals(Snapshot, V!HoldsOf(Snapshot, <<o, b>>, states))
           = HoldPrincipals(AdmittedOn(o, b, states))
<1> DEFINE S == AdmittedOn(o, b, states)
           f == [h \in S |-> V!HoldTerms(Snapshot, h).principal]
           g == [h \in S |-> hold[h].reserve.terms.principal]
<1>1. \A h \in S : h \in Holds /\ hold[h].state # "ABSENT"  BY DEF AdmittedOn
<1>2. V!HoldsOf(Snapshot, <<o, b>>, states) = S
  <2>1. V!HoldsOf(Snapshot, <<o, b>>, states)
          = {h \in V!HoldsIn(Snapshot, states) : V!LimitKey(Snapshot, h) = <<o, b>>}
    BY DEF V!HoldsOf
  <2>2. V!HoldsIn(Snapshot, states) = {h \in Holds : hold[h].state \in states}  BY HoldsRead
  <2>3. \A h \in Holds : hold[h].state \in states =>
          (V!LimitKey(Snapshot, h) = <<o, b>> <=> hold[h].owner = o /\ hold[h].bucket = b)
    <3> TAKE h \in Holds
    <3>1. hold[h].state \in states => V!LimitKey(Snapshot, h) = <<hold[h].owner, hold[h].bucket>>
      BY HoldsRead
    <3> QED  BY <3>1
  <2> QED  BY <2>1, <2>2, <2>3 DEF AdmittedOn
<1>3. \A h \in S : V!HoldTerms(Snapshot, h).principal = hold[h].reserve.terms.principal
  BY <1>1, HoldsRead
<1>4. V!Principals(Snapshot, S) = V!SumFunction(f)  BY DEF V!Principals
<1>5. HoldPrincipals(S) = SumFunction(g)  BY DEF HoldPrincipals
<1> HIDE DEF S
<1>6. f = g  BY <1>3
<1> HIDE DEF f, g
<1> QED  BY <1>2, <1>4, <1>5, <1>6, SameSum DEF S

\* The verifier finds a transfer on the day it was recorded, under the source's owner.
LEMMA TransferRead ==
  ASSUME RecordInv, Timed
  PROVE  /\ V!TransfersIn(Snapshot) = {x \in Ops : Applied(x, Transfers)}
         /\ \A x \in Ops : Applied(x, Transfers) =>
              /\ V!TransferKey(Snapshot, x)
                   = <<owner[receipts[x].request.terms.source], receipts[x].bucket>>
              /\ Snapshot.operations[x].material.terms.principal
                   = receipts[x].request.terms.principal
<1>1. FixtureOp \in Ops /\ ~Applied(FixtureOp, Transfers)
  BY IdAssumption DEF RecordInv, FixtureRecorded, Applied, Requests
<1>2. ASSUME NEW x \in Ops
      PROVE  x \in V!TransfersIn(Snapshot) <=> Applied(x, Transfers)
  <2>1. CASE x \in Recorded
    <3>1. Snapshot.operations[x].outcome = receipts[x].outcome
          /\ Snapshot.operations[x].receipt.kind = Material(x).kind
      BY <2>1, OperationTable, ReceiptIs
    <3>2. Material(x).kind = "TRANSFER_INTERNAL" <=> receipts[x].request \in Transfers
      <4>1. CASE x = FixtureOp
        <5>1. Material(x).kind # "TRANSFER_INTERNAL"  BY <4>1 DEF Material
        <5>2. receipts[x].request \notin Transfers
          BY <4>1, IdAssumption DEF RecordInv, FixtureRecorded, Requests
        <5> QED  BY <5>1, <5>2
      <4>2. CASE x # FixtureOp  BY <2>1, <4>2, MaterialIs, KindSays
      <4> QED  BY <4>1, <4>2
    <3> QED  BY <2>1, <3>1, <3>2, OperationTable DEF V!TransfersIn, Applied
  <2>2. CASE x \notin Recorded
    BY <2>2, OperationTable DEF V!TransfersIn, Applied, Recorded
  <2> QED  BY <2>1, <2>2
<1>3. V!TransfersIn(Snapshot) \subseteq Ops  BY OperationTable DEF V!TransfersIn, Recorded
<1>4. ASSUME NEW x \in Ops, Applied(x, Transfers)
      PROVE  /\ V!TransferKey(Snapshot, x)
                  = <<owner[receipts[x].request.terms.source], receipts[x].bucket>>
             /\ Snapshot.operations[x].material.terms.principal
                  = receipts[x].request.terms.principal
  <2> DEFINE r == receipts[x].request
             op == Snapshot.operations[x]
  <2>1. x \in Recorded /\ x # FixtureOp  BY <1>1, <1>4 DEF Applied, Recorded
  <2>2. Material(x).terms = r.terms /\ RecordOf(x)  BY <1>4, <2>1, MaterialIs DEF Applied
  <2>3. Sound(r.terms, r.terms.beneficiary)  BY <1>4, <2>2 DEF RecordOf, TransferRecord
  <2>4. r.terms.source \in Accounts /\ Exists(r.terms.source)  BY <2>3 DEF Sound
  <2>5. /\ r.terms.source \in DOMAIN Snapshot.accounts
        /\ Snapshot.accounts[r.terms.source].owner = owner[r.terms.source]
    BY <2>4, AccountTable
  <2>6. op.material.terms = r.terms  BY <2>1, <2>2, OperationTable
  <2>7. op.receipt.recordedAt = recordedAt[x]  BY <2>1, OperationTable, ReceiptIs
  <2>8. receipts[x].bucket = V!DayOf(recordedAt[x])  BY <1>4 DEF Timed, V!DayOf, Bucket
  <2> HIDE DEF r, op
  <2>9. V!TransferKey(Snapshot, x) = <<owner[r.terms.source], receipts[x].bucket>>
    BY <2>5, <2>6, <2>7, <2>8 DEF V!TransferKey, op
  <2> QED  BY <2>6, <2>9 DEF r, op
<1> QED  BY <1>2, <1>3, <1>4

\* The verifier counts the transfers of a limit row as the Ledger does.
LEMMA TransfersCountAlike ==
  ASSUME RecordInv, Timed, NEW o, NEW b
  PROVE  LET T == V!TransfersOf(Snapshot, <<o, b>>)
         IN  V!SumFunction([x \in T |-> Snapshot.operations[x].material.terms.principal])
               = TransferPrincipals(TransfersOn(o, b))
<1> DEFINE T == TransfersOn(o, b)
           f == [x \in T |-> Snapshot.operations[x].material.terms.principal]
           g == [x \in T |-> receipts[x].request.terms.principal]
<1>1. \A x \in T : x \in Ops /\ Applied(x, Transfers)  BY DEF TransfersOn, Applied
<1>2. V!TransfersOf(Snapshot, <<o, b>>) = T
  <2>1. V!TransfersOf(Snapshot, <<o, b>>)
          = {x \in V!TransfersIn(Snapshot) : V!TransferKey(Snapshot, x) = <<o, b>>}
    BY DEF V!TransfersOf
  <2>2. V!TransfersIn(Snapshot) = {x \in Ops : Applied(x, Transfers)}  BY TransferRead
  <2>3. \A x \in Ops : Applied(x, Transfers) =>
          (V!TransferKey(Snapshot, x) = <<o, b>> <=>
             owner[receipts[x].request.terms.source] = o /\ receipts[x].bucket = b)
    <3> TAKE x \in Ops
    <3>1. Applied(x, Transfers) =>
            V!TransferKey(Snapshot, x)
              = <<owner[receipts[x].request.terms.source], receipts[x].bucket>>
      BY TransferRead
    <3> QED  BY <3>1
  <2> QED  BY <2>1, <2>2, <2>3 DEF TransfersOn, Applied
<1>3. \A x \in T : Snapshot.operations[x].material.terms.principal
                     = receipts[x].request.terms.principal
  BY <1>1, TransferRead
<1>4. TransferPrincipals(T) = SumFunction(g)  BY DEF TransferPrincipals
<1> HIDE DEF T
<1>5. f = g  BY <1>3
<1> HIDE DEF g
<1> QED  BY <1>2, <1>4, <1>5, SameSum DEF T

\* Every limit row counts what was admitted on its day, and none is missing.
LEMMA UsagePasses ==
  ASSUME SoundBook, RecordInv, Timed
  PROVE  ~V!BadUsage(Snapshot)
<1>1. ASSUME NEW k \in DOMAIN Snapshot.usage
      PROVE  /\ Snapshot.usage[k].reserved = V!Reserved(Snapshot, k)
             /\ Snapshot.usage[k].consumed = V!Consumed(Snapshot, k)
  <2>1. k \in Owners \X Buckets /\ Snapshot.usage[k] = usage[k]  BY UsageTable
  <2>2. PICK o \in Owners, b \in Buckets : k = <<o, b>>  BY <2>1
  <2>3. /\ usage[<<o, b>>].reserved = HoldPrincipals(AdmittedOn(o, b, {"RESERVED", "EXPOSED"}))
        /\ usage[<<o, b>>].consumed = HoldPrincipals(AdmittedOn(o, b, {"CAPTURED"}))
                                        + TransferPrincipals(TransfersOn(o, b))
    BY DEF SoundBook, UsageMatchesHistory
  <2>4. V!Reserved(Snapshot, <<o, b>>) = HoldPrincipals(AdmittedOn(o, b, {"RESERVED", "EXPOSED"}))
    <3>1. V!Reserved(Snapshot, <<o, b>>)
            = V!Principals(Snapshot, V!HoldsOf(Snapshot, <<o, b>>, {"RESERVED", "EXPOSED"}))
      BY DEF V!Reserved, V!Outstanding
    <3>2. "ABSENT" \notin {"RESERVED", "EXPOSED"}  OBVIOUS
    <3> QED  BY <3>1, <3>2, HoldsCountAlike
  <2>5. V!Consumed(Snapshot, <<o, b>>)
          = HoldPrincipals(AdmittedOn(o, b, {"CAPTURED"})) + TransferPrincipals(TransfersOn(o, b))
    <3> DEFINE m == V!Principals(Snapshot, V!HoldsOf(Snapshot, <<o, b>>, {"CAPTURED"}))
               T == V!TransfersOf(Snapshot, <<o, b>>)
               n == V!SumFunction([x \in T |-> Snapshot.operations[x].material.terms.principal])
    <3>1. V!Consumed(Snapshot, <<o, b>>) = m + n  BY DEF V!Consumed
    <3>2. "ABSENT" \notin {"CAPTURED"}  OBVIOUS
    <3>3. m = HoldPrincipals(AdmittedOn(o, b, {"CAPTURED"}))  BY <3>2, HoldsCountAlike
    <3>4. n = TransferPrincipals(TransfersOn(o, b))  BY TransfersCountAlike
    <3> HIDE DEF m, n
    <3> QED  BY <3>1, <3>3, <3>4
  <2> QED  BY <2>1, <2>2, <2>3, <2>4, <2>5
<1>2. ASSUME NEW h \in V!HoldsIn(Snapshot, V!Outstanding \cup {"CAPTURED"})
      PROVE  V!LimitKey(Snapshot, h) \in DOMAIN Snapshot.usage
  <2>1. h \in Holds /\ hold[h].state # "ABSENT"  BY HoldsRead
  <2>2. hold[h].owner \in Owners /\ hold[h].bucket \in Buckets
    BY <2>1 DEF SoundBook, BookInv, LedgerInv, HoldsWellFormed
  <2>3. usage[<<hold[h].owner, hold[h].bucket>>].version > 0
    BY <2>1 DEF SoundBook, CountInv, HoldsCounted
  <2>4. V!LimitKey(Snapshot, h) = <<hold[h].owner, hold[h].bucket>>  BY <2>1, HoldsRead
  <2> QED  BY <2>2, <2>3, <2>4, UsageTable
<1>3. ASSUME NEW x \in V!TransfersIn(Snapshot)
      PROVE  V!TransferKey(Snapshot, x) \in DOMAIN Snapshot.usage
  <2> DEFINE k == <<owner[receipts[x].request.terms.source], receipts[x].bucket>>
  <2>1. x \in Ops /\ Applied(x, Transfers)  BY <1>3, TransferRead
  <2>2. V!TransferKey(Snapshot, x) = k  BY <2>1, TransferRead
  <2>3. TransferRecord(x)
    <3>1. x # FixtureOp /\ x \in Recorded
      BY <2>1, IdAssumption DEF RecordInv, FixtureRecorded, Applied, Requests, Recorded
    <3> QED  BY <2>1, <3>1, MaterialIs DEF RecordOf
  <2>4. usage[k].version > 0 /\ receipts[x].bucket \in Buckets  BY <2>3 DEF TransferRecord
  <2>5. owner[receipts[x].request.terms.source] \in Owners
    <3>1. /\ receipts[x].request.terms.source \in Accounts
          /\ Exists(receipts[x].request.terms.source)
      BY <2>3 DEF TransferRecord, Sound
    <3> QED  BY <3>1 DEF SoundBook, BookInv, LedgerInv, TypeOK, Exists
  <2> QED  BY <2>2, <2>4, <2>5, UsageTable
<1> QED  BY <1>1, <1>2, <1>3 DEF V!BadUsage

-----------------------------------------------------------------------------
\* All parts of the check together.
LEMMA BookVerifies ==
  ASSUME RecordedBook, HistoryInv
  PROVE  VerifierAccepts
<1> DEFINE s == Snapshot
<1>1. SoundBook /\ JournalsRecorded /\ RecordInv /\ ExecutionInv  BY DEF RecordedBook
<1>2. BookInv /\ LedgerInv /\ Timed  BY <1>1 DEF SoundBook, BookInv, HistoryInv
<1>3. DOMAIN s.operations = Recorded  BY OperationTable
<1>4. /\ V!Report("account", V!BadAccounts(s)) = {}
      /\ V!Report("journal without operation", V!OrphanJournals(s)) = {}
      /\ V!Report("orphan fact", V!OrphanFacts(s)) = {}
  BY <1>1, AccountsPass, JournalsOwned, FactsOwned DEF V!Report
<1>5. V!Report("operation", \E o \in DOMAIN s.operations : V!BadOperation(s, o)) = {}
  BY <1>1, <1>2, <1>3, OperationsPass DEF V!Report
<1>6. V!Report("journal line", \E l \in s.lines : V!BadLine(s, l)) = {}
  BY <1>1, LinesPass DEF V!Report
<1>7. V!Report("journal", \E j \in DOMAIN s.journals : V!BadJournal(s, j)) = {}
  BY <1>1, JournalsPass DEF V!Report
<1>8. V!Report("hold", \E h \in DOMAIN s.holds : V!BadHold(s, h)) = {}
  BY <1>1, HoldsPass DEF V!Report
<1>9. V!Report("claim", \E p \in DOMAIN s.claims : V!BadClaim(s, p)) = {}
  BY <1>1, ClaimsPass DEF V!Report
<1>10. V!Report("balance", \/ \E a \in DOMAIN s.accounts : V!BadBalance(s, a)
                           \/ DOMAIN s.balances # DOMAIN s.accounts) = {}
  BY <1>1, BalancesPass DEF V!Report
<1>11. V!Report("usage", V!BadUsage(s)) = {}
  BY <1>1, <1>2, UsagePasses DEF V!Report
<1>12. /\ V!Report("account history",
                   V!BadHistories(s, "account_events", s.accountEvents, s.balances)) = {}
       /\ V!Report("control history",
                   V!BadHistories(s, "control_events", s.controlEvents, s.controls)) = {}
       /\ V!Report("limit history",
                   V!BadHistories(s, "limit_events", s.limitEvents, s.usage)) = {}
  BY <1>1, <1>2, HistoriesPass DEF V!Report
<1>13. V!Report("hold history", \/ V!BadHistories(s, "hold_events", s.holdEvents, s.holds)
                                \/ V!BadHoldMoves(s)) = {}
  BY <1>1, <1>2, HoldHistoriesPass DEF V!Report
<1>14. V!Report("evidence",
                \/ \E e \in DOMAIN s.evidence : s.evidence[e].digest # s.evidence[e].body
                \/ \E o \in DOMAIN s.operations : V!BadEvidence(s, o)) = {}
  BY <1>1, <1>3, EvidenceTable, EvidencePasses DEF V!Report
<1>15. V!Report("template", \E o \in DOMAIN s.operations : V!TemplateMismatch(s, o)) = {}
  BY <1>1, <1>3, TemplatesPass DEF V!Report
<1> HIDE DEF s
<1>16. V!Problems(s) = {}
  BY <1>4, <1>5, <1>6, <1>7, <1>8, <1>9, <1>10, <1>11, <1>12, <1>13, <1>14, <1>15
     DEF V!Problems
<1> QED  BY <1>16 DEF VerifierAccepts, V!Valid, s

\* The verifier raises no false alarm: whatever commands a book has seen, in whatever
\* order, under whatever clock readings and for whatever sets of ids, amounts and
\* requests, its snapshot verifies (verify.Verify on what the export reads).
THEOREM VerifierNeverAlarms == AuditSpec => []VerifierAccepts
<1>1. RecordedBook /\ HistoryInv => VerifierAccepts  BY BookVerifies
<1> QED  BY <1>1, HistoriesUnbroken, PTL

-----------------------------------------------------------------------------
(***************************************************************************)
(* Damage.                                                                 *)
(***************************************************************************)
\* The tables of a snapshot.
TableNames ==
  {"accounts", "policies", "balances", "controls", "claims", "holds", "usage", "journals",
   "lines", "accountEvents", "controlEvents", "holdEvents", "limitEvents", "evidence",
   "operations", "facts"}

\* Two snapshots that differ in one table at most.
SameBut(s, name) == \A t \in TableNames \ {name} : s[t] = Snapshot[t]

\* Replacing one table leaves the others.
LEMMA OneTable ==
  ASSUME NEW name \in TableNames, NEW X
  PROVE  LET s == [Snapshot EXCEPT ![name] = X] IN s[name] = X /\ SameBut(s, name)
<1>1. DOMAIN Snapshot = TableNames  BY DEF Snapshot, TableNames
<1> QED  BY <1>1 DEF SameBut

\* What the verifier found in order, part by part.
Clean(s) ==
  /\ ~V!BadAccounts(s) /\ ~V!OrphanJournals(s) /\ ~V!OrphanFacts(s)
  /\ \A o \in DOMAIN s.operations : ~V!BadOperation(s, o)
  /\ \A l \in s.lines : ~V!BadLine(s, l)
  /\ \A j \in DOMAIN s.journals : ~V!BadJournal(s, j)
  /\ \A h \in DOMAIN s.holds : ~V!BadHold(s, h)
  /\ \A p \in DOMAIN s.claims : ~V!BadClaim(s, p)
  /\ \A a \in DOMAIN s.accounts : ~V!BadBalance(s, a)
  /\ DOMAIN s.balances = DOMAIN s.accounts /\ ~V!BadUsage(s)
  /\ ~V!BadHistories(s, "account_events", s.accountEvents, s.balances)
  /\ ~V!BadHistories(s, "control_events", s.controlEvents, s.controls)
  /\ ~V!BadHistories(s, "hold_events", s.holdEvents, s.holds) /\ ~V!BadHoldMoves(s)
  /\ ~V!BadHistories(s, "limit_events", s.limitEvents, s.usage)
  /\ \A e \in DOMAIN s.evidence : s.evidence[e].digest = s.evidence[e].body
  /\ \A o \in DOMAIN s.operations : ~V!BadEvidence(s, o)
  /\ \A o \in DOMAIN s.operations : ~V!TemplateMismatch(s, o)

\* A snapshot that verifies is in order in every part.
LEMMA ValidSays ==
  ASSUME NEW s, V!Valid(s)
  PROVE  Clean(s)
<1> DEFINE P == V!Problems(s)
<1>1. P = {}  BY DEF V!Valid
<1>2. /\ V!Report("account", V!BadAccounts(s)) \subseteq P
      /\ V!Report("journal without operation", V!OrphanJournals(s)) \subseteq P
      /\ V!Report("orphan fact", V!OrphanFacts(s)) \subseteq P
      /\ V!Report("operation", \E o \in DOMAIN s.operations : V!BadOperation(s, o)) \subseteq P
      /\ V!Report("journal line", \E l \in s.lines : V!BadLine(s, l)) \subseteq P
      /\ V!Report("journal", \E j \in DOMAIN s.journals : V!BadJournal(s, j)) \subseteq P
      /\ V!Report("hold", \E h \in DOMAIN s.holds : V!BadHold(s, h)) \subseteq P
      /\ V!Report("claim", \E p \in DOMAIN s.claims : V!BadClaim(s, p)) \subseteq P
  BY DEF V!Problems
<1>3. /\ V!Report("balance", \/ \E a \in DOMAIN s.accounts : V!BadBalance(s, a)
                             \/ DOMAIN s.balances # DOMAIN s.accounts) \subseteq P
      /\ V!Report("usage", V!BadUsage(s)) \subseteq P
      /\ V!Report("account history",
                  V!BadHistories(s, "account_events", s.accountEvents, s.balances)) \subseteq P
      /\ V!Report("control history",
                  V!BadHistories(s, "control_events", s.controlEvents, s.controls)) \subseteq P
      /\ V!Report("hold history", \/ V!BadHistories(s, "hold_events", s.holdEvents, s.holds)
                                  \/ V!BadHoldMoves(s)) \subseteq P
      /\ V!Report("limit history",
                  V!BadHistories(s, "limit_events", s.limitEvents, s.usage)) \subseteq P
      /\ V!Report("evidence",
                  \/ \E e \in DOMAIN s.evidence : s.evidence[e].digest # s.evidence[e].body
                  \/ \E o \in DOMAIN s.operations : V!BadEvidence(s, o)) \subseteq P
      /\ V!Report("template", \E o \in DOMAIN s.operations : V!TemplateMismatch(s, o))
           \subseteq P
  BY DEF V!Problems
<1> HIDE DEF P
<1>4. /\ ~V!BadAccounts(s) /\ ~V!OrphanJournals(s) /\ ~V!OrphanFacts(s)
      /\ \A o \in DOMAIN s.operations : ~V!BadOperation(s, o)
      /\ \A l \in s.lines : ~V!BadLine(s, l)
      /\ \A j \in DOMAIN s.journals : ~V!BadJournal(s, j)
      /\ \A h \in DOMAIN s.holds : ~V!BadHold(s, h)
      /\ \A p \in DOMAIN s.claims : ~V!BadClaim(s, p)
  BY <1>1, <1>2 DEF V!Report
<1>5. /\ \A a \in DOMAIN s.accounts : ~V!BadBalance(s, a)
      /\ DOMAIN s.balances = DOMAIN s.accounts /\ ~V!BadUsage(s)
      /\ ~V!BadHistories(s, "account_events", s.accountEvents, s.balances)
      /\ ~V!BadHistories(s, "control_events", s.controlEvents, s.controls)
      /\ ~V!BadHistories(s, "hold_events", s.holdEvents, s.holds) /\ ~V!BadHoldMoves(s)
      /\ ~V!BadHistories(s, "limit_events", s.limitEvents, s.usage)
      /\ \A e \in DOMAIN s.evidence : s.evidence[e].digest = s.evidence[e].body
      /\ \A o \in DOMAIN s.operations : ~V!BadEvidence(s, o)
      /\ \A o \in DOMAIN s.operations : ~V!TemplateMismatch(s, o)
  BY <1>1, <1>3 DEF V!Report
<1> QED  BY <1>4, <1>5 DEF Clean

\* A row that was taken out of a table is not in it.
LEMMA RowGone ==
  ASSUME NEW f, NEW x
  PROVE  x \notin DOMAIN Without(f, x)
BY DEF Without

\* A row whose history is in order cannot go and leave its history.
LEMMA RowMissing ==
  ASSUME NEW q, NEW table, NEW log, NEW current, ~V!BadHistories(q, table, log, current),
         NEW k \in DOMAIN current, NEW s
  PROVE  V!BadHistories(s, table, log, Without(current, k))
<1>1. ~V!BrokenHistory(log, k, current[k].version)  BY DEF V!BadHistories
<1>2. V!Cardinality(V!EventsOf(log, k)) # 0  BY <1>1 DEF V!BrokenHistory
<1>3. V!Cardinality({}) = 0  BY SameCount, FS_EmptySet
<1>4. PICK e \in V!EventsOf(log, k) : TRUE  BY <1>2, <1>3
<1>5. e \in log /\ e.key \notin DOMAIN Without(current, k)  BY RowGone DEF V!EventsOf
<1> QED  BY <1>5 DEF V!BadHistories, V!OrphanHistory

\* Nor can an event go: its version is missing from the chain.
LEMMA EventMissing ==
  ASSUME NEW q, NEW table, NEW log, NEW current, ~V!BadHistories(q, table, log, current),
         NEW e \in log, \A d \in V!EventsOf(log, e.key) : d.version = e.version => d = e,
         NEW s
  PROVE  V!BadHistories(s, table, log \ {e}, current)
<1> DEFINE k == e.key
           v == current[k].version
           old == V!EventsOf(log, k)
           new == V!EventsOf(log \ {e}, k)
<1>1. k \in DOMAIN current  BY DEF V!BadHistories, V!OrphanHistory
<1> SUFFICES ASSUME ~V!BrokenHistory(log \ {e}, k, v) PROVE FALSE
  BY <1>1 DEF V!BadHistories
<1>2. ~V!BrokenHistory(log, k, v)  BY <1>1 DEF V!BadHistories
<1>3. v = V!Cardinality(old) /\ {d.version : d \in old} = 1 .. V!Cardinality(old)
  BY <1>2 DEF V!BrokenHistory
<1>4. v = V!Cardinality(new) /\ {d.version : d \in new} = 1 .. V!Cardinality(new)
  BY DEF V!BrokenHistory
<1>5. e \in old /\ \A d \in new : d \in old /\ d # e  BY DEF V!EventsOf
<1> HIDE DEF old, new
<1>6. {d.version : d \in old} = {d.version : d \in new}  BY <1>3, <1>4
<1>7. PICK d \in new : d.version = e.version  BY <1>5, <1>6
<1> QED  BY <1>5, <1>7 DEF old

\* The tables of a snapshot that differs from the book's in one.
LEMMA OtherTables ==
  ASSUME NEW name, NEW s, SameBut(s, name)
  PROVE  /\ name # "accounts" => s.accounts = Snapshot.accounts
         /\ name # "balances" => s.balances = Snapshot.balances
         /\ name # "controls" => s.controls = Snapshot.controls
         /\ name # "claims" => s.claims = Snapshot.claims
         /\ name # "holds" => s.holds = Snapshot.holds
         /\ name # "usage" => s.usage = Snapshot.usage
         /\ name # "journals" => s.journals = Snapshot.journals
         /\ name # "lines" => s.lines = Snapshot.lines
         /\ name # "accountEvents" => s.accountEvents = Snapshot.accountEvents
         /\ name # "controlEvents" => s.controlEvents = Snapshot.controlEvents
         /\ name # "holdEvents" => s.holdEvents = Snapshot.holdEvents
         /\ name # "limitEvents" => s.limitEvents = Snapshot.limitEvents
         /\ name # "evidence" => s.evidence = Snapshot.evidence
         /\ name # "operations" => s.operations = Snapshot.operations
         /\ name # "facts" => s.facts = Snapshot.facts
         /\ name # "policies" => s.policies = Snapshot.policies
BY DEF SameBut, TableNames

\* The book itself is in order in every part.
LEMMA BookClean ==
  ASSUME RecordedBook, HistoryInv
  PROVE  Clean(Snapshot)
BY BookVerifies, ValidSays DEF VerifierAccepts

\* Without an account or its balance, the two tables do not match.
LEMMA AccountMissing ==
  ASSUME RecordedBook, HistoryInv, NEW s, NEW a,
         \/ /\ SameBut(s, "accounts") /\ a \in DOMAIN Snapshot.accounts
            /\ s.accounts = Without(Snapshot.accounts, a)
         \/ /\ SameBut(s, "balances") /\ a \in DOMAIN Snapshot.balances
            /\ s.balances = Without(Snapshot.balances, a)
  PROVE  ~V!Valid(s)
<1>1. DOMAIN Snapshot.balances = DOMAIN Snapshot.accounts  BY BookClean DEF Clean
<1>2. DOMAIN s.balances # DOMAIN s.accounts
  <2>1. CASE SameBut(s, "accounts") /\ s.accounts = Without(Snapshot.accounts, a)
             /\ a \in DOMAIN Snapshot.accounts
    <3>1. s.balances = Snapshot.balances  BY <2>1, OtherTables
    <3>2. a \notin DOMAIN s.accounts  BY <2>1, RowGone
    <3> QED  BY <1>1, <2>1, <3>1, <3>2
  <2>2. CASE SameBut(s, "balances") /\ s.balances = Without(Snapshot.balances, a)
             /\ a \in DOMAIN Snapshot.balances
    <3>1. s.accounts = Snapshot.accounts  BY <2>2, OtherTables
    <3>2. a \notin DOMAIN s.balances  BY <2>2, RowGone
    <3> QED  BY <1>1, <2>2, <3>1, <3>2
  <2> QED  BY <2>1, <2>2
<1> QED  BY <1>2, ValidSays DEF Clean

\* A spending control, a hold or a limit leaves its history behind.
LEMMA HistoryLeft ==
  ASSUME RecordedBook, HistoryInv, NEW s, NEW k,
         \/ /\ SameBut(s, "controls") /\ k \in DOMAIN Snapshot.controls
            /\ s.controls = Without(Snapshot.controls, k)
         \/ /\ SameBut(s, "holds") /\ k \in DOMAIN Snapshot.holds
            /\ s.holds = Without(Snapshot.holds, k)
         \/ /\ SameBut(s, "usage") /\ k \in DOMAIN Snapshot.usage
            /\ s.usage = Without(Snapshot.usage, k)
  PROVE  ~V!Valid(s)
<1> DEFINE q == Snapshot
<1>1. /\ ~V!BadHistories(q, "control_events", q.controlEvents, q.controls)
      /\ ~V!BadHistories(q, "hold_events", q.holdEvents, q.holds)
      /\ ~V!BadHistories(q, "limit_events", q.limitEvents, q.usage)
  BY BookClean DEF Clean
<1>2. CASE SameBut(s, "controls") /\ s.controls = Without(q.controls, k)
           /\ k \in DOMAIN q.controls
  <2>1. s.controlEvents = q.controlEvents  BY <1>2, OtherTables
  <2>2. V!BadHistories(s, "control_events", q.controlEvents, Without(q.controls, k))
    BY <1>1, <1>2, RowMissing
  <2> QED  BY <1>2, <2>1, <2>2, ValidSays DEF Clean
<1>3. CASE SameBut(s, "holds") /\ s.holds = Without(q.holds, k) /\ k \in DOMAIN q.holds
  <2>1. s.holdEvents = q.holdEvents  BY <1>3, OtherTables
  <2>2. V!BadHistories(s, "hold_events", q.holdEvents, Without(q.holds, k))
    BY <1>1, <1>3, RowMissing
  <2> QED  BY <1>3, <2>1, <2>2, ValidSays DEF Clean
<1>4. CASE SameBut(s, "usage") /\ s.usage = Without(q.usage, k) /\ k \in DOMAIN q.usage
  <2>1. s.limitEvents = q.limitEvents  BY <1>4, OtherTables
  <2>2. V!BadHistories(s, "limit_events", q.limitEvents, Without(q.usage, k))
    BY <1>1, <1>4, RowMissing
  <2> QED  BY <1>4, <2>1, <2>2, ValidSays DEF Clean
<1> QED  BY <1>2, <1>3, <1>4

\* No two events of one row have the same version.
LEMMA EventsDiffer ==
  ASSUME HistoryInv
  PROVE  /\ \A e \in accountEvents : \A d \in V!EventsOf(accountEvents, e.key) :
              d.version = e.version => d = e
         /\ \A e \in controlEvents : \A d \in V!EventsOf(controlEvents, e.key) :
              d.version = e.version => d = e
         /\ \A e \in limitEvents : \A d \in V!EventsOf(limitEvents, e.key) :
              d.version = e.version => d = e
         /\ \A e \in holdEvents : \A d \in V!EventsOf(holdEvents, e.key) :
              d.version = e.version => d = e
<1>1. ASSUME NEW log, NEW rows, Unbroken(log, rows), NEW e \in log,
             NEW d \in V!EventsOf(log, e.key), d.version = e.version
      PROVE  d = e
  <2>1. Chained(V!EventsOf(log, e.key), rows[e.key])  BY <1>1 DEF Unbroken
  <2>2. e \in V!EventsOf(log, e.key)  BY DEF V!EventsOf
  <2> QED  BY <1>1, <2>1, <2>2 DEF Chained
<1>2. ASSUME NEW e \in holdEvents, NEW d \in V!EventsOf(holdEvents, e.key),
             d.version = e.version
      PROVE  d = e
  <2> DEFINE h == e.key
  <2>1. HoldChained(V!EventsOf(holdEvents, h), FixedTerms(h, hold[h]),
                    V!Truncate(hold[h].reserve.expiresAt), hold[h])
    BY DEF HistoryInv, HoldsUnbroken
  <2>2. e \in V!EventsOf(holdEvents, h)  BY DEF V!EventsOf
  <2> QED  BY <1>2, <2>1, <2>2 DEF HoldChained
<1>3. Unbroken(accountEvents, balance) /\ Unbroken(controlEvents, control)
      /\ Unbroken(limitEvents, usage)
  BY DEF HistoryInv
<1> QED  BY <1>1, <1>2, <1>3

\* An event leaves a gap.
LEMMA GapLeft ==
  ASSUME RecordedBook, HistoryInv, NEW s, NEW e,
         \/ /\ SameBut(s, "accountEvents") /\ e \in accountEvents
            /\ s.accountEvents = accountEvents \ {e}
         \/ /\ SameBut(s, "controlEvents") /\ e \in controlEvents
            /\ s.controlEvents = controlEvents \ {e}
         \/ /\ SameBut(s, "holdEvents") /\ e \in holdEvents
            /\ s.holdEvents = holdEvents \ {e}
         \/ /\ SameBut(s, "limitEvents") /\ e \in limitEvents
            /\ s.limitEvents = limitEvents \ {e}
  PROVE  ~V!Valid(s)
<1> DEFINE q == Snapshot
<1>1. /\ ~V!BadHistories(q, "account_events", accountEvents, q.balances)
      /\ ~V!BadHistories(q, "control_events", controlEvents, q.controls)
      /\ ~V!BadHistories(q, "hold_events", holdEvents, q.holds)
      /\ ~V!BadHistories(q, "limit_events", limitEvents, q.usage)
  BY BookClean, Tables DEF Clean
<1>2. CASE SameBut(s, "accountEvents") /\ s.accountEvents = accountEvents \ {e}
           /\ e \in accountEvents
  <2>1. s.balances = q.balances  BY <1>2, OtherTables
  <2>2. V!BadHistories(s, "account_events", accountEvents \ {e}, q.balances)
    BY <1>1, <1>2, EventsDiffer, EventMissing
  <2> QED  BY <1>2, <2>1, <2>2, ValidSays DEF Clean
<1>3. CASE SameBut(s, "controlEvents") /\ s.controlEvents = controlEvents \ {e}
           /\ e \in controlEvents
  <2>1. s.controls = q.controls  BY <1>3, OtherTables
  <2>2. V!BadHistories(s, "control_events", controlEvents \ {e}, q.controls)
    BY <1>1, <1>3, EventsDiffer, EventMissing
  <2> QED  BY <1>3, <2>1, <2>2, ValidSays DEF Clean
<1>4. CASE SameBut(s, "holdEvents") /\ s.holdEvents = holdEvents \ {e} /\ e \in holdEvents
  <2>1. s.holds = q.holds  BY <1>4, OtherTables
  <2>2. V!BadHistories(s, "hold_events", holdEvents \ {e}, q.holds)
    BY <1>1, <1>4, EventsDiffer, EventMissing
  <2> QED  BY <1>4, <2>1, <2>2, ValidSays DEF Clean
<1>5. CASE SameBut(s, "limitEvents") /\ s.limitEvents = limitEvents \ {e} /\ e \in limitEvents
  <2>1. s.usage = q.usage  BY <1>5, OtherTables
  <2>2. V!BadHistories(s, "limit_events", limitEvents \ {e}, q.usage)
    BY <1>1, <1>5, EventsDiffer, EventMissing
  <2> QED  BY <1>5, <2>1, <2>2, ValidSays DEF Clean
<1> QED  BY <1>2, <1>3, <1>4, <1>5

\* Without its claim, the admission of a payment is unclaimed.
LEMMA ClaimMissing ==
  ASSUME RecordedBook, HistoryInv, NEW s, SameBut(s, "claims"),
         NEW p \in DOMAIN Snapshot.claims, s.claims = Without(Snapshot.claims, p)
  PROVE  ~V!Valid(s)
<1> DEFINE o == claim[p].admission
<1>1. p \in Payments /\ claim[p].state # "ABSENT"  BY ClaimTable
<1>2. RecordInv /\ ClaimRecord(p)  BY <1>1 DEF RecordedBook, RecordInv, ClaimsRecorded
<1>3. /\ o \in Ops /\ receipts[o].outcome \in {"APPLIED", "REJECTED"}
      /\ receipts[o].request \in Transfers \cup Reserves
      /\ receipts[o].request.terms.payment = p
  BY <1>2 DEF ClaimRecord
<1>4. o # FixtureOp
  <2>1. receipts[FixtureOp].request = NoRequest  BY <1>2 DEF RecordInv, FixtureRecorded
  <2> QED  BY <1>3, <2>1, IdAssumption DEF Requests
<1>5. /\ o \in Recorded /\ Material(o).kind = receipts[o].request.kind
      /\ Material(o).terms.payment = p
  <2>1. o \in Recorded  BY <1>3 DEF Recorded
  <2> QED  BY <1>2, <1>3, <1>4, <2>1, MaterialIs
<1>6. Material(o).kind \in {"TRANSFER_INTERNAL", "RESERVE_PAYOUT"}
  BY <1>3, <1>5, KindSays DEF Requests
<1>7. o \in DOMAIN s.operations /\ s.operations[o].material = Material(o)
      /\ s.operations[o].receipt.kind = Material(o).kind
  BY <1>5, OtherTables, OperationTable, ReceiptIs
<1>8. p \notin DOMAIN s.claims  BY RowGone
<1>9. V!AdmissionUnclaimed(s, o)  BY <1>3, <1>5, <1>6, <1>7, <1>8 DEF V!AdmissionUnclaimed
<1>10. V!BadOperation(s, o)  BY <1>9 DEF V!BadOperation
<1> QED  BY <1>7, <1>10, ValidSays DEF Clean

\* Without a journal, its lines are of none.
LEMMA JournalMissing ==
  ASSUME NEW s, SameBut(s, "journals"),
         NEW j \in DOMAIN Snapshot.journals, s.journals = Without(Snapshot.journals, j)
  PROVE  ~V!Valid(s)
<1>1. j \in Ops /\ journal[j] # {}  BY JournalTable
<1>2. PICK l \in journal[j] : TRUE  BY <1>1
<1>3. Stored(j, l) \in s.lines  BY <1>1, OtherTables, LineTable
<1>4. Stored(j, l).journal = j /\ j \notin DOMAIN s.journals
  <2>1. j \notin DOMAIN s.journals  BY RowGone
  <2> QED  BY <2>1, LineParts
<1>5. V!BadLine(s, Stored(j, l))  BY <1>4 DEF V!BadLine
<1> QED  BY <1>3, <1>5, ValidSays DEF Clean

\* Without an operation, its fact is of none; without its fact, it has none.
LEMMA OperationMissing ==
  ASSUME NEW s, NEW o,
         \/ /\ SameBut(s, "operations") /\ o \in DOMAIN Snapshot.operations
            /\ s.operations = Without(Snapshot.operations, o)
         \/ /\ SameBut(s, "facts") /\ o \in DOMAIN Snapshot.facts
            /\ s.facts = Without(Snapshot.facts, o)
  PROVE  ~V!Valid(s)
<1>1. o \in Recorded  BY OperationTable
<1>2. CASE SameBut(s, "operations") /\ s.operations = Without(Snapshot.operations, o)
  <2>1. s.facts = Snapshot.facts  BY <1>2, OtherTables
  <2>2. o \in DOMAIN s.facts /\ s.facts[o].op = o  BY <1>1, <2>1, OperationTable
  <2>3. o \notin DOMAIN s.operations  BY <1>2, RowGone
  <2>4. V!OrphanFacts(s)  BY <2>2, <2>3 DEF V!OrphanFacts
  <2> QED  BY <2>4, ValidSays DEF Clean
<1>3. CASE SameBut(s, "facts") /\ s.facts = Without(Snapshot.facts, o)
  <2>1. s.operations = Snapshot.operations  BY <1>3, OtherTables
  <2>2. o \in DOMAIN s.operations /\ s.operations[o].receipt.event = o
    BY <1>1, <2>1, OperationTable, ReceiptIs
  <2>3. o \notin DOMAIN s.facts  BY <1>3, RowGone
  <2>4. ~V!HasFact(s, o)  BY <2>2, <2>3 DEF V!HasFact
  <2>5. V!BadOperation(s, o)  BY <2>4 DEF V!BadOperation
  <2> QED  BY <2>2, <2>5, ValidSays DEF Clean
<1> QED  BY <1>1, <1>2, <1>3

\* A line that is not counted any more is missing from the balance of its account, whatever
\* has become of it.
LEMMA LineMissed ==
  ASSUME RecordedBook, HistoryInv, NEW l \in Snapshot.lines, NEW s,
         s.accounts = Snapshot.accounts, s.balances = Snapshot.balances,
         PostedLines(s, l.account, l.side)
           = PostedLines(Snapshot, l.account, l.side) \ {l}
  PROVE  ~V!Valid(s)
<1> DEFINE a == l.account
           side == l.side
           q == Snapshot
           P == PostedLines(q, a, side)
           R == PostedLines(s, a, side)
           f == [x \in P |-> x.units]
           g == [x \in R |-> x.units]
<1>1. SoundBook /\ JournalsRecorded /\ RecordInv  BY DEF RecordedBook
<1>2. \A x \in q.lines : x.units \in Int
  <2> TAKE x \in q.lines
  <2>1. PICK o \in Ops : \E m \in journal[o] : x = Stored(o, m)  BY LineTable
  <2>2. PICK m \in journal[o] : x = Stored(o, m)  BY <2>1
  <2>3. m \in JournalLine  BY <1>1 DEF SoundBook, BookInv, LedgerInv, TypeOK
  <2> QED  BY <2>2, <2>3, LineParts, BoundsAssumption DEF JournalLine, Amounts
<1>3. ~V!BadLine(q, l)  BY BookClean DEF Clean
<1>4. /\ l.journal \in DOMAIN q.journals /\ a \in DOMAIN q.accounts
      /\ l.units > 0 /\ side \in {"DEBIT", "CREDIT"}
  BY <1>2, <1>3 DEF V!BadLine
<1>5. a \in Accounts  BY <1>4, AccountTable
<1>6. l \in P /\ R = P \ {l} /\ P \subseteq q.lines  BY <1>4 DEF PostedLines
<1>7. IsFiniteSet(P) /\ IsFiniteSet(R)  BY <1>1, <1>5, <1>6, TotalsAgree, FS_Subset
<1>8. V!SideTotal(q, a, side) = SumFunction(f) /\ V!SideTotal(s, a, side) = SumFunction(g)
  <2>1. V!SideTotal(q, a, side) = V!SumFunction(f) /\ V!SideTotal(s, a, side) = V!SumFunction(g)
    BY DEF V!SideTotal, PostedLines
  <2> QED  BY <2>1, SameSum
<1>9. V!SideTotal(q, a, side) # V!SideTotal(s, a, side)
  <2>1. DOMAIN f = P /\ DOMAIN g = R /\ (\A x \in P : f[x] = x.units) /\ (\A x \in R : g[x] = x.units)
    OBVIOUS
  <2> HIDE DEF f, g, P, R
  <2>2. Summable(f) /\ Summable(g)  BY <1>2, <1>6, <1>7, <2>1 DEF Summable
  <2>3. DifferAt(f, g, l)  BY <1>6, <2>1 DEF DifferAt
  <2>4. At(f, l) = l.units /\ At(g, l) = 0 /\ l.units \in Int  BY <1>2, <1>6, <2>1 DEF At
  <2>5. /\ SumFunction(f) \in Int /\ SumFunction(g) \in Int
        /\ SumFunction(g) = SumFunction(f) + At(g, l) - At(f, l)
    BY <2>2, <2>3, SumChange
  <2> QED  BY <1>4, <1>8, <2>4, <2>5
<1>10. ~V!BadBalance(q, a) /\ a \in DOMAIN s.accounts  BY <1>4, BookClean DEF Clean
<1>11. /\ side = "DEBIT" => q.balances[a].debits = V!SideTotal(q, a, side)
       /\ side = "CREDIT" => q.balances[a].credits = V!SideTotal(q, a, side)
  BY <1>10 DEF V!BadBalance
<1>12. \/ s.balances[a].debits # V!SideTotal(s, a, "DEBIT")
       \/ s.balances[a].credits # V!SideTotal(s, a, "CREDIT")
  BY <1>4, <1>9, <1>11
<1>13. V!BadBalance(s, a)  BY <1>12 DEF V!BadBalance
<1> QED  BY <1>10, <1>13, ValidSays DEF Clean

\* A line cannot go, whether or not the digest of its journal goes with it.
LEMMA LineMissing ==
  ASSUME RecordedBook, HistoryInv, NEW l \in Snapshot.lines,
         NEW s, s = [Snapshot EXCEPT !.lines = @ \ {l}]
  PROVE  ~V!Valid(s) /\ ~V!Valid(Redigested(s, l.journal))
<1> DEFINE X == Snapshot.lines \ {l}
           j == l.journal
           d == V!Entries(s, j)
           t == [s EXCEPT !.journals[j].digest = d]
<1>1. s.lines = X /\ SameBut(s, "lines")
  <2>1. "lines" \in TableNames  BY DEF TableNames
  <2> HIDE DEF X
  <2>2. s = [Snapshot EXCEPT !["lines"] = X]  BY DEF X
  <2> QED  BY <2>1, <2>2, OneTable
<1>2. s.accounts = Snapshot.accounts /\ s.balances = Snapshot.balances
      /\ s.journals = Snapshot.journals
  BY <1>1, OtherTables
<1>3. PostedLines(s, l.account, l.side) = PostedLines(Snapshot, l.account, l.side) \ {l}
  BY <1>1, <1>2 DEF PostedLines
<1>4. /\ t.accounts = s.accounts /\ t.balances = s.balances /\ t.lines = s.lines
      /\ DOMAIN t.journals = DOMAIN s.journals
  <2>1. DOMAIN s = TableNames  BY DEF Snapshot, TableNames
  <2> HIDE DEF d
  <2> QED  BY <2>1 DEF TableNames
<1> HIDE DEF t
<1>5. PostedLines(t, l.account, l.side) = PostedLines(Snapshot, l.account, l.side) \ {l}
  BY <1>3, <1>4 DEF PostedLines
<1>6. ~V!Valid(s)  BY <1>2, <1>3, LineMissed
<1>7. ~V!Valid(t)  BY <1>2, <1>4, <1>5, LineMissed
<1> QED  BY <1>6, <1>7 DEF Redigested, t

-----------------------------------------------------------------------------
(***************************************************************************)
(* Where the rows come from.                                               *)
(***************************************************************************)
\* Evidence is there because some operation kept it.
OriginInv ==
  \A e \in EvidenceIds : evidence[e] # NoEvidence =>
    \E o \in Recorded : e \in EvidenceKept(o)

\* The evidence a plan writes, if any, is that of the command it is written with.
Keeps(r) ==
  \/ UNCHANGED evidence
  \/ /\ r \in Captures \cup Releases /\ r.evidence # NoEvidence
     /\ evidence' = [evidence EXCEPT ![r.evidence.id] = r.evidence]
     /\ (\E b : Record(r, b)) \/ Reject(r, "STATE_CONFLICT")

\* One command on record keeps this.
LEMMA CommandOrigin ==
  ASSUME LedgerInv, RecordInv, OriginInv, NEW r \in Requests, receipts[r.op].outcome = "NONE",
         (\E b : Record(r, b)) \/ (\E v : Reject(r, v)), Keeps(r)
  PROVE  OriginInv'
<1>1. r.op \in Ops /\ r.op # FixtureOp
  BY RequestOps DEF RecordInv, FixtureRecorded
<1>2. /\ receipts'[r.op].request = r /\ receipts'[r.op].outcome # "NONE"
      /\ \A x \in Ops \ {r.op} : receipts'[x] = receipts[x]
  <2>1. CASE \E b : Record(r, b)  BY <2>1, RecordEffect
  <2>2. CASE \E v : Reject(r, v)  BY <2>2, RejectEffect
  <2> QED  BY <2>1, <2>2
<1>3. \A o \in Recorded : o \in Recorded' /\ EvidenceKept(o)' = EvidenceKept(o)
  <2> TAKE o \in Recorded
  <2>1. o \in Ops /\ receipts'[o] = receipts[o] /\ receipts[o].outcome # "NONE"
    BY <1>2 DEF Recorded
  <2> QED  BY <2>1 DEF Recorded, EvidenceKept
<1>4. ASSUME NEW e \in EvidenceIds, evidence'[e] # NoEvidence
      PROVE  \E o \in Recorded' : e \in EvidenceKept(o)'
  <2>1. CASE evidence'[e] = evidence[e]
    <3>1. PICK o \in Recorded : e \in EvidenceKept(o)  BY <1>4, <2>1 DEF OriginInv
    <3> QED  BY <1>3, <3>1
  <2>2. CASE evidence'[e] # evidence[e]
    <3>1. /\ r \in Captures \cup Releases /\ r.evidence # NoEvidence
          /\ evidence' = [evidence EXCEPT ![r.evidence.id] = r.evidence]
          /\ (\E b : Record(r, b)) \/ Reject(r, "STATE_CONFLICT")
      BY <2>2 DEF Keeps
    <3>2. r.evidence.id = e  BY <2>2, <3>1 DEF LedgerInv, TypeOK
    <3>3. receipts'[r.op].outcome = "APPLIED" \/ receipts'[r.op].reason = "STATE_CONFLICT"
      <4>1. CASE \E b : Record(r, b)  BY <4>1, RecordEffect
      <4>2. CASE Reject(r, "STATE_CONFLICT")
        <5>1. receipts'[r.op] = Receipt("REJECTED", "STATE_CONFLICT", r, NoBucket)
          BY <1>1, <4>2 DEF Reject, LedgerInv, TypeOK
        <5> QED  BY <5>1 DEF Receipt
      <4> QED  BY <3>1, <4>1, <4>2
    <3>4. e \in EvidenceKept(r.op)'  BY <1>1, <1>2, <3>1, <3>2, <3>3 DEF EvidenceKept
    <3>5. r.op \in Recorded'  BY <1>1, <1>2 DEF Recorded
    <3> QED  BY <3>4, <3>5
  <2> QED  BY <2>1, <2>2
<1> QED  BY <1>4 DEF OriginInv

\* So does every step.
LEMMA NextOrigin ==
  ASSUME LedgerInv, RecordInv, OriginInv, Next
  PROVE  OriginInv'
<1> SUFFICES \E r \in Requests : /\ receipts[r.op].outcome = "NONE"
                                 /\ (\E b : Record(r, b)) \/ (\E v : Reject(r, v))
                                 /\ Keeps(r)
  BY CommandOrigin
<1>1. CASE \E r \in Creates : CreateAccount(r)
  <2>1. PICK r \in Creates : CreateAccount(r)  BY <1>1
  <2> QED  BY <2>1 DEF CreateAccount, Fresh, Requests, Keeps
<1>2. CASE \E r \in SetControls : SetAccountControl(r)
  <2>1. PICK r \in SetControls : SetAccountControl(r)  BY <1>2
  <2> QED  BY <2>1 DEF SetAccountControl, Fresh, Requests, Keeps
<1>3. CASE \E r \in Transfers, now \in Times : TransferInternal(r, now)
  <2>1. PICK r \in Transfers, now \in Times : TransferInternal(r, now)  BY <1>3
  <2> QED  BY <2>1 DEF TransferInternal, RejectAdmission, Fresh, Requests, Keeps
<1>4. CASE \E r \in Reserves, now \in Times : ReservePayout(r, now)
  <2>1. PICK r \in Reserves, now \in Times : ReservePayout(r, now)  BY <1>4
  <2> QED  BY <2>1 DEF ReservePayout, RejectAdmission, Fresh, Requests, Keeps
<1>5. CASE \E r \in Exposes, now \in Times, known \in BOOLEAN : MarkHoldExposed(r, now, known)
  <2>1. PICK r \in Exposes, now \in Times, known \in BOOLEAN : MarkHoldExposed(r, now, known)
    BY <1>5
  <2> QED  BY <2>1 DEF MarkHoldExposed, Fresh, Requests, Keeps
<1>6. CASE \E r \in Captures, now \in Times : CapturePayout(r, now)
  <2>1. PICK r \in Captures, now \in Times : CapturePayout(r, now)  BY <1>6
  <2> DEFINE v == CaptureVerdict(r, now)
  <2>2. /\ receipts[r.op].outcome = "NONE" /\ r \in Requests /\ KeepEvidence(r.evidence, v)
        /\ (v = "APPLIED" /\ \E b : Record(r, b)) \/ Reject(r, v)
    BY <2>1 DEF CapturePayout, Fresh, Requests
  <2>3. r.evidence # NoEvidence  BY IdAssumption, RequestAssumption DEF CaptureRequest
  <2> HIDE DEF v
  <2>4. "APPLIED" \notin Reasons  BY DEF Reasons
  <2>5. v \in {"APPLIED", "STATE_CONFLICT"} => (\E b : Record(r, b)) \/ Reject(r, "STATE_CONFLICT")
    BY <2>2, <2>4 DEF Reject
  <2>6. Keeps(r)  BY <2>2, <2>3, <2>5 DEF Keeps, KeepEvidence
  <2> QED  BY <2>2, <2>6
<1>7. CASE \E r \in Releases, now \in Times : ReleasePayout(r, now)
  <2>1. PICK r \in Releases, now \in Times : ReleasePayout(r, now)  BY <1>7
  <2> DEFINE v == ReleaseVerdict(r, now)
  <2>2. /\ receipts[r.op].outcome = "NONE" /\ r \in Requests
        /\ UNCHANGED evidence \/ (KeepEvidence(r.evidence, v) /\ r.evidence # NoEvidence)
        /\ (v = "APPLIED" /\ \E b : Record(r, b)) \/ Reject(r, v)
    BY <2>1 DEF ReleasePayout, Fresh, Requests
  <2> HIDE DEF v
  <2>3. "APPLIED" \notin Reasons  BY DEF Reasons
  <2>4. v \in {"APPLIED", "STATE_CONFLICT"} => (\E b : Record(r, b)) \/ Reject(r, "STATE_CONFLICT")
    BY <2>2, <2>3 DEF Reject
  <2>5. Keeps(r)  BY <2>2, <2>4 DEF Keeps, KeepEvidence
  <2> QED  BY <2>2, <2>5
<1> QED  BY <1>1, <1>2, <1>3, <1>4, <1>5, <1>6, <1>7 DEF Next

\* Whatever is committed, evidence is some operation's.
LEMMA OriginsKnown == Spec => []OriginInv
<1>1. Init => OriginInv
  <2> SUFFICES ASSUME Init PROVE OriginInv  OBVIOUS
  <2>1. \A e \in EvidenceIds : evidence[e] = NoEvidence  BY DEF Init
  <2> QED  BY <2>1 DEF OriginInv
<1>2. LedgerInv /\ RecordInv /\ OriginInv /\ [Next]_vars => OriginInv'
  <2> SUFFICES ASSUME LedgerInv, RecordInv, OriginInv, [Next]_vars PROVE OriginInv'  OBVIOUS
  <2>1. CASE Next  BY <2>1, NextOrigin
  <2>2. CASE UNCHANGED vars
    <3>1. UNCHANGED <<receipts, evidence>>  BY <2>2 DEF vars
    <3> QED  BY <3>1 DEF OriginInv, Recorded, EvidenceKept
  <2> QED  BY <2>1, <2>2
<1>3. RecordedBook => LedgerInv /\ RecordInv  BY DEF RecordedBook, SoundBook, BookInv
<1> QED  BY <1>1, <1>2, <1>3, BookRecorded, PTL DEF Spec

\* Without its evidence, the operation that kept it has none.
LEMMA EvidenceMissing ==
  ASSUME OriginInv, NEW s, SameBut(s, "evidence"),
         NEW e \in DOMAIN Snapshot.evidence, s.evidence = Without(Snapshot.evidence, e)
  PROVE  ~V!Valid(s)
<1>1. e \in EvidenceIds /\ evidence[e] # NoEvidence  BY EvidenceTable
<1>2. PICK o \in Recorded : e \in EvidenceKept(o)  BY <1>1 DEF OriginInv
<1>3. s.operations = Snapshot.operations  BY OtherTables
<1>4. o \in DOMAIN s.operations /\ e \in s.operations[o].receipt.evidence
  BY <1>2, <1>3, OperationTable, ReceiptIs
<1>5. e \notin DOMAIN s.evidence  BY RowGone
<1>6. V!BadEvidence(s, o)  BY <1>4, <1>5 DEF V!BadEvidence
<1> QED  BY <1>4, <1>6, ValidSays DEF Clean

\* Without a policy, the holds and the posted transfers it was for have none.
LEMMA PolicyMissing ==
  ASSUME NEW s, SameBut(s, "policies"), NEW p \in UsedPolicies(Snapshot),
         s.policies = Without(Snapshot.policies, p)
  PROVE  ~V!Valid(s)
<1>1. s.holds = Snapshot.holds /\ s.operations = Snapshot.operations  BY OtherTables
<1>2. p \notin DOMAIN s.policies  BY RowGone
<1>3. CASE \E h \in DOMAIN Snapshot.holds : p = V!HoldTerms(Snapshot, h).policy
  <2>1. PICK h \in DOMAIN s.holds : p = s.holds[h].terms.terms.policy
    BY <1>1, <1>3 DEF V!HoldTerms
  <2>2. V!BadHold(s, h)  BY <1>2, <2>1 DEF V!BadHold
  <2> QED  BY <2>1, <2>2, ValidSays DEF Clean
<1>4. CASE \E o \in V!TransfersIn(Snapshot) :
             p = Snapshot.operations[o].material.terms.policy
  <2>1. PICK o \in DOMAIN s.operations :
          /\ s.operations[o].outcome = "APPLIED"
          /\ s.operations[o].receipt.kind = "TRANSFER_INTERNAL"
          /\ p = s.operations[o].material.terms.policy
    BY <1>1, <1>4 DEF V!TransfersIn
  <2>2. ~V!TransferFits(s, s.operations[o])  BY <1>2, <2>1 DEF V!TransferFits
  <2>3. V!TemplateMismatch(s, o)  BY <2>1, <2>2 DEF V!TemplateMismatch, V!NonPosting
  <2> QED  BY <2>1, <2>3, ValidSays DEF Clean
<1> QED  BY <1>3, <1>4 DEF UsedPolicies

\* No row that is relied on can go missing from any table.
LEMMA EveryRowNeeded ==
  ASSUME RecordedBook, HistoryInv, OriginInv
  PROVE  MissingRowReported
<1> DEFINE q == Snapshot
<1> SUFFICES ASSUME NEW s \in MissingRows(q) PROVE ~V!Valid(s)  BY DEF MissingRowReported
<1>1. CASE \E a \in DOMAIN q.accounts : s = [q EXCEPT !.accounts = Without(@, a)]
  <2>1. PICK a \in DOMAIN q.accounts : s = [q EXCEPT !["accounts"] = Without(q.accounts, a)]
    BY <1>1
  <2>2. s.accounts = Without(q.accounts, a) /\ SameBut(s, "accounts")
    BY <2>1, OneTable DEF TableNames
  <2> QED  BY <2>1, <2>2, AccountMissing
<1>2. CASE \E a \in DOMAIN q.balances : s = [q EXCEPT !.balances = Without(@, a)]
  <2>1. PICK a \in DOMAIN q.balances : s = [q EXCEPT !["balances"] = Without(q.balances, a)]
    BY <1>2
  <2>2. s.balances = Without(q.balances, a) /\ SameBut(s, "balances")
    BY <2>1, OneTable DEF TableNames
  <2> QED  BY <2>1, <2>2, AccountMissing
<1>3. CASE \E k \in DOMAIN q.controls : s = [q EXCEPT !.controls = Without(@, k)]
  <2>1. PICK k \in DOMAIN q.controls : s = [q EXCEPT !["controls"] = Without(q.controls, k)]
    BY <1>3
  <2>2. s.controls = Without(q.controls, k) /\ SameBut(s, "controls")
    BY <2>1, OneTable DEF TableNames
  <2> QED  BY <2>1, <2>2, HistoryLeft
<1>4. CASE \E p \in DOMAIN q.claims : s = [q EXCEPT !.claims = Without(@, p)]
  <2>1. PICK p \in DOMAIN q.claims : s = [q EXCEPT !["claims"] = Without(q.claims, p)]
    BY <1>4
  <2>2. s.claims = Without(q.claims, p) /\ SameBut(s, "claims")
    BY <2>1, OneTable DEF TableNames
  <2> QED  BY <2>1, <2>2, ClaimMissing
<1>5. CASE \E h \in DOMAIN q.holds : s = [q EXCEPT !.holds = Without(@, h)]
  <2>1. PICK h \in DOMAIN q.holds : s = [q EXCEPT !["holds"] = Without(q.holds, h)]
    BY <1>5
  <2>2. s.holds = Without(q.holds, h) /\ SameBut(s, "holds")
    BY <2>1, OneTable DEF TableNames
  <2> QED  BY <2>1, <2>2, HistoryLeft
<1>6. CASE \E k \in DOMAIN q.usage : s = [q EXCEPT !.usage = Without(@, k)]
  <2>1. PICK k \in DOMAIN q.usage : s = [q EXCEPT !["usage"] = Without(q.usage, k)]
    BY <1>6
  <2>2. s.usage = Without(q.usage, k) /\ SameBut(s, "usage")
    BY <2>1, OneTable DEF TableNames
  <2> QED  BY <2>1, <2>2, HistoryLeft
<1>7. CASE \E j \in DOMAIN q.journals : s = [q EXCEPT !.journals = Without(@, j)]
  <2>1. PICK j \in DOMAIN q.journals : s = [q EXCEPT !["journals"] = Without(q.journals, j)]
    BY <1>7
  <2>2. s.journals = Without(q.journals, j) /\ SameBut(s, "journals")
    BY <2>1, OneTable DEF TableNames
  <2> QED  BY <2>1, <2>2, JournalMissing
<1>8. CASE \E l \in q.lines : s = [q EXCEPT !.lines = @ \ {l}]
  BY <1>8, LineMissing
<1>9. CASE \E l \in q.lines : s = Redigested([q EXCEPT !.lines = @ \ {l}], l.journal)
  BY <1>9, LineMissing
<1>10. CASE \E e \in q.accountEvents : s = [q EXCEPT !.accountEvents = @ \ {e}]
  <2>1. PICK e \in q.accountEvents : s = [q EXCEPT !["accountEvents"] = q.accountEvents \ {e}]
    BY <1>10
  <2>2. s.accountEvents = q.accountEvents \ {e} /\ SameBut(s, "accountEvents")
    BY <2>1, OneTable DEF TableNames
  <2> QED  BY <2>1, <2>2, Tables, GapLeft
<1>11. CASE \E e \in q.controlEvents : s = [q EXCEPT !.controlEvents = @ \ {e}]
  <2>1. PICK e \in q.controlEvents : s = [q EXCEPT !["controlEvents"] = q.controlEvents \ {e}]
    BY <1>11
  <2>2. s.controlEvents = q.controlEvents \ {e} /\ SameBut(s, "controlEvents")
    BY <2>1, OneTable DEF TableNames
  <2> QED  BY <2>1, <2>2, Tables, GapLeft
<1>12. CASE \E e \in q.holdEvents : s = [q EXCEPT !.holdEvents = @ \ {e}]
  <2>1. PICK e \in q.holdEvents : s = [q EXCEPT !["holdEvents"] = q.holdEvents \ {e}]
    BY <1>12
  <2>2. s.holdEvents = q.holdEvents \ {e} /\ SameBut(s, "holdEvents")
    BY <2>1, OneTable DEF TableNames
  <2> QED  BY <2>1, <2>2, Tables, GapLeft
<1>13. CASE \E e \in q.limitEvents : s = [q EXCEPT !.limitEvents = @ \ {e}]
  <2>1. PICK e \in q.limitEvents : s = [q EXCEPT !["limitEvents"] = q.limitEvents \ {e}]
    BY <1>13
  <2>2. s.limitEvents = q.limitEvents \ {e} /\ SameBut(s, "limitEvents")
    BY <2>1, OneTable DEF TableNames
  <2> QED  BY <2>1, <2>2, Tables, GapLeft
<1>14. CASE \E e \in DOMAIN q.evidence : s = [q EXCEPT !.evidence = Without(@, e)]
  <2>1. PICK e \in DOMAIN q.evidence : s = [q EXCEPT !["evidence"] = Without(q.evidence, e)]
    BY <1>14
  <2>2. s.evidence = Without(q.evidence, e) /\ SameBut(s, "evidence")
    BY <2>1, OneTable DEF TableNames
  <2> QED  BY <2>1, <2>2, EvidenceMissing
<1>15. CASE \E o \in DOMAIN q.operations : s = [q EXCEPT !.operations = Without(@, o)]
  <2>1. PICK o \in DOMAIN q.operations : s = [q EXCEPT !["operations"] = Without(q.operations, o)]
    BY <1>15
  <2>2. s.operations = Without(q.operations, o) /\ SameBut(s, "operations")
    BY <2>1, OneTable DEF TableNames
  <2> QED  BY <2>1, <2>2, OperationMissing
<1>16. CASE \E f \in DOMAIN q.facts : s = [q EXCEPT !.facts = Without(@, f)]
  <2>1. PICK f \in DOMAIN q.facts : s = [q EXCEPT !["facts"] = Without(q.facts, f)]
    BY <1>16
  <2>2. s.facts = Without(q.facts, f) /\ SameBut(s, "facts")
    BY <2>1, OneTable DEF TableNames
  <2> QED  BY <2>1, <2>2, OperationMissing
<1>17. CASE \E p \in UsedPolicies(q) : s = [q EXCEPT !.policies = Without(@, p)]
  <2>1. PICK p \in UsedPolicies(q) : s = [q EXCEPT !["policies"] = Without(q.policies, p)]
    BY <1>17
  <2>2. s.policies = Without(q.policies, p) /\ SameBut(s, "policies")
    BY <2>1, OneTable DEF TableNames
  <2> QED  BY <2>1, <2>2, PolicyMissing
<1> HIDE DEF q
<1> QED  BY <1>1, <1>2, <1>3, <1>4, <1>5, <1>6, <1>7, <1>8, <1>9, <1>10, <1>11, <1>12, <1>13,
            <1>14, <1>15, <1>16, <1>17 DEF MissingRows

\* Nothing a snapshot rests on can go missing unnoticed: whatever commands a book has seen,
\* without any one row of any table (of the posting policies: one that a hold or a posted
\* transfer uses) its snapshot does not verify (verify.Verify on what the export reads).
THEOREM VerifierMissesNoRow == AuditSpec => []MissingRowReported
<1>1. RecordedBook /\ HistoryInv /\ OriginInv => MissingRowReported  BY EveryRowNeeded
<1> QED  BY <1>1, HistoriesUnbroken, AuditIsLedger, OriginsKnown, PTL

-----------------------------------------------------------------------------
(***************************************************************************)
(* Altered amounts.                                                        *)
(***************************************************************************)
\* What the verifier adds up depends on the tables it adds up: the sides of an account,
LEMMA SameSides ==
  ASSUME NEW s, NEW q, NEW a, NEW side, s.lines = q.lines, s.journals = q.journals
  PROVE  V!SideTotal(s, a, side) = V!SideTotal(q, a, side)
BY DEF V!SideTotal

\* what is held on it and the reservations of a day,
LEMMA SameHeld ==
  ASSUME NEW s, NEW q, NEW a, NEW k, s.holds = q.holds, s.accounts = q.accounts
  PROVE  /\ V!HeldTotal(s, a) = V!HeldTotal(q, a)
         /\ V!Reserved(s, k) = V!Reserved(q, k)
<1>1. /\ \A states : V!HoldsIn(s, states) = V!HoldsIn(q, states)
      /\ \A h : V!HoldTerms(s, h) = V!HoldTerms(q, h) /\ V!LimitKey(s, h) = V!LimitKey(q, h)
  BY DEF V!HoldsIn, V!HoldTerms, V!LimitKey
<1>2. V!HeldTotal(s, a) = V!HeldTotal(q, a)  BY <1>1 DEF V!HeldTotal
<1>3. \A states : V!HoldsOf(s, k, states) = V!HoldsOf(q, k, states)  BY <1>1 DEF V!HoldsOf
<1>4. \A holds : V!Principals(s, holds) = V!Principals(q, holds)  BY <1>1 DEF V!Principals
<1>5. V!Reserved(s, k) = V!Reserved(q, k)  BY <1>3, <1>4 DEF V!Reserved
<1> QED  BY <1>2, <1>5

\* and what was consumed on it.
LEMMA SameConsumed ==
  ASSUME NEW s, NEW q, NEW k, s.holds = q.holds, s.accounts = q.accounts,
         s.operations = q.operations
  PROVE  V!Consumed(s, k) = V!Consumed(q, k)
<1>1. /\ \A states : V!HoldsIn(s, states) = V!HoldsIn(q, states)
      /\ \A h : V!HoldTerms(s, h) = V!HoldTerms(q, h) /\ V!LimitKey(s, h) = V!LimitKey(q, h)
  BY DEF V!HoldsIn, V!HoldTerms, V!LimitKey
<1>2. \A states : V!HoldsOf(s, k, states) = V!HoldsOf(q, k, states)  BY <1>1 DEF V!HoldsOf
<1>3. \A holds : V!Principals(s, holds) = V!Principals(q, holds)  BY <1>1 DEF V!Principals
<1>4. V!TransfersIn(s) = V!TransfersIn(q)  BY DEF V!TransfersIn
<1>5. \A o : V!TransferKey(s, o) = V!TransferKey(q, o)  BY DEF V!TransferKey
<1>6. V!TransfersOf(s, k) = V!TransfersOf(q, k)  BY <1>4, <1>5 DEF V!TransfersOf
<1> QED  BY <1>2, <1>3, <1>6 DEF V!Consumed

\* A running balance is what its journals and holds add up to, and as old as its history.
LEMMA BalanceAltered ==
  ASSUME RecordedBook, HistoryInv, NEW s, SameBut(s, "balances"),
         NEW a \in DOMAIN Snapshot.balances, DOMAIN s.balances = DOMAIN Snapshot.balances,
         LET b == Snapshot.balances[a]
             c == s.balances[a]
         IN  \/ c.debits # b.debits \/ c.credits # b.credits
             \/ c.held # b.held \/ c.version # b.version
  PROVE  ~V!Valid(s)
<1> DEFINE q == Snapshot
           b == q.balances[a]
           c == s.balances[a]
<1>1. /\ s.holds = q.holds /\ s.accounts = q.accounts /\ s.lines = q.lines
      /\ s.journals = q.journals /\ s.accountEvents = q.accountEvents
  BY OtherTables
<1>2. /\ a \in DOMAIN q.accounts /\ ~V!BadBalance(q, a)
      /\ ~V!BadHistories(q, "account_events", q.accountEvents, q.balances)
  BY BookClean DEF Clean
<1>3. /\ b.debits = V!SideTotal(q, a, "DEBIT") /\ b.credits = V!SideTotal(q, a, "CREDIT")
      /\ b.held = V!HeldTotal(q, a)
  BY <1>2 DEF V!BadBalance
<1>4. b.version = V!Cardinality(V!EventsOf(q.accountEvents, a))
  BY <1>2 DEF V!BadHistories, V!BrokenHistory
<1>5. /\ b.debits = V!SideTotal(s, a, "DEBIT") /\ b.credits = V!SideTotal(s, a, "CREDIT")
      /\ b.held = V!HeldTotal(s, a)
  <2>1. /\ V!SideTotal(s, a, "DEBIT") = V!SideTotal(q, a, "DEBIT")
        /\ V!SideTotal(s, a, "CREDIT") = V!SideTotal(q, a, "CREDIT")
    BY <1>1, SameSides
  <2>2. V!HeldTotal(s, a) = V!HeldTotal(q, a)  BY <1>1, SameHeld
  <2> QED  BY <1>3, <2>1, <2>2
<1>6. CASE c.version # b.version
  <2>1. V!BrokenHistory(s.accountEvents, a, c.version)  BY <1>1, <1>4, <1>6 DEF V!BrokenHistory
  <2>2. V!BadHistories(s, "account_events", s.accountEvents, s.balances)
    BY <2>1 DEF V!BadHistories
  <2> QED  BY <2>2, ValidSays DEF Clean
<1>7. CASE c.debits # b.debits \/ c.credits # b.credits \/ c.held # b.held
  <2>1. V!BadBalance(s, a)  BY <1>5, <1>7 DEF V!BadBalance
  <2> QED  BY <1>1, <1>2, <2>1, ValidSays DEF Clean
<1> QED  BY <1>6, <1>7

\* A limit row is what the holds and transfers of its day add up to.
LEMMA UsageAltered ==
  ASSUME RecordedBook, HistoryInv, NEW s, SameBut(s, "usage"),
         NEW k \in DOMAIN Snapshot.usage, DOMAIN s.usage = DOMAIN Snapshot.usage,
         \/ s.usage[k].reserved # Snapshot.usage[k].reserved
         \/ s.usage[k].consumed # Snapshot.usage[k].consumed
  PROVE  ~V!Valid(s)
<1> DEFINE q == Snapshot
<1>1. s.holds = q.holds /\ s.accounts = q.accounts /\ s.operations = q.operations
  BY OtherTables
<1>2. ~V!BadUsage(q)  BY BookClean DEF Clean
<1>3. q.usage[k].reserved = V!Reserved(q, k) /\ q.usage[k].consumed = V!Consumed(q, k)
  BY <1>2 DEF V!BadUsage
<1>4. q.usage[k].reserved = V!Reserved(s, k) /\ q.usage[k].consumed = V!Consumed(s, k)
  <2>1. V!Reserved(s, k) = V!Reserved(q, k)  BY <1>1, SameHeld
  <2>2. V!Consumed(s, k) = V!Consumed(q, k)  BY <1>1, SameConsumed
  <2> QED  BY <1>3, <2>1, <2>2
<1>5. V!BadUsage(s)  BY <1>4 DEF V!BadUsage
<1> QED  BY <1>5, ValidSays DEF Clean

\* The terms of a hold are those of its history, its state that of its claim.
LEMMA HoldAltered ==
  ASSUME RecordedBook, HistoryInv, NEW s, SameBut(s, "holds"),
         NEW h \in DOMAIN Snapshot.holds, DOMAIN s.holds = DOMAIN Snapshot.holds,
         \/ s.holds[h].terms # Snapshot.holds[h].terms
         \/ /\ s.holds[h].payment = Snapshot.holds[h].payment
            /\ s.holds[h].state # Snapshot.holds[h].state
  PROVE  ~V!Valid(s)
<1> DEFINE q == Snapshot
           row == q.holds[h]
           new == s.holds[h]
<1>1. s.claims = q.claims /\ s.holdEvents = holdEvents  BY OtherTables, Tables
<1>2. ~V!BadHold(q, h)  BY BookClean DEF Clean
<1>3. CASE new.payment = row.payment /\ new.state # row.state
  <2>1. q.claims[row.payment].state = row.state  BY <1>2 DEF V!BadHold
  <2>2. s.claims[new.payment].state # new.state  BY <1>1, <1>3, <2>1
  <2>3. V!BadHold(s, h)  BY <2>2 DEF V!BadHold
  <2> QED  BY <2>3, ValidSays DEF Clean
<1>4. CASE new.terms # row.terms
  <2>1. h \in Holds /\ row.terms = FixedTerms(h, hold[h]) /\ hold[h].state # "ABSENT"
    BY HoldTable
  <2>2. HoldChained(V!EventsOf(holdEvents, h), FixedTerms(h, hold[h]),
                    V!Truncate(hold[h].reserve.expiresAt), hold[h])
    BY <2>1 DEF HistoryInv, HoldsUnbroken
  <2>3. hold[h].version \in Nat \ {0}
    <3>1. BookInv /\ RecordInv  BY DEF RecordedBook, SoundBook
    <3>2. hold[h].version \in Nat
      BY <2>1, <3>1, BoundsAssumption DEF BookInv, LedgerInv, TypeOK, Hold, Versions
    <3> QED  BY <2>1, <3>1, <3>2 DEF RecordInv
  <2> DEFINE es == V!EventsOf(holdEvents, h)
  <2>4. PICK e \in es : e.version = hold[h].version  BY <2>2, <2>3 DEF HoldChained
  <2>5. \A d \in es : d.version <= e.version  BY <2>2, <2>3, <2>4 DEF HoldChained
  <2>6. e.after.terms = row.terms  BY <2>1, <2>2, BodyParts DEF HoldChained
  <2>7. ~V!SameHold(e.after, new)  BY <1>4, <2>6 DEF V!SameHold
  <2>8. ~V!SameAsTip("hold_events", e.after, new)  BY <2>7 DEF V!SameAsTip
  <2>9. V!BadHistories(s, "hold_events", s.holdEvents, s.holds)
    BY <1>1, <2>5, <2>8 DEF V!BadHistories
  <2> QED  BY <2>9, ValidSays DEF Clean
<1> QED  BY <1>3, <1>4

\* Another journal of an operation is one its receipt does not name.
LEMMA JournalTwice ==
  ASSUME RecordedBook, HistoryInv, NEW j \in DOMAIN Snapshot.journals, NEW s,
         s.operations = Snapshot.operations,
         s.journals = With(Snapshot.journals, NoOp, Snapshot.journals[j])
  PROVE  ~V!Valid(s)
<1>1. j \in Ops /\ Snapshot.journals[j].op = j  BY JournalTable
<1>2. j \in Recorded  BY <1>1, JournalTable DEF RecordedBook, JournalsRecorded, Recorded
<1>3. NoOp \in DOMAIN s.journals /\ s.journals[NoOp] = Snapshot.journals[j]
  BY DEF With
<1>4. NoOp \in V!JournalsOf(s, j)  BY <1>1, <1>3 DEF V!JournalsOf
<1>5. j \in DOMAIN s.operations /\ s.operations[j].receipt.journal = JournalId(j)
  BY <1>2, OperationTable, ReceiptIs
<1>6. NoOp \notin JournalId(j)  BY <1>1, IdAssumption DEF JournalId
<1>7. V!BadOperation(s, j)  BY <1>4, <1>5, <1>6 DEF V!BadOperation
<1> QED  BY <1>5, <1>7, ValidSays DEF Clean

\* A new digest changes no table but the journals', and none of their ids.
LEMMA DigestOnly ==
  ASSUME NEW s, DOMAIN s = TableNames, NEW j
  PROVE  LET t == Redigested(s, j)
         IN  /\ t.accounts = s.accounts /\ t.balances = s.balances /\ t.lines = s.lines
             /\ t.operations = s.operations /\ t.holds = s.holds
             /\ DOMAIN t.journals = DOMAIN s.journals
<1> DEFINE d == V!Entries(s, j)
<1> HIDE DEF d
<1>1. Redigested(s, j) = [s EXCEPT !.journals[j].digest = d]  BY DEF Redigested, d
<1> QED  BY <1>1 DEF TableNames

\* A line that moved to another account is missed on the one it was posted to.
LEMMA LineRedirected ==
  ASSUME RecordedBook, HistoryInv, NEW l \in Snapshot.lines, NEW a, a # l.account,
         NEW s, s = [Snapshot EXCEPT !.lines = Replaced(@, l, [l EXCEPT !.account = a])]
  PROVE  ~V!Valid(Redigested(s, l.journal))
<1> DEFINE y == [l EXCEPT !.account = a]
           X == (Snapshot.lines \ {l}) \cup {y}
           t == Redigested(s, l.journal)
<1>1. y.account # l.account
  <2>1. PICK o \in Ops : \E m \in journal[o] : l = Stored(o, m)  BY LineTable
  <2>2. "account" \in DOMAIN l  BY <2>1 DEF Stored
  <2> QED  BY <2>2
<1> HIDE DEF y
<1>2. s.lines = X /\ SameBut(s, "lines") /\ DOMAIN s = TableNames
  <2>1. "lines" \in TableNames /\ DOMAIN Snapshot = TableNames  BY DEF TableNames, Snapshot
  <2> HIDE DEF X
  <2>2. s = [Snapshot EXCEPT !["lines"] = X]  BY DEF X, y, Replaced
  <2> QED  BY <2>1, <2>2, OneTable
<1>3. s.accounts = Snapshot.accounts /\ s.balances = Snapshot.balances
      /\ s.journals = Snapshot.journals
  BY <1>2, OtherTables
<1>4. /\ t.accounts = s.accounts /\ t.balances = s.balances /\ t.lines = s.lines
      /\ DOMAIN t.journals = DOMAIN s.journals
  BY <1>2, DigestOnly
<1> HIDE DEF t
<1>5. PostedLines(t, l.account, l.side) = PostedLines(Snapshot, l.account, l.side) \ {l}
  BY <1>1, <1>2, <1>3, <1>4 DEF PostedLines
<1>6. ~V!Valid(t)  BY <1>3, <1>4, <1>5, LineMissed
<1> QED  BY <1>6 DEF t

\* What an operation takes from the account it debits.
DebitOf(o) ==
  LET m == Material(o)
  IN  CASE m.kind = "FIXTURE_FUND" -> Funding
        [] m.kind = "TRANSFER_INTERNAL" -> V!Total(m.terms)
        [] m.kind = "CAPTURE_PAYOUT" -> V!Total(hold[m.ref.hold].reserve.terms)

\* The template of an operation fixes what its journal debits.
LEMMA DebitFixed ==
  ASSUME RecordedBook, NEW s, s.operations = Snapshot.operations, s.holds = Snapshot.holds,
         NEW o \in Recorded, journal[o] # {}, ~V!TemplateMismatch(s, o),
         NEW e \in V!Entries(s, o), e.side = "DEBIT"
  PROVE  e.units = DebitOf(o)
<1> DEFINE op == Snapshot.operations[o]
           m == Material(o)
           r == op.receipt
<1>1. RecordInv  BY DEF RecordedBook
<1>2. /\ op.material = m /\ op.outcome = receipts[o].outcome /\ r = ReceiptBody(o)
      /\ r.kind = m.kind /\ r.journal = JournalId(o)
  BY OperationTable, ReceiptIs
<1>3. op.outcome = "APPLIED" /\ JournalId(o) = {o}  BY <1>1, <1>2, PostedApplied DEF JournalId
<1>4. s.operations[o] = op  OBVIOUS
<1> HIDE DEF op
<1>5. \/ m.kind = "TRANSFER_INTERNAL" /\ V!TransferFits(s, op)
      \/ m.kind = "CAPTURE_PAYOUT" /\ V!CaptureFits(s, op)
      \/ m.kind = "FIXTURE_FUND" /\ V!FixtureFits(s, op)
      \/ m.kind \in V!NonPosting /\ r.journal = {}
  BY <1>2, <1>3, <1>4 DEF V!TemplateMismatch
<1>6. ASSUME NEW terms, NEW payee, NEW fees, V!Posts(s, r, terms, payee, fees)
      PROVE  e.units = V!Total(terms)
  <2>1. V!Entries(s, o) = V!Expected(terms, payee, fees)  BY <1>2, <1>3, <1>6 DEF V!Posts
  <2>2. e \in V!Expected(terms, payee, fees)  BY <2>1
  <2>3. e = [account |-> terms.source, side |-> "DEBIT", units |-> V!Total(terms)]
    BY <2>2 DEF V!Expected
  <2> QED  BY <2>3
<1>7. CASE m.kind = "TRANSFER_INTERNAL" /\ V!TransferFits(s, op)
  <2>1. V!Posts(s, r, m.terms, m.terms.beneficiary, s.policies[m.terms.policy].feeAccount)
    BY <1>2, <1>7 DEF V!TransferFits
  <2>2. e.units = V!Total(m.terms)  BY <1>6, <2>1
  <2> QED  BY <1>7, <2>2 DEF DebitOf
<1>8. CASE m.kind = "CAPTURE_PAYOUT" /\ V!CaptureFits(s, op)
  <2>1. PICK h \in r.hold \cap DOMAIN s.holds :
          LET fixed == s.holds[h].terms
          IN  V!Posts(s, r, fixed.terms, fixed.pool, fixed.feeAccount)
    BY <1>8 DEF V!CaptureFits
  <2>2. h = m.ref.hold  BY <1>2, <1>8, <2>1, ResolutionReceipt
  <2>3. s.holds[h].terms.terms = hold[h].reserve.terms
    <3>1. s.holds[h].terms = FixedTerms(h, hold[h])  BY <2>1, HoldTable
    <3> DEFINE row == hold[h]
    <3> HIDE DEF row
    <3>2. FixedTerms(h, row).terms = row.reserve.terms  BY HoldTermsAre
    <3> QED  BY <3>1, <3>2 DEF row
  <2>4. e.units = V!Total(hold[m.ref.hold].reserve.terms)  BY <1>6, <2>1, <2>2, <2>3
  <2> QED  BY <1>8, <2>4 DEF DebitOf
<1>9. CASE m.kind = "FIXTURE_FUND" /\ V!FixtureFits(s, op)
  <2>1. e.units = op.material.units  BY <1>2, <1>3, <1>9 DEF V!FixtureFits
  <2>2. o = FixtureOp
    <3>1. o # FixtureOp => m.kind = receipts[o].request.kind /\ receipts[o].request \in Requests
      BY <1>1, MaterialIs
    <3>2. \A x \in Requests : x.kind # "FIXTURE_FUND"
      BY RequestAssumption DEF Requests, CreateRequest, TransferRequest, ReserveRequest,
         ExposeRequest, CaptureRequest, ReleaseRequest, SetControlRequest
    <3> QED  BY <1>9, <3>1, <3>2
  <2>3. m.units = Funding  BY <1>1, <2>2, MaterialIs
  <2> QED  BY <1>2, <1>9, <2>1, <2>3 DEF DebitOf
<1>10. CASE m.kind \in V!NonPosting /\ r.journal = {}  BY <1>2, <1>3, <1>10
<1> QED  BY <1>5, <1>7, <1>8, <1>9, <1>10

\* The amounts of lines are whole numbers.
LEMMA UnitsInt ==
  ASSUME RecordedBook, NEW x \in Snapshot.lines
  PROVE  x.units \in Int
<1>1. PICK o \in Ops : \E m \in journal[o] : x = Stored(o, m)  BY LineTable
<1>2. PICK m \in journal[o] : x = Stored(o, m)  BY <1>1
<1>3. m \in JournalLine
  BY <1>1, <1>2 DEF RecordedBook, SoundBook, BookInv, LedgerInv, TypeOK
<1> QED  BY <1>2, <1>3, LineParts, BoundsAssumption DEF JournalLine, Amounts

\* One more unit through a journal is not what its template debits.
LEMMA LineInflated ==
  ASSUME RecordedBook, HistoryInv, NEW x \in Snapshot.lines, x.side = "DEBIT", NEW s,
         s.operations = Snapshot.operations, s.holds = Snapshot.holds,
         s.accounts = Snapshot.accounts, [x EXCEPT !.units = @ + 1] \in s.lines
  PROVE  ~V!Valid(s)
<1> DEFINE y == [x EXCEPT !.units = @ + 1]
           o == x.journal
<1>1. PICK oo \in Ops : \E l \in journal[oo] : x = Stored(oo, l)  BY LineTable
<1>2. o \in Ops /\ journal[o] # {}  BY <1>1, LineParts
<1>3. o \in Recorded  BY <1>2 DEF RecordedBook, JournalsRecorded, Recorded
<1>4. o \in DOMAIN Snapshot.operations  BY <1>3, OperationTable
<1>5. x.account \in DOMAIN Snapshot.accounts  BY BookClean DEF Clean, V!BadLine
<1>6. /\ y.journal = o /\ y.account = x.account /\ y.side = "DEBIT" /\ y.units = x.units + 1
  <2>1. DOMAIN x = {"journal", "account", "side", "units"}  BY <1>1 DEF Stored
  <2> QED  BY <2>1
<1> HIDE DEF y
<1>7. y \in s.lines  BY DEF y
<1>8. V!Entry(x) \in V!Entries(Snapshot, o)  BY <1>5 DEF V!Entries, V!LinesOf
<1>9. V!Entry(y) \in V!Entries(s, o)  BY <1>5, <1>6, <1>7 DEF V!Entries, V!LinesOf
<1>10. /\ V!Entry(x).side = "DEBIT" /\ V!Entry(x).units = x.units
       /\ V!Entry(y).side = "DEBIT" /\ V!Entry(y).units = x.units + 1
  BY <1>6 DEF V!Entry
<1>11. ~V!TemplateMismatch(Snapshot, o)  BY <1>4, BookClean DEF Clean
<1>12. x.units = DebitOf(o)
  BY <1>2, <1>3, <1>8, <1>10, <1>11, DebitFixed
<1>13. ASSUME ~V!TemplateMismatch(s, o) PROVE FALSE
  <2>1. x.units + 1 = DebitOf(o)  BY <1>2, <1>3, <1>9, <1>10, <1>13, DebitFixed
  <2> QED  BY <1>12, <2>1, UnitsInt
<1> QED  BY <1>4, <1>13, ValidSays DEF Clean

\* Damage to one field of one row.
LEMMA BalanceTypes ==
  ASSUME RecordedBook, NEW a \in DOMAIN Snapshot.balances
  PROVE  LET b == Snapshot.balances[a]
         IN  /\ DOMAIN b = {"purpose", "debits", "credits", "held", "version"}
             /\ b.debits \in Int /\ b.credits \in Int /\ b.held \in Int /\ b.version \in Int
<1>1. a \in Accounts  BY BalanceTable
<1>2. balance[a] \in Balance  BY <1>1 DEF RecordedBook, SoundBook, BookInv, LedgerInv, TypeOK
<1>3. /\ balance[a].debits \in Int /\ balance[a].credits \in Int /\ balance[a].held \in Int
      /\ balance[a].version \in Int
  BY <1>2, BoundsAssumption DEF Balance, Wides, Versions
<1>4. DOMAIN Snapshot.balances[a] = {"purpose", "debits", "credits", "held", "version"}
  <2>1. Snapshot.balances = [x \in {y \in Accounts : balance[y].version > 0} |->
                   [purpose |-> Purpose(x), debits |-> balance[x].debits,
                    credits |-> balance[x].credits, held |-> balance[x].held,
                    version |-> balance[x].version]]
    BY DEF Snapshot
  <2>2. a \in {y \in Accounts : balance[y].version > 0}  BY BalanceTable
  <2>3. Snapshot.balances[a] = [purpose |-> Purpose(a), debits |-> balance[a].debits,
                    credits |-> balance[a].credits, held |-> balance[a].held,
                    version |-> balance[a].version]
    BY <2>1, <2>2
  <2> QED  BY <2>3
<1> QED  BY <1>3, <1>4, BalanceTable

\* A field of a balance that is one off.
LEMMA BalanceOff ==
  ASSUME RecordedBook, HistoryInv, NEW a \in DOMAIN Snapshot.balances, NEW s,
         \/ s = [Snapshot EXCEPT !.balances[a].debits = @ + 1]
         \/ s = [Snapshot EXCEPT !.balances[a].credits = @ + 1]
         \/ s = [Snapshot EXCEPT !.balances[a].held = @ + 1]
         \/ s = [Snapshot EXCEPT !.balances[a].version = @ + 1]
  PROVE  ~V!Valid(s)
<1> DEFINE q == Snapshot
           b == q.balances[a]
<1>1. /\ DOMAIN b = {"purpose", "debits", "credits", "held", "version"}
      /\ b.debits \in Int /\ b.credits \in Int /\ b.held \in Int /\ b.version \in Int
  BY BalanceTypes
<1>2. PICK f \in {"debits", "credits", "held", "version"} :
        s = [q EXCEPT !["balances"] = [q.balances EXCEPT ![a] = [b EXCEPT ![f] = b[f] + 1]]]
  <2>1. CASE s = [q EXCEPT !.balances[a].debits = @ + 1]  BY <2>1
  <2>2. CASE s = [q EXCEPT !.balances[a].credits = @ + 1]  BY <2>2
  <2>3. CASE s = [q EXCEPT !.balances[a].held = @ + 1]  BY <2>3
  <2>4. CASE s = [q EXCEPT !.balances[a].version = @ + 1]  BY <2>4
  <2> QED  BY <2>1, <2>2, <2>3, <2>4
<1> DEFINE X == [q.balances EXCEPT ![a] = [b EXCEPT ![f] = b[f] + 1]]
<1>3. DOMAIN X = DOMAIN q.balances /\ X[a][f] = b[f] + 1 /\ b[f] \in Int
  BY <1>1, <1>2
<1> HIDE DEF X
<1>4. s.balances = X /\ SameBut(s, "balances")
  <2>1. s = [q EXCEPT !["balances"] = X]  BY <1>2 DEF X
  <2> QED  BY <2>1, OneTable DEF TableNames
<1>5. X[a][f] # b[f]  BY <1>3
<1>6. \/ X[a].debits # b.debits \/ X[a].credits # b.credits
      \/ X[a].held # b.held \/ X[a].version # b.version
  BY <1>2, <1>5
<1> QED  BY <1>3, <1>4, <1>6, BalanceAltered

\* A field of a limit row that is one off.
LEMMA UsageOff ==
  ASSUME RecordedBook, HistoryInv, NEW k \in DOMAIN Snapshot.usage, NEW s,
         \/ s = [Snapshot EXCEPT !.usage[k].reserved = @ + 1]
         \/ s = [Snapshot EXCEPT !.usage[k].consumed = @ + 1]
  PROVE  ~V!Valid(s)
<1> DEFINE q == Snapshot
           u == q.usage[k]
<1>1. DOMAIN u = {"reserved", "consumed", "version"} /\ u.reserved \in Int /\ u.consumed \in Int
  <2>1. k \in Owners \X Buckets /\ u = usage[k]  BY UsageTable
  <2>2. usage[k] \in Counter
    BY <2>1, UsageCounts DEF RecordedBook, SoundBook, BookInv, LedgerInv, TypeOK
  <2> QED  BY <2>1, <2>2 DEF Counter
<1>2. PICK f \in {"reserved", "consumed"} :
        s = [q EXCEPT !["usage"] = [q.usage EXCEPT ![k] = [u EXCEPT ![f] = u[f] + 1]]]
  <2>1. CASE s = [q EXCEPT !.usage[k].reserved = @ + 1]  BY <2>1
  <2>2. CASE s = [q EXCEPT !.usage[k].consumed = @ + 1]  BY <2>2
  <2> QED  BY <2>1, <2>2
<1> DEFINE X == [q.usage EXCEPT ![k] = [u EXCEPT ![f] = u[f] + 1]]
<1>3. DOMAIN X = DOMAIN q.usage /\ X[k][f] = u[f] + 1 /\ u[f] \in Int
  BY <1>1, <1>2
<1> HIDE DEF X
<1>4. s.usage = X /\ SameBut(s, "usage")
  <2>1. s = [q EXCEPT !["usage"] = X]  BY <1>2 DEF X
  <2> QED  BY <2>1, OneTable DEF TableNames
<1>5. X[k][f] # u[f]  BY <1>3
<1>6. X[k].reserved # u.reserved \/ X[k].consumed # u.consumed  BY <1>2, <1>5
<1> QED  BY <1>3, <1>4, <1>6, UsageAltered

\* The columns of a hold.
LEMMA HoldColumns ==
  ASSUME RecordedBook, NEW h \in DOMAIN Snapshot.holds
  PROVE  LET row == Snapshot.holds[h]
         IN  /\ DOMAIN row = {"payment", "attempt", "terms", "state", "version"}
             /\ "terms" \in DOMAIN row.terms
             /\ row.terms.terms \in Terms
<1>1. h \in {x \in Holds : hold[x].state # "ABSENT"}  BY HoldTable
<1>2. Snapshot.holds = [x \in {y \in Holds : hold[y].state # "ABSENT"} |->
                [payment |-> hold[x].reserve.terms.payment, attempt |-> hold[x].reserve.attempt,
                 terms |-> FixedTerms(x, hold[x]), state |-> hold[x].state,
                 version |-> hold[x].version]]
  BY DEF Snapshot
<1>3. Snapshot.holds[h] = [payment |-> hold[h].reserve.terms.payment,
                           attempt |-> hold[h].reserve.attempt,
                           terms |-> FixedTerms(h, hold[h]), state |-> hold[h].state,
                           version |-> hold[h].version]
  BY <1>1, <1>2
<1>4. "terms" \in DOMAIN FixedTerms(h, hold[h])  BY DEF FixedTerms
<1>5. FixedTerms(h, hold[h]).terms = hold[h].reserve.terms  BY DEF FixedTerms
<1>6. hold[h].reserve.terms \in Terms
  <2>1. hold[h].reserve \in Reserves
    BY <1>1 DEF RecordedBook, SoundBook, BookInv, LedgerInv, HoldsWellFormed
  <2> QED  BY <2>1, TermsTypes
<1> QED  BY <1>3, <1>4, <1>5, <1>6

\* A hold of another principal, or in another state.
LEMMA HoldOff ==
  ASSUME RecordedBook, HistoryInv, NEW h \in DOMAIN Snapshot.holds, NEW s,
         \/ s = [Snapshot EXCEPT !.holds[h].terms.terms.principal = @ + 1]
         \/ \E st : st # Snapshot.holds[h].state /\ s = [Snapshot EXCEPT !.holds[h].state = st]
  PROVE  ~V!Valid(s)
<1> DEFINE q == Snapshot
           row == q.holds[h]
<1>1. /\ DOMAIN row = {"payment", "attempt", "terms", "state", "version"}
      /\ "terms" \in DOMAIN row.terms /\ row.terms.terms \in Terms
  BY HoldColumns
<1>2. CASE s = [q EXCEPT !.holds[h].terms.terms.principal = @ + 1]
  <2> DEFINE t == row.terms.terms
             new == [row EXCEPT !.terms = [row.terms EXCEPT !.terms =
                       [t EXCEPT !.principal = t.principal + 1]]]
             X == [q.holds EXCEPT ![h] = new]
  <2>1. t.principal \in Int /\ "principal" \in DOMAIN t
    BY <1>1, BoundsAssumption DEF Terms, Amounts
  <2>2. s = [q EXCEPT !["holds"] = X]  BY <1>2
  <2>3. new.terms.terms.principal = t.principal + 1  BY <1>1, <2>1
  <2>4. new.terms # row.terms  BY <2>1, <2>3
  <2> HIDE DEF new
  <2>5. DOMAIN X = DOMAIN q.holds /\ X[h] = new  OBVIOUS
  <2> HIDE DEF X
  <2>6. s.holds = X /\ SameBut(s, "holds")  BY <2>2, OneTable DEF TableNames
  <2> QED  BY <2>4, <2>5, <2>6, HoldAltered
<1>3. ASSUME NEW st, st # row.state, s = [q EXCEPT !.holds[h].state = st] PROVE ~V!Valid(s)
  <2> DEFINE new == [row EXCEPT !.state = st]
             X == [q.holds EXCEPT ![h] = new]
  <2>1. s = [q EXCEPT !["holds"] = X]  BY <1>3
  <2>2. new.state = st /\ new.payment = row.payment  BY <1>1
  <2> HIDE DEF new
  <2>3. DOMAIN X = DOMAIN q.holds /\ X[h] = new  OBVIOUS
  <2> HIDE DEF X
  <2>4. s.holds = X /\ SameBut(s, "holds")  BY <2>1, OneTable DEF TableNames
  <2> QED  BY <1>3, <2>2, <2>3, <2>4, HoldAltered
<1> QED  BY <1>2, <1>3

\* More money through a journal, with balances and histories to match.
LEMMA MoneyInflated ==
  ASSUME RecordedBook, HistoryInv, NEW s \in Inflated(Snapshot)
  PROVE  ~V!Valid(s)
<1> DEFINE q == Snapshot
           more(x) == [x EXCEPT !.units = @ + 1]
<1>1. PICK pair \in {x \in q.lines \X q.lines : /\ x[1].journal = x[2].journal
                                                /\ x[1].side = "DEBIT" /\ x[2].side = "CREDIT"} :
        \E B, E : s = Redigested([q EXCEPT
                        !.lines = (q.lines \ {pair[1], pair[2]})
                                    \cup {more(x) : x \in {pair[1], pair[2]}},
                        !.balances = B, !.accountEvents = E], pair[1].journal)
  BY DEF Inflated
<1> DEFINE x == pair[1]
           L == (q.lines \ {pair[1], pair[2]}) \cup {more(z) : z \in {pair[1], pair[2]}}
<1>2. x \in q.lines /\ x.side = "DEBIT" /\ more(x) \in L  OBVIOUS
<1> HIDE DEF L
<1>3. PICK B, E : s = Redigested([q EXCEPT !.lines = L, !.balances = B, !.accountEvents = E],
                                 x.journal)
  BY <1>1 DEF L
<1> DEFINE u == [q EXCEPT !.lines = L, !.balances = B, !.accountEvents = E]
<1>4. /\ DOMAIN u = TableNames /\ u.lines = L /\ u.operations = q.operations
      /\ u.holds = q.holds /\ u.accounts = q.accounts
  <2>1. DOMAIN q = TableNames  BY DEF Snapshot, TableNames
  <2> HIDE DEF q
  <2> QED  BY <2>1 DEF TableNames
<1>5. s = Redigested(u, x.journal)  BY <1>3
<1> HIDE DEF u
<1>6. /\ s.lines = L /\ s.operations = q.operations
      /\ s.holds = q.holds /\ s.accounts = q.accounts
  BY <1>4, <1>5, DigestOnly
<1> QED  BY <1>2, <1>6, LineInflated

\* A journal posted again, under an id no operation has.
LEMMA JournalAgain ==
  ASSUME RecordedBook, HistoryInv, NEW j \in DOMAIN Snapshot.journals, NEW X, NEW s,
         s = [Snapshot EXCEPT !.journals = With(@, NoOp, Snapshot.journals[j]), !.lines = X]
  PROVE  ~V!Valid(s)
<1> DEFINE J == With(Snapshot.journals, NoOp, Snapshot.journals[j])
<1>1. DOMAIN Snapshot = TableNames  BY DEF Snapshot, TableNames
<1>2. s = [Snapshot EXCEPT !.journals = J, !.lines = X]  OBVIOUS
<1> HIDE DEF J
<1>3. s.journals = J /\ s.operations = Snapshot.operations  BY <1>1, <1>2 DEF TableNames
<1> QED  BY <1>3, JournalTwice DEF J

\* No amount can be altered.
LEMMA EveryAmountNeeded ==
  ASSUME RecordedBook, HistoryInv
  PROVE  AlteredMoneyReported
<1> DEFINE q == Snapshot
<1> SUFFICES ASSUME NEW s \in AlteredMoney(q) PROVE ~V!Valid(s)  BY DEF AlteredMoneyReported
<1>1. CASE \E a \in DOMAIN q.balances :
             s \in {[q EXCEPT !.balances[a].debits = @ + 1],
                    [q EXCEPT !.balances[a].credits = @ + 1],
                    [q EXCEPT !.balances[a].held = @ + 1],
                    [q EXCEPT !.balances[a].version = @ + 1]}
  BY <1>1, BalanceOff
<1>2. CASE \E k \in DOMAIN q.usage : s \in {[q EXCEPT !.usage[k].reserved = @ + 1],
                                            [q EXCEPT !.usage[k].consumed = @ + 1]}
  BY <1>2, UsageOff
<1>3. CASE \E j \in DOMAIN q.journals : \E X :
             s = [q EXCEPT !.journals = With(@, NoOp, q.journals[j]), !.lines = X]
  BY <1>3, JournalAgain
<1>4. CASE \E h \in DOMAIN q.holds :
             \/ s = [q EXCEPT !.holds[h].terms.terms.principal = @ + 1]
             \/ \E st : st # q.holds[h].state /\ s = [q EXCEPT !.holds[h].state = st]
  BY <1>4, HoldOff
<1>5. CASE s \in Redirected(q)
  <2>1. PICK l \in q.lines : \E a \in DOMAIN q.accounts \ {l.account} :
          s = Redigested([q EXCEPT !.lines = Replaced(@, l, [l EXCEPT !.account = a])], l.journal)
    BY <1>5 DEF Redirected
  <2> QED  BY <2>1, LineRedirected
<1>6. CASE s \in Inflated(q)  BY <1>6, MoneyInflated
<1> HIDE DEF q
<1>7. \/ s \in AlteredBalances(q) \/ s \in AlteredUsage(q) \/ s \in AlteredHolds(q)
      \/ s \in Reposted(q) \/ s \in Redirected(q) \/ s \in Inflated(q)
  BY DEF AlteredMoney
<1>8. s \in AlteredBalances(q) => ~V!Valid(s)  BY <1>1 DEF AlteredBalances
<1>9. s \in AlteredUsage(q) => ~V!Valid(s)  BY <1>2 DEF AlteredUsage
<1>10. CASE s \in Reposted(q)
  <2>1. PICK j \in DOMAIN q.journals :
          s = [q EXCEPT !.journals = With(@, NoOp, q.journals[j]),
                        !.lines = @ \cup {[l EXCEPT !.journal = NoOp] : l \in V!LinesOf(q, j)}]
    BY <1>10 DEF Reposted
  <2> DEFINE X == q.lines \cup {[l EXCEPT !.journal = NoOp] : l \in V!LinesOf(q, j)}
  <2>2. s = [q EXCEPT !.journals = With(@, NoOp, q.journals[j]), !.lines = X]  BY <2>1
  <2> HIDE DEF X
  <2> QED  BY <1>3, <2>2
<1>11. CASE s \in AlteredHolds(q)
  <2> DEFINE S == {"RESERVED", "EXPOSED", "CAPTURED", "RELEASED"}
             Z == {y \in (DOMAIN q.holds) \X S : q.holds[y[1]].state # y[2]}
  <2>1. CASE s \in {[q EXCEPT !.holds[h].terms.terms.principal = @ + 1] : h \in DOMAIN q.holds}
    BY <1>4, <2>1
  <2>2. CASE s \in {[q EXCEPT !.holds[x[1]].state = x[2]] : x \in Z}
    <3>1. PICK x \in Z : s = [q EXCEPT !.holds[x[1]].state = x[2]]  BY <2>2
    <3>2. x[1] \in DOMAIN q.holds /\ x[2] # q.holds[x[1]].state  OBVIOUS
    <3> QED  BY <1>4, <3>1, <3>2
  <2> QED  BY <1>11, <2>1, <2>2 DEF AlteredHolds
<1> QED  BY <1>5, <1>6, <1>7, <1>8, <1>9, <1>10, <1>11

\* No amount can be altered unnoticed: not a running total, a limit or a hold, and not a
\* journal, even if its digest, the balances and their histories are made to agree with it
\* (verify.Verify on what the export reads).
THEOREM VerifierMissesNoAmount == AuditSpec => []AlteredMoneyReported
<1>1. RecordedBook /\ HistoryInv => AlteredMoneyReported  BY EveryAmountNeeded
<1> QED  BY <1>1, HistoriesUnbroken, PTL

-----------------------------------------------------------------------------
(***************************************************************************)
(* What a command leaves behind even if it neither posts nor claims.       *)
(***************************************************************************)
\* The commands an applied one of which shows in no journal and no admission.
Unposted == Creates \cup SetControls \cup Exposes \cup Releases

\* Some row of a versioned table is written.
RowWritten ==
  \/ \E a \in Accounts : balance'[a] # balance[a]
  \/ \E k \in ControlKeys : control'[k] # control[k]
  \/ \E h \in Holds : hold'[h] # hold[h]

\* The columns of an event, and what rows of a history are rows of.
EventShaped(e) == DOMAIN e = {"key", "version", "op", "before", "after"}
EventsHold(log, T) == \A e \in log : EventShaped(e) /\ e.after \in T

\* Such an operation wrote an event, and events hold whole rows.
MarkInv ==
  /\ \A o \in Ops : Applied(o, Unposted) =>
       \E e \in accountEvents \cup controlEvents \cup holdEvents : e.op = o
  /\ EventsHold(accountEvents, Balance) /\ EventsHold(controlEvents, Control)
  /\ EventsHold(limitEvents, Usage) /\ \A e \in holdEvents : EventShaped(e)

\* A hold that moves is written.
LEMMA MoveWrites ==
  ASSUME LedgerInv, NEW r \in Exposes \cup Releases, NEW state, MoveHold(r, state)
  PROVE  RowWritten
<1> DEFINE h == r.ref.hold
<1>1. h \in Holds  BY RefTypes
<1>2. hold[h].version \in Int /\ hold[h] \in Hold /\ DOMAIN hold = Holds
  BY <1>1, BoundsAssumption DEF LedgerInv, TypeOK, Hold, Versions
<1>3. hold'[h] = MoveTo(hold[h], state)  BY <1>1, <1>2 DEF MoveHold
<1>4. MoveTo(hold[h], state).version = hold[h].version + 1
  BY <1>2 DEF MoveTo, Touched, Hold
<1>5. hold'[h] # hold[h]  BY <1>2, <1>3, <1>4
<1> QED  BY <1>1, <1>5 DEF RowWritten

\* Every such command that is applied writes a row.
LEMMA NextWrites ==
  ASSUME LedgerInv, RecordInv, Next, NEW o \in Ops, receipts[o].outcome = "NONE",
         Applied(o, Unposted)'
  PROVE  RowWritten
<1>0. receipts'[o].outcome = "APPLIED" /\ receipts'[o].request \in Unposted  BY DEF Applied
<1>1. CASE \E r \in Creates : CreateAccount(r)
  <2>1. PICK r \in Creates : CreateAccount(r)  BY <1>1
  <2>2. r \in Requests  BY DEF Requests
  <2>3. CASE Reject(r, CreateVerdict(r))  BY <1>0, <2>2, <2>3, RejectEffect
  <2>4. CASE CreateVerdict(r) = "APPLIED" /\ balance' = [balance EXCEPT ![r.account] = NewBalance]
    <3>1. r.account \in Accounts  BY RequestAssumption DEF CreateRequest
    <3>2. ~Exists(r.account)  BY <2>4 DEF CreateVerdict
    <3>3. ~(balance[r.account].version > 0)  BY <3>1, <3>2 DEF RecordInv
    <3>4. balance'[r.account] = NewBalance  BY <2>4, <3>1 DEF LedgerInv, TypeOK
    <3>5. NewBalance.version > 0  BY DEF NewBalance
    <3> QED  BY <3>1, <3>3, <3>4, <3>5 DEF RowWritten
  <2> QED  BY <2>1, <2>3, <2>4 DEF CreateAccount
<1>2. CASE \E r \in SetControls : SetAccountControl(r)
  <2>1. PICK r \in SetControls : SetAccountControl(r)  BY <1>2
  <2>2. r \in Requests  BY DEF Requests
  <2> DEFINE c == control[r.key]
             n == [version |-> c.version + 1,
                   epoch |-> IF r.revokeGrants THEN c.epoch + 1 ELSE c.epoch,
                   debitFrozen |-> r.debitFrozen, creditFrozen |-> r.creditFrozen,
                   dailyCap |-> r.dailyCap]
  <2>3. CASE Reject(r, SetControlVerdict(r))  BY <1>0, <2>2, <2>3, RejectEffect
  <2>4. CASE control' = [control EXCEPT ![r.key] = n]
    <3>1. r.key \in ControlKeys  BY RequestAssumption DEF SetControlRequest
    <3>2. n.version = c.version + 1  OBVIOUS
    <3> HIDE DEF n
    <3>3. control'[r.key] = n  BY <2>4, <3>1 DEF LedgerInv, TypeOK
    <3>4. c.version \in Int
      BY <3>1, BoundsAssumption DEF LedgerInv, TypeOK, Control, Versions
    <3> QED  BY <3>1, <3>2, <3>3, <3>4 DEF RowWritten
  <2> QED  BY <2>1, <2>3, <2>4 DEF SetAccountControl
<1>3. CASE \E r \in Transfers, now \in Times : TransferInternal(r, now)
  <2>1. PICK r \in Transfers, now \in Times : TransferInternal(r, now)  BY <1>3
  <2>2. r \in Requests /\ r \notin Unposted  BY KindsDiffer DEF Requests, Unposted
  <2>3. (\E b : Record(r, b)) \/ (\E v : Reject(r, v))
    BY <2>1 DEF TransferInternal, RejectAdmission
  <2> QED  BY <1>0, <2>2, <2>3, RecordEffect, RejectEffect
<1>4. CASE \E r \in Reserves, now \in Times : ReservePayout(r, now)
  <2>1. PICK r \in Reserves, now \in Times : ReservePayout(r, now)  BY <1>4
  <2>2. r \in Requests /\ r \notin Unposted  BY KindsDiffer DEF Requests, Unposted
  <2>3. (\E b : Record(r, b)) \/ (\E v : Reject(r, v))
    BY <2>1 DEF ReservePayout, RejectAdmission
  <2> QED  BY <1>0, <2>2, <2>3, RecordEffect, RejectEffect
<1>5. CASE \E r \in Exposes, now \in Times, known \in BOOLEAN : MarkHoldExposed(r, now, known)
  <2>1. PICK r \in Exposes, now \in Times, known \in BOOLEAN : MarkHoldExposed(r, now, known)
    BY <1>5
  <2>2. r \in Requests  BY DEF Requests
  <2>3. MoveHold(r, "EXPOSED") \/ (\E v : Reject(r, v))  BY <2>1 DEF MarkHoldExposed
  <2> QED  BY <1>0, <2>2, <2>3, MoveWrites, RejectEffect
<1>6. CASE \E r \in Captures, now \in Times : CapturePayout(r, now)
  <2>1. PICK r \in Captures, now \in Times : CapturePayout(r, now)  BY <1>6
  <2>2. r \in Requests /\ r \notin Unposted  BY KindsDiffer DEF Requests, Unposted
  <2>3. (\E b : Record(r, b)) \/ (\E v : Reject(r, v))  BY <2>1 DEF CapturePayout
  <2> QED  BY <1>0, <2>2, <2>3, RecordEffect, RejectEffect
<1>7. CASE \E r \in Releases, now \in Times : ReleasePayout(r, now)
  <2>1. PICK r \in Releases, now \in Times : ReleasePayout(r, now)  BY <1>7
  <2>2. r \in Requests  BY DEF Requests
  <2>3. MoveHold(r, "RELEASED") \/ (\E v : Reject(r, v))  BY <2>1 DEF ReleasePayout
  <2> QED  BY <1>0, <2>2, <2>3, MoveWrites, RejectEffect
<1> QED  BY <1>1, <1>2, <1>3, <1>4, <1>5, <1>6, <1>7 DEF Next

\* What is written leaves an event.
LEMMA WritesMark ==
  ASSUME LedgerInv, LedgerInv', NEW op, Save(op), RowWritten
  PROVE  \E e \in (accountEvents \cup controlEvents \cup holdEvents)' : e.op = op
<1>1. DOMAIN balance = Accounts /\ DOMAIN control = ControlKeys  BY DEF LedgerInv, TypeOK
<1>2. ASSUME NEW old, NEW new, NEW k \in DOMAIN old, old[k] # new[k]
      PROVE  \E e \in Changes(old, new, op) : e.op = op
  <2> DEFINE e == Event(k, new[k].version, op, IF old[k].version = 0 THEN {} ELSE {old[k]}, new[k])
  <2>1. e.op = op  BY DEF Event
  <2>2. e \in Changes(old, new, op)  BY <1>2 DEF Changes
  <2> QED  BY <2>1, <2>2
<1>3. ASSUME NEW h \in Holds, hold[h] # hold'[h]
      PROVE  \E e \in HoldChanges(hold, hold', op) : e.op = op
  <2> DEFINE e == HoldEvent(h, hold[h], hold'[h], op)
  <2>1. e.op = op  BY DEF HoldEvent, Event
  <2>2. e \in HoldChanges(hold, hold', op)  BY <1>3 DEF HoldChanges, HoldEvent
  <2> QED  BY <2>1, <2>2
<1>4. CASE \E a \in Accounts : balance'[a] # balance[a]
  <2>1. PICK e \in Changes(balance, balance', op) : e.op = op  BY <1>1, <1>2, <1>4
  <2> QED  BY <2>1 DEF Save
<1>5. CASE \E k \in ControlKeys : control'[k] # control[k]
  <2>1. PICK e \in Changes(control, control', op) : e.op = op  BY <1>1, <1>2, <1>5
  <2> QED  BY <2>1 DEF Save
<1>6. CASE \E h \in Holds : hold'[h] # hold[h]
  <2>1. PICK e \in HoldChanges(hold, hold', op) : e.op = op  BY <1>3, <1>6
  <2> QED  BY <2>1 DEF Save
<1> QED  BY <1>4, <1>5, <1>6 DEF RowWritten

\* The rows an event holds are rows.
LEMMA ChangesTyped ==
  ASSUME NEW old, NEW new, NEW op, NEW T, \A k \in DOMAIN old : new[k] \in T
  PROVE  EventsHold(Changes(old, new, op), T)
BY DEF Changes, Event, EventsHold, EventShaped

\* So it is with holds.
LEMMA HoldChangesShaped ==
  ASSUME NEW old, NEW new, NEW op
  PROVE  \A e \in HoldChanges(old, new, op) : EventShaped(e)
BY DEF HoldChanges, Event, EventShaped

\* Every step keeps this.
LEMMA NextMarks ==
  ASSUME LedgerInv, LedgerInv', RecordInv, Timed, MarkInv, AuditNext
  PROVE  MarkInv'
<1>1. Next /\ \E op : Saved(op)  BY NextSaves
<1>2. PICK op : Saved(op)  BY <1>1
<1>3. Save(op)  BY <1>2 DEF Saved
<1>4. ASSUME NEW o \in Ops, Applied(o, Unposted)'
      PROVE  \E e \in (accountEvents \cup controlEvents \cup holdEvents)' : e.op = o
  <2>1. CASE o = op
    <3>1. RowWritten  BY <1>1, <1>2, <1>4, <2>1, NextWrites DEF Saved
    <3> QED  BY <1>3, <2>1, <3>1, WritesMark
  <2>2. CASE o # op
    <3>1. Applied(o, Unposted)  BY <1>2, <1>4, <2>2 DEF Saved, Applied
    <3>2. PICK e \in accountEvents \cup controlEvents \cup holdEvents : e.op = o
      BY <3>1 DEF MarkInv
    <3> QED  BY <1>3, <3>2 DEF Save
  <2> QED  BY <2>1, <2>2
<1>5. /\ \A a \in DOMAIN balance : balance'[a] \in Balance
      /\ \A k \in DOMAIN control : control'[k] \in Control
      /\ \A k \in DOMAIN usage : usage'[k] \in Usage
  BY DEF LedgerInv, TypeOK
<1>6. /\ EventsHold(Changes(balance, balance', op), Balance)
      /\ EventsHold(Changes(control, control', op), Control)
      /\ EventsHold(Changes(usage, usage', op), Usage)
      /\ \A e \in HoldChanges(hold, hold', op) : EventShaped(e)
  BY <1>5, ChangesTyped, HoldChangesShaped
<1>7. /\ EventsHold(accountEvents', Balance) /\ EventsHold(controlEvents', Control)
      /\ EventsHold(limitEvents', Usage) /\ \A e \in holdEvents' : EventShaped(e)
  BY <1>3, <1>6 DEF Save, MarkInv, EventsHold
<1> QED  BY <1>4, <1>7 DEF MarkInv, EventsHold, EventShaped

\* Whatever is committed, every applied operation shows somewhere.
LEMMA MarksLeft == AuditSpec => []MarkInv
<1>1. AuditInit => MarkInv
  <2> SUFFICES ASSUME AuditInit PROVE MarkInv  OBVIOUS
  <2>1. Init /\ TypeOK  BY InitInv DEF AuditInit, LedgerInv
  <2>2. \A o \in Ops : receipts[o].request = NoRequest  BY <2>1 DEF Init, Receipt
  <2>3. NoRequest \notin Unposted  BY IdAssumption DEF Requests, Unposted
  <2>4. EventsHold(accountEvents, Balance) /\ EventsHold(controlEvents, Control)
    BY <2>1 DEF AuditInit, TypeOK, Event, EventsHold, EventShaped
  <2>5. limitEvents = {} /\ holdEvents = {}  BY DEF AuditInit
  <2> QED  BY <2>2, <2>3, <2>4, <2>5 DEF MarkInv, Applied, EventsHold
<1>2. RecordedBook /\ RecordedBook' /\ HistoryInv /\ MarkInv /\ [AuditNext]_auditVars => MarkInv'
  <2> SUFFICES ASSUME RecordedBook, RecordedBook', HistoryInv, MarkInv, [AuditNext]_auditVars
               PROVE  MarkInv'
    OBVIOUS
  <2>1. LedgerInv /\ LedgerInv' /\ RecordInv /\ Timed
    BY DEF RecordedBook, SoundBook, BookInv, HistoryInv
  <2>2. CASE AuditNext  BY <2>1, <2>2, NextMarks
  <2>3. CASE UNCHANGED auditVars
    <3>1. UNCHANGED <<receipts, accountEvents, controlEvents, holdEvents, limitEvents>>
      BY <2>3 DEF auditVars, vars, events
    <3> QED  BY <3>1 DEF MarkInv, Applied, EventsHold, EventShaped
  <2> QED  BY <2>2, <2>3
<1> QED  BY <1>1, <1>2, HistoriesUnbroken, PTL DEF AuditSpec

-----------------------------------------------------------------------------
(***************************************************************************)
(* Damage to a history or to the row it ends in.                           *)
(***************************************************************************)
\* The row that ends a history is the table's.
LEMMA TipIs ==
  ASSUME NEW log, NEW rows, Unbroken(log, rows), NEW k \in DOMAIN rows,
         rows[k].version \in Nat \ {0}
  PROVE  \E e \in V!EventsOf(log, k) : /\ e.after = rows[k]
                                       /\ \A d \in V!EventsOf(log, k) : d.version <= e.version
<1> DEFINE es == V!EventsOf(log, k)
           n == rows[k].version
<1>1. Chained(es, rows[k])  BY DEF Unbroken
<1> HIDE DEF es
<1>2. PICK e \in es : e.version = n  BY <1>1 DEF Chained
<1>3. e.after = rows[k] /\ \A d \in es : d.version \in 1 .. n  BY <1>1, <1>2 DEF Chained
<1>4. \A d \in es : d.version <= e.version  BY <1>2, <1>3
<1> QED  BY <1>3, <1>4 DEF es

\* A control in force is the last its history has.
LEMMA ControlAltered ==
  ASSUME RecordedBook, HistoryInv, NEW s, SameBut(s, "controls"),
         NEW k \in DOMAIN Snapshot.controls, DOMAIN s.controls = DOMAIN Snapshot.controls,
         ~V!SameControl(Snapshot.controls[k], s.controls[k])
  PROVE  ~V!Valid(s)
<1>1. s.controlEvents = controlEvents  BY OtherTables, Tables
<1>2. k \in ControlKeys /\ control[k].version > 0 /\ Snapshot.controls[k] = control[k]
  BY ControlTable
<1>3. control[k].version \in Nat /\ DOMAIN control = ControlKeys
  BY <1>2, BoundsAssumption
  DEF RecordedBook, SoundBook, BookInv, LedgerInv, TypeOK, Control, Versions
<1>4. PICK e \in V!EventsOf(controlEvents, k) :
        e.after = control[k] /\ \A d \in V!EventsOf(controlEvents, k) : d.version <= e.version
  BY <1>2, <1>3, TipIs DEF HistoryInv
<1>5. ~V!SameAsTip("control_events", e.after, s.controls[k])
  BY <1>2, <1>4 DEF V!SameAsTip
<1>6. V!BadHistories(s, "control_events", s.controlEvents, s.controls)
  BY <1>1, <1>4, <1>5 DEF V!BadHistories
<1> QED  BY <1>6, ValidSays DEF Clean

\* A field of a control that is another.
LEMMA ControlOff ==
  ASSUME RecordedBook, HistoryInv, NEW k \in DOMAIN Snapshot.controls, NEW s,
         s \in {[Snapshot EXCEPT !.controls[k].dailyCap = @ + 1],
                [Snapshot EXCEPT !.controls[k].epoch = @ + 1],
                [Snapshot EXCEPT !.controls[k].debitFrozen = ~@],
                [Snapshot EXCEPT !.controls[k].creditFrozen = ~@]}
  PROVE  ~V!Valid(s)
<1> DEFINE q == Snapshot
           c == q.controls[k]
<1>1. c = control[k] /\ control[k] \in Control
  BY ControlTable DEF RecordedBook, SoundBook, BookInv, LedgerInv, TypeOK
<1>2. /\ DOMAIN c = {"version", "epoch", "debitFrozen", "creditFrozen", "dailyCap"}
      /\ c.dailyCap \in Int /\ c.epoch \in Int
      /\ c.debitFrozen \in BOOLEAN /\ c.creditFrozen \in BOOLEAN
  BY <1>1, BoundsAssumption DEF Control, Wides, Versions
<1>3. PICK f \in {"dailyCap", "epoch", "debitFrozen", "creditFrozen"} : \E v :
        /\ v # c[f]
        /\ s = [q EXCEPT !["controls"] = [q.controls EXCEPT ![k] = [c EXCEPT ![f] = v]]]
  <2>1. CASE s = [q EXCEPT !.controls[k].dailyCap = @ + 1]
    <3>1. c.dailyCap + 1 # c.dailyCap  BY <1>2
    <3> QED  BY <2>1, <3>1
  <2>2. CASE s = [q EXCEPT !.controls[k].epoch = @ + 1]
    <3>1. c.epoch + 1 # c.epoch  BY <1>2
    <3> QED  BY <2>2, <3>1
  <2>3. CASE s = [q EXCEPT !.controls[k].debitFrozen = ~@]
    <3>1. (~c.debitFrozen) # c.debitFrozen  BY <1>2
    <3> QED  BY <2>3, <3>1
  <2>4. CASE s = [q EXCEPT !.controls[k].creditFrozen = ~@]
    <3>1. (~c.creditFrozen) # c.creditFrozen  BY <1>2
    <3> QED  BY <2>4, <3>1
  <2> QED  BY <2>1, <2>2, <2>3, <2>4
<1>4. PICK v : /\ v # c[f]
               /\ s = [q EXCEPT !["controls"] = [q.controls EXCEPT ![k] = [c EXCEPT ![f] = v]]]
  BY <1>3
<1> DEFINE X == [q.controls EXCEPT ![k] = [c EXCEPT ![f] = v]]
<1>5. DOMAIN X = DOMAIN q.controls /\ X[k][f] = v  BY <1>2
<1> HIDE DEF X
<1>6. s.controls = X /\ SameBut(s, "controls")
  <2>1. s = [q EXCEPT !["controls"] = X]  BY <1>4 DEF X
  <2> QED  BY <2>1, OneTable DEF TableNames
<1>7. ~V!SameControl(c, X[k])  BY <1>4, <1>5 DEF V!SameControl
<1> QED  BY <1>5, <1>6, <1>7, ControlAltered

\* Rows without an expiry are compared as they are.
LEMMA PlainEqual ==
  ASSUME NEW x, NEW y, "expiresAt" \notin DOMAIN x, "expiresAt" \notin DOMAIN y, x # y
  PROVE  ~V!HistoryEqual({x}, y)
BY DEF V!HistoryEqual

\* An event that ends in another row: the next event does not start there, or the row
\* itself is another.
LEMMA StepAltered ==
  ASSUME NEW log, NEW rows, Unbroken(log, rows), NEW e \in log, NEW x,
         x.key = e.key, x.version = e.version, x.after # e.after,
         "expiresAt" \notin DOMAIN x.after, "expiresAt" \notin DOMAIN e.after,
         rows[e.key].version \in Nat,
         NEW table, NEW current, e.key \in DOMAIN current,
         e.after = rows[e.key] => ~V!SameAsTip(table, x.after, current[e.key]),
         NEW s
  PROVE  V!BadHistories(s, table, Replaced(log, e, x), current)
<1> DEFINE k == e.key
           n == rows[k].version
           es == V!EventsOf(log, k)
           new == V!EventsOf(Replaced(log, e, x), k)
<1>1. Chained(es, rows[k])  BY DEF Unbroken
<1>2. e \in es /\ new = (es \ {e}) \cup {x}  BY DEF V!EventsOf, Replaced
<1> HIDE DEF es, new
<1>3. e.version \in 1 .. n /\ \A d \in es : d.version \in 1 .. n  BY <1>1, <1>2 DEF Chained
<1>4. x \in new /\ \A d \in new : d.version \in 1 .. n  BY <1>2, <1>3
<1>5. CASE e.version = n
  <2>1. e.after = rows[k]  BY <1>1, <1>2, <1>5 DEF Chained
  <2>2. \A d \in new : d.version <= x.version  BY <1>3, <1>4, <1>5
  <2> QED  BY <1>4, <2>1, <2>2 DEF V!BadHistories, new
<1>6. CASE e.version # n
  <2>1. e.version + 1 \in 1 .. n  BY <1>3, <1>6
  <2>2. PICK d \in es : d.version = e.version + 1  BY <1>1, <2>1 DEF Chained
  <2>3. d # e /\ e.version = d.version - 1  BY <1>3, <2>2
  <2>4. d.before = {e.after}  BY <1>1, <1>2, <2>2, <2>3 DEF Chained
  <2>5. ~V!HistoryEqual(d.before, x.after)  BY <2>4, PlainEqual
  <2>6. d \in new /\ x.version = d.version - 1  BY <1>2, <2>2, <2>3
  <2>7. V!BrokenHistory(Replaced(log, e, x), k, current[k].version)
    BY <1>4, <2>5, <2>6 DEF V!BrokenHistory, new
  <2> QED  BY <2>7 DEF V!BadHistories
<1> QED  BY <1>5, <1>6

\* What an event is once a field of its row is one more.
LEMMA RaisedEvent ==
  ASSUME NEW e, EventShaped(e), NEW row
  PROVE  LET x == [e EXCEPT !["after"] = row]
         IN  x.key = e.key /\ x.version = e.version /\ x.after = row
BY DEF EventShaped

\* One step of the history of an account.
LEMMA AccountStep ==
  ASSUME RecordedBook, HistoryInv, MarkInv, NEW e \in accountEvents, NEW s,
         s = [Snapshot EXCEPT !.accountEvents = Replaced(@, e, [e EXCEPT !.after.held = @ + 1])]
  PROVE  ~V!Valid(s)
<1> DEFINE row == [e.after EXCEPT !.held = @ + 1]
           x == [e EXCEPT !["after"] = row]
           k == e.key
<1>1. EventShaped(e) /\ e.after \in Balance  BY DEF MarkInv, EventsHold
<1>2. /\ e.after.held \in Int /\ DOMAIN e.after = {"debits", "credits", "held", "version"}
  BY <1>1, BoundsAssumption DEF Balance, Wides
<1>3. row.held = e.after.held + 1 /\ DOMAIN row = DOMAIN e.after  BY <1>2
<1> HIDE DEF row
<1>4. x.key = k /\ x.version = e.version /\ x.after = row  BY <1>1, RaisedEvent
<1>5. s.accountEvents = Replaced(accountEvents, e, x) /\ SameBut(s, "accountEvents")
  <2> DEFINE L == Replaced(accountEvents, e, x)
  <2>1. s = [Snapshot EXCEPT !["accountEvents"] = L]  BY Tables DEF row
  <2> HIDE DEF L
  <2>2. s.accountEvents = L /\ SameBut(s, "accountEvents")  BY <2>1, OneTable DEF TableNames
  <2> QED  BY <2>2 DEF L
<1> HIDE DEF x
<1>6. s.balances = Snapshot.balances  BY <1>5, OtherTables
<1>7. Unbroken(accountEvents, balance) /\ k \in DOMAIN balance
  BY DEF HistoryInv, Unbroken
<1>8. k \in Accounts /\ balance[k].version \in Nat
  BY <1>7, BoundsAssumption
  DEF RecordedBook, SoundBook, BookInv, LedgerInv, TypeOK, Balance, Versions
<1>9. k \in DOMAIN s.balances
  BY <1>6, BookClean, Tables DEF Clean, V!BadHistories, V!OrphanHistory
<1>10. s.balances[k].held = balance[k].held  BY <1>6, <1>9, BalanceTable
<1>11. e.after = balance[k] => ~V!SameAsTip("account_events", x.after, s.balances[k])
  BY <1>2, <1>3, <1>4, <1>10 DEF V!SameAsTip, V!SameTotals
<1>12. V!BadHistories(s, "account_events", Replaced(accountEvents, e, x), s.balances)
  BY <1>2, <1>3, <1>4, <1>7, <1>8, <1>9, <1>11, StepAltered
<1> QED  BY <1>5, <1>12, ValidSays DEF Clean

\* One step of the history of a control.
LEMMA ControlStep ==
  ASSUME RecordedBook, HistoryInv, MarkInv, NEW e \in controlEvents, NEW s,
         s = [Snapshot EXCEPT !.controlEvents = Replaced(@, e, [e EXCEPT !.after.epoch = @ + 1])]
  PROVE  ~V!Valid(s)
<1> DEFINE row == [e.after EXCEPT !.epoch = @ + 1]
           x == [e EXCEPT !["after"] = row]
           k == e.key
<1>1. EventShaped(e) /\ e.after \in Control  BY DEF MarkInv, EventsHold
<1>2. /\ e.after.epoch \in Int
      /\ DOMAIN e.after = {"version", "epoch", "debitFrozen", "creditFrozen", "dailyCap"}
  BY <1>1, BoundsAssumption DEF Control, Versions
<1>3. row.epoch = e.after.epoch + 1 /\ DOMAIN row = DOMAIN e.after  BY <1>2
<1> HIDE DEF row
<1>4. x.key = k /\ x.version = e.version /\ x.after = row  BY <1>1, RaisedEvent
<1>5. s.controlEvents = Replaced(controlEvents, e, x) /\ SameBut(s, "controlEvents")
  <2> DEFINE L == Replaced(controlEvents, e, x)
  <2>1. s = [Snapshot EXCEPT !["controlEvents"] = L]  BY Tables DEF row
  <2> HIDE DEF L
  <2>2. s.controlEvents = L /\ SameBut(s, "controlEvents")  BY <2>1, OneTable DEF TableNames
  <2> QED  BY <2>2 DEF L
<1> HIDE DEF x
<1>6. s.controls = Snapshot.controls  BY <1>5, OtherTables
<1>7. Unbroken(controlEvents, control) /\ k \in DOMAIN control
  BY DEF HistoryInv, Unbroken
<1>8. k \in ControlKeys /\ control[k].version \in Nat
  BY <1>7, BoundsAssumption
  DEF RecordedBook, SoundBook, BookInv, LedgerInv, TypeOK, Control, Versions
<1>9. k \in DOMAIN s.controls
  BY <1>6, BookClean, Tables DEF Clean, V!BadHistories, V!OrphanHistory
<1>10. s.controls[k].epoch = control[k].epoch  BY <1>6, <1>9, ControlTable
<1>11. e.after = control[k] => ~V!SameAsTip("control_events", x.after, s.controls[k])
  BY <1>2, <1>3, <1>4, <1>10 DEF V!SameAsTip, V!SameControl
<1>12. V!BadHistories(s, "control_events", Replaced(controlEvents, e, x), s.controls)
  BY <1>2, <1>3, <1>4, <1>7, <1>8, <1>9, <1>11, StepAltered
<1> QED  BY <1>5, <1>12, ValidSays DEF Clean

\* One step of the history of a limit.
LEMMA LimitStep ==
  ASSUME RecordedBook, HistoryInv, MarkInv, NEW e \in limitEvents, NEW s,
         s = [Snapshot EXCEPT !.limitEvents = Replaced(@, e, [e EXCEPT !.after.consumed = @ + 1])]
  PROVE  ~V!Valid(s)
<1> DEFINE row == [e.after EXCEPT !.consumed = @ + 1]
           x == [e EXCEPT !["after"] = row]
           k == e.key
<1>1. EventShaped(e) /\ e.after \in Usage  BY DEF MarkInv, EventsHold
<1>2. /\ e.after.consumed \in Int /\ DOMAIN e.after = {"reserved", "consumed", "version"}
  BY <1>1, BoundsAssumption DEF Usage, Wides
<1>3. row.consumed = e.after.consumed + 1 /\ DOMAIN row = DOMAIN e.after  BY <1>2
<1> HIDE DEF row
<1>4. x.key = k /\ x.version = e.version /\ x.after = row  BY <1>1, RaisedEvent
<1>5. s.limitEvents = Replaced(limitEvents, e, x) /\ SameBut(s, "limitEvents")
  <2> DEFINE L == Replaced(limitEvents, e, x)
  <2>1. s = [Snapshot EXCEPT !["limitEvents"] = L]  BY Tables DEF row
  <2> HIDE DEF L
  <2>2. s.limitEvents = L /\ SameBut(s, "limitEvents")  BY <2>1, OneTable DEF TableNames
  <2> QED  BY <2>2 DEF L
<1> HIDE DEF x
<1>6. s.usage = Snapshot.usage  BY <1>5, OtherTables
<1>7. Unbroken(limitEvents, usage) /\ k \in DOMAIN usage
  BY DEF HistoryInv, Unbroken
<1>8. usage[k].version \in Nat
  <2>1. DOMAIN usage = Owners \X Buckets /\ usage \in [Owners \X Buckets -> Counter]
    BY UsageCounts DEF RecordedBook, SoundBook, BookInv, LedgerInv, TypeOK
  <2> QED  BY <1>7, <2>1 DEF Counter
<1>9. k \in DOMAIN s.usage
  BY <1>6, BookClean, Tables DEF Clean, V!BadHistories, V!OrphanHistory
<1>10. s.usage[k].consumed = usage[k].consumed  BY <1>6, <1>9, UsageTable
<1>11. e.after = usage[k] => ~V!SameAsTip("limit_events", x.after, s.usage[k])
  BY <1>2, <1>3, <1>4, <1>10 DEF V!SameAsTip, V!SameUsage
<1>12. V!BadHistories(s, "limit_events", Replaced(limitEvents, e, x), s.usage)
  BY <1>2, <1>3, <1>4, <1>7, <1>8, <1>9, <1>11, StepAltered
<1> QED  BY <1>5, <1>12, ValidSays DEF Clean

\* An event of a hold with other terms: so has no other event of it, nor the hold.
LEMMA TermsAltered ==
  ASSUME RecordedBook, HistoryInv, NEW e \in holdEvents, NEW x, NEW s,
         SameBut(s, "holdEvents"), s.holdEvents = Replaced(holdEvents, e, x),
         x.key = e.key, x.version = e.version, x.after.terms # e.after.terms
  PROVE  ~V!Valid(s)
<1> DEFINE h == e.key
           n == hold[h].version
           es == V!EventsOf(holdEvents, h)
           new == V!EventsOf(s.holdEvents, h)
           fixed == FixedTerms(h, hold[h])
<1>1. h \in Holds /\ HoldChained(es, fixed, V!Truncate(hold[h].reserve.expiresAt), hold[h])
  BY DEF HistoryInv, HoldsUnbroken
<1>2. e \in es /\ new = (es \ {e}) \cup {x}  BY DEF V!EventsOf, Replaced
<1>3. n \in Nat
  BY <1>1, BoundsAssumption
  DEF RecordedBook, SoundBook, BookInv, LedgerInv, TypeOK, Hold, Versions
<1>4. s.holds = Snapshot.holds  BY OtherTables
<1>5. h \in DOMAIN s.holds
  BY <1>4, BookClean, Tables DEF Clean, V!BadHistories, V!OrphanHistory
<1>6. s.holds[h].terms = fixed  BY <1>4, <1>5, HoldTable
<1> HIDE DEF es, new, fixed
<1>7. \A d \in es : d.version \in 1 .. n /\ d.after.terms = fixed
  BY <1>1, BodyParts DEF HoldChained
<1>8. x \in new /\ \A d \in new : d.version \in 1 .. n  BY <1>2, <1>7
<1>9. CASE e.version = n
  <2>1. \A d \in new : d.version <= x.version  BY <1>3, <1>8, <1>9
  <2>2. x.after.terms # s.holds[h].terms  BY <1>2, <1>6, <1>7
  <2>3. ~V!SameAsTip("hold_events", x.after, s.holds[h])  BY <2>2 DEF V!SameAsTip, V!SameHold
  <2>4. V!BadHistories(s, "hold_events", s.holdEvents, s.holds)
    BY <1>5, <1>8, <2>1, <2>3 DEF V!BadHistories, new
  <2> QED  BY <2>4, ValidSays DEF Clean
<1>10. CASE e.version # n
  <2>1. e.version \in 1 .. n /\ e.version + 1 \in 1 .. n  BY <1>2, <1>3, <1>7, <1>10
  <2>2. PICK d \in es : d.version = e.version + 1  BY <1>1, <2>1 DEF HoldChained
  <2>3. d # e /\ x.version = d.version - 1  BY <2>1, <2>2
  <2>4. d \in new /\ x.after.terms # d.after.terms  BY <1>2, <1>7, <2>2, <2>3
  <2>5. d \in s.holdEvents /\ d.key = h  BY <2>4 DEF new, V!EventsOf
  <2>6. x \in V!EventsOf(s.holdEvents, d.key)  BY <1>8, <2>5 DEF new
  <2>7. V!BadHoldMoves(s)  BY <2>3, <2>4, <2>5, <2>6 DEF V!BadHoldMoves
  <2> QED  BY <2>7, ValidSays DEF Clean
<1> QED  BY <1>9, <1>10

\* One step of the history of a hold.
LEMMA HoldStep ==
  ASSUME RecordedBook, HistoryInv, MarkInv, NEW e \in holdEvents, NEW s,
         s = [Snapshot EXCEPT !.holdEvents =
                Replaced(@, e, [e EXCEPT !.after.terms.terms.fee = @ + 1])]
  PROVE  ~V!Valid(s)
<1> DEFINE h == e.key
           fixed == e.after.terms
           other == [fixed EXCEPT !.terms.fee = @ + 1]
           row == [e.after EXCEPT !.terms = other]
           x == [e EXCEPT !["after"] = row]
<1>1. EventShaped(e)  BY DEF MarkInv
<1>2. /\ h \in Holds
      /\ HoldChained(V!EventsOf(holdEvents, h), FixedTerms(h, hold[h]),
                     V!Truncate(hold[h].reserve.expiresAt), hold[h])
  BY DEF HistoryInv, HoldsUnbroken
<1>3. e \in V!EventsOf(holdEvents, h)  BY DEF V!EventsOf
<1>4. e.after = Body(FixedTerms(h, hold[h]), e.after.state, e.version, e.after.expiresAt)
  BY <1>2, <1>3 DEF HoldChained
<1>5. fixed = FixedTerms(h, hold[h]) /\ "terms" \in DOMAIN e.after
  BY <1>4, BodyParts DEF Body
<1>6. h \in DOMAIN Snapshot.holds
  BY BookClean, Tables DEF Clean, V!BadHistories, V!OrphanHistory
<1>7. fixed = Snapshot.holds[h].terms  BY <1>5, <1>6, HoldTable
<1>8. "terms" \in DOMAIN fixed /\ fixed.terms \in Terms  BY <1>6, <1>7, HoldColumns
<1>9. fixed.terms.fee \in Int /\ "fee" \in DOMAIN fixed.terms
  BY <1>8, BoundsAssumption DEF Terms, Amounts
<1>10. other.terms.fee = fixed.terms.fee + 1  BY <1>8, <1>9
<1> HIDE DEF other
<1>11. other # fixed  BY <1>9, <1>10
<1>12. row.terms = other  BY <1>5
<1> HIDE DEF row
<1>13. x.key = h /\ x.version = e.version /\ x.after = row  BY <1>1, RaisedEvent
<1>14. s.holdEvents = Replaced(holdEvents, e, x) /\ SameBut(s, "holdEvents")
  <2> DEFINE L == Replaced(holdEvents, e, x)
  <2>1. s = [Snapshot EXCEPT !["holdEvents"] = L]  BY Tables DEF row, other
  <2> HIDE DEF L
  <2>2. s.holdEvents = L /\ SameBut(s, "holdEvents")  BY <2>1, OneTable DEF TableNames
  <2> QED  BY <2>2 DEF L
<1> HIDE DEF x
<1> QED  BY <1>11, <1>12, <1>13, <1>14, TermsAltered

-----------------------------------------------------------------------------
(***************************************************************************)
(* Damage to what was decided.                                             *)
(***************************************************************************)
\* Evidence of another amount does not have its digest.
LEMMA EvidenceForged ==
  ASSUME RecordedBook, NEW e \in DOMAIN Snapshot.evidence, NEW s,
         s = [Snapshot EXCEPT !.evidence[e].body.principal = @ + 1]
  PROVE  ~V!Valid(s)
<1> DEFINE q == Snapshot
           old == q.evidence[e]
           body == [old.body EXCEPT !.principal = @ + 1]
           row == [old EXCEPT !.body = body]
           X == [q.evidence EXCEPT ![e] = row]
<1>1. e \in EvidenceIds /\ evidence[e] # NoEvidence /\ old.digest = evidence[e] /\ old.body = evidence[e]
  BY EvidenceTable
<1>2. evidence[e] \in Evidence
  BY <1>1 DEF RecordedBook, SoundBook, BookInv, LedgerInv, TypeOK
<1>3. old.body.principal \in Int /\ "principal" \in DOMAIN old.body
  BY <1>1, <1>2, BoundsAssumption DEF Evidence, Amounts
<1>4. DOMAIN old = {"digest", "body"}
  <2>1. q.evidence = [x \in {y \in EvidenceIds : evidence[y] # NoEvidence} |->
                        [digest |-> evidence[x], body |-> evidence[x]]]
    BY DEF Snapshot
  <2>2. old = [digest |-> evidence[e], body |-> evidence[e]]  BY <1>1, <2>1
  <2> QED  BY <2>2
<1>5. s = [q EXCEPT !["evidence"] = X]  OBVIOUS
<1>6. body.principal = old.body.principal + 1  BY <1>3
<1> HIDE DEF body
<1>7. body # old.body  BY <1>3, <1>6
<1>8. row.body = body /\ row.digest = old.digest  BY <1>4
<1> HIDE DEF row
<1>9. DOMAIN X = DOMAIN q.evidence /\ X[e] = row  OBVIOUS
<1> HIDE DEF X
<1>10. s.evidence = X  BY <1>5, OneTable DEF TableNames
<1>11. s.evidence[e].digest # s.evidence[e].body  BY <1>1, <1>7, <1>8, <1>9, <1>10
<1> QED  BY <1>9, <1>10, <1>11, ValidSays DEF Clean

\* The columns of an operation and of its fact.
LEMMA OperationColumns ==
  ASSUME NEW o \in Recorded
  PROVE  /\ DOMAIN Snapshot.operations[o] = {"material", "hash", "outcome", "receipt"}
         /\ DOMAIN Snapshot.facts[o] = {"op", "body"}
         /\ DOMAIN ReceiptBody(o) = {"op", "kind", "hash", "outcome", "payment", "hold", "policy",
                                     "journal", "evidence", "recordedAt", "event"}
<1>1. Snapshot.operations = [x \in Recorded |->
                     [material |-> Material(x), hash |-> Material(x),
                      outcome |-> receipts[x].outcome, receipt |-> ReceiptBody(x)]]
  BY DEF Snapshot
<1>2. Snapshot.facts = [x \in Recorded |-> [op |-> x, body |-> ReceiptBody(x)]]
  BY DEF Snapshot
<1>3. Snapshot.operations[o] = [material |-> Material(o), hash |-> Material(o),
                                outcome |-> receipts[o].outcome, receipt |-> ReceiptBody(o)]
  BY <1>1
<1>4. Snapshot.facts[o] = [op |-> o, body |-> ReceiptBody(o)]  BY <1>2
<1>5. DOMAIN ReceiptBody(o) = {"op", "kind", "hash", "outcome", "payment", "hold", "policy",
                               "journal", "evidence", "recordedAt", "event"}
  BY DEF ReceiptBody
<1> QED  BY <1>3, <1>4, <1>5

\* An outcome that is none.
LEMMA OutcomeUnknown ==
  ASSUME NEW o \in DOMAIN Snapshot.operations, NEW s,
         s = [Snapshot EXCEPT !.operations[o].outcome = "UNKNOWN"]
  PROVE  ~V!Valid(s)
<1> DEFINE q == Snapshot
           row == [q.operations[o] EXCEPT !.outcome = "UNKNOWN"]
           X == [q.operations EXCEPT ![o] = row]
<1>1. o \in Recorded  BY OperationTable
<1>2. row.outcome = "UNKNOWN"  BY <1>1, OperationColumns
<1>3. s = [q EXCEPT !["operations"] = X]  OBVIOUS
<1> HIDE DEF row
<1>4. DOMAIN X = DOMAIN q.operations /\ X[o] = row  OBVIOUS
<1> HIDE DEF X
<1>5. s.operations = X  BY <1>3, OneTable DEF TableNames
<1>6. V!BadOperation(s, o)  BY <1>2, <1>4, <1>5 DEF V!BadOperation
<1> QED  BY <1>4, <1>5, <1>6, ValidSays DEF Clean

\* A fact that is not its operation's receipt is no fact of it.
LEMMA FactAltered ==
  ASSUME NEW s, SameBut(s, "facts"), NEW f \in Recorded,
         s.facts[f].op # f \/ s.facts[f].body.op # f
  PROVE  ~V!Valid(s)
<1>1. s.operations = Snapshot.operations  BY OtherTables
<1>2. s.operations[f].receipt = ReceiptBody(f) /\ f \in DOMAIN s.operations
  BY <1>1, OperationTable
<1>3. ReceiptBody(f).event = f /\ ReceiptBody(f).op = f  BY ReceiptIs
<1>4. ~V!HasFact(s, f)  BY <1>2, <1>3 DEF V!HasFact
<1>5. V!BadOperation(s, f)  BY <1>4 DEF V!BadOperation
<1> QED  BY <1>2, <1>5, ValidSays DEF Clean

\* A fact told of another operation.
LEMMA FactRetold ==
  ASSUME NEW f \in DOMAIN Snapshot.facts, NEW o, o # f, NEW s,
         \/ s = [Snapshot EXCEPT !.facts[f].op = o]
         \/ s = [Snapshot EXCEPT !.facts[f].body.op = o]
  PROVE  ~V!Valid(s)
<1> DEFINE q == Snapshot
           old == q.facts[f]
<1>1. f \in Recorded /\ old.body = ReceiptBody(f)  BY OperationTable
<1>2. DOMAIN old = {"op", "body"} /\ "op" \in DOMAIN old.body  BY <1>1, OperationColumns
<1>3. PICK row : /\ row.op # f \/ row.body.op # f
                 /\ s = [q EXCEPT !["facts"] = [q.facts EXCEPT ![f] = row]]
  <2>1. CASE s = [q EXCEPT !.facts[f].op = o]
    <3> DEFINE row == [old EXCEPT !.op = o]
    <3>1. row.op = o  BY <1>2
    <3> QED  BY <2>1, <3>1
  <2>2. CASE s = [q EXCEPT !.facts[f].body.op = o]
    <3> DEFINE body == [old.body EXCEPT !.op = o]
               row == [old EXCEPT !.body = body]
    <3>1. body.op = o  BY <1>2
    <3>2. s = [q EXCEPT !["facts"] = [q.facts EXCEPT ![f] = row]]  BY <2>2
    <3> HIDE DEF body
    <3>3. row.body = body  BY <1>2
    <3> QED  BY <3>1, <3>2, <3>3
  <2> QED  BY <2>1, <2>2
<1> DEFINE X == [q.facts EXCEPT ![f] = row]
<1>4. X[f] = row  OBVIOUS
<1>5. s = [q EXCEPT !["facts"] = X]  BY <1>3
<1> HIDE DEF X
<1>6. s.facts = X /\ SameBut(s, "facts")  BY <1>5, OneTable DEF TableNames
<1> QED  BY <1>1, <1>3, <1>4, <1>6, FactAltered

\* A payment claimed for another operation: one that was applied is then unclaimed, and
\* the refusal of another instruction is not the claim's.
LEMMA ClaimMoved ==
  ASSUME RecordedBook, NEW p \in DOMAIN Snapshot.claims,
         NEW x \in DOMAIN Snapshot.operations, Snapshot.claims[p].admission # x,
         ~SameRefusal(Snapshot, p, x), NEW s,
         s = [Snapshot EXCEPT !.claims[p].admission = x]
  PROVE  ~V!Valid(s)
<1> DEFINE q == Snapshot
           old == q.claims[p]
           row == [old EXCEPT !.admission = x]
           X == [q.claims EXCEPT ![p] = row]
           o == claim[p].admission
<1>1. /\ p \in {y \in Payments : claim[y].state # "ABSENT"} /\ old.admission = o
      /\ old.outcome = (IF claim[p].state = "REJECTED" THEN "REJECTED" ELSE "APPLIED")
  BY ClaimTable
<1>2. DOMAIN old = {"admission", "hold", "outcome", "material", "state", "result"}
  <2>1. q.claims = [y \in {z \in Payments : claim[z].state # "ABSENT"} |->
                 [admission |-> claim[y].admission, hold |-> claim[y].hold,
                  outcome |-> IF claim[y].state = "REJECTED" THEN "REJECTED" ELSE "APPLIED",
                  material |-> Material(claim[y].admission),
                  state |-> claim[y].state, result |-> claim[y].result]]
    BY DEF Snapshot
  <2>2. old = [admission |-> claim[p].admission, hold |-> claim[p].hold,
                  outcome |-> IF claim[p].state = "REJECTED" THEN "REJECTED" ELSE "APPLIED",
                  material |-> Material(claim[p].admission),
                  state |-> claim[p].state, result |-> claim[p].result]
    BY <1>1, <2>1
  <2> QED  BY <2>2
<1>3. row.admission = x /\ row.outcome = old.outcome /\ row.material = old.material  BY <1>2
<1>4. s = [q EXCEPT !["claims"] = X]  OBVIOUS
<1> HIDE DEF row
<1>5. DOMAIN X = DOMAIN q.claims /\ X[p] = row  OBVIOUS
<1> HIDE DEF X
<1>6. s.claims = X /\ SameBut(s, "claims")  BY <1>4, OneTable DEF TableNames
<1>7. s.operations = q.operations  BY <1>6, OtherTables
<1>8. CASE claim[p].state = "REJECTED"
  <2>1. \/ s.operations[x].outcome # s.claims[p].outcome
        \/ s.operations[x].hash # s.claims[p].material
    BY <1>1, <1>3, <1>5, <1>6, <1>7, <1>8 DEF SameRefusal
  <2>2. V!BadClaim(s, p)  BY <1>3, <1>5, <1>6, <2>1 DEF V!BadClaim
  <2> QED  BY <1>5, <1>6, <2>2, ValidSays DEF Clean
<1>9. CASE claim[p].state # "REJECTED"
  <2>1. RecordInv  BY DEF RecordedBook
  <2>2. /\ o \in Ops /\ receipts[o].outcome = "APPLIED"
        /\ receipts[o].request \in Transfers \cup Reserves
        /\ receipts[o].request.terms.payment = p
    BY <1>1, <1>9, <2>1 DEF RecordInv, ClaimsRecorded, ClaimRecord
  <2>3. o \in Recorded  BY <2>2 DEF Recorded
  <2>4. o # FixtureOp
    <3>1. receipts[FixtureOp].request = NoRequest  BY <2>1 DEF RecordInv, FixtureRecorded
    <3> QED  BY <2>2, <3>1, IdAssumption DEF Requests
  <2>5. /\ Material(o).kind \in {"TRANSFER_INTERNAL", "RESERVE_PAYOUT"}
        /\ Material(o).terms.payment = p
    BY <2>1, <2>2, <2>3, <2>4, MaterialIs, KindsDiffer
  <2>6. /\ o \in DOMAIN s.operations /\ s.operations[o].material = Material(o)
        /\ s.operations[o].receipt.kind = Material(o).kind
        /\ s.operations[o].outcome = "APPLIED"
    BY <1>7, <2>2, <2>3, OperationTable, ReceiptIs
  <2>7. s.claims[p].admission # o  BY <1>1, <1>3, <1>5, <1>6
  <2>8. V!AdmissionUnclaimed(s, o)  BY <2>5, <2>6, <2>7 DEF V!AdmissionUnclaimed
  <2>9. V!BadOperation(s, o)  BY <2>8 DEF V!BadOperation
  <2> QED  BY <2>6, <2>9, ValidSays DEF Clean
<1> QED  BY <1>8, <1>9

\* A snapshot in which one operation, with its receipt and its fact, has another outcome.
Reverses(s, o, other) ==
  /\ o \in Recorded /\ other # receipts[o].outcome
  /\ DOMAIN s.operations = Recorded
  /\ s.operations[o].outcome = other /\ s.operations[o].material = Material(o)
  /\ s.operations[o].receipt.kind = Material(o).kind
  /\ s.operations[o].receipt.journal = JournalId(o)
  /\ s.journals = Snapshot.journals /\ s.claims = Snapshot.claims
  /\ s.balances = Snapshot.balances /\ s.controls = Snapshot.controls /\ s.holds = Snapshot.holds
  /\ s.accountEvents = accountEvents /\ s.controlEvents = controlEvents
  /\ s.holdEvents = holdEvents

\* That is what turning an outcome round makes of a snapshot.
LEMMA ReversedIs ==
  ASSUME NEW o \in DOMAIN Snapshot.operations, NEW other, NEW s,
         other # Snapshot.operations[o].outcome,
         s = Rerecorded([Snapshot EXCEPT !.operations[o].outcome = other], o,
                        [Snapshot.operations[o].receipt EXCEPT !.outcome = other])
  PROVE  Reverses(s, o, other)
<1> DEFINE q == Snapshot
           old == q.operations[o]
           receipt == [old.receipt EXCEPT !.outcome = other]
           row == [[old EXCEPT !.outcome = other] EXCEPT !.receipt = receipt]
           X == [[q.operations EXCEPT ![o] = [old EXCEPT !.outcome = other]]
                   EXCEPT ![o].receipt = receipt]
           F == [q.facts EXCEPT ![o].body = receipt]
<1>1. /\ o \in Recorded /\ DOMAIN q.operations = Recorded /\ old.outcome = receipts[o].outcome
      /\ old.material = Material(o) /\ old.receipt = ReceiptBody(o)
  BY OperationTable
<1>2. DOMAIN old = {"material", "hash", "outcome", "receipt"}  BY <1>1, OperationColumns
<1>3. DOMAIN old.receipt = {"op", "kind", "hash", "outcome", "payment", "hold", "policy",
                            "journal", "evidence", "recordedAt", "event"}
  BY <1>1, OperationColumns
<1>4. receipt.kind = old.receipt.kind /\ receipt.journal = old.receipt.journal  BY <1>3
<1>5. receipt.kind = Material(o).kind /\ receipt.journal = JournalId(o)
  BY <1>1, <1>4, ReceiptIs
<1> DEFINE base == [q EXCEPT !.operations[o].outcome = other]
<1>6. DOMAIN q = TableNames  BY DEF Snapshot, TableNames
<1>7. /\ base.operations = [q.operations EXCEPT ![o] = [old EXCEPT !.outcome = other]]
      /\ SameBut(base, "operations") /\ DOMAIN base = TableNames
  <2> DEFINE Y == [q.operations EXCEPT ![o] = [old EXCEPT !.outcome = other]]
  <2>1. base = [q EXCEPT !["operations"] = Y]  OBVIOUS
  <2> HIDE DEF Y
  <2>2. base.operations = Y /\ SameBut(base, "operations")  BY <2>1, OneTable DEF TableNames
  <2> QED  BY <1>6, <2>1, <2>2 DEF Y
<1>8. base.facts = q.facts  BY <1>7, OtherTables
<1> HIDE DEF base, receipt
<1>9. s = [base EXCEPT !.operations[o].receipt = receipt, !.facts[o].body = receipt]
  BY DEF Rerecorded, base, receipt
<1>10. s = [base EXCEPT !["operations"] = X, !["facts"] = F]  BY <1>7, <1>8, <1>9
<1>11. DOMAIN X = Recorded /\ X[o] = row  BY <1>1
<1>12. row.outcome = other /\ row.material = Material(o) /\ row.receipt = receipt
  BY <1>1, <1>2
<1> HIDE DEF X, F, row
<1>13. s.operations = X /\ \A t \in TableNames \ {"operations", "facts"} : s[t] = base[t]
  BY <1>7, <1>10 DEF TableNames
<1>14. \A t \in TableNames \ {"operations", "facts"} : s[t] = q[t]
  BY <1>7, <1>13 DEF SameBut
<1>15. /\ s.journals = q.journals /\ s.claims = q.claims /\ s.balances = q.balances
       /\ s.controls = q.controls /\ s.holds = q.holds /\ s.accountEvents = q.accountEvents
       /\ s.controlEvents = q.controlEvents /\ s.holdEvents = q.holdEvents
  BY <1>14 DEF TableNames
<1> QED  BY <1>1, <1>5, <1>11, <1>12, <1>13, <1>15, Tables DEF Reverses

\* What was applied cannot be made rejected: it posted, it was admitted, or it wrote rows.
LEMMA AppliedUndone ==
  ASSUME RecordedBook, HistoryInv, MarkInv, NEW s, NEW o, Reverses(s, o, "REJECTED"),
         receipts[o].outcome = "APPLIED"
  PROVE  ~V!Valid(s)
<1> DEFINE r == receipts[o].request
<1>1. RecordInv /\ ExecutionInv  BY DEF RecordedBook
<1>2. o \in Recorded /\ o \in Ops /\ s.operations[o].outcome = "REJECTED"
  BY DEF Reverses, Recorded
<1>3. CASE journal[o] # {}
  <2>1. o \in s.operations[o].receipt.journal /\ o \in DOMAIN s.journals
    BY <1>2, <1>3, JournalTable DEF Reverses, JournalId
  <2>2. V!BadOperation(s, o)  BY <1>2, <2>1 DEF V!BadOperation
  <2> QED  BY <1>2, <2>2, ValidSays DEF Clean, Reverses
<1>4. CASE journal[o] = {}
  <2>1. o # FixtureOp  BY <1>1, <1>4 DEF RecordInv, FixtureRecorded
  <2>2. r \in Requests /\ RecordOf(o) /\ Material(o).kind = r.kind
    BY <1>1, <1>2, <2>1, MaterialIs
  <2>3. CASE r \in Transfers \cup Reserves
    <3> DEFINE p == r.terms.payment
    <3>1. Applied(o, Transfers \cup Reserves)  BY <2>2, <2>3 DEF Applied
    <3>2. claim[p].admission = o /\ claim[p].state \notin {"ABSENT", "REJECTED"}
      BY <1>1, <1>2, <2>2, <3>1 DEF ExecutionInv, ExecutionOf
    <3>3. p \in Payments  BY <2>3, TermsTypes DEF Terms
    <3>4. p \in DOMAIN s.claims /\ s.claims[p].admission = o /\ s.claims[p].outcome = "APPLIED"
      BY <3>2, <3>3, ClaimTable DEF Reverses
    <3>5. V!BadClaim(s, p)  BY <1>2, <3>4 DEF V!BadClaim
    <3> QED  BY <3>4, <3>5, ValidSays DEF Clean
  <2>4. CASE r \in Captures
    <3> DEFINE q == Snapshot
    <3>1. /\ q.operations[o].outcome = "APPLIED" /\ q.operations[o].receipt = ReceiptBody(o)
          /\ o \in DOMAIN q.operations
      BY <1>2, OperationTable
    <3>2. ReceiptBody(o).kind = "CAPTURE_PAYOUT" /\ ReceiptBody(o).journal = {}
      BY <1>4, <2>2, <2>4, KindsDiffer, ReceiptIs DEF JournalId
    <3>3. ~V!TemplateMismatch(q, o)  BY <3>1, BookClean DEF Clean
    <3>4. V!CaptureFits(q, q.operations[o])
      BY <3>1, <3>2, <3>3 DEF V!TemplateMismatch, V!NonPosting
    <3> QED  BY <3>1, <3>2, <3>4 DEF V!CaptureFits, V!Posts
  <2>5. CASE r \in Unposted
    <3>1. Applied(o, Unposted)  BY <2>2, <2>5 DEF Applied
    <3>2. PICK e \in accountEvents \cup controlEvents \cup holdEvents : e.op = o
      BY <1>2, <3>1 DEF MarkInv
    <3>3. ~V!Applied(s, e.op)  BY <1>2, <3>2 DEF V!Applied
    <3>4. \/ V!BadHistories(s, "account_events", s.accountEvents, s.balances)
          \/ V!BadHistories(s, "control_events", s.controlEvents, s.controls)
          \/ V!BadHistories(s, "hold_events", s.holdEvents, s.holds)
      BY <3>2, <3>3 DEF V!BadHistories, V!OrphanHistory, Reverses
    <3> QED  BY <3>4, ValidSays DEF Clean
  <2> QED  BY <2>2, <2>3, <2>4, <2>5 DEF Requests, Unposted
<1> QED  BY <1>3, <1>4

\* What was rejected cannot be made applied: it posted nothing, and its payment is not
\* claimed as admitted by it.
LEMMA RejectedRedone ==
  ASSUME RecordedBook, HistoryInv, NEW s, NEW o, Reverses(s, o, "APPLIED"),
         Material(o).kind \in {"TRANSFER_INTERNAL", "RESERVE_PAYOUT", "CAPTURE_PAYOUT"}
  PROVE  ~V!Valid(s)
<1> DEFINE m == Material(o)
<1>1. RecordInv  BY DEF RecordedBook
<1>2. /\ o \in Recorded /\ o \in Ops /\ s.operations[o].outcome = "APPLIED"
      /\ o \in DOMAIN s.operations
      /\ s.operations[o].receipt.kind = m.kind
      /\ receipts[o].outcome # "APPLIED"
  BY DEF Reverses, Recorded
<1> DEFINE r == receipts[o].request
<1>3. o # FixtureOp /\ m.kind = r.kind /\ r \in Requests /\ RecordOf(o)
  BY <1>1, <1>2, MaterialIs
<1>4. journal[o] = {}  BY <1>2, <1>3 DEF RecordOf, Applied
<1>5. s.operations[o].receipt.journal = {}  BY <1>4 DEF Reverses, JournalId
<1>6. CASE m.kind \in {"TRANSFER_INTERNAL", "CAPTURE_PAYOUT"}
  <2>1. ~V!TransferFits(s, s.operations[o]) /\ ~V!CaptureFits(s, s.operations[o])
    BY <1>5 DEF V!TransferFits, V!CaptureFits, V!Posts
  <2>2. V!TemplateMismatch(s, o)
    BY <1>2, <1>6, <2>1 DEF V!TemplateMismatch, V!NonPosting
  <2> QED  BY <1>2, <2>2, ValidSays DEF Clean
<1>7. CASE m.kind = "RESERVE_PAYOUT"
  <2> DEFINE p == r.terms.payment
  <2>1. r \in Reserves /\ m.terms = r.terms
    <3>1. r \in Reserves  BY <1>3, <1>7, KindSays
    <3> QED  BY <1>1, <1>2, <1>3, <3>1, MaterialIs
  <2>2. p \in Payments /\ claim[p].state # "ABSENT"
    BY <1>3, <2>1, TermsTypes DEF RecordOf, Terms
  <2>3. /\ p \in DOMAIN s.claims /\ s.claims[p].admission = claim[p].admission
        /\ s.claims[p].outcome = (IF claim[p].state = "REJECTED" THEN "REJECTED" ELSE "APPLIED")
    BY <2>2, ClaimTable DEF Reverses
  <2>4. CASE claim[p].admission # o
    <3>1. s.operations[o].material.terms.payment = p  BY <2>1 DEF Reverses
    <3>2. V!AdmissionUnclaimed(s, o)
      BY <1>2, <1>7, <2>3, <2>4, <3>1 DEF V!AdmissionUnclaimed
    <3>3. V!BadOperation(s, o)  BY <3>2 DEF V!BadOperation
    <3> QED  BY <1>2, <3>3, ValidSays DEF Clean
  <2>5. CASE claim[p].admission = o
    <3>1. ClaimRecord(p)  BY <1>1, <2>2 DEF RecordInv, ClaimsRecorded
    <3>2. claim[p].state = "REJECTED"  BY <1>2, <2>5, <3>1 DEF ClaimRecord
    <3>3. V!BadClaim(s, p)  BY <1>2, <2>3, <2>5, <3>2 DEF V!BadClaim
    <3> QED  BY <2>3, <3>3, ValidSays DEF Clean
  <2> QED  BY <2>4, <2>5
<1> QED  BY <1>6, <1>7

\* An outcome turned round.
LEMMA OutcomeReversed ==
  ASSUME RecordedBook, HistoryInv, MarkInv, NEW s \in Reversed(Snapshot)
  PROVE  ~V!Valid(s)
<1> DEFINE q == Snapshot
           Z == {x \in DOMAIN q.operations :
                  /\ q.operations[x].outcome = "APPLIED"
                     \/ q.operations[x].receipt.kind \in
                          {"TRANSFER_INTERNAL", "RESERVE_PAYOUT", "CAPTURE_PAYOUT"}}
           other(o) == IF q.operations[o].outcome = "APPLIED" THEN "REJECTED" ELSE "APPLIED"
<1>1. PICK o \in Z : s = Rerecorded([q EXCEPT !.operations[o].outcome = other(o)], o,
                                    [q.operations[o].receipt EXCEPT !.outcome = other(o)])
  BY DEF Reversed
<1>2. o \in DOMAIN q.operations /\ other(o) # q.operations[o].outcome  OBVIOUS
<1>3. Reverses(s, o, other(o))  BY <1>1, <1>2, ReversedIs
<1>4. /\ q.operations[o].outcome = receipts[o].outcome
      /\ q.operations[o].receipt.kind = Material(o).kind
  BY <1>2, OperationTable, ReceiptIs
<1>5. CASE receipts[o].outcome = "APPLIED"
  <2>1. other(o) = "REJECTED"  BY <1>4, <1>5
  <2> QED  BY <1>3, <1>5, <2>1, AppliedUndone
<1>6. CASE receipts[o].outcome # "APPLIED"
  <2>1. other(o) = "APPLIED"  BY <1>4, <1>6
  <2>2. Material(o).kind \in {"TRANSFER_INTERNAL", "RESERVE_PAYOUT", "CAPTURE_PAYOUT"}
    BY <1>4, <1>6
  <2> QED  BY <1>3, <2>1, <2>2, RejectedRedone
<1> QED  BY <1>5, <1>6

\* No record can be altered.
LEMMA EveryRecordNeeded ==
  ASSUME RecordedBook, HistoryInv, MarkInv
  PROVE  AlteredRecordReported
<1> DEFINE q == Snapshot
<1> SUFFICES ASSUME NEW s \in AlteredRecords(q) PROVE ~V!Valid(s)  BY DEF AlteredRecordReported
<1>1. CASE s \in Reversed(q)  BY <1>1, OutcomeReversed
<1>2. CASE s \in Reworded(q)  BY <1>2, OutcomeUnknown DEF Reworded
<1>3. CASE s \in Retold(q)
  <2> DEFINE Z == {y \in (DOMAIN q.facts) \X (DOMAIN q.operations) : y[1] # y[2]}
  <2>1. PICK x \in Z : s \in {[q EXCEPT !.facts[x[1]].op = x[2]],
                              [q EXCEPT !.facts[x[1]].body.op = x[2]]}
    BY <1>3 DEF Retold
  <2>2. x[1] \in DOMAIN q.facts /\ x[2] # x[1]  OBVIOUS
  <2> QED  BY <2>1, <2>2, FactRetold
<1>4. CASE s \in Reclaimed(q)
  <2> DEFINE Z == {y \in (DOMAIN q.claims) \X (DOMAIN q.operations) :
                     q.claims[y[1]].admission # y[2] /\ ~SameRefusal(q, y[1], y[2])}
  <2>1. PICK x \in Z : s = [q EXCEPT !.claims[x[1]].admission = x[2]]  BY <1>4 DEF Reclaimed
  <2>2. /\ x[1] \in DOMAIN q.claims /\ x[2] \in DOMAIN q.operations
        /\ q.claims[x[1]].admission # x[2] /\ ~SameRefusal(q, x[1], x[2])
    OBVIOUS
  <2> QED  BY <2>1, <2>2, ClaimMoved
<1>5. CASE s \in Forged(q)  BY <1>5, EvidenceForged DEF Forged
<1>6. CASE s \in AlteredControls(q)
  <2>1. PICK k \in DOMAIN q.controls :
          s \in {[q EXCEPT !.controls[k].dailyCap = @ + 1], [q EXCEPT !.controls[k].epoch = @ + 1],
                 [q EXCEPT !.controls[k].debitFrozen = ~@],
                 [q EXCEPT !.controls[k].creditFrozen = ~@]}
    BY <1>6 DEF AlteredControls
  <2> QED  BY <2>1, ControlOff
<1>7. CASE s \in AlteredHistory(q)
  <2>1. /\ q.controlEvents = controlEvents /\ q.accountEvents = accountEvents
        /\ q.limitEvents = limitEvents /\ q.holdEvents = holdEvents
    BY Tables
  <2>2. CASE \E e \in controlEvents :
               s = [q EXCEPT !.controlEvents = Replaced(@, e, [e EXCEPT !.after.epoch = @ + 1])]
    BY <2>2, ControlStep
  <2>3. CASE \E e \in accountEvents :
               s = [q EXCEPT !.accountEvents = Replaced(@, e, [e EXCEPT !.after.held = @ + 1])]
    BY <2>3, AccountStep
  <2>4. CASE \E e \in limitEvents :
               s = [q EXCEPT !.limitEvents = Replaced(@, e, [e EXCEPT !.after.consumed = @ + 1])]
    BY <2>4, LimitStep
  <2>5. CASE \E e \in holdEvents :
               s = [q EXCEPT !.holdEvents =
                      Replaced(@, e, [e EXCEPT !.after.terms.terms.fee = @ + 1])]
    BY <2>5, HoldStep
  <2> HIDE DEF q
  <2> QED  BY <1>7, <2>1, <2>2, <2>3, <2>4, <2>5 DEF AlteredHistory
<1> HIDE DEF q
<1> QED  BY <1>1, <1>2, <1>3, <1>4, <1>5, <1>6, <1>7 DEF AlteredRecords

\* What was decided cannot be altered unnoticed: that an operation was applied, or that a
\* transfer, a reservation or a capture was rejected, even with receipt and fact; which
\* admission a payment was claimed by, but for two refusals of one instruction; the
\* evidence, the controls and each step of a history (verify.Verify on what the export
\* reads).
THEOREM VerifierMissesNoRecord == AuditSpec => []AlteredRecordReported
<1>1. RecordedBook /\ HistoryInv /\ MarkInv => AlteredRecordReported
  BY EveryRecordNeeded
<1> QED  BY <1>1, HistoriesUnbroken, AuditIsLedger, MarksLeft, PTL
=============================================================================
