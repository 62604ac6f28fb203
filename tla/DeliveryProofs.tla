--------------------------- MODULE DeliveryProofs ---------------------------
(***************************************************************************)
(* Theorems about Delivery for any number of books, events, processes and  *)
(* consumers, any lease and deadline, and any number of crashes.           *)
(***************************************************************************)
EXTENDS Delivery, TLAPS

-----------------------------------------------------------------------------
(***************************************************************************)
(* Books and processes.                                                    *)
(***************************************************************************)
\* The configured books are numbered from one, and there is at least one.
LEMMA BookIndexes ==
  /\ Len(BookList) \in Nat \ {0} /\ DOMAIN BookList = 1 .. Len(BookList)
  /\ \A i \in DOMAIN BookList : BookList[i] \in Books
  /\ \A b \in Books : \E i \in DOMAIN BookList : BookList[i] = b
<1>1. BookList \in Seq(Books) /\ BookList # <<>>  BY DeliveryAssumption
<1>2. Len(BookList) \in Nat /\ DOMAIN BookList = 1 .. Len(BookList)  BY <1>1
<1>3. Len(BookList) # 0  BY <1>1
<1> QED BY <1>2, <1>3 DEF Books

\* Every event has a book and an operation.
LEMMA EventKeys ==
  \A e \in Events : EventBook[e] \in Books /\ <<EventBook[e], EventOp[e]>> \in Books \X Ops
BY DeliveryAssumption DEF Ops

\* What Run does to a process that moves on to the next book.
LEMMA NextBookIs ==
  ASSUME NEW p \in Process
  PROVE  /\ NextBook(p) \in Process /\ NextBook(p).phase = "claiming"
         /\ NextBook(p).event = NoEvent /\ NextBook(p).token = NoToken
         /\ NextBook(p).consumer = p.consumer
<1> DEFINE n == IF p.book = Len(BookList) THEN 1 ELSE p.book + 1
           q == [p EXCEPT !.phase = "claiming", !.event = NoEvent, !.token = NoToken,
                          !.left = 0, !.burst = 0, !.book = n]
<1>1. p.book \in DOMAIN BookList /\ p.consumer \in Consumers \cup {NoConsumer}
  BY DEF Process
<1>2. n \in DOMAIN BookList  BY <1>1, BookIndexes
<1>3. 0 \in 0 .. Burst - 1 /\ 0 \in 0 .. TimeoutTicks  BY DeliveryAssumption
<1>4. NextBook(p) = q  BY DEF NextBook
<1> HIDE DEF n
<1>5. q \in Process  BY <1>2, <1>3 DEF Process, Phases
<1>6. /\ q.phase = "claiming" /\ q.event = NoEvent /\ q.token = NoToken
      /\ q.consumer = p.consumer
  BY DEF Process
<1> QED BY <1>4, <1>5, <1>6

\* What it does to one that serves the same book again, within the burst.
LEMMA ServedIs ==
  ASSUME NEW p \in Process
  PROVE  /\ Served(p) \in Process /\ Served(p).phase = "claiming"
         /\ Served(p).event = NoEvent /\ Served(p).token = NoToken
         /\ Served(p).consumer = p.consumer
<1> DEFINE q == [phase |-> "claiming", consumer |-> p.consumer, book |-> p.book,
                 burst |-> p.burst + 1, event |-> NoEvent, token |-> NoToken, left |-> 0]
<1>1. /\ p.book \in DOMAIN BookList /\ p.consumer \in Consumers \cup {NoConsumer}
      /\ p.burst \in 0 .. Burst - 1
  BY DEF Process
<1>2. CASE p.burst + 1 = Burst  BY <1>2, NextBookIs DEF Served
<1>3. CASE p.burst + 1 # Burst
  <2>1. Served(p) = q  BY <1>3 DEF Served, SameBook, Process
  <2>2. p.burst + 1 \in 0 .. Burst - 1 /\ 0 \in 0 .. TimeoutTicks
    BY <1>1, <1>3, DeliveryAssumption
  <2>3. q \in Process  BY <1>1, <2>2 DEF Process, Phases
  <2> QED BY <2>1, <2>3
<1> QED BY <1>2, <1>3

\* A stopped process and one that has just been started.
LEMMA DownIs ==
  /\ Down \in Process /\ Down.phase = "down" /\ Down.event = NoEvent
  /\ \A c \in Consumers :
       LET p == [Down EXCEPT !.phase = "binding", !.consumer = c]
       IN  /\ p \in Process /\ p.phase = "binding" /\ p.event = NoEvent
           /\ p.consumer = c /\ p.book = 1
<1>1. 1 \in DOMAIN BookList  BY BookIndexes
<1>2. 0 \in 0 .. Burst - 1 /\ 0 \in 0 .. TimeoutTicks  BY DeliveryAssumption
<1>3. Down \in Process  BY <1>1, <1>2 DEF Down, Process, Phases
<1>4. Down.phase = "down" /\ Down.event = NoEvent  BY DEF Down
<1>5. ASSUME NEW c \in Consumers
      PROVE  LET p == [Down EXCEPT !.phase = "binding", !.consumer = c]
             IN  /\ p \in Process /\ p.phase = "binding" /\ p.event = NoEvent
                 /\ p.consumer = c /\ p.book = 1
  <2> DEFINE p == [Down EXCEPT !.phase = "binding", !.consumer = c]
  <2>1. p \in Process  BY <1>3 DEF Process, Phases
  <2>2. Down.book = 1  BY DEF Down
  <2>3. /\ p.phase = "binding" /\ p.event = Down.event /\ p.consumer = c
        /\ p.book = Down.book
    BY <1>3 DEF Process
  <2> QED BY <1>4, <2>1, <2>2, <2>3
<1> QED BY <1>3, <1>4, <1>5

-----------------------------------------------------------------------------
(***************************************************************************)
(* Typing.                                                                 *)
(***************************************************************************)
\* domain.NewID, where a claim is possible, draws a token that nothing remembers.
LEMMA FreshTokenIsNew ==
  ASSUME Tokens \ TokensInUse # {}
  PROVE  FreshToken \in Tokens /\ FreshToken \notin TokensInUse
BY DEF FreshToken

\* ClaimOutbox leaves a well-formed row: pending, attempted and leased.
LEMMA LeaseIs ==
  ASSUME TypeOK, NEW e \in Events, Tokens \ TokensInUse # {}, Lease(e)
  PROVE  /\ outbox' \in [Events -> Row]
         /\ outbox'[e].state = "pending" /\ outbox'[e].attempted
         /\ \A f \in Events \ {e} : outbox'[f] = outbox[f]
<1>1. FreshToken \in Tokens  BY FreshTokenIsNew
<1> DEFINE r == [state |-> "pending", token |-> FreshToken, left |-> LeaseTicks,
                 attempted |-> TRUE]
<1>2. LeaseTicks \in 0 .. LeaseTicks  BY DeliveryAssumption
<1>3. r \in Row  BY <1>1, <1>2 DEF Row
<1>4. r.state = "pending" /\ r.attempted  OBVIOUS
<1>5. outbox' = [outbox EXCEPT ![e] = r]  BY DEF Lease
<1> HIDE DEF r
<1> QED BY <1>3, <1>4, <1>5 DEF TypeOK

\* The rows after Commit: one more, pending and never attempted.
LEMMA CommitIs ==
  ASSUME TypeOK, NEW e \in Events, Commit(e)
  PROVE  /\ outbox' \in [Events -> Row]
         /\ outbox'[e].state = "pending"
         /\ \A f \in Events \ {e} : outbox'[f] = outbox[f]
<1> DEFINE r == [NoRow EXCEPT !.state = "pending"]
<1>1. 0 \in 0 .. LeaseTicks  BY DeliveryAssumption
<1>2. NoRow \in Row  BY <1>1 DEF NoRow, Row
<1>3. r \in Row /\ r.state = "pending"  BY <1>2 DEF Row
<1>4. outbox' = [outbox EXCEPT ![e] = r]  BY DEF Commit
<1> HIDE DEF r
<1> QED BY <1>3, <1>4 DEF TypeOK

\* The rows after an acknowledgement: the leased row becomes delivered, and an
\* acknowledgement with any other token changes nothing.
LEMMA AcknowledgeIs ==
  ASSUME TypeOK, NEW e \in Events, NEW t, Acknowledge(e, t)
  PROVE  /\ outbox' \in [Events -> Row]
         /\ outbox'[e].state \in {outbox[e].state, "delivered"}
         /\ \A f \in Events \ {e} : outbox'[f] = outbox[f]
<1>1. outbox \in [Events -> Row] /\ outbox[e] \in Row  BY DEF TypeOK
<1> DEFINE r == [outbox[e] EXCEPT !.state = "delivered"]
<1>2. r \in Row /\ r.state = "delivered"  BY <1>1 DEF Row
<1>3. outbox' = [outbox EXCEPT ![e] = r] \/ outbox' = outbox  BY DEF Acknowledge
<1> HIDE DEF r
<1> QED BY <1>1, <1>2, <1>3

\* Time changes nothing of a row but what is left of its lease.
LEMMA TickRows ==
  ASSUME TypeOK, Tick
  PROVE  /\ outbox' \in [Events -> Row]
         /\ \A e \in Events : outbox'[e].state = outbox[e].state
<1> DEFINE r(e) == [outbox[e] EXCEPT !.left = IF @ > 0 THEN @ - 1 ELSE 0]
<1>1. outbox' = [e \in Events |-> r(e)]  BY DEF Tick
<1>2. ASSUME NEW e \in Events
      PROVE  r(e) \in Row /\ r(e).state = outbox[e].state
  <2>1. outbox[e] \in Row /\ outbox[e].left \in 0 .. LeaseTicks  BY DEF TypeOK, Row
  <2>2. (IF outbox[e].left > 0 THEN outbox[e].left - 1 ELSE 0) \in 0 .. LeaseTicks
    BY <2>1, DeliveryAssumption
  <2> DEFINE n == IF outbox[e].left > 0 THEN outbox[e].left - 1 ELSE 0
  <2>3. r(e) = [outbox[e] EXCEPT !.left = n]  OBVIOUS
  <2> HIDE DEF n, r
  <2> QED BY <2>1, <2>2, <2>3 DEF Row, n
<1> HIDE DEF r
<1> QED BY <1>1, <1>2

\* Nor of a process but what is left of its deadline.
LEMMA TickProcesses ==
  ASSUME TypeOK, Tick
  PROVE  /\ process' \in [Workers -> Process]
         /\ \A w \in Workers :
              /\ process'[w].phase = process[w].phase /\ process'[w].event = process[w].event
              /\ process'[w].token = process[w].token /\ process'[w].book = process[w].book
              /\ process'[w].consumer = process[w].consumer
<1> DEFINE sending(w) == process[w].phase \in {"sending", "waiting"}
           q(w) == IF sending(w) THEN [process[w] EXCEPT !.left = @ - 1] ELSE process[w]
<1>1. process' = [w \in Workers |-> q(w)]  BY DEF Tick
<1>2. ASSUME NEW w \in Workers
      PROVE  /\ q(w) \in Process
             /\ q(w).phase = process[w].phase /\ q(w).event = process[w].event
             /\ q(w).token = process[w].token /\ q(w).book = process[w].book
             /\ q(w).consumer = process[w].consumer
  <2>1. process[w] \in Process /\ process[w].left \in 0 .. TimeoutTicks  BY DEF TypeOK, Process
  <2>2. CASE ~sending(w)  BY <2>1, <2>2
  <2>3. CASE sending(w)
    <3> DEFINE n == process[w].left - 1
    <3>1. n \in 0 .. TimeoutTicks  BY <2>1, <2>3, DeliveryAssumption DEF Tick
    <3>2. q(w) = [process[w] EXCEPT !.left = n]  BY <2>3
    <3> HIDE DEF n, q
    <3> QED BY <2>1, <3>1, <3>2 DEF Process
  <2> QED BY <2>2, <2>3
<1> HIDE DEF q
<1> QED BY <1>1, <1>2

\* The transaction of acceptOnce leaves inbox and projection well formed.
LEMMA AcceptTypes ==
  ASSUME TypeOK, NEW c \in Consumers, NEW e \in Events, Accept(c, e)
  PROVE  /\ inbox' \in [Consumers -> SUBSET Events]
         /\ projection' \in [Consumers -> [Books \X Ops -> Events \cup {NoEvent}]]
<1>1. CASE UNCHANGED consumerVars  BY <1>1 DEF TypeOK, consumerVars
<1>2. CASE /\ inbox' = [inbox EXCEPT ![c] = @ \cup {e}]
           /\ projection' =
                [projection EXCEPT ![c] = [@ EXCEPT ![<<EventBook[e], EventOp[e]>>] = e]]
  <2> DEFINE k == <<EventBook[e], EventOp[e]>>
             g == [projection[c] EXCEPT ![k] = e]
  <2>1. projection[c] \in [Books \X Ops -> Events \cup {NoEvent}]  BY DEF TypeOK
  <2>2. k \in Books \X Ops  BY EventKeys
  <2> HIDE DEF k
  <2>3. g \in [Books \X Ops -> Events \cup {NoEvent}]  BY <2>1, <2>2
  <2>4. projection' = [projection EXCEPT ![c] = g]  BY <1>2 DEF k
  <2> HIDE DEF g
  <2> QED BY <1>2, <2>3, <2>4 DEF TypeOK
<1> QED BY <1>1, <1>2 DEF Accept

\* What a process leaves on the wire is a request or an acknowledgement of its own.
LEMMA AbandonIs ==
  ASSUME NEW p, Abandon(p)
  PROVE  /\ late' = late \/ (p.phase = "sending" /\ late' = late \cup {<<p.consumer, p.event>>})
         /\ acks' = acks \/ (p.phase = "acking" /\ acks' = acks \cup {<<p.event, p.token>>})
BY DEF Abandon

-----------------------------------------------------------------------------
(***************************************************************************)
(* The inductive invariant.                                                *)
(*                                                                         *)
(* A process that holds an event has been through every binding, and a     *)
(* route, once bound, never changes: that is why what it sends, and what   *)
(* is left on the wire when it gives up, goes to the book's one consumer.  *)
(* A process acknowledges, and leaves an acknowledgement behind, only for  *)
(* an event its consumer already holds.                                    *)
(***************************************************************************)
Busy == {"claimed", "sending", "waiting", "acking"}
Key(e) == <<EventBook[e], EventOp[e]>>

WorkerFits(w) ==
  /\ process[w].phase \in Busy <=> process[w].event # NoEvent
  /\ process[w].phase \in Busy => process[w].event \in Committed /\ process[w].token \in Tokens
  /\ process[w].phase # "down" => process[w].consumer \in Consumers
  /\ process[w].phase = "binding" =>
       \A i \in DOMAIN BookList :
         i < process[w].book => route[BookList[i]] = process[w].consumer
  /\ process[w].phase \notin {"down", "binding"} =>
       \A b \in Books : route[b] = process[w].consumer
  /\ process[w].phase = "acking" => process[w].event \in inbox[process[w].consumer]

WireFits ==
  /\ \A m \in late : m[2] \in Committed /\ route[EventBook[m[2]]] = m[1]
  /\ \A a \in acks :
       /\ a[1] \in Committed /\ route[EventBook[a[1]]] \in Consumers
       /\ a[1] \in inbox[route[EventBook[a[1]]]]

InboxFits ==
  \A c \in Consumers :
    /\ \A e \in inbox[c] :
         e \in Committed /\ route[EventBook[e]] = c /\ projection[c][Key(e)] = e
    /\ \A k \in Books \X Ops : projection[c][k] # NoEvent =>
         projection[c][k] \in inbox[c] /\ Key(projection[c][k]) = k

OnceCommitted == \A e, f \in Committed : Key(e) = Key(f) => e = f

DeliveredFits ==
  \A e \in Delivered :
    route[EventBook[e]] \in Consumers /\ e \in inbox[route[EventBook[e]]]

DeliveryInv ==
  TypeOK /\ (\A w \in Workers : WorkerFits(w)) /\ WireFits /\ InboxFits
    /\ OnceCommitted /\ DeliveredFits

\* What no step takes back: a commit, a binding, an inbox row.
Grows ==
  /\ Committed \subseteq Committed'
  /\ \A b \in Books : route[b] # NoConsumer => route'[b] = route[b]
  /\ \A c \in Consumers : inbox[c] \subseteq inbox'[c]

\* An event that is committed or delivered is an event, with a book and a key.
LEMMA FactsAreEvents ==
  Committed \subseteq Events /\ Delivered \subseteq Committed
BY DEF Committed, Delivered

\* A process that a step leaves alone still fits.
LEMMA WorkerStays ==
  ASSUME TypeOK, Grows, NEW w \in Workers, WorkerFits(w),
         process'[w].phase = process[w].phase, process'[w].event = process[w].event,
         process'[w].token = process[w].token, process'[w].book = process[w].book,
         process'[w].consumer = process[w].consumer
  PROVE  WorkerFits(w)'
<1>1. /\ process'[w].phase \in Busy <=> process'[w].event # NoEvent
      /\ process'[w].phase \in Busy => process'[w].event \in Committed' /\ process'[w].token \in Tokens
      /\ process'[w].phase # "down" => process'[w].consumer \in Consumers
  BY DEF WorkerFits, Grows
<1>2. ASSUME process'[w].phase = "binding", NEW i \in DOMAIN BookList, i < process'[w].book
      PROVE  route'[BookList[i]] = process'[w].consumer
  <2>1. route[BookList[i]] = process[w].consumer /\ process[w].consumer \in Consumers
    BY <1>2 DEF WorkerFits
  <2>2. route[BookList[i]] # NoConsumer /\ BookList[i] \in Books
    BY <2>1, DeliveryAssumption, BookIndexes
  <2> QED BY <2>1, <2>2 DEF Grows
<1>3. ASSUME process'[w].phase \notin {"down", "binding"}, NEW b \in Books
      PROVE  route'[b] = process'[w].consumer
  <2>1. route[b] = process[w].consumer /\ process[w].consumer \in Consumers
    BY <1>3 DEF WorkerFits
  <2> QED BY <2>1, DeliveryAssumption DEF Grows
<1>4. process'[w].phase = "acking" => process'[w].event \in inbox'[process'[w].consumer]
  BY DEF WorkerFits, Grows
<1> QED BY <1>1, <1>2, <1>3, <1>4 DEF WorkerFits

\* A process that ends a delivery, one way or the other, goes on with its consumer.
LEMMA WorkerResets ==
  ASSUME DeliveryInv, Grows, NEW w \in Workers,
         process[w].phase \notin {"down", "binding"},
         process'[w] \in {NextBook(process[w]), Served(process[w])}
  PROVE  process'[w] \in Process /\ WorkerFits(w)'
<1>1. process[w] \in Process  BY DEF DeliveryInv, TypeOK
<1>2. /\ process'[w] \in Process /\ process'[w].phase = "claiming"
      /\ process'[w].event = NoEvent /\ process'[w].consumer = process[w].consumer
  BY <1>1, NextBookIs, ServedIs
<1>3. process[w].consumer \in Consumers /\ \A b \in Books : route[b] = process[w].consumer
  BY DEF DeliveryInv, WorkerFits
<1>4. \A b \in Books : route'[b] = process[w].consumer
  BY <1>3, DeliveryAssumption DEF Grows
<1> QED BY <1>2, <1>3, <1>4 DEF WorkerFits, Busy

\* So does one that was stopped.
LEMMA WorkerDown ==
  ASSUME NEW w \in Workers, process'[w] = Down
  PROVE  process'[w] \in Process /\ WorkerFits(w)'
BY DownIs DEF WorkerFits, Busy

\* A step of one process.
LEMMA OneWorkerMoves ==
  ASSUME DeliveryInv, Grows, NEW w \in Workers, NEW q \in Process,
         process' = [process EXCEPT ![w] = q], WorkerFits(w)'
  PROVE  process' \in [Workers -> Process] /\ \A v \in Workers : WorkerFits(v)'
<1>1. process \in [Workers -> Process]  BY DEF DeliveryInv, TypeOK
<1>2. process' \in [Workers -> Process]  BY <1>1
<1>3. ASSUME NEW v \in Workers PROVE WorkerFits(v)'
  <2>1. CASE v = w  BY <2>1
  <2>2. CASE v # w
    <3>1. process'[v] = process[v]  BY <1>1, <2>2
    <3> QED BY <3>1, WorkerStays DEF DeliveryInv
  <2> QED BY <2>1, <2>2
<1> QED BY <1>2, <1>3

\* What is on the wire stays right, for nothing it relies on is taken back.
LEMMA WireStays ==
  ASSUME DeliveryInv, Grows, late' \subseteq late, acks' \subseteq acks
  PROVE  WireFits'
<1>1. ASSUME NEW m \in late' PROVE m[2] \in Committed' /\ route'[EventBook[m[2]]] = m[1]
  <2>1. m \in Consumers \X Events  BY DEF DeliveryInv, TypeOK
  <2>2. m[2] \in Committed /\ route[EventBook[m[2]]] = m[1]  BY DEF DeliveryInv, WireFits
  <2>3. EventBook[m[2]] \in Books /\ m[1] # NoConsumer  BY <2>1, EventKeys, DeliveryAssumption
  <2> QED BY <2>2, <2>3 DEF Grows
<1>2. ASSUME NEW a \in acks'
      PROVE  /\ a[1] \in Committed' /\ route'[EventBook[a[1]]] \in Consumers
             /\ a[1] \in inbox'[route'[EventBook[a[1]]]]
  <2>1. a \in Events \X Tokens  BY DEF DeliveryInv, TypeOK
  <2>2. /\ a[1] \in Committed /\ route[EventBook[a[1]]] \in Consumers
        /\ a[1] \in inbox[route[EventBook[a[1]]]]
    BY DEF DeliveryInv, WireFits
  <2>3. EventBook[a[1]] \in Books /\ route[EventBook[a[1]]] # NoConsumer
    BY <2>1, <2>2, EventKeys, DeliveryAssumption
  <2> QED BY <2>2, <2>3 DEF Grows
<1> QED BY <1>1, <1>2 DEF WireFits

\* What a process that gives up adds to the wire is right: it is bound to the
\* consumer it was sending to, and acknowledges what that consumer holds.
LEMMA WireAfterAbandon ==
  ASSUME DeliveryInv, NEW w \in Workers, Abandon(process[w]),
         UNCHANGED <<outbox, route, consumerVars>>
  PROVE  /\ late' \subseteq Consumers \X Events /\ acks' \subseteq Events \X Tokens
         /\ WireFits'
<1> DEFINE p == process[w]
<1>1. /\ late \subseteq Consumers \X Events /\ acks \subseteq Events \X Tokens
      /\ route' = route /\ inbox' = inbox /\ Committed' = Committed
  BY DEF DeliveryInv, TypeOK, consumerVars, Committed
<1>2. ASSUME p.phase \in {"sending", "acking"}
      PROVE  /\ p.consumer \in Consumers /\ p.event \in Committed /\ p.event \in Events
             /\ p.token \in Tokens /\ route[EventBook[p.event]] = p.consumer
             /\ p.phase = "acking" => p.event \in inbox[p.consumer]
  BY <1>2, EventKeys, FactsAreEvents DEF DeliveryInv, WorkerFits, Busy
<1>3. /\ late' = late \/ (p.phase = "sending" /\ late' = late \cup {<<p.consumer, p.event>>})
      /\ acks' = acks \/ (p.phase = "acking" /\ acks' = acks \cup {<<p.event, p.token>>})
  BY AbandonIs
<1>4. \A m \in late : m[2] \in Committed /\ route[EventBook[m[2]]] = m[1]
  BY DEF DeliveryInv, WireFits
<1>5. \A a \in acks :
        /\ a[1] \in Committed /\ route[EventBook[a[1]]] \in Consumers
        /\ a[1] \in inbox[route[EventBook[a[1]]]]
  BY DEF DeliveryInv, WireFits
<1> HIDE DEF p
<1>6. /\ late' \subseteq Consumers \X Events
      /\ \A m \in late' : m[2] \in Committed /\ route[EventBook[m[2]]] = m[1]
  BY <1>1, <1>2, <1>3, <1>4
<1>7. /\ acks' \subseteq Events \X Tokens
      /\ \A a \in acks' :
           /\ a[1] \in Committed /\ route[EventBook[a[1]]] \in Consumers
           /\ a[1] \in inbox[route[EventBook[a[1]]]]
  BY <1>1, <1>2, <1>3, <1>5
<1> QED BY <1>1, <1>6, <1>7 DEF WireFits

\* The consumers' tables stay right while they are left alone.
LEMMA InboxStays ==
  ASSUME DeliveryInv, Grows, UNCHANGED consumerVars
  PROVE  InboxFits'
<1>1. inbox' = inbox /\ projection' = projection  BY DEF consumerVars
<1>2. ASSUME NEW c \in Consumers, NEW e \in inbox[c]
      PROVE  e \in Committed' /\ route'[EventBook[e]] = c /\ projection[c][Key(e)] = e
  <2>1. e \in Committed /\ route[EventBook[e]] = c /\ projection[c][Key(e)] = e
    BY DEF DeliveryInv, InboxFits
  <2>2. EventBook[e] \in Books /\ route[EventBook[e]] # NoConsumer
    BY <2>1, EventKeys, FactsAreEvents, DeliveryAssumption
  <2> QED BY <2>1, <2>2 DEF Grows
<1> QED BY <1>1, <1>2 DEF DeliveryInv, InboxFits

\* A delivered event stays with its consumer, and an event that is committed once
\* stays committed once, while no row is added or retired.
LEMMA FactsStay ==
  ASSUME DeliveryInv, Grows, Committed' = Committed, Delivered' = Delivered
  PROVE  OnceCommitted' /\ DeliveredFits'
<1>1. OnceCommitted'  BY DEF DeliveryInv, OnceCommitted, Key
<1>2. ASSUME NEW e \in Delivered
      PROVE  route'[EventBook[e]] \in Consumers /\ e \in inbox'[route'[EventBook[e]]]
  <2>1. route[EventBook[e]] \in Consumers /\ e \in inbox[route[EventBook[e]]]
    BY DEF DeliveryInv, DeliveredFits
  <2>2. EventBook[e] \in Books /\ route[EventBook[e]] # NoConsumer
    BY <2>1, EventKeys, FactsAreEvents, DeliveryAssumption
  <2> QED BY <2>1, <2>2 DEF Grows
<1> QED BY <1>1, <1>2 DEF DeliveredFits

\* The transaction of acceptOnce, run on a committed event by its book's consumer:
\* it is never refused as a conflict or as half written, what it accepts is then
\* held in both tables, and the tables stay right.
LEMMA AcceptFits ==
  ASSUME DeliveryInv, NEW c \in Consumers, NEW e \in Committed,
         route[EventBook[e]] = c, Accept(c, e), UNCHANGED <<outbox, route>>
  PROVE  /\ InboxFits' /\ Answer(c, e) \in {"204", "403"}
         /\ inbox' = [inbox EXCEPT ![c] = @ \cup {e}] \/ inbox' = inbox
         /\ Answer(c, e) = "204" => e \in inbox'[c]
<1> DEFINE k == Key(e)
<1>1. e \in Events /\ k \in Books \X Ops  BY EventKeys, FactsAreEvents DEF Key
<1>2. /\ inbox \in [Consumers -> SUBSET Events]
      /\ projection \in [Consumers -> [Books \X Ops -> Events \cup {NoEvent}]]
  BY DEF DeliveryInv, TypeOK
<1>3. projection[c] \in [Books \X Ops -> Events \cup {NoEvent}]  BY <1>2
<1>4. route' = route /\ Committed' = Committed  BY DEF Committed
<1>5. e \in inbox[c] <=> projection[c][k] = e
  BY <1>1, DeliveryAssumption DEF DeliveryInv, InboxFits
<1>6. projection[c][k] \in {NoEvent, e}
  <2>1. ASSUME projection[c][k] # NoEvent PROVE projection[c][k] = e
    <3>1. projection[c][k] \in Committed /\ Key(projection[c][k]) = Key(e)
      BY <1>1, <2>1 DEF DeliveryInv, InboxFits
    <3> QED BY <3>1 DEF DeliveryInv, OnceCommitted
  <2> QED BY <2>1
<1>7. Answer(c, e) \in {"204", "403"}
  BY <1>5, <1>6 DEF Answer, Key
<1>8. CASE Answer(c, e) = "204"
  <2>1. inbox' = [inbox EXCEPT ![c] = @ \cup {e}]  BY <1>8 DEF Accept
  <2> DEFINE g == [projection[c] EXCEPT ![k] = e]
  <2>2. projection' = [projection EXCEPT ![c] = g]  BY <1>8 DEF Accept, Key
  <2> HIDE DEF k
  <2>3. g[k] = e /\ \A l \in Books \X Ops : l # k => g[l] = projection[c][l]
    BY <1>1, <1>3
  <2> HIDE DEF g
  <2>4. ASSUME NEW d \in Consumers, NEW f \in inbox'[d]
        PROVE  f \in Committed /\ route[EventBook[f]] = d /\ projection'[d][Key(f)] = f
    <3>1. CASE d # c
      BY <1>2, <2>1, <2>2, <3>1 DEF DeliveryInv, InboxFits
    <3>2. CASE d = c /\ f # e
      <4>1. f \in inbox[c]  BY <1>2, <2>1, <3>2
      <4>2. f \in Committed /\ route[EventBook[f]] = c /\ projection[c][Key(f)] = f
        BY <4>1 DEF DeliveryInv, InboxFits
      <4>3. Key(f) # k  BY <3>2, <4>2 DEF DeliveryInv, OnceCommitted, k
      <4>4. Key(f) \in Books \X Ops  BY <4>2, EventKeys, FactsAreEvents DEF Key
      <4>5. projection'[c] = g  BY <1>2, <2>2
      <4> QED BY <2>3, <3>2, <4>2, <4>3, <4>4, <4>5
    <3>3. CASE d = c /\ f = e
      <4>1. projection'[c] = g  BY <1>2, <2>2
      <4> QED BY <2>3, <3>3, <4>1 DEF k
    <3> QED BY <3>1, <3>2, <3>3
  <2>5. ASSUME NEW d \in Consumers, NEW l \in Books \X Ops, projection'[d][l] # NoEvent
        PROVE  projection'[d][l] \in inbox'[d] /\ Key(projection'[d][l]) = l
    <3>1. CASE d # c
      BY <1>2, <2>1, <2>2, <2>5, <3>1 DEF DeliveryInv, InboxFits
    <3>2. CASE d = c /\ l # k
      <4>1. projection'[c] = g  BY <1>2, <2>2
      <4>2. projection'[d][l] = projection[c][l]  BY <2>3, <3>2, <4>1
      <4>3. projection[c][l] \in inbox[c] /\ Key(projection[c][l]) = l
        BY <2>5, <4>2 DEF DeliveryInv, InboxFits
      <4> QED BY <1>2, <2>1, <3>2, <4>2, <4>3
    <3>3. CASE d = c /\ l = k
      <4>1. projection'[d][l] = e  BY <1>2, <2>2, <2>3, <3>3
      <4> QED BY <1>2, <2>1, <3>3, <4>1 DEF k
    <3> QED BY <3>1, <3>2, <3>3
  <2>6. InboxFits'  BY <1>4, <2>4, <2>5 DEF InboxFits, Key
  <2>7. e \in inbox'[c]  BY <1>2, <2>1
  <2> QED BY <1>7, <2>1, <2>6, <2>7
<1>9. CASE Answer(c, e) # "204"
  <2>1. inbox' = inbox /\ projection' = projection  BY <1>9 DEF Accept, consumerVars
  <2>2. InboxFits'  BY <1>4, <2>1 DEF DeliveryInv, InboxFits
  <2> QED BY <1>7, <1>9, <2>1, <2>2
<1> QED BY <1>8, <1>9

\* Rows that are left alone, and everything else but the processes: the invariant
\* follows from what the step does to the processes.
LEMMA OnlyProcesses ==
  ASSUME DeliveryInv, UNCHANGED <<outbox, route, late, acks, consumerVars, crashes>>
  PROVE  /\ Grows /\ WireFits' /\ InboxFits' /\ OnceCommitted' /\ DeliveredFits'
         /\ process' \in [Workers -> Process] => TypeOK'
<1>1. Committed' = Committed /\ Delivered' = Delivered  BY DEF Committed, Delivered
<1>2. Grows  BY <1>1 DEF Grows, consumerVars
<1>3. WireFits'  BY <1>2, WireStays
<1>4. InboxFits'  BY <1>2, InboxStays
<1>5. OnceCommitted' /\ DeliveredFits'  BY <1>1, <1>2, FactsStay
<1>6. process' \in [Workers -> Process] => TypeOK'
  BY DEF DeliveryInv, TypeOK, consumerVars
<1> QED BY <1>2, <1>3, <1>4, <1>5, <1>6

\* A lease is taken on a pending row, which stays pending.
LEMMA ClaimRows ==
  ASSUME DeliveryInv, NEW w \in Workers, NEW e \in Events, CanClaim(w, e), Lease(e)
  PROVE  /\ outbox' \in [Events -> Row] /\ e \in Committed
         /\ Committed' = Committed /\ Delivered' = Delivered
<1>1. outbox[e].state = "pending"  BY DEF CanClaim, Claimable
<1>2. Tokens \ TokensInUse # {}  BY DEF CanClaim
<1>3. /\ outbox' \in [Events -> Row] /\ outbox'[e].state = "pending"
      /\ \A f \in Events \ {e} : outbox'[f] = outbox[f]
  BY <1>2, LeaseIs DEF DeliveryInv
<1>4. \A f \in Events : outbox'[f].state = outbox[f].state  BY <1>1, <1>3
<1> QED BY <1>1, <1>3, <1>4 DEF Committed, Delivered

\* Open up to its first binding.
LEMMA StartKeeps ==
  ASSUME DeliveryInv, NEW w \in Workers, NEW c \in Consumers, Start(w, c)
  PROVE  DeliveryInv'
<1> DEFINE q == [Down EXCEPT !.phase = "binding", !.consumer = c]
<1>1. /\ q \in Process /\ q.phase = "binding" /\ q.event = NoEvent
      /\ q.consumer = c /\ q.book = 1
  BY DownIs
<1>2. /\ process' = [process EXCEPT ![w] = q]
      /\ UNCHANGED <<outbox, route, late, acks, consumerVars, crashes>>
  BY DEF Start
<1> HIDE DEF q
<1>3. /\ Grows /\ WireFits' /\ InboxFits' /\ OnceCommitted' /\ DeliveredFits'
      /\ process' \in [Workers -> Process] => TypeOK'
  BY <1>2, OnlyProcesses
<1>4. process'[w] = q  BY <1>2 DEF DeliveryInv, TypeOK
<1>5. \A i \in DOMAIN BookList : ~(i < 1)  BY BookIndexes
<1>6. WorkerFits(w)'  BY <1>1, <1>4, <1>5 DEF WorkerFits, Busy
<1>7. process' \in [Workers -> Process] /\ \A v \in Workers : WorkerFits(v)'
  BY <1>1, <1>2, <1>3, <1>6, OneWorkerMoves
<1> QED BY <1>3, <1>7 DEF DeliveryInv

\* One binding of Open: it binds a book nobody bound, or finds its own consumer.
LEMMA BindKeeps ==
  ASSUME DeliveryInv, NEW w \in Workers, BindOutboxConsumer(w)
  PROVE  DeliveryInv'
<1> DEFINE p == process[w]
           b == BookList[p.book]
<1>1. /\ p \in Process /\ p.phase = "binding" /\ p.book \in DOMAIN BookList
      /\ route \in [Books -> Consumers \cup {NoConsumer}]
  BY DEF DeliveryInv, TypeOK, BindOutboxConsumer, Process
<1>2. p.consumer \in Consumers /\ b \in Books /\ p.event = NoEvent
  BY <1>1, BookIndexes DEF DeliveryInv, WorkerFits, Busy
<1>3. UNCHANGED <<outbox, late, acks, consumerVars, crashes>>  BY DEF BindOutboxConsumer
<1>4. Committed' = Committed /\ Delivered' = Delivered  BY <1>3 DEF Committed, Delivered
<1>5. CASE ~Bindable(b, p.consumer)
  <2>1. route' = route /\ process' = [process EXCEPT ![w] = Down]
    BY <1>5 DEF BindOutboxConsumer
  <2>2. /\ Grows /\ WireFits' /\ InboxFits' /\ OnceCommitted' /\ DeliveredFits'
        /\ process' \in [Workers -> Process] => TypeOK'
    BY <1>3, <2>1, OnlyProcesses
  <2>3. process'[w] = Down  BY <2>1 DEF DeliveryInv, TypeOK
  <2>4. Down \in Process /\ WorkerFits(w)'  BY <2>3, WorkerDown
  <2>5. process' \in [Workers -> Process] /\ \A v \in Workers : WorkerFits(v)'
    BY <2>1, <2>2, <2>4, OneWorkerMoves
  <2> QED BY <2>2, <2>5 DEF DeliveryInv
<1>6. CASE Bindable(b, p.consumer)
  <2> DEFINE q == IF p.book = Len(BookList) THEN NextBook(p) ELSE [p EXCEPT !.book = @ + 1]
  <2>1. route' = [route EXCEPT ![b] = p.consumer] /\ process' = [process EXCEPT ![w] = q]
    BY <1>6 DEF BindOutboxConsumer
  <2>2. route[b] \in {p.consumer, NoConsumer}  BY <1>6 DEF Bindable
  <2>3. route' \in [Books -> Consumers \cup {NoConsumer}] /\ route'[b] = p.consumer
        /\ \A d \in Books : route[d] # NoConsumer => route'[d] = route[d]
    BY <1>1, <1>2, <2>1, <2>2
  <2>4. Grows  BY <1>3, <1>4, <2>3 DEF Grows, consumerVars
  <2>5. WireFits' /\ InboxFits' /\ OnceCommitted' /\ DeliveredFits'
    BY <1>3, <1>4, <2>4, WireStays, InboxStays, FactsStay
  <2>6. \A i \in DOMAIN BookList : i < p.book + 1 => route'[BookList[i]] = p.consumer
    <3>1. ASSUME NEW i \in DOMAIN BookList, i < p.book + 1
          PROVE  route'[BookList[i]] = p.consumer
      <4>1. CASE i = p.book  BY <2>3, <4>1
      <4>2. CASE i # p.book
        <5>1. i < p.book  BY <1>1, <3>1, <4>2, BookIndexes
        <5>2. route[BookList[i]] = p.consumer  BY <1>1, <5>1 DEF DeliveryInv, WorkerFits
        <5> QED BY <1>2, <2>3, <5>2, BookIndexes, DeliveryAssumption
      <4> QED BY <4>1, <4>2
    <3> QED BY <3>1
  <2>7. q \in Process /\ process'[w] = q
    <3>1. ASSUME p.book = Len(BookList) PROVE q \in Process  BY <1>1, <3>1, NextBookIs
    <3>2. ASSUME p.book # Len(BookList) PROVE q \in Process
      <4> DEFINE n == p.book + 1
      <4>1. n \in DOMAIN BookList  BY <1>1, <3>2, BookIndexes
      <4>2. q = [p EXCEPT !.book = n]  BY <3>2
      <4> HIDE DEF n, q
      <4> QED BY <1>1, <4>1, <4>2 DEF Process
    <3>3. q \in Process  BY <3>1, <3>2
    <3> HIDE DEF q
    <3>4. process'[w] = q  BY <2>1 DEF DeliveryInv, TypeOK
    <3> QED BY <3>3, <3>4
  <2>8. WorkerFits(w)'
    <3>1. CASE p.book = Len(BookList)
      <4>1. q = NextBook(p)  BY <3>1
      <4>2. /\ q.phase = "claiming" /\ q.event = NoEvent /\ q.consumer = p.consumer
        BY <1>1, <4>1, NextBookIs
      <4>3. \A i \in DOMAIN BookList : i < p.book + 1  BY <3>1, BookIndexes
      <4>4. \A d \in Books : route'[d] = p.consumer  BY <2>6, <4>3, BookIndexes
      <4> HIDE DEF q
      <4> QED BY <1>2, <2>7, <4>2, <4>4 DEF WorkerFits, Busy
    <3>2. CASE p.book # Len(BookList)
      <4>1. q = [p EXCEPT !.book = @ + 1]  BY <3>2
      <4> HIDE DEF q
      <4>2. /\ q.phase = "binding" /\ q.event = NoEvent /\ q.consumer = p.consumer
            /\ q.book = p.book + 1
        BY <1>1, <1>2, <4>1 DEF Process
      <4> QED BY <1>2, <2>6, <2>7, <4>2 DEF WorkerFits, Busy
    <3> QED BY <3>1, <3>2
  <2> HIDE DEF q
  <2>9. process' \in [Workers -> Process] /\ \A v \in Workers : WorkerFits(v)'
    BY <2>1, <2>4, <2>7, <2>8, OneWorkerMoves
  <2>10. TypeOK'  BY <1>3, <2>3, <2>9 DEF DeliveryInv, TypeOK, consumerVars
  <2> QED BY <2>5, <2>9, <2>10 DEF DeliveryInv
<1> QED BY <1>5, <1>6

\* Save's rows: a fact is committed once per operation.
LEMMA CommitKeeps ==
  ASSUME DeliveryInv, NEW e \in Events, Commit(e)
  PROVE  DeliveryInv' /\ e \notin Committed /\ Committed' = Committed \cup {e}
         /\ Delivered' = Delivered
<1>1. /\ outbox' \in [Events -> Row] /\ outbox'[e].state = "pending"
      /\ \A f \in Events \ {e} : outbox'[f] = outbox[f]
  BY CommitIs DEF DeliveryInv
<1>2. UNCHANGED <<route, process, late, acks, consumerVars, crashes>>  BY DEF Commit
<1>3. \A f \in Committed : Key(f) # Key(e)  BY DEF Commit, Unrecorded, Key
<1>4. e \notin Committed  BY <1>3
<1>5. Committed' = Committed \cup {e}  BY <1>1 DEF Committed
<1>6. Delivered' = Delivered  BY <1>1, <1>4 DEF Committed, Delivered
<1>7. Grows  BY <1>2, <1>5 DEF Grows, consumerVars
<1>8. WireFits' /\ InboxFits'  BY <1>2, <1>7, WireStays, InboxStays
<1>9. OnceCommitted'  BY <1>3, <1>5 DEF DeliveryInv, OnceCommitted, Key
<1>10. DeliveredFits'  BY <1>2, <1>6 DEF DeliveryInv, DeliveredFits, consumerVars
<1>11. TypeOK'  BY <1>1, <1>2 DEF DeliveryInv, TypeOK, consumerVars
<1>12. ASSUME NEW v \in Workers PROVE WorkerFits(v)'
  BY <1>2, <1>7, WorkerStays DEF DeliveryInv
<1> QED BY <1>4, <1>5, <1>6, <1>8, <1>9, <1>10, <1>11, <1>12 DEF DeliveryInv

\* ClaimOutbox, with its answer received.
LEMMA ClaimKeeps ==
  ASSUME DeliveryInv, NEW w \in Workers, NEW e \in Events, ClaimOutbox(w, e)
  PROVE  DeliveryInv'
<1> DEFINE p == process[w]
           t == FreshToken
           q == [p EXCEPT !.phase = "claimed", !.event = e, !.token = t]
<1>1. /\ CanClaim(w, e) /\ Lease(e) /\ UNCHANGED <<route, late, acks, consumerVars, crashes>>
  BY DEF ClaimOutbox
<1>2. /\ outbox' \in [Events -> Row] /\ e \in Committed
      /\ Committed' = Committed /\ Delivered' = Delivered
  BY <1>1, ClaimRows
<1>3. t \in Tokens  BY <1>1, FreshTokenIsNew DEF CanClaim
<1>4. p \in Process /\ p.phase = "claiming"  BY <1>1 DEF DeliveryInv, TypeOK, CanClaim
<1>5. process' = [process EXCEPT ![w] = q]  BY DEF ClaimOutbox
<1>6. Grows  BY <1>1, <1>2 DEF Grows, consumerVars
<1>7. WireFits' /\ InboxFits' /\ OnceCommitted' /\ DeliveredFits'
  BY <1>1, <1>2, <1>6, WireStays, InboxStays, FactsStay
<1> HIDE DEF t
<1>8. q \in Process  BY <1>3, <1>4 DEF Process, Phases
<1>9. q.phase = "claimed" /\ q.event = e /\ q.token = t /\ q.consumer = p.consumer
  BY <1>4 DEF Process
<1>10. p.consumer \in Consumers /\ \A b \in Books : route'[b] = p.consumer
  BY <1>1, <1>4 DEF DeliveryInv, WorkerFits
<1> HIDE DEF q
<1>11. process'[w] = q  BY <1>5 DEF DeliveryInv, TypeOK
<1>12. WorkerFits(w)'
  BY <1>2, <1>3, <1>9, <1>10, <1>11, DeliveryAssumption DEF WorkerFits, Busy
<1>13. process' \in [Workers -> Process] /\ \A v \in Workers : WorkerFits(v)'
  BY <1>5, <1>6, <1>8, <1>12, OneWorkerMoves
<1>14. TypeOK'  BY <1>1, <1>2, <1>13 DEF DeliveryInv, TypeOK, consumerVars
<1> QED BY <1>7, <1>13, <1>14 DEF DeliveryInv

\* A step that ends in the next claim and may have leased a row to nobody.
LEMMA MoveOnKeeps ==
  ASSUME DeliveryInv, NEW w \in Workers, NothingToClaim(w) \/ ClaimFails(w)
  PROVE  DeliveryInv' /\ Committed' = Committed /\ Delivered' = Delivered
<1>1. /\ process[w].phase = "claiming"
      /\ process' = [process EXCEPT ![w] = NextBook(process[w])]
      /\ UNCHANGED <<route, late, acks, consumerVars, crashes>>
      /\ UNCHANGED outbox \/ \E e \in Events : CanClaim(w, e) /\ Lease(e)
  BY DEF NothingToClaim, ClaimFails
<1>2. outbox' \in [Events -> Row] /\ Committed' = Committed /\ Delivered' = Delivered
  <2>1. CASE UNCHANGED outbox  BY <2>1 DEF DeliveryInv, TypeOK, Committed, Delivered
  <2>2. ASSUME NEW e \in Events, CanClaim(w, e), Lease(e)
        PROVE  outbox' \in [Events -> Row] /\ Committed' = Committed /\ Delivered' = Delivered
    BY <2>2, ClaimRows
  <2> QED BY <1>1, <2>1, <2>2
<1>3. Grows  BY <1>1, <1>2 DEF Grows, consumerVars
<1>4. WireFits' /\ InboxFits' /\ OnceCommitted' /\ DeliveredFits'
  BY <1>1, <1>2, <1>3, WireStays, InboxStays, FactsStay
<1>5. process'[w] = NextBook(process[w])  BY <1>1 DEF DeliveryInv, TypeOK
<1>6. NextBook(process[w]) \in Process /\ WorkerFits(w)'
  BY <1>1, <1>3, <1>5, WorkerResets
<1>7. process' \in [Workers -> Process] /\ \A v \in Workers : WorkerFits(v)'
  BY <1>1, <1>3, <1>6, OneWorkerMoves
<1>8. TypeOK'  BY <1>1, <1>2, <1>7 DEF DeliveryInv, TypeOK, consumerVars
<1> QED BY <1>2, <1>4, <1>7, <1>8 DEF DeliveryInv

\* The event is posted.
LEMMA PostKeeps ==
  ASSUME DeliveryInv, NEW w \in Workers, Post(w)
  PROVE  DeliveryInv'
<1> DEFINE p == process[w]
           q == [p EXCEPT !.phase = "sending", !.left = TimeoutTicks]
<1>1. p \in Process /\ p.phase = "claimed"  BY DEF DeliveryInv, TypeOK, Post
<1>2. /\ process' = [process EXCEPT ![w] = q]
      /\ UNCHANGED <<outbox, route, late, acks, consumerVars, crashes>>
  BY DEF Post
<1>3. TimeoutTicks \in 0 .. TimeoutTicks  BY DeliveryAssumption
<1>4. q \in Process  BY <1>1, <1>3 DEF Process, Phases
<1>5. q.phase = "sending" /\ q.event = p.event /\ q.token = p.token /\ q.consumer = p.consumer
  BY <1>1 DEF Process
<1> HIDE DEF q
<1>6. /\ Grows /\ WireFits' /\ InboxFits' /\ OnceCommitted' /\ DeliveredFits'
      /\ process' \in [Workers -> Process] => TypeOK'
  BY <1>2, OnlyProcesses
<1>7. process'[w] = q  BY <1>2 DEF DeliveryInv, TypeOK
<1>8. /\ p.event # NoEvent /\ p.event \in Committed /\ p.token \in Tokens
      /\ p.consumer \in Consumers /\ \A b \in Books : route[b] = p.consumer
  BY <1>1 DEF DeliveryInv, WorkerFits, Busy
<1>9. Committed' = Committed /\ route' = route  BY <1>2 DEF Committed
<1>10. WorkerFits(w)'  BY <1>5, <1>7, <1>8, <1>9 DEF WorkerFits, Busy
<1>11. process' \in [Workers -> Process] /\ \A v \in Workers : WorkerFits(v)'
  BY <1>2, <1>4, <1>6, <1>10, OneWorkerMoves
<1> QED BY <1>6, <1>11 DEF DeliveryInv

\* A process gives up: an error, the deadline, or the process's own end.
LEMMA GiveUpKeeps ==
  ASSUME DeliveryInv, NEW w \in Workers, SendFails(w) \/ AcknowledgeFails(w) \/ Crash(w)
  PROVE  DeliveryInv'
<1>1. /\ Abandon(process[w]) /\ UNCHANGED <<outbox, route, consumerVars>>
      /\ crashes' = crashes \/ (crashes < MaxCrashes /\ crashes' = crashes + 1)
      /\ \/ process' = [process EXCEPT ![w] = Down]
         \/ /\ process[w].phase \in {"sending", "waiting", "acking"}
            /\ process' = [process EXCEPT ![w] = NextBook(process[w])]
  BY DEF SendFails, AcknowledgeFails, Crash
<1>2. Committed' = Committed /\ Delivered' = Delivered  BY <1>1 DEF Committed, Delivered
<1>3. Grows  BY <1>1, <1>2 DEF Grows, consumerVars
<1>4. late' \subseteq Consumers \X Events /\ acks' \subseteq Events \X Tokens /\ WireFits'
  BY <1>1, WireAfterAbandon
<1>5. InboxFits' /\ OnceCommitted' /\ DeliveredFits'
  BY <1>1, <1>2, <1>3, InboxStays, FactsStay
<1>6. process' \in [Workers -> Process] /\ \A v \in Workers : WorkerFits(v)'
  <2>1. CASE process' = [process EXCEPT ![w] = Down]
    <3>1. process'[w] = Down  BY <2>1 DEF DeliveryInv, TypeOK
    <3>2. Down \in Process /\ WorkerFits(w)'  BY <3>1, WorkerDown
    <3> QED BY <1>3, <2>1, <3>2, OneWorkerMoves
  <2>2. CASE /\ process[w].phase \in {"sending", "waiting", "acking"}
             /\ process' = [process EXCEPT ![w] = NextBook(process[w])]
    <3>1. process'[w] = NextBook(process[w])  BY <2>2 DEF DeliveryInv, TypeOK
    <3>2. NextBook(process[w]) \in Process /\ WorkerFits(w)'
      BY <1>3, <2>2, <3>1, WorkerResets
    <3> QED BY <1>3, <2>2, <3>2, OneWorkerMoves
  <2> QED BY <1>1, <2>1, <2>2
<1>7. crashes' \in 0 .. MaxCrashes  BY <1>1, DeliveryAssumption DEF DeliveryInv, TypeOK
<1>8. TypeOK'  BY <1>1, <1>4, <1>6, <1>7 DEF DeliveryInv, TypeOK, consumerVars
<1> QED BY <1>4, <1>5, <1>6, <1>8 DEF DeliveryInv

\* A request is handled by the consumer it was sent to.
LEMMA HandledFits ==
  ASSUME DeliveryInv, NEW c \in Consumers, NEW e \in Committed,
         route[EventBook[e]] = c, Accept(c, e),
         UNCHANGED <<outbox, route, acks, crashes>>, late' \subseteq late
  PROVE  /\ Grows /\ WireFits' /\ InboxFits' /\ OnceCommitted' /\ DeliveredFits'
         /\ Committed' = Committed /\ Delivered' = Delivered
         /\ Answer(c, e) = "204" => e \in inbox'[c]
         /\ process' \in [Workers -> Process] => TypeOK'
<1>1. Committed' = Committed /\ Delivered' = Delivered  BY DEF Committed, Delivered
<1>2. /\ InboxFits'
      /\ Answer(c, e) = "204" => e \in inbox'[c]
      /\ inbox' = [inbox EXCEPT ![c] = @ \cup {e}] \/ inbox' = inbox
  BY AcceptFits
<1>3. \A d \in Consumers : inbox[d] \subseteq inbox'[d]  BY <1>2 DEF DeliveryInv, TypeOK
<1>4. Grows  BY <1>1, <1>3 DEF Grows
<1>5. WireFits' /\ OnceCommitted' /\ DeliveredFits'  BY <1>1, <1>4, WireStays, FactsStay
<1>6. /\ inbox' \in [Consumers -> SUBSET Events]
      /\ projection' \in [Consumers -> [Books \X Ops -> Events \cup {NoEvent}]]
  BY AcceptTypes, FactsAreEvents DEF DeliveryInv
<1>7. process' \in [Workers -> Process] => TypeOK'  BY <1>6 DEF DeliveryInv, TypeOK
<1> QED BY <1>1, <1>2, <1>4, <1>5, <1>7

\* A process that is sending sends a committed event to the book's one consumer.
LEMMA SendingIs ==
  ASSUME DeliveryInv, NEW w \in Workers, process[w].phase \in Busy
  PROVE  /\ process[w] \in Process /\ process[w].event \in Committed
         /\ process[w].event # NoEvent /\ process[w].token \in Tokens
         /\ process[w].consumer \in Consumers
         /\ route[EventBook[process[w].event]] = process[w].consumer
         /\ \A b \in Books : route[b] = process[w].consumer
BY EventKeys, FactsAreEvents DEF DeliveryInv, TypeOK, WorkerFits, Busy

\* A request answered in time, or handled with its answer lost.
LEMMA DeliverKeeps ==
  ASSUME DeliveryInv, NEW w \in Workers, Deliver(w) \/ DeliverUnheard(w)
  PROVE  DeliveryInv'
<1> DEFINE p == process[w]
<1>1. /\ p.phase = "sending" /\ Accept(p.consumer, p.event)
      /\ UNCHANGED <<outbox, route, late, acks, crashes>>
  BY DEF Deliver, DeliverUnheard
<1>2. /\ p \in Process /\ p.event \in Committed /\ p.event # NoEvent /\ p.token \in Tokens
      /\ p.consumer \in Consumers /\ route[EventBook[p.event]] = p.consumer
      /\ \A b \in Books : route[b] = p.consumer
  BY <1>1, SendingIs DEF Busy
<1>3. /\ Grows /\ WireFits' /\ InboxFits' /\ OnceCommitted' /\ DeliveredFits'
      /\ Committed' = Committed
      /\ Answer(p.consumer, p.event) = "204" => p.event \in inbox'[p.consumer]
      /\ process' \in [Workers -> Process] => TypeOK'
  BY <1>1, <1>2, HandledFits
<1>4. process' \in [Workers -> Process] /\ \A v \in Workers : WorkerFits(v)'
  <2>1. CASE /\ Answer(p.consumer, p.event) = "204"
             /\ process' = [process EXCEPT ![w] = [p EXCEPT !.phase = "acking", !.left = 0]]
    <3> DEFINE q == [p EXCEPT !.phase = "acking", !.left = 0]
    <3>1. 0 \in 0 .. TimeoutTicks  BY DeliveryAssumption
    <3>2. q \in Process  BY <1>2, <3>1 DEF Process, Phases
    <3>3. q.phase = "acking" /\ q.event = p.event /\ q.token = p.token /\ q.consumer = p.consumer
      BY <1>2 DEF Process
    <3>4. process' = [process EXCEPT ![w] = q]  BY <2>1
    <3> HIDE DEF q
    <3>5. process'[w] = q  BY <3>4 DEF DeliveryInv, TypeOK
    <3>6. WorkerFits(w)'  BY <1>1, <1>2, <1>3, <2>1, <3>3, <3>5 DEF WorkerFits, Busy
    <3> QED BY <1>3, <3>2, <3>4, <3>6, OneWorkerMoves
  <2>2. CASE process' = [process EXCEPT ![w] = NextBook(p)]
    <3>1. process'[w] = NextBook(p)  BY <2>2 DEF DeliveryInv, TypeOK
    <3>2. NextBook(p) \in Process /\ WorkerFits(w)'  BY <1>1, <1>3, <3>1, WorkerResets
    <3> QED BY <1>3, <2>2, <3>2, OneWorkerMoves
  <2>3. CASE process' = [process EXCEPT ![w].phase = "waiting"]
    <3> DEFINE q == [p EXCEPT !.phase = "waiting"]
    <3>1. q \in Process  BY <1>2 DEF Process, Phases
    <3>2. q.phase = "waiting" /\ q.event = p.event /\ q.token = p.token /\ q.consumer = p.consumer
      BY <1>2 DEF Process
    <3>3. process' = [process EXCEPT ![w] = q]  BY <2>3
    <3> HIDE DEF q
    <3>4. process'[w] = q  BY <3>3 DEF DeliveryInv, TypeOK
    <3>5. WorkerFits(w)'  BY <1>1, <1>2, <1>3, <3>2, <3>4 DEF WorkerFits, Busy
    <3> QED BY <1>3, <3>1, <3>3, <3>5, OneWorkerMoves
  <2> QED BY <2>1, <2>2, <2>3 DEF Deliver, DeliverUnheard, Acknowledged
<1> QED BY <1>3, <1>4 DEF DeliveryInv

\* A request whose sender has given up.
LEMMA DeliverLateKeeps ==
  ASSUME DeliveryInv, NEW c \in Consumers, NEW e \in Events, DeliverLate(c, e)
  PROVE  DeliveryInv'
<1>1. /\ Accept(c, e) /\ late' \subseteq late
      /\ UNCHANGED <<outbox, route, process, acks, crashes>>
  BY DEF DeliverLate
<1>2. e \in Committed /\ route[EventBook[e]] = c  BY DEF DeliverLate, DeliveryInv, WireFits
<1>3. /\ Grows /\ WireFits' /\ InboxFits' /\ OnceCommitted' /\ DeliveredFits'
      /\ process' \in [Workers -> Process] => TypeOK'
  BY <1>1, <1>2, HandledFits
<1>4. \A v \in Workers : WorkerFits(v)'
  BY <1>1, <1>3, WorkerStays DEF DeliveryInv
<1> QED BY <1>1, <1>3, <1>4 DEF DeliveryInv, TypeOK

\* An acknowledgement retires a row only if the book's consumer holds the event.
LEMMA AcknowledgeFits ==
  ASSUME DeliveryInv, NEW e \in Committed, NEW t, Acknowledge(e, t),
         route[EventBook[e]] \in Consumers, e \in inbox[route[EventBook[e]]],
         UNCHANGED <<route, late, consumerVars, crashes>>, acks' \subseteq acks
  PROVE  /\ Grows /\ WireFits' /\ InboxFits' /\ OnceCommitted' /\ DeliveredFits'
         /\ Committed' = Committed /\ Delivered' \in {Delivered, Delivered \cup {e}}
         /\ process' \in [Workers -> Process] => TypeOK'
<1>1. /\ outbox' \in [Events -> Row] /\ outbox'[e].state \in {outbox[e].state, "delivered"}
      /\ \A f \in Events \ {e} : outbox'[f] = outbox[f]
  BY AcknowledgeIs, FactsAreEvents DEF DeliveryInv
<1>2. Committed' = Committed  BY <1>1 DEF Committed
<1>3. Delivered' \in {Delivered, Delivered \cup {e}}  BY <1>1, FactsAreEvents DEF Delivered
<1>4. Grows  BY <1>2 DEF Grows, consumerVars
<1>5. WireFits' /\ InboxFits'  BY <1>4, WireStays, InboxStays
<1>6. OnceCommitted'  BY <1>2 DEF DeliveryInv, OnceCommitted, Key
<1>7. DeliveredFits'  BY <1>3 DEF DeliveryInv, DeliveredFits, consumerVars
<1>8. process' \in [Workers -> Process] => TypeOK'
  BY <1>1 DEF DeliveryInv, TypeOK, consumerVars
<1> QED BY <1>2, <1>3, <1>4, <1>5, <1>6, <1>7, <1>8

\* AcknowledgeOutbox, with its answer received.
LEMMA AcknowledgeOutboxKeeps ==
  ASSUME DeliveryInv, NEW w \in Workers, AcknowledgeOutbox(w)
  PROVE  DeliveryInv'
<1> DEFINE p == process[w]
<1>1. /\ p.phase = "acking" /\ Acknowledge(p.event, p.token)
      /\ UNCHANGED <<route, late, acks, consumerVars, crashes>>
  BY DEF AcknowledgeOutbox
<1>2. /\ p.event \in Committed /\ p.consumer \in Consumers
      /\ route[EventBook[p.event]] = p.consumer
  BY <1>1, SendingIs DEF Busy
<1>3. p.event \in inbox[p.consumer]  BY <1>1 DEF DeliveryInv, WorkerFits
<1>4. /\ Grows /\ WireFits' /\ InboxFits' /\ OnceCommitted' /\ DeliveredFits'
      /\ process' \in [Workers -> Process] => TypeOK'
  BY <1>1, <1>2, <1>3, AcknowledgeFits
<1>5. PICK q \in {NextBook(p), Served(p)} : process' = [process EXCEPT ![w] = q]
  BY DEF AcknowledgeOutbox
<1>6. process'[w] = q  BY <1>5 DEF DeliveryInv, TypeOK
<1>7. q \in Process /\ WorkerFits(w)'  BY <1>1, <1>4, <1>6, WorkerResets
<1>8. process' \in [Workers -> Process] /\ \A v \in Workers : WorkerFits(v)'
  BY <1>4, <1>5, <1>7, OneWorkerMoves
<1> QED BY <1>4, <1>8 DEF DeliveryInv

\* An acknowledgement whose sender has given up.
LEMMA AcknowledgeLateKeeps ==
  ASSUME DeliveryInv, NEW e \in Events, NEW t \in Tokens, AcknowledgeLate(e, t)
  PROVE  DeliveryInv'
<1>1. /\ <<e, t>> \in acks /\ Acknowledge(e, t) /\ acks' \subseteq acks
      /\ UNCHANGED <<route, process, late, consumerVars, crashes>>
  BY DEF AcknowledgeLate
<1>2. /\ e \in Committed /\ route[EventBook[e]] \in Consumers
      /\ e \in inbox[route[EventBook[e]]]
  BY <1>1 DEF DeliveryInv, WireFits
<1>3. /\ Grows /\ WireFits' /\ InboxFits' /\ OnceCommitted' /\ DeliveredFits'
      /\ process' \in [Workers -> Process] => TypeOK'
  BY <1>1, <1>2, AcknowledgeFits
<1>4. \A v \in Workers : WorkerFits(v)'
  BY <1>1, <1>3, WorkerStays DEF DeliveryInv
<1> QED BY <1>1, <1>3, <1>4 DEF DeliveryInv, TypeOK

\* A second passes.
LEMMA TickKeeps ==
  ASSUME DeliveryInv, Tick
  PROVE  DeliveryInv' /\ Committed' = Committed /\ Delivered' = Delivered
<1>1. UNCHANGED <<route, late, acks, consumerVars, crashes>>  BY DEF Tick
<1>2. outbox' \in [Events -> Row] /\ \A e \in Events : outbox'[e].state = outbox[e].state
  BY TickRows DEF DeliveryInv
<1>3. Committed' = Committed /\ Delivered' = Delivered  BY <1>2 DEF Committed, Delivered
<1>4. Grows  BY <1>1, <1>3 DEF Grows, consumerVars
<1>5. WireFits' /\ InboxFits' /\ OnceCommitted' /\ DeliveredFits'
  BY <1>1, <1>3, <1>4, WireStays, InboxStays, FactsStay
<1>6. process' \in [Workers -> Process] /\ \A v \in Workers : WorkerFits(v)'
  BY <1>4, TickProcesses, WorkerStays DEF DeliveryInv
<1>7. TypeOK'  BY <1>1, <1>2, <1>6 DEF DeliveryInv, TypeOK, consumerVars
<1> QED BY <1>3, <1>5, <1>6, <1>7 DEF DeliveryInv

-----------------------------------------------------------------------------
(***************************************************************************)
(* Theorems.                                                               *)
(***************************************************************************)
\* Nothing is committed, leased, sent or held at the start.
LEMMA InitFits == ASSUME Init PROVE DeliveryInv /\ Committed = {} /\ Delivered = {}
<1>1. outbox = [e \in Events |-> NoRow] /\ NoRow.state = "absent"  BY DEF Init, NoRow
<1>2. Committed = {} /\ Delivered = {}  BY <1>1 DEF Committed, Delivered
<1>3. 0 \in 0 .. LeaseTicks /\ 0 \in 0 .. MaxCrashes  BY DeliveryAssumption
<1>4. NoRow \in Row  BY <1>3 DEF NoRow, Row
<1>5. TypeOK  BY <1>3, <1>4, DownIs DEF Init, TypeOK
<1>6. ASSUME NEW w \in Workers PROVE WorkerFits(w)
  <2>1. process[w] = Down  BY DEF Init
  <2> QED BY <2>1, DownIs DEF WorkerFits, Busy
<1>7. WireFits /\ OnceCommitted /\ DeliveredFits
  BY <1>2 DEF Init, WireFits, OnceCommitted, DeliveredFits
<1>8. InboxFits  BY DEF Init, InboxFits
<1> QED BY <1>2, <1>5, <1>6, <1>7, <1>8 DEF DeliveryInv

\* Every step keeps the invariant.
LEMMA NextKeepsDelivery == ASSUME DeliveryInv, [Next]_vars PROVE DeliveryInv'
<1>1. ASSUME NEW e \in Events, Commit(e) PROVE DeliveryInv'  BY <1>1, CommitKeeps
<1>2. ASSUME NEW w \in Workers, NEW c \in Consumers, Start(w, c) PROVE DeliveryInv'
  BY <1>2, StartKeeps
<1>3. ASSUME NEW w \in Workers, BindOutboxConsumer(w) PROVE DeliveryInv'  BY <1>3, BindKeeps
<1>4. ASSUME NEW w \in Workers, NEW e \in Events, ClaimOutbox(w, e) PROVE DeliveryInv'
  BY <1>4, ClaimKeeps
<1>5. ASSUME NEW w \in Workers, NothingToClaim(w) \/ ClaimFails(w) PROVE DeliveryInv'
  BY <1>5, MoveOnKeeps
<1>6. ASSUME NEW w \in Workers, Post(w) PROVE DeliveryInv'  BY <1>6, PostKeeps
<1>7. ASSUME NEW w \in Workers, Deliver(w) \/ DeliverUnheard(w) PROVE DeliveryInv'
  BY <1>7, DeliverKeeps
<1>8. ASSUME NEW w \in Workers, SendFails(w) \/ AcknowledgeFails(w) \/ Crash(w)
      PROVE  DeliveryInv'
  BY <1>8, GiveUpKeeps
<1>9. ASSUME NEW w \in Workers, AcknowledgeOutbox(w) PROVE DeliveryInv'
  BY <1>9, AcknowledgeOutboxKeeps
<1>10. ASSUME NEW c \in Consumers, NEW e \in Events, DeliverLate(c, e) PROVE DeliveryInv'
  BY <1>10, DeliverLateKeeps
<1>11. ASSUME NEW e \in Events, NEW t \in Tokens, AcknowledgeLate(e, t) PROVE DeliveryInv'
  BY <1>11, AcknowledgeLateKeeps
<1>12. CASE Tick  BY <1>12, TickKeeps
<1>13. CASE UNCHANGED vars
  <2>1. UNCHANGED <<outbox, route, process, late, acks, consumerVars, crashes>>
    BY <1>13 DEF vars, consumerVars
  <2>2. /\ Grows /\ WireFits' /\ InboxFits' /\ OnceCommitted' /\ DeliveredFits'
        /\ process' \in [Workers -> Process] => TypeOK'
    BY <2>1, OnlyProcesses
  <2>3. \A v \in Workers : WorkerFits(v)'  BY <2>1, <2>2, WorkerStays DEF DeliveryInv
  <2> QED BY <2>1, <2>2, <2>3 DEF DeliveryInv, TypeOK
<1> QED BY <1>1, <1>2, <1>3, <1>4, <1>5, <1>6, <1>7, <1>8, <1>9, <1>10, <1>11, <1>12, <1>13
        DEF Next

\* The inductive invariant of delivery: every process, message and table of the two
\* databases fits, whatever is lost, late, repeated or killed.
THEOREM DeliveryInvariant == Spec => []DeliveryInv
<1>1. Init => DeliveryInv  BY InitFits
<1>2. DeliveryInv /\ [Next]_vars => DeliveryInv'  BY NextKeepsDelivery
<1> QED BY <1>1, <1>2, PTL DEF Spec

\* Type correctness: rows, processes and messages are well formed; in particular Run
\* never serves more than a burst of one book, whatever the burst and the books.
THEOREM DeliveryTypeCorrect == Spec => []TypeOK
<1>1. DeliveryInv => TypeOK  BY DEF DeliveryInv
<1> QED BY <1>1, DeliveryInvariant, PTL

\* The facts of a book go to one consumer, however many processes are started for
\* however many consumers: BindOutboxConsumer decides it once.
THEOREM BooksHaveOneConsumer == Spec => []OneConsumerPerBook
<1>1. ASSUME DeliveryInv PROVE OneConsumerPerBook
  <2>1. ASSUME NEW c \in Consumers, NEW e \in Events, <<c, e>> \in late \/ e \in inbox[c]
        PROVE  route[EventBook[e]] = c
    BY <1>1, <2>1 DEF DeliveryInv, WireFits, InboxFits
  <2>2. ASSUME NEW w \in Workers, process[w].event # NoEvent
        PROVE  route[EventBook[process[w].event]] = process[w].consumer
    <3>1. process[w].phase \in Busy  BY <1>1, <2>2 DEF DeliveryInv, WorkerFits
    <3> QED BY <1>1, <3>1, SendingIs
  <2> QED BY <2>1, <2>2 DEF OneConsumerPerBook
<1> QED BY <1>1, DeliveryInvariant, PTL

\* The projection mirrors the Ledger: what acceptOnce stored is committed, once per
\* operation and in both tables, and it never answers 409 or 503 to a committed fact.
THEOREM ProjectionMirrorsFacts == Spec => []ProjectionMatchesFacts
<1>1. ASSUME DeliveryInv PROVE ProjectionMatchesFacts
  <2> SUFFICES ASSUME NEW c \in Consumers
               PROVE  /\ inbox[c] \subseteq Committed
                      /\ \A e \in Committed :
                           /\ e \in inbox[c] <=> projection[c][Key(e)] = e
                           /\ Answer(c, e) \notin {"409", "503"}
    BY DEF ProjectionMatchesFacts, Key
  <2>1. inbox[c] \subseteq Committed  BY <1>1 DEF DeliveryInv, InboxFits
  <2>2. ASSUME NEW e \in Committed
        PROVE  /\ e \in inbox[c] <=> projection[c][Key(e)] = e
               /\ Answer(c, e) \notin {"409", "503"}
    <3>1. e \in Events /\ Key(e) \in Books \X Ops  BY EventKeys, FactsAreEvents DEF Key
    <3>2. e \in inbox[c] <=> projection[c][Key(e)] = e
      BY <1>1, <3>1, DeliveryAssumption DEF DeliveryInv, InboxFits
    <3>3. ASSUME projection[c][Key(e)] # NoEvent PROVE projection[c][Key(e)] = e
      <4>1. projection[c][Key(e)] \in Committed /\ Key(projection[c][Key(e)]) = Key(e)
        BY <1>1, <3>1, <3>3 DEF DeliveryInv, InboxFits
      <4> QED BY <1>1, <4>1 DEF DeliveryInv, OnceCommitted
    <3> QED BY <3>2, <3>3 DEF Answer, Key
  <2> QED BY <2>1, <2>2
<1> QED BY <1>1, DeliveryInvariant, PTL

\* A fact is acknowledged only once its consumer holds it in both tables: no crash,
\* lost reply, late acknowledgement or stale lease loses one.
THEOREM NothingDeliveredIsLost == Spec => []DeliveredIsProjected
<1>1. ASSUME DeliveryInv PROVE DeliveredIsProjected
  <2>1. ASSUME NEW e \in Delivered
        PROVE  /\ route[EventBook[e]] # NoConsumer /\ e \in inbox[route[EventBook[e]]]
               /\ projection[route[EventBook[e]]][Key(e)] = e
    <3>1. route[EventBook[e]] \in Consumers /\ e \in inbox[route[EventBook[e]]]
      BY <1>1 DEF DeliveryInv, DeliveredFits
    <3> QED BY <1>1, <3>1, DeliveryAssumption DEF DeliveryInv, InboxFits
  <2> QED BY <2>1 DEF DeliveredIsProjected, Key
<1> QED BY <1>1, DeliveryInvariant, PTL

-----------------------------------------------------------------------------
(***************************************************************************)
(* Refinement of Mirror.                                                   *)
(***************************************************************************)
Seen == UNION {inbox[c] : c \in Consumers}
MirrorStep == [M!Next]_(M!vars)

\* A step that changes none of the facts, the inboxes and the retired rows.
LEMMA MirrorStutters ==
  ASSUME Committed' = Committed, Delivered' = Delivered, inbox' = inbox
  PROVE  MirrorStep
<1>1. Seen' = Seen  BY DEF Seen
<1> QED BY <1>1 DEF MirrorStep, M!vars, Seen

\* A request handled: the event is seen for the first time, or again.
LEMMA MirrorObserves ==
  ASSUME DeliveryInv, NEW c \in Consumers, NEW e \in Committed, Accept(c, e),
         UNCHANGED outbox
  PROVE  MirrorStep
<1>1. Committed' = Committed /\ Delivered' = Delivered  BY DEF Committed, Delivered
<1>2. CASE inbox' = inbox  BY <1>1, <1>2, MirrorStutters
<1>3. CASE inbox' = [inbox EXCEPT ![c] = @ \cup {e}]
  <2>1. inbox \in [Consumers -> SUBSET Events]  BY DEF DeliveryInv, TypeOK
  <2>2. \A d \in Consumers : inbox'[d] = IF d = c THEN inbox[c] \cup {e} ELSE inbox[d]
    BY <1>3, <2>1
  <2>3. Seen' = Seen \cup {e}
    <3>1. ASSUME NEW x \in Seen' PROVE x \in Seen \cup {e}
      <4>1. PICK d \in Consumers : x \in inbox'[d]  BY DEF Seen
      <4> QED BY <2>2, <4>1 DEF Seen
    <3>2. ASSUME NEW x \in Seen \cup {e} PROVE x \in Seen'
      <4>1. CASE x = e
        <5>1. x \in inbox'[c]  BY <2>2, <4>1
        <5> QED BY <5>1 DEF Seen
      <4>2. CASE x # e
        <5>1. PICK d \in Consumers : x \in inbox[d]  BY <4>2 DEF Seen
        <5>2. x \in inbox'[d]  BY <2>2, <5>1
        <5> QED BY <5>2 DEF Seen
      <4> QED BY <4>1, <4>2
    <3> QED BY <3>1, <3>2
  <2>4. CASE e \in Seen
    <3>1. Seen' = Seen  BY <2>3, <2>4
    <3> QED BY <1>1, <3>1 DEF MirrorStep, M!vars, Seen
  <2>5. CASE e \notin Seen
    <3>1. M!Observe(e)  BY <1>1, <2>3, <2>5 DEF M!Observe, Seen
    <3> QED BY <3>1, FactsAreEvents DEF MirrorStep, M!Next
  <2> QED BY <2>4, <2>5
<1> QED BY <1>2, <1>3 DEF Accept, consumerVars

\* An acknowledgement: the row is retired, or nothing happens.
LEMMA MirrorRetires ==
  ASSUME DeliveryInv, NEW e \in Committed, NEW c \in Consumers, e \in inbox[c],
         Committed' = Committed, Delivered' \in {Delivered, Delivered \cup {e}},
         UNCHANGED consumerVars
  PROVE  MirrorStep
<1>1. Seen' = Seen /\ inbox' = inbox  BY DEF Seen, consumerVars
<1>2. e \in Seen  BY DEF Seen
<1>3. CASE Delivered' = Delivered  BY <1>1, <1>3, MirrorStutters
<1>4. CASE e \notin Delivered /\ Delivered' = Delivered \cup {e}
  <2>1. M!Retire(e)  BY <1>1, <1>2, <1>4 DEF M!Retire, Seen
  <2> QED BY <2>1, FactsAreEvents DEF MirrorStep, M!Next
<1>5. CASE e \in Delivered /\ Delivered' = Delivered \cup {e}
  <2>1. Delivered' = Delivered  BY <1>5
  <2> QED BY <1>1, <2>1, MirrorStutters
<1> QED BY <1>3, <1>4, <1>5

\* Every step of delivery is a step of Mirror, or leaves it alone.
LEMMA NextMirrors == ASSUME DeliveryInv, [Next]_vars PROVE MirrorStep
<1>1. ASSUME NEW e \in Events, Commit(e) PROVE MirrorStep
  <2>1. e \notin Committed /\ Committed' = Committed \cup {e} /\ Delivered' = Delivered
    BY <1>1, CommitKeeps
  <2>2. Seen' = Seen  BY <1>1 DEF Commit, consumerVars, Seen
  <2>3. M!Record(e)  BY <1>1, <2>1, <2>2 DEF Commit, Unrecorded, M!Record, Seen
  <2> QED BY <2>3 DEF MirrorStep, M!Next
<1>2. CASE UNCHANGED <<outbox, consumerVars>>
  <2>1. Committed' = Committed /\ Delivered' = Delivered /\ inbox' = inbox
    BY <1>2 DEF Committed, Delivered, consumerVars
  <2> QED BY <2>1, MirrorStutters
<1>3. ASSUME NEW w \in Workers, NEW e \in Events, ClaimOutbox(w, e) PROVE MirrorStep
  <2>1. Committed' = Committed /\ Delivered' = Delivered  BY <1>3, ClaimRows DEF ClaimOutbox
  <2> QED BY <1>3, <2>1, MirrorStutters DEF ClaimOutbox, consumerVars
<1>4. ASSUME NEW w \in Workers, ClaimFails(w) PROVE MirrorStep
  <2>1. Committed' = Committed /\ Delivered' = Delivered  BY <1>4, MoveOnKeeps
  <2> QED BY <1>4, <2>1, MirrorStutters DEF ClaimFails, consumerVars
<1>5. ASSUME NEW w \in Workers, Deliver(w) \/ DeliverUnheard(w) PROVE MirrorStep
  <2>1. /\ process[w].phase \in Busy /\ Accept(process[w].consumer, process[w].event)
        /\ UNCHANGED outbox
    BY <1>5 DEF Deliver, DeliverUnheard, Busy
  <2>2. process[w].consumer \in Consumers /\ process[w].event \in Committed
    BY <2>1, SendingIs
  <2> QED BY <2>1, <2>2, MirrorObserves
<1>6. ASSUME NEW w \in Workers, AcknowledgeOutbox(w) PROVE MirrorStep
  <2> DEFINE p == process[w]
  <2>1. /\ p.phase = "acking" /\ Acknowledge(p.event, p.token)
        /\ UNCHANGED <<route, late, acks, consumerVars, crashes>>
    BY <1>6 DEF AcknowledgeOutbox
  <2>2. /\ p.event \in Committed /\ p.consumer \in Consumers
        /\ route[EventBook[p.event]] = p.consumer
    BY <2>1, SendingIs DEF Busy
  <2>3. p.event \in inbox[p.consumer]  BY <2>1 DEF DeliveryInv, WorkerFits
  <2>4. Committed' = Committed /\ Delivered' \in {Delivered, Delivered \cup {p.event}}
    BY <2>1, <2>2, <2>3, AcknowledgeFits
  <2> QED BY <2>1, <2>2, <2>3, <2>4, MirrorRetires
<1>7. ASSUME NEW c \in Consumers, NEW e \in Events, DeliverLate(c, e) PROVE MirrorStep
  <2>1. e \in Committed /\ Accept(c, e) /\ UNCHANGED outbox
    BY <1>7 DEF DeliverLate, DeliveryInv, WireFits
  <2> QED BY <2>1, MirrorObserves
<1>8. ASSUME NEW e \in Events, NEW t \in Tokens, AcknowledgeLate(e, t) PROVE MirrorStep
  <2>1. /\ <<e, t>> \in acks /\ Acknowledge(e, t) /\ acks' \subseteq acks
        /\ UNCHANGED <<route, late, consumerVars, crashes>>
    BY <1>8 DEF AcknowledgeLate
  <2>2. /\ e \in Committed /\ route[EventBook[e]] \in Consumers
        /\ e \in inbox[route[EventBook[e]]]
    BY <2>1 DEF DeliveryInv, WireFits
  <2>3. Committed' = Committed /\ Delivered' \in {Delivered, Delivered \cup {e}}
    BY <2>1, <2>2, AcknowledgeFits
  <2> QED BY <2>1, <2>2, <2>3, MirrorRetires
<1>9. CASE Tick
  <2>1. Committed' = Committed /\ Delivered' = Delivered  BY <1>9, TickKeeps
  <2> QED BY <1>9, <2>1, MirrorStutters DEF Tick, consumerVars
<1>10. ASSUME NEW w \in Workers, NothingToClaim(w) \/ Post(w) \/ SendFails(w) \/ AcknowledgeFails(w)
                \/ Crash(w) \/ BindOutboxConsumer(w) \/ (\E c \in Consumers : Start(w, c))
       PROVE  UNCHANGED <<outbox, consumerVars>>
  BY <1>10 DEF NothingToClaim, Post, SendFails, AcknowledgeFails, Crash, BindOutboxConsumer, Start
<1>11. CASE UNCHANGED vars
  <2>1. UNCHANGED <<outbox, consumerVars>>  BY <1>11 DEF vars, consumerVars
  <2> QED BY <1>2, <2>1
<1> QED BY <1>1, <1>2, <1>3, <1>4, <1>5, <1>6, <1>7, <1>8, <1>9, <1>10, <1>11 DEF Next

\* Delivery implements Mirror: through lost replies, repeated deliveries, late
\* messages and crashes, Reconciliation's tables are a lagging copy of the facts.
THEOREM DeliveryImplementsMirror == Spec => ImplementsMirror
<1>1. Init => M!Init
  <2> SUFFICES ASSUME Init PROVE M!Init  OBVIOUS
  <2>1. Committed = {} /\ Delivered = {}  BY InitFits
  <2>2. Seen = {}  BY DEF Init, Seen
  <2> QED BY <2>1, <2>2 DEF M!Init, Seen
<1>2. DeliveryInv /\ [Next]_vars => [M!Next]_(M!vars)  BY NextMirrors DEF MirrorStep
<1> QED BY <1>1, <1>2, DeliveryInvariant, PTL DEF Spec, ImplementsMirror, M!Spec

=============================================================================
