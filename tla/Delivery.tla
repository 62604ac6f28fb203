------------------------------ MODULE Delivery ------------------------------
(***************************************************************************)
(* How a committed fact reaches Reconciliation.                            *)
(*                                                                         *)
(* Save leaves a row of outbox_facts and one of outbox_delivery in the     *)
(* transaction that writes the receipt.  Any number of Ledger processes    *)
(* drain them: publisher.Run claims one row under a lease, posts the event *)
(* with a deadline and acknowledges the row if the consumer answered 204.  *)
(* Reconciliation writes event_inbox and ledger_operations in one          *)
(* transaction and answers after the commit.                               *)
(*                                                                         *)
(* Transactions of either database are SERIALIZABLE and atomic here; the   *)
(* reply of a COMMIT, of an UPDATE and of a POST may be lost, a request    *)
(* may arrive after its sender gave up, and a process may crash anywhere.  *)
(* Time passes by Tick: leases run on the database's clock, deadlines on   *)
(* the process's; a process may be arbitrarily slow between two calls.     *)
(*                                                                         *)
(* A definition named after a defect (such as SkipExpired) is the mutation *)
(* of the definition that follows it and is used by nothing.               *)
(***************************************************************************)
EXTENDS Integers, Sequences, FiniteSetsExt

CONSTANTS
  BookList,         \* the configured books, in the order they are served
  Events,           \* event ids, ordered as ORDER BY event_id orders them
  EventBook, EventOp,  \* the book and operation of an event
  Workers,          \* Ledger processes with an outbox configured
  Consumers,        \* consumer identities a process may be configured with
  Accepts,          \* the books each consumer is configured to accept
  Tokens,           \* lease tokens, a bound on how many are remembered at once
  LeaseTicks, TimeoutTicks,  \* LeaseMS and TimeoutMS
  Burst,            \* facts of one book served in a row, 16 in the code
  MaxCrashes,       \* a bound on crashes
  NoEvent, NoToken, NoConsumer

Books == {BookList[i] : i \in DOMAIN BookList}
Ops == {EventOp[e] : e \in Events}

\* Options.Defaults refuses a lease shorter than two deadlines.
ValidOptions == TimeoutTicks >= 1 /\ LeaseTicks >= 2 * TimeoutTicks

ASSUME DeliveryAssumption ==
  /\ ValidOptions /\ {LeaseTicks, TimeoutTicks, MaxCrashes} \subseteq Nat
  /\ Burst \in Nat \ {0}
  /\ BookList \in Seq(Books) /\ BookList # <<>>
  /\ Events \subseteq Int /\ EventBook \in [Events -> Books]
  /\ DOMAIN Accepts = Consumers
  /\ NoEvent \notin Events /\ NoToken \notin Tokens /\ NoConsumer \notin Consumers

VARIABLES
  outbox,      \* outbox_facts and outbox_delivery, by event
  route,       \* outbox_routes: the consumer a book is bound to
  process,     \* what each Ledger process is doing
  late,        \* requests on the wire whose sender has given up
  acks,        \* acknowledgements on the wire whose sender has given up
  inbox,       \* event_inbox of each consumer
  projection,  \* ledger_operations of each consumer, by operation
  crashes

vars == <<outbox, route, process, late, acks, inbox, projection, crashes>>
consumerVars == <<inbox, projection>>

Phases == {"down", "binding", "claiming", "claimed", "sending", "waiting", "acking"}
Process == [phase : Phases, consumer : Consumers \cup {NoConsumer},
            book : DOMAIN BookList, burst : 0 .. Burst - 1,
            event : Events \cup {NoEvent}, token : Tokens \cup {NoToken},
            left : 0 .. TimeoutTicks]
Row == [state : {"absent", "pending", "delivered"}, token : Tokens \cup {NoToken},
        left : 0 .. LeaseTicks, attempted : BOOLEAN]

NoRow == [state |-> "absent", token |-> NoToken, left |-> 0, attempted |-> FALSE]
Down == [phase |-> "down", consumer |-> NoConsumer, book |-> 1, burst |-> 0,
         event |-> NoEvent, token |-> NoToken, left |-> 0]

Committed == {e \in Events : outbox[e].state # "absent"}
Delivered == {e \in Events : outbox[e].state = "delivered"}

-----------------------------------------------------------------------------
(***************************************************************************)
(* The Ledger's side of a fact.                                            *)
(***************************************************************************)

AnyEvent(e) == e \notin Committed
\* Every Execute draws its own event id; a retry of a recorded operation finds
\* the receipt and writes nothing.
Unrecorded(e) ==
  \A f \in Committed : EventBook[f] # EventBook[e] \/ EventOp[f] # EventOp[e]

Commit(e) ==
  /\ Unrecorded(e)
  /\ outbox' = [outbox EXCEPT ![e] = [NoRow EXCEPT !.state = "pending"]]
  /\ UNCHANGED <<route, process, late, acks, consumerVars, crashes>>

Used(b) == \E e \in Committed :
             EventBook[e] = b /\ (outbox[e].state = "delivered" \/ outbox[e].attempted)

Rebindable(b, c) == route[b] = c \/ ~Used(b)
\* BindOutboxConsumer accepts the bound consumer, or any on an unused book.
Bindable(b, c) == route[b] = c \/ (route[b] = NoConsumer /\ ~Used(b))

\* Run, on an error or when the book has nothing left: the next book; after
\* the last one, the poll timer and the first again.
NextBook(p) == [p EXCEPT !.phase = "claiming", !.event = NoEvent, !.token = NoToken, !.left = 0,
                         !.burst = 0, !.book = IF p.book = Len(BookList) THEN 1 ELSE p.book + 1]
SameBook(p) == [p EXCEPT !.phase = "claiming", !.event = NoEvent, !.token = NoToken, !.left = 0,
                         !.burst = @ + 1]
Served(p) == IF p.burst + 1 = Burst THEN NextBook(p) ELSE SameBook(p)

\* Open, up to the first binding.
Start(w, c) ==
  /\ process[w].phase = "down"
  /\ process' = [process EXCEPT ![w] = [Down EXCEPT !.phase = "binding", !.consumer = c]]
  /\ UNCHANGED <<outbox, route, late, acks, consumerVars, crashes>>

\* Open binds book after book, each in a transaction of its own; a conflict
\* stops the process and leaves the earlier bindings.
BindOutboxConsumer(w) ==
  LET p == process[w]
      b == BookList[p.book]
  IN  /\ p.phase = "binding"
      /\ IF Bindable(b, p.consumer)
         THEN /\ route' = [route EXCEPT ![b] = p.consumer]
              /\ process' = [process EXCEPT ![w] =
                   IF p.book = Len(BookList) THEN NextBook(p) ELSE [p EXCEPT !.book = @ + 1]]
         ELSE /\ process' = [process EXCEPT ![w] = Down]
              /\ UNCHANGED route
      /\ UNCHANGED <<outbox, late, acks, consumerVars, crashes>>

SkipExpired(b) == {e \in Events : /\ EventBook[e] = b /\ outbox[e].state = "pending"
                                  /\ outbox[e].token = NoToken}
Claimable(b) == {e \in Events : /\ EventBook[e] = b /\ outbox[e].state = "pending"
                                /\ outbox[e].left = 0}

\* domain.NewID: a token nothing remembers any more.
TokensInUse == {outbox[e].token : e \in Events} \cup {process[w].token : w \in Workers}
                 \cup {a[2] : a \in acks}
FreshToken == CHOOSE t \in Tokens : t \notin TokensInUse

Lease(e) == outbox' = [outbox EXCEPT ![e] =
              [state |-> "pending", token |-> FreshToken, left |-> LeaseTicks, attempted |-> TRUE]]

\* ClaimOutbox(book, 1): the first row that is pending and not leased.
CanClaim(w, e) ==
  /\ process[w].phase = "claiming"
  /\ e \in Claimable(BookList[process[w].book])
  /\ e = Min(Claimable(BookList[process[w].book]))
  /\ Tokens \ TokensInUse # {}

ClaimOutbox(w, e) ==
  /\ CanClaim(w, e)
  /\ Lease(e)
  /\ process' = [process EXCEPT ![w].phase = "claimed", ![w].event = e, ![w].token = FreshToken]
  /\ UNCHANGED <<route, late, acks, consumerVars, crashes>>

NothingToClaim(w) ==
  /\ process[w].phase = "claiming"
  /\ Claimable(BookList[process[w].book]) = {}
  /\ process' = [process EXCEPT ![w] = NextBook(@)]
  /\ UNCHANGED <<outbox, route, late, acks, consumerVars, crashes>>

\* The claim fails, or its COMMIT's reply is lost and the row is leased to nobody.
ClaimFails(w) ==
  /\ process[w].phase = "claiming"
  /\ process' = [process EXCEPT ![w] = NextBook(@)]
  /\ UNCHANGED outbox \/ \E e \in Events : CanClaim(w, e) /\ Lease(e)
  /\ UNCHANGED <<route, late, acks, consumerVars, crashes>>

\* The event is encoded and posted; the deadline starts now.
Post(w) ==
  /\ process[w].phase = "claimed"
  /\ process' = [process EXCEPT ![w].phase = "sending", ![w].left = TimeoutTicks]
  /\ UNCHANGED <<outbox, route, late, acks, consumerVars, crashes>>

-----------------------------------------------------------------------------
(***************************************************************************)
(* Reconciliation.  An event id stands for its canonical bytes: an event   *)
(* is encoded from an immutable row, so it always has the same digest.     *)
(***************************************************************************)
Answer(c, e) ==
  IF EventBook[e] \notin Accepts[c] THEN "403"
  ELSE IF e \in inbox[c]
       THEN IF projection[c][<<EventBook[e], EventOp[e]>>] = e THEN "204" ELSE "503"
  ELSE IF projection[c][<<EventBook[e], EventOp[e]>>] # NoEvent THEN "409"
  ELSE "204"

InboxOnly(c, e) ==
  IF Answer(c, e) = "204" THEN inbox' = [inbox EXCEPT ![c] = @ \cup {e}] /\ UNCHANGED projection
                          ELSE UNCHANGED consumerVars
\* The transaction of acceptOnce.
Accept(c, e) ==
  IF Answer(c, e) = "204"
  THEN /\ inbox' = [inbox EXCEPT ![c] = @ \cup {e}]
       /\ projection' = [projection EXCEPT ![c] = [@ EXCEPT ![<<EventBook[e], EventOp[e]>>] = e]]
  ELSE UNCHANGED consumerVars

AnyAnswer(answer) == TRUE
\* Send: any other answer is ErrDelivery.
Acknowledged(answer) == answer = "204"

\* The event is handled and the answer arrives before the deadline.
Deliver(w) ==
  LET p == process[w]
  IN  /\ p.phase = "sending"
      /\ Accept(p.consumer, p.event)
      /\ process' = [process EXCEPT ![w] =
           IF Acknowledged(Answer(p.consumer, p.event))
           THEN [p EXCEPT !.phase = "acking", !.left = 0] ELSE NextBook(p)]
      /\ UNCHANGED <<outbox, route, late, acks, crashes>>

\* The event is handled but the answer is lost, or COMMIT's reply to the consumer.
DeliverUnheard(w) ==
  LET p == process[w]
  IN  /\ p.phase = "sending"
      /\ Accept(p.consumer, p.event)
      /\ process' = [process EXCEPT ![w].phase = "waiting"]
      /\ UNCHANGED <<outbox, route, late, acks, crashes>>

\* A request arrives after its sender gave up; another copy may follow.
DeliverLate(c, e) ==
  /\ <<c, e>> \in late
  /\ Accept(c, e)
  /\ late' \in {late, late \ {<<c, e>>}}
  /\ UNCHANGED <<outbox, route, process, acks, crashes>>

\* What a process leaves on the wire when it gives up.
Abandon(p) ==
  /\ late' \in {late} \cup (IF p.phase = "sending" THEN {late \cup {<<p.consumer, p.event>>}}
                                                   ELSE {})
  /\ acks' \in {acks} \cup (IF p.phase = "acking" THEN {acks \cup {<<p.event, p.token>>}} ELSE {})

\* An error of the transport, or the deadline.
SendFails(w) ==
  /\ process[w].phase \in {"sending", "waiting"}
  /\ Abandon(process[w])
  /\ process' = [process EXCEPT ![w] = NextBook(@)]
  /\ UNCHANGED <<outbox, route, consumerVars, crashes>>

-----------------------------------------------------------------------------
(***************************************************************************)
(* Acknowledgement.                                                        *)
(***************************************************************************)
LeaseHeld(e, t) == outbox[e].token = t /\ outbox[e].left > 0

Acknowledge(e, t) ==
  IF LeaseHeld(e, t) THEN outbox' = [outbox EXCEPT ![e].state = "delivered"]
                     ELSE UNCHANGED outbox

AcknowledgeOutbox(w) ==
  LET p == process[w]
  IN  /\ p.phase = "acking"
      /\ Acknowledge(p.event, p.token)
      /\ process' = [process EXCEPT ![w] =
           IF LeaseHeld(p.event, p.token) THEN Served(p) ELSE NextBook(p)]
      /\ UNCHANGED <<route, late, acks, consumerVars, crashes>>

AcknowledgeFails(w) ==
  /\ process[w].phase = "acking"
  /\ Abandon(process[w])
  /\ process' = [process EXCEPT ![w] = NextBook(@)]
  /\ UNCHANGED <<outbox, route, consumerVars, crashes>>

AcknowledgeLate(e, t) ==
  /\ <<e, t>> \in acks
  /\ Acknowledge(e, t)
  /\ acks' = acks \ {<<e, t>>}
  /\ UNCHANGED <<route, process, late, consumerVars, crashes>>

\* The process dies or is stopped.
Crash(w) ==
  /\ process[w].phase # "down" /\ crashes < MaxCrashes
  /\ crashes' = crashes + 1
  /\ Abandon(process[w])
  /\ process' = [process EXCEPT ![w] = Down]
  /\ UNCHANGED <<outbox, route, consumerVars>>

\* No send outlives its deadline.
Tick ==
  LET sending(w) == process[w].phase \in {"sending", "waiting"}
  IN  /\ \A w \in Workers : sending(w) => process[w].left > 0
      /\ \E e \in Events : outbox[e].left > 0
      /\ outbox' = [e \in Events |-> [outbox[e] EXCEPT !.left = IF @ > 0 THEN @ - 1 ELSE 0]]
      /\ process' = [w \in Workers |-> IF sending(w) THEN [process[w] EXCEPT !.left = @ - 1]
                                                     ELSE process[w]]
      /\ UNCHANGED <<route, late, acks, consumerVars, crashes>>

Init ==
  /\ outbox = [e \in Events |-> NoRow]
  /\ route = [b \in Books |-> NoConsumer]
  /\ process = [w \in Workers |-> Down]
  /\ late = {} /\ acks = {}
  /\ inbox = [c \in Consumers |-> {}]
  /\ projection = [c \in Consumers |-> [k \in Books \X Ops |-> NoEvent]]
  /\ crashes = 0

Next ==
  \/ \E e \in Events : Commit(e)
  \/ \E w \in Workers :
       \/ \E c \in Consumers : Start(w, c)
       \/ BindOutboxConsumer(w)
       \/ \E e \in Events : ClaimOutbox(w, e)
       \/ NothingToClaim(w) \/ ClaimFails(w)
       \/ Post(w) \/ Deliver(w) \/ DeliverUnheard(w) \/ SendFails(w)
       \/ AcknowledgeOutbox(w) \/ AcknowledgeFails(w)
       \/ Crash(w)
  \/ \E c \in Consumers, e \in Events : DeliverLate(c, e)
  \/ \E e \in Events, t \in Tokens : AcknowledgeLate(e, t)
  \/ Tick

Spec == Init /\ [][Next]_vars

Holding(w, e) == process[w].event = e /\ LeaseHeld(e, process[w].token)

\* A live process keeps going, and a stopped one is started again (weak
\* fairness); no fact is unlucky for ever: whoever tries often enough to claim
\* it, and then to post, deliver and acknowledge it while the lease holds,
\* succeeds in the end (strong fairness).
Fairness ==
  /\ WF_vars(Tick)
  /\ \A w \in Workers :
       /\ \A c \in Consumers : WF_vars(Start(w, c))
       /\ WF_vars(BindOutboxConsumer(w)) /\ WF_vars(NothingToClaim(w))
       /\ WF_vars(ClaimFails(w)) /\ WF_vars(Post(w)) /\ WF_vars(SendFails(w))
       /\ WF_vars(AcknowledgeOutbox(w))
  /\ \A e \in Events, t \in Tokens : WF_vars(AcknowledgeLate(e, t))
  /\ \A e \in Events :
       /\ SF_vars(\E w \in Workers : ClaimOutbox(w, e))
       /\ SF_vars(\E w \in Workers : Holding(w, e) /\ Post(w))
       /\ SF_vars(\E w \in Workers : Holding(w, e) /\ Deliver(w))
       /\ SF_vars(\E w \in Workers : Holding(w, e) /\ AcknowledgeOutbox(w))

FairSpec == Spec /\ Fairness

-----------------------------------------------------------------------------
(***************************************************************************)
(* Properties.                                                             *)
(***************************************************************************)
\* Every row, process and message is well formed; in particular Run never serves
\* more than a burst of one book in a row.
TypeOK ==
  /\ outbox \in [Events -> Row]
  /\ route \in [Books -> Consumers \cup {NoConsumer}]
  /\ process \in [Workers -> Process]
  /\ late \subseteq Consumers \X Events
  /\ acks \subseteq Events \X Tokens
  /\ inbox \in [Consumers -> SUBSET Events]
  /\ projection \in [Consumers -> [Books \X Ops -> Events \cup {NoEvent}]]
  /\ crashes \in 0 .. MaxCrashes

\* A fact leaves the outbox only when its one consumer holds it durably, in the
\* inbox and in the projection: no crash, lost reply or stale lease loses one.
DeliveredIsProjected ==
  \A e \in Delivered :
    LET c == route[EventBook[e]]
    IN  /\ c # NoConsumer /\ e \in inbox[c]
        /\ projection[c][<<EventBook[e], EventOp[e]>>] = e

\* The facts of a book go to one consumer, whatever the processes are configured
\* with and however their starts interleave: nothing is on the wire to, or
\* recorded by, a consumer the book is not bound to.
OneConsumerPerBook ==
  /\ \A c \in Consumers, e \in Events :
       <<c, e>> \in late \/ e \in inbox[c] => route[EventBook[e]] = c
  /\ \A w \in Workers : process[w].event # NoEvent =>
       route[EventBook[process[w].event]] = process[w].consumer

\* The projection mirrors the Ledger: it holds committed facts only, one per
\* operation, each with its inbox row, and no fact the Ledger committed would be
\* refused as a conflict (409) or as a half-written one (503).
ProjectionMatchesFacts ==
  \A c \in Consumers :
    /\ inbox[c] \subseteq Committed
    /\ \A e \in Committed :
         /\ e \in inbox[c] <=> projection[c][<<EventBook[e], EventOp[e]>>] = e
         /\ Answer(c, e) \notin {"409", "503"}

M == INSTANCE Mirror WITH
       facts <- Committed, seen <- UNION {inbox[c] : c \in Consumers}, retired <- Delivered

\* Delivery implements Mirror: the projection is a lagging copy of the facts.
ImplementsMirror == M!Spec

\* Every committed fact of a book its consumer accepts is eventually delivered,
\* even while another book of the same processes is refused for ever.
EveryFactDelivered ==
  \A e \in Events :
    (e \in Committed /\ \E c \in Consumers : EventBook[e] \in Accepts[c]) ~> (e \in Delivered)
=============================================================================
