------------------------------ MODULE Runtime -------------------------------
(***************************************************************************)
(* The life of one Ledger process (app/runtime.go): Open, Serve, Close.    *)
(*                                                                         *)
(* Serve starts a publisher, an RPC server and an operations server, waits *)
(* until its context is cancelled or a server stops, and then winds all of *)
(* them down under one drain deadline.  Concurrent with it: RPC handlers,  *)
(* readiness probes, the publisher, the two accept loops and the goroutine *)
(* that calls GracefulStop.  All of them may use the one store.            *)
(*                                                                         *)
(* External, from how the code uses them: grpc's GracefulStop returns once *)
(* no handler runs; its Stop cancels the handlers and does not wait for    *)
(* them; an RPC server's Serve, once stopped, returns when either does.    *)
(* http's Shutdown ends the accept loop at once and returns when no        *)
(* request is open or its context ends; Close abandons open requests.      *)
(*                                                                         *)
(* Time is counted in seconds, by the two deadlines that matter.  A query  *)
(* whose context has expired returns before the next second.  Definitions  *)
(* named after a defect stand before what they are a mutation of.          *)
(***************************************************************************)
EXTENDS Integers, FiniteSets

CONSTANTS
  Rpcs, Probes,          \* the calls and the readiness requests of a run
  ProbeTime, DrainTime,  \* 2 s for a probe's query, 5 s to drain
  Publishing             \* whether an outbox is configured

ASSUME TimesAssumption == ProbeTime \in Nat /\ DrainTime \in Nat /\ ProbeTime < DrainTime
ASSUME PublishingAssumption == Publishing \in BOOLEAN

VARIABLES
  main,       \* where runConfigured and Serve are
  ctxDone,    \* the process context is cancelled
  store,      \* the connection pool
  serving,    \* Runtime.serving
  rpc, web,   \* the accept loops of the two servers
  stopped,    \* results waiting in the channel of that name
  completed,  \* results taken from it
  graceful,   \* the goroutine that calls GracefulStop
  forced,     \* Stop was called: handler contexts are cancelled
  abandoned,  \* the operations server was closed with requests open
  drainLeft,  \* what is left of the drain deadline
  handler,    \* each RPC handler
  probe,      \* each request for /readyz
  probeLeft,  \* what is left of its query's deadline
  worker      \* the publisher

serverVars == <<rpc, web, stopped, completed, graceful, forced, abandoned>>
userVars == <<handler, probe, probeLeft, worker>>
vars == <<main, ctxDone, store, serving, serverVars, drainLeft, userVars>>

Init ==
  /\ main = "open" /\ ctxDone = FALSE /\ store = "none" /\ serving = FALSE
  /\ rpc = "off" /\ web = "off" /\ stopped = 0 /\ completed = 0
  /\ graceful = "off" /\ forced = FALSE /\ abandoned = FALSE /\ drainLeft = DrainTime
  /\ handler = [r \in Rpcs |-> "idle"]
  /\ probe = [p \in Probes |-> "idle"] /\ probeLeft = [p \in Probes |-> ProbeTime]
  /\ worker = "off"

-----------------------------------------------------------------------------
(***************************************************************************)
(* runConfigured and Serve.                                                *)
(***************************************************************************)

\* A failing Open leaves no store behind: it was not opened, or is closed again.
Open ==
  /\ main = "open"
  /\ \/ main' = "listen" /\ store' = "open"
     \/ main' = "done" /\ store' \in {"none", "closed"}
  /\ UNCHANGED <<ctxDone, serving, serverVars, drainLeft, userVars>>

Listen ==
  /\ main = "listen"
  /\ main' \in {"serve", "close"}
  /\ UNCHANGED <<ctxDone, store, serving, serverVars, drainLeft, userVars>>

Start ==
  /\ main = "serve"
  /\ \/ /\ ctxDone
        /\ main' = "close"
        /\ UNCHANGED <<serving, rpc, web, worker>>
     \/ /\ ~ctxDone
        /\ main' = "select"
        /\ worker' = IF Publishing THEN "running" ELSE "done"
        /\ serving' = TRUE
        /\ rpc' = "accepting" /\ web' = "accepting"
  /\ UNCHANGED <<ctxDone, store, stopped, completed, graceful, forced, abandoned, drainLeft,
                 handler, probe, probeLeft>>

\* The select, and everything up to the wait for the operations server.
Uncounted ==
  /\ main = "select"
  /\ \/ ctxDone /\ UNCHANGED stopped
     \/ stopped > 0 /\ stopped' = stopped - 1
  /\ main' = "webDrain"
  /\ serving' = FALSE
  /\ graceful' = "running"
  /\ UNCHANGED <<ctxDone, store, rpc, web, completed, forced, abandoned, drainLeft, userVars>>
BeginDrain ==
  /\ main = "select"
  /\ \/ ctxDone /\ UNCHANGED <<stopped, completed>>
     \/ stopped > 0 /\ stopped' = stopped - 1 /\ completed' = 1
  /\ main' = "webDrain"
  /\ serving' = FALSE
  /\ graceful' = "running"
  /\ UNCHANGED <<ctxDone, store, rpc, web, forced, abandoned, drainLeft, userVars>>

Expired == drainLeft = 0

\* httpServer.Shutdown(drain), and Close when it fails.
DrainWeb ==
  /\ main = "webDrain"
  /\ \/ (\A p \in Probes : probe[p] \in {"idle", "done"}) /\ UNCHANGED abandoned
     \/ Expired /\ abandoned' = TRUE
  /\ main' = "rpcDrain"
  /\ UNCHANGED <<ctxDone, store, serving, rpc, web, stopped, completed, graceful, forced,
                 drainLeft, userVars>>

\* The second select: GracefulStop has returned, or the deadline forces Stop.
StopAndGo ==
  /\ main = "rpcDrain"
  /\ \/ graceful = "done" /\ UNCHANGED forced
     \/ Expired /\ forced' = TRUE
  /\ main' = "collect"
  /\ UNCHANGED <<ctxDone, store, serving, rpc, web, stopped, completed, graceful, abandoned,
                 drainLeft, userVars>>
Hasty ==
  /\ main = "rpcDrain"
  /\ \/ graceful = "done" /\ main' = "collect" /\ UNCHANGED forced
     \/ (Expired \/ completed = 1) /\ main' = "forced" /\ forced' = TRUE
  /\ UNCHANGED <<ctxDone, store, serving, rpc, web, stopped, completed, graceful, abandoned,
                 drainLeft, userVars>>
DrainRpc ==
  /\ main = "rpcDrain"
  /\ \/ graceful = "done" /\ main' = "collect" /\ UNCHANGED forced
     \/ Expired /\ main' = "forced" /\ forced' = TRUE
  /\ UNCHANGED <<ctxDone, store, serving, rpc, web, stopped, completed, graceful, abandoned,
                 drainLeft, userVars>>

AwaitGraceful ==
  /\ main = "forced" /\ graceful = "done"
  /\ main' = "collect"
  /\ UNCHANGED <<ctxDone, store, serving, serverVars, drainLeft, userVars>>

\* Both accept loops have to report before Serve returns.
Collect ==
  /\ main = "collect"
  /\ \/ /\ completed < 2 /\ stopped > 0
        /\ stopped' = stopped - 1 /\ completed' = completed + 1
        /\ UNCHANGED main
     \/ completed = 2 /\ main' = "stopWorker" /\ UNCHANGED <<stopped, completed>>
  /\ UNCHANGED <<ctxDone, store, serving, rpc, web, graceful, forced, abandoned, drainLeft,
                 userVars>>

\* The deferred stopWorker(); <-workerDone.
LeaveWorker ==
  /\ main = "stopWorker"
  /\ main' = "close"
  /\ UNCHANGED <<ctxDone, store, serving, serverVars, drainLeft, userVars>>
AwaitWorker ==
  /\ main = "stopWorker" /\ worker = "done"
  /\ main' = "close"
  /\ UNCHANGED <<ctxDone, store, serving, serverVars, drainLeft, userVars>>

Close ==
  /\ main = "close"
  /\ main' = "done"
  /\ serving' = FALSE /\ forced' = TRUE /\ store' = "closed"
  /\ UNCHANGED <<ctxDone, rpc, web, stopped, completed, graceful, abandoned, drainLeft, userVars>>

-----------------------------------------------------------------------------
(***************************************************************************)
(* The goroutines beside it.                                               *)
(***************************************************************************)
RunningRpcs == {r \in Rpcs : handler[r] = "running"}

GracefulStop ==
  /\ graceful = "running" /\ RunningRpcs = {}
  /\ graceful' = "done"
  /\ UNCHANGED <<main, ctxDone, store, serving, rpc, web, stopped, completed, forced, abandoned,
                 drainLeft, userVars>>

\* An accept loop ends because its server was stopped, or on its own with an error.
RpcLoopEnds ==
  /\ rpc = "accepting"
  /\ graceful = "done" \/ forced \/ graceful = "off"
  /\ rpc' = "ended" /\ stopped' = stopped + 1
  /\ UNCHANGED <<main, ctxDone, store, serving, web, completed, graceful, forced, abandoned,
                 drainLeft, userVars>>
WebLoopEnds ==
  /\ web = "accepting"
  /\ web' = "ended" /\ stopped' = stopped + 1
  /\ UNCHANGED <<main, ctxDone, store, serving, rpc, completed, graceful, forced, abandoned,
                 drainLeft, userVars>>

\* An open connection brings calls until its server is stopped: also while the
\* server drains, and after its accept loop has failed.
RpcBegins(r) ==
  /\ handler[r] = "idle" /\ rpc # "off" /\ graceful # "done" /\ ~forced
  /\ handler' = [handler EXCEPT ![r] = "running"]
  /\ UNCHANGED <<main, ctxDone, store, serving, serverVars, drainLeft, probe, probeLeft, worker>>

RpcReturns(r) ==
  /\ handler[r] = "running"
  /\ handler' = [handler EXCEPT ![r] = "done"]
  /\ UNCHANGED <<main, ctxDone, store, serving, serverVars, drainLeft, probe, probeLeft, worker>>

\* /readyz asks the store only if the runtime is serving when it looks.
ProbeBegins(p) ==
  /\ probe[p] = "idle" /\ web # "off" /\ ~abandoned
  /\ main \in {"select", "webDrain"}
  /\ probe' = [probe EXCEPT ![p] = IF serving THEN "querying" ELSE "writing"]
  /\ UNCHANGED <<main, ctxDone, store, serving, serverVars, drainLeft, handler, probeLeft, worker>>

ProbeAnswers(p) ==
  /\ probe[p] = "querying"
  /\ probe' = [probe EXCEPT ![p] = "writing"]
  /\ UNCHANGED <<main, ctxDone, store, serving, serverVars, drainLeft, handler, probeLeft, worker>>

\* However slowly its client reads.
ProbeWritten(p) ==
  /\ probe[p] = "writing"
  /\ probe' = [probe EXCEPT ![p] = "done"]
  /\ UNCHANGED <<main, ctxDone, store, serving, serverVars, drainLeft, handler, probeLeft, worker>>

\* publisher.Run returns when its context is cancelled, which is when the
\* process's is or when Serve is about to return.
PublisherStops ==
  /\ worker = "running" /\ (ctxDone \/ main = "stopWorker")
  /\ worker' = "done"
  /\ UNCHANGED <<main, ctxDone, store, serving, serverVars, drainLeft, handler, probe, probeLeft>>

Cancel ==
  /\ ~ctxDone /\ ctxDone' = TRUE
  /\ UNCHANGED <<main, store, serving, serverVars, drainLeft, userVars>>

Draining == main \in {"webDrain", "rpcDrain", "forced"}
Querying == {p \in Probes : probe[p] = "querying"}
Due == {p \in Querying : probeLeft[p] = 0}

Tick ==
  /\ Due = {}
  /\ (Draining /\ drainLeft > 0) \/ Querying # {}
  /\ drainLeft' = IF Draining /\ drainLeft > 0 THEN drainLeft - 1 ELSE drainLeft
  /\ probeLeft' = [p \in Probes |->
                     IF p \in Querying THEN probeLeft[p] - 1 ELSE probeLeft[p]]
  /\ UNCHANGED <<main, ctxDone, store, serving, serverVars, handler, probe, worker>>

-----------------------------------------------------------------------------
Main == Open \/ Listen \/ Start \/ BeginDrain \/ DrainWeb \/ DrainRpc \/ AwaitGraceful
          \/ Collect \/ AwaitWorker \/ Close
Loops == GracefulStop \/ RpcLoopEnds \/ WebLoopEnds

Next ==
  \/ Main \/ Loops \/ PublisherStops \/ Cancel \/ Tick
  \/ \E r \in Rpcs : RpcBegins(r) \/ RpcReturns(r)
  \/ \E p \in Probes : ProbeBegins(p) \/ ProbeAnswers(p) \/ ProbeWritten(p)

\* Go runs every goroutine that can go on, and time passes.  A handler has to
\* return only once its context is cancelled; a client need never read an answer.
Fairness ==
  /\ WF_vars(Main) /\ WF_vars(GracefulStop) /\ WF_vars(PublisherStops) /\ WF_vars(Tick)
  /\ WF_vars(RpcLoopEnds /\ graceful # "off") /\ WF_vars(WebLoopEnds /\ graceful # "off")
  /\ \A r \in Rpcs : WF_vars(RpcReturns(r) /\ forced)
  /\ \A p \in Probes : WF_vars(ProbeAnswers(p))

Spec == Init /\ [][Next]_vars /\ Fairness

-----------------------------------------------------------------------------
(***************************************************************************)
(* Properties.                                                             *)
(***************************************************************************)
\* The store outlives everything that uses it: when Close closes the pool no RPC
\* handler, no publisher and no probe still has a query to make, however the
\* servers stopped, whoever was slow and whatever the drain deadline cut short.
StoreOutlivesUsers ==
  store = "closed" => RunningRpcs = {} /\ Querying = {} /\ worker # "running"

\* "Serve always drains/stops both listeners before returning": once it has
\* returned, no goroutine it started is left and no result was lost in a channel.
NothingLeftRunning ==
  main \in {"close", "done"} =>
    /\ rpc # "accepting" /\ web # "accepting" /\ graceful # "running"
    /\ worker # "running" /\ stopped = 0

\* Calls under way get the whole drain time: a running handler is cancelled only
\* when the deadline has passed, never because the other server failed or was slow.
CallsGetTheirGrace ==
  [][~forced /\ forced' /\ RunningRpcs # {} => Expired]_vars

\* Serve winds down: after the context is cancelled, or one of the servers stopped
\* by itself, the process ends with its store closed, though a handler may hang
\* until it is cancelled and a client never read its answer.
WindsDown == (ctxDone \/ rpc = "ended" \/ web = "ended") ~> main = "done"
=============================================================================
