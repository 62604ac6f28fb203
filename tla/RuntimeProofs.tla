--------------------------- MODULE RuntimeProofs ----------------------------
(***************************************************************************)
(* Theorems about Runtime for any number of calls and readiness requests   *)
(* and any two deadlines, the probe's being the shorter.                   *)
(***************************************************************************)
EXTENDS Runtime, TLAPS

-----------------------------------------------------------------------------
(***************************************************************************)
(* The inductive invariant.                                                *)
(*                                                                         *)
(* Where Serve is bounds what the goroutines beside it can be doing: the   *)
(* results of the two accept loops are waiting or taken, GracefulStop is   *)
(* done before the results are collected, and a probe that still has a     *)
(* query to make has less time left for it than is left to drain.          *)
(***************************************************************************)
Early == {"open", "listen", "serve"}
Over == {"close", "done"}
Places == Early \cup {"select", "webDrain", "rpcDrain", "forced", "collect", "stopWorker"} \cup Over

Ended(loop) == IF loop = "ended" THEN 1 ELSE 0

Typed ==
  /\ main \in Places /\ stopped \in Nat /\ completed \in Nat
  /\ rpc \in {"off", "accepting", "ended"} /\ web \in {"off", "accepting", "ended"}
  /\ graceful \in {"off", "running", "done"} /\ worker \in {"off", "running", "done"}
  /\ drainLeft \in 0 .. DrainTime /\ probeLeft \in [Probes -> 0 .. ProbeTime]
  /\ handler \in [Rpcs -> {"idle", "running", "done"}]
  /\ probe \in [Probes -> {"idle", "querying", "writing", "done"}]

ServersFit ==
  /\ stopped + completed = Ended(rpc) + Ended(web)
  /\ main \in Early => rpc = "off" /\ web = "off" /\ worker = "off"
  /\ main \in Early \cup {"select"} => graceful = "off" /\ completed = 0
  /\ main \in {"webDrain", "rpcDrain", "forced"} => graceful \in {"running", "done"}
  /\ main \in {"collect", "stopWorker"} => graceful = "done"
  /\ main = "stopWorker" => completed = 2
  /\ main \in Over =>
       /\ rpc # "accepting" /\ web # "accepting" /\ graceful # "running"
       /\ worker # "running" /\ stopped = 0
       /\ rpc = "off" \/ graceful = "done"
  /\ store = "closed" => main = "done"

CallsFit == rpc = "off" \/ graceful = "done" => RunningRpcs = {}

ProbesFit ==
  /\ serving => main = "select"
  /\ main \in Early \cup {"select"} => drainLeft = DrainTime
  /\ main \notin {"select", "webDrain"} => Querying = {}
  /\ main = "webDrain" => \A p \in Querying : probeLeft[p] < drainLeft

RuntimeInv == Typed /\ ServersFit /\ CallsFit /\ ProbesFit

\* Calls and probes that a step leaves alone.
LEMMA UsersStay ==
  /\ handler' = handler => RunningRpcs' = RunningRpcs
  /\ probe' = probe => Querying' = Querying
BY DEF RunningRpcs, Querying

\* Open, or the failure of it.
LEMMA OpenKeeps == ASSUME RuntimeInv, Open PROVE RuntimeInv'
<1>1. RunningRpcs' = RunningRpcs /\ Querying' = Querying  BY UsersStay DEF Open, userVars
<1>2. Typed'  BY DEF RuntimeInv, Typed, Open, serverVars, userVars, Places, Early, Over
<1>3. ServersFit'
  BY DEF RuntimeInv, Typed, ServersFit, Open, serverVars, userVars, Early, Over, Ended
<1>4. CallsFit'
  BY <1>1 DEF RuntimeInv, Typed, ServersFit, CallsFit, Open, serverVars, userVars, Early, Over
<1>5. ProbesFit'
  BY <1>1, TimesAssumption DEF RuntimeInv, Typed, ProbesFit, Open, serverVars, userVars, Early, Over
<1> QED BY <1>2, <1>3, <1>4, <1>5 DEF RuntimeInv

\* The listeners.
LEMMA ListenKeeps == ASSUME RuntimeInv, Listen PROVE RuntimeInv'
<1>1. RunningRpcs' = RunningRpcs /\ Querying' = Querying  BY UsersStay DEF Listen, userVars
<1>2. Typed'  BY DEF RuntimeInv, Typed, Listen, serverVars, userVars, Places, Early, Over
<1>3. ServersFit'
  BY DEF RuntimeInv, Typed, ServersFit, Listen, serverVars, userVars, Early, Over, Ended
<1>4. CallsFit'
  BY <1>1 DEF RuntimeInv, Typed, ServersFit, CallsFit, Listen, serverVars, userVars, Early, Over
<1>5. ProbesFit'
  BY <1>1, TimesAssumption DEF RuntimeInv, Typed, ProbesFit, Listen, serverVars, userVars, Early, Over
<1> QED BY <1>2, <1>3, <1>4, <1>5 DEF RuntimeInv

\* Serve's start.
LEMMA StartKeeps == ASSUME RuntimeInv, Start PROVE RuntimeInv'
<1>1. RunningRpcs' = RunningRpcs /\ Querying' = Querying  BY UsersStay DEF Start, userVars
<1>2. Typed'  BY DEF RuntimeInv, Typed, Start, serverVars, userVars, Places, Early, Over
<1>3. ServersFit'
  BY DEF RuntimeInv, Typed, ServersFit, Start, serverVars, userVars, Early, Over, Ended
<1>4. CallsFit'
  BY <1>1 DEF RuntimeInv, Typed, ServersFit, CallsFit, Start, serverVars, userVars, Early, Over
<1>5. ProbesFit'
  BY <1>1, TimesAssumption DEF RuntimeInv, Typed, ProbesFit, Start, serverVars, userVars, Early, Over
<1> QED BY <1>2, <1>3, <1>4, <1>5 DEF RuntimeInv

\* Serve's select, and the beginning of the drain.
LEMMA BeginDrainKeeps == ASSUME RuntimeInv, BeginDrain PROVE RuntimeInv'
<1>1. RunningRpcs' = RunningRpcs /\ Querying' = Querying  BY UsersStay DEF BeginDrain, userVars
<1>2. Typed'  BY DEF RuntimeInv, Typed, BeginDrain, serverVars, userVars, Places, Early, Over
<1>3. ServersFit'
  BY DEF RuntimeInv, Typed, ServersFit, BeginDrain, serverVars, userVars, Early, Over, Ended
<1>4. CallsFit'
  BY <1>1 DEF RuntimeInv, Typed, ServersFit, CallsFit, BeginDrain, serverVars, userVars, Early, Over
<1>5. ProbesFit'
  <2>1. drainLeft = DrainTime /\ probeLeft \in [Probes -> 0 .. ProbeTime]
    BY DEF RuntimeInv, Typed, ProbesFit, BeginDrain
  <2>2. \A p \in Querying : probeLeft[p] < drainLeft
    BY <2>1, TimesAssumption DEF Querying
  <2> QED BY <1>1, <2>2 DEF ProbesFit, BeginDrain, userVars, Early
<1> QED BY <1>2, <1>3, <1>4, <1>5 DEF RuntimeInv

\* The operations server's shutdown: no query is left when the deadline ends it.
LEMMA DrainWebKeeps == ASSUME RuntimeInv, DrainWeb PROVE RuntimeInv'
<1>1. RunningRpcs' = RunningRpcs /\ Querying' = Querying  BY UsersStay DEF DrainWeb, userVars
<1>2. Typed'  BY DEF RuntimeInv, Typed, DrainWeb, serverVars, userVars, Places, Early, Over
<1>3. ServersFit'
  BY DEF RuntimeInv, Typed, ServersFit, DrainWeb, serverVars, userVars, Early, Over, Ended
<1>4. CallsFit'
  BY <1>1 DEF RuntimeInv, Typed, ServersFit, CallsFit, DrainWeb, serverVars, userVars, Early, Over
<1>5. ProbesFit'
  <2>1. Querying = {}
    <3>1. CASE \A p \in Probes : probe[p] \in {"idle", "done"}  BY <3>1 DEF Querying
    <3>2. CASE Expired
      <4>1. ASSUME NEW p \in Querying PROVE FALSE
        <5>1. probeLeft[p] < drainLeft /\ drainLeft = 0
          BY <3>2 DEF RuntimeInv, ProbesFit, DrainWeb, Expired
        <5>2. probeLeft[p] \in 0 .. ProbeTime  BY DEF RuntimeInv, Typed, Querying
        <5> QED BY <5>1, <5>2, TimesAssumption
      <4> QED BY <4>1
    <3> QED BY <3>1, <3>2 DEF DrainWeb
  <2>2. main' = "rpcDrain" /\ ~serving'  BY DEF RuntimeInv, ProbesFit, DrainWeb
  <2> QED BY <1>1, <2>1, <2>2 DEF ProbesFit, Early
<1> QED BY <1>2, <1>3, <1>4, <1>5 DEF RuntimeInv

\* The RPC server's shutdown.
LEMMA DrainRpcKeeps == ASSUME RuntimeInv, DrainRpc PROVE RuntimeInv'
<1>1. RunningRpcs' = RunningRpcs /\ Querying' = Querying  BY UsersStay DEF DrainRpc, userVars
<1>2. Typed'  BY DEF RuntimeInv, Typed, DrainRpc, serverVars, userVars, Places, Early, Over
<1>3. ServersFit'
  BY DEF RuntimeInv, Typed, ServersFit, DrainRpc, serverVars, userVars, Early, Over, Ended
<1>4. CallsFit'
  BY <1>1 DEF RuntimeInv, Typed, ServersFit, CallsFit, DrainRpc, serverVars, userVars, Early, Over
<1>5. ProbesFit'
  BY <1>1, TimesAssumption DEF RuntimeInv, Typed, ProbesFit, DrainRpc, serverVars, userVars, Early, Over
<1> QED BY <1>2, <1>3, <1>4, <1>5 DEF RuntimeInv

\* The wait for GracefulStop after Stop.
LEMMA AwaitGracefulKeeps == ASSUME RuntimeInv, AwaitGraceful PROVE RuntimeInv'
<1>1. RunningRpcs' = RunningRpcs /\ Querying' = Querying  BY UsersStay DEF AwaitGraceful, userVars
<1>2. Typed'  BY DEF RuntimeInv, Typed, AwaitGraceful, serverVars, userVars, Places, Early, Over
<1>3. ServersFit'
  BY DEF RuntimeInv, Typed, ServersFit, AwaitGraceful, serverVars, userVars, Early, Over, Ended
<1>4. CallsFit'
  BY <1>1 DEF RuntimeInv, Typed, ServersFit, CallsFit, AwaitGraceful, serverVars, userVars, Early, Over
<1>5. ProbesFit'
  BY <1>1, TimesAssumption DEF RuntimeInv, Typed, ProbesFit, AwaitGraceful, serverVars, userVars, Early, Over
<1> QED BY <1>2, <1>3, <1>4, <1>5 DEF RuntimeInv

\* The results of the accept loops.
LEMMA CollectKeeps == ASSUME RuntimeInv, Collect PROVE RuntimeInv'
<1>1. RunningRpcs' = RunningRpcs /\ Querying' = Querying  BY UsersStay DEF Collect, userVars
<1>2. Typed'  BY DEF RuntimeInv, Typed, Collect, serverVars, userVars, Places, Early, Over
<1>3. ServersFit'
  BY DEF RuntimeInv, Typed, ServersFit, Collect, serverVars, userVars, Early, Over, Ended
<1>4. CallsFit'
  BY <1>1 DEF RuntimeInv, Typed, ServersFit, CallsFit, Collect, serverVars, userVars, Early, Over
<1>5. ProbesFit'
  BY <1>1, TimesAssumption DEF RuntimeInv, Typed, ProbesFit, Collect, serverVars, userVars, Early, Over
<1> QED BY <1>2, <1>3, <1>4, <1>5 DEF RuntimeInv

\* The wait for the publisher.
LEMMA AwaitWorkerKeeps == ASSUME RuntimeInv, AwaitWorker PROVE RuntimeInv'
<1>1. RunningRpcs' = RunningRpcs /\ Querying' = Querying  BY UsersStay DEF AwaitWorker, userVars
<1>2. Typed'  BY DEF RuntimeInv, Typed, AwaitWorker, serverVars, userVars, Places, Early, Over
<1>3. ServersFit'
  BY DEF RuntimeInv, Typed, ServersFit, AwaitWorker, serverVars, userVars, Early, Over, Ended
<1>4. CallsFit'
  BY <1>1 DEF RuntimeInv, Typed, ServersFit, CallsFit, AwaitWorker, serverVars, userVars, Early, Over
<1>5. ProbesFit'
  BY <1>1, TimesAssumption DEF RuntimeInv, Typed, ProbesFit, AwaitWorker, serverVars, userVars, Early, Over
<1> QED BY <1>2, <1>3, <1>4, <1>5 DEF RuntimeInv

\* The store is closed.
LEMMA CloseKeeps == ASSUME RuntimeInv, Close PROVE RuntimeInv'
<1>1. RunningRpcs' = RunningRpcs /\ Querying' = Querying  BY UsersStay DEF Close, userVars
<1>2. Typed'  BY DEF RuntimeInv, Typed, Close, serverVars, userVars, Places, Early, Over
<1>3. ServersFit'
  BY DEF RuntimeInv, Typed, ServersFit, Close, serverVars, userVars, Early, Over, Ended
<1>4. CallsFit'
  BY <1>1 DEF RuntimeInv, Typed, ServersFit, CallsFit, Close, serverVars, userVars, Early, Over
<1>5. ProbesFit'
  BY <1>1, TimesAssumption DEF RuntimeInv, Typed, ProbesFit, Close, serverVars, userVars, Early, Over
<1> QED BY <1>2, <1>3, <1>4, <1>5 DEF RuntimeInv

\* GracefulStop returns: no handler is running, and none can begin.
LEMMA GracefulStopKeeps == ASSUME RuntimeInv, GracefulStop PROVE RuntimeInv'
<1>1. RunningRpcs' = RunningRpcs /\ Querying' = Querying  BY UsersStay DEF GracefulStop, userVars
<1>2. Typed'  BY DEF RuntimeInv, Typed, GracefulStop, userVars
<1>3. ServersFit'
  BY DEF RuntimeInv, Typed, ServersFit, GracefulStop, userVars, Places, Early, Over, Ended
<1>4. CallsFit'  BY <1>1 DEF CallsFit, GracefulStop
<1>5. ProbesFit'  BY <1>1 DEF RuntimeInv, ProbesFit, GracefulStop, userVars
<1> QED BY <1>2, <1>3, <1>4, <1>5 DEF RuntimeInv

\* An accept loop ends and leaves its result in the channel.
LEMMA LoopEndsKeeps == ASSUME RuntimeInv, RpcLoopEnds \/ WebLoopEnds PROVE RuntimeInv'
<1>1. RunningRpcs' = RunningRpcs /\ Querying' = Querying
  BY UsersStay DEF RpcLoopEnds, WebLoopEnds, userVars
<1>2. Typed'  BY DEF RuntimeInv, Typed, RpcLoopEnds, WebLoopEnds, userVars
<1>3. ServersFit'
  BY DEF RuntimeInv, Typed, ServersFit, RpcLoopEnds, WebLoopEnds, userVars, Places, Early, Over, Ended
<1>4. CallsFit'  BY <1>1 DEF RuntimeInv, CallsFit, RpcLoopEnds, WebLoopEnds
<1>5. ProbesFit'  BY <1>1 DEF RuntimeInv, ProbesFit, RpcLoopEnds, WebLoopEnds, userVars
<1> QED BY <1>2, <1>3, <1>4, <1>5 DEF RuntimeInv

\* A call begins, while its server still takes calls, or returns.
LEMMA CallKeeps ==
  ASSUME RuntimeInv, NEW r \in Rpcs, RpcBegins(r) \/ RpcReturns(r)
  PROVE  RuntimeInv'
<1>1. /\ UNCHANGED <<main, ctxDone, store, serving, serverVars, drainLeft, probe, probeLeft, worker>>
      /\ \/ rpc # "off" /\ graceful # "done" /\ handler' = [handler EXCEPT ![r] = "running"]
         \/ handler' = [handler EXCEPT ![r] = "done"]
  BY DEF RpcBegins, RpcReturns
<1>2. Querying' = Querying  BY <1>1, UsersStay
<1>3. Typed'  BY <1>1 DEF RuntimeInv, Typed, serverVars
<1>4. ServersFit'  BY <1>1 DEF RuntimeInv, ServersFit, serverVars
<1>5. CallsFit'
  <2>1. CASE rpc # "off" /\ graceful # "done"  BY <1>1, <2>1 DEF CallsFit, serverVars
  <2>2. CASE handler' = [handler EXCEPT ![r] = "done"]
    <3>1. RunningRpcs' \subseteq RunningRpcs  BY <2>2 DEF RuntimeInv, Typed, RunningRpcs
    <3> QED BY <1>1, <3>1 DEF RuntimeInv, CallsFit, serverVars
  <2> QED BY <1>1, <2>1, <2>2
<1>6. ProbesFit'  BY <1>1, <1>2 DEF RuntimeInv, ProbesFit
<1> QED BY <1>3, <1>4, <1>5, <1>6 DEF RuntimeInv

\* A probe begins, is answered by the store, or is written out: once the drain has
\* begun no probe starts a query.
LEMMA ProbeKeeps ==
  ASSUME RuntimeInv, NEW p \in Probes, ProbeBegins(p) \/ ProbeAnswers(p) \/ ProbeWritten(p)
  PROVE  RuntimeInv'
<1>1. /\ UNCHANGED <<main, ctxDone, store, serving, serverVars, drainLeft, handler, probeLeft, worker>>
      /\ \/ main \in {"select", "webDrain"} /\ serving /\ probe' = [probe EXCEPT ![p] = "querying"]
         \/ probe' = [probe EXCEPT ![p] = "writing"]
         \/ probe' = [probe EXCEPT ![p] = "done"]
  BY DEF ProbeBegins, ProbeAnswers, ProbeWritten
<1>2. RunningRpcs' = RunningRpcs  BY <1>1, UsersStay
<1>3. Typed'  BY <1>1 DEF RuntimeInv, Typed, serverVars
<1>4. ServersFit'  BY <1>1 DEF RuntimeInv, ServersFit, serverVars
<1>5. CallsFit'  BY <1>1, <1>2 DEF RuntimeInv, CallsFit, serverVars
<1>6. ProbesFit'
  <2>1. CASE main = "select"  BY <1>1, <2>1 DEF RuntimeInv, ProbesFit, Early
  <2>2. CASE main # "select"
    <3>1. ~serving  BY <2>2 DEF RuntimeInv, ProbesFit
    <3>2. Querying' \subseteq Querying  BY <1>1, <3>1 DEF RuntimeInv, Typed, Querying
    <3> QED BY <1>1, <3>2 DEF RuntimeInv, ProbesFit
  <2> QED BY <2>1, <2>2
<1> QED BY <1>3, <1>4, <1>5, <1>6 DEF RuntimeInv

\* The publisher's end, and the end of the process's context.
LEMMA OutsideKeeps == ASSUME RuntimeInv, PublisherStops \/ Cancel PROVE RuntimeInv'
<1>1. RunningRpcs' = RunningRpcs /\ Querying' = Querying
  BY UsersStay DEF PublisherStops, Cancel, userVars
<1>2. Typed'  BY DEF RuntimeInv, Typed, PublisherStops, Cancel, serverVars, userVars
<1>3. ServersFit'
  BY DEF RuntimeInv, ServersFit, PublisherStops, Cancel, serverVars, userVars
<1>4. CallsFit'  BY <1>1 DEF RuntimeInv, CallsFit, PublisherStops, Cancel, serverVars
<1>5. ProbesFit'  BY <1>1 DEF RuntimeInv, ProbesFit, PublisherStops, Cancel, userVars
<1> QED BY <1>2, <1>3, <1>4, <1>5 DEF RuntimeInv

\* A second passes: a probe's query loses as much time as the drain does.
LEMMA TickKeeps == ASSUME RuntimeInv, Tick PROVE RuntimeInv'
<1>1. /\ UNCHANGED <<main, ctxDone, store, serving, serverVars, handler, probe, worker>>
      /\ Due = {}
      /\ drainLeft' = IF Draining /\ drainLeft > 0 THEN drainLeft - 1 ELSE drainLeft
      /\ probeLeft' = [p \in Probes |-> IF p \in Querying THEN probeLeft[p] - 1 ELSE probeLeft[p]]
  BY DEF Tick
<1>2. RunningRpcs' = RunningRpcs /\ Querying' = Querying  BY <1>1, UsersStay
<1>3. drainLeft \in 0 .. DrainTime /\ probeLeft \in [Probes -> 0 .. ProbeTime]
  BY DEF RuntimeInv, Typed
<1>4. drainLeft' \in 0 .. DrainTime  BY <1>1, <1>3, TimesAssumption
<1>5. probeLeft' \in [Probes -> 0 .. ProbeTime]
  <2>1. ASSUME NEW p \in Probes PROVE probeLeft'[p] \in 0 .. ProbeTime
    <3>1. CASE p \notin Querying  BY <1>1, <1>3, <3>1
    <3>2. CASE p \in Querying
      <4>1. probeLeft[p] # 0  BY <1>1, <3>2 DEF Due
      <4> QED BY <1>1, <1>3, <3>2, <4>1, TimesAssumption
    <3> QED BY <3>1, <3>2
  <2> QED BY <1>1, <2>1
<1>6. Typed'  BY <1>1, <1>4, <1>5 DEF RuntimeInv, Typed, serverVars
<1>7. ServersFit'  BY <1>1 DEF RuntimeInv, ServersFit, serverVars
<1>8. CallsFit'  BY <1>1, <1>2 DEF RuntimeInv, CallsFit, serverVars
<1>9. ProbesFit'
  <2>1. main \in Early \cup {"select"} => drainLeft' = DrainTime
    BY <1>1 DEF RuntimeInv, ProbesFit, Draining, Early
  <2>2. ASSUME main = "webDrain", NEW p \in Querying PROVE probeLeft'[p] < drainLeft'
    <3>1. probeLeft[p] < drainLeft /\ p \in Probes
      BY <2>2 DEF RuntimeInv, ProbesFit, Querying
    <3>2. drainLeft > 0 /\ Draining  BY <1>3, <2>2, <3>1, TimesAssumption DEF Draining
    <3> QED BY <1>1, <1>3, <3>1, <3>2, TimesAssumption
  <2> QED BY <1>1, <1>2, <2>1, <2>2 DEF RuntimeInv, ProbesFit
<1> QED BY <1>6, <1>7, <1>8, <1>9 DEF RuntimeInv

-----------------------------------------------------------------------------
(***************************************************************************)
(* Theorems.                                                               *)
(***************************************************************************)
\* Every step keeps the invariant.
LEMMA NextKeepsRuntime == ASSUME RuntimeInv, [Next]_vars PROVE RuntimeInv'
<1>1. CASE Main
  BY <1>1, OpenKeeps, ListenKeeps, StartKeeps, BeginDrainKeeps, DrainWebKeeps, DrainRpcKeeps,
     AwaitGracefulKeeps, CollectKeeps, AwaitWorkerKeeps, CloseKeeps DEF Main
<1>2. CASE Loops  BY <1>2, GracefulStopKeeps, LoopEndsKeeps DEF Loops
<1>3. CASE PublisherStops \/ Cancel  BY <1>3, OutsideKeeps
<1>4. CASE Tick  BY <1>4, TickKeeps
<1>5. ASSUME NEW r \in Rpcs, RpcBegins(r) \/ RpcReturns(r) PROVE RuntimeInv'
  BY <1>5, CallKeeps
<1>6. ASSUME NEW p \in Probes, ProbeBegins(p) \/ ProbeAnswers(p) \/ ProbeWritten(p)
      PROVE  RuntimeInv'
  BY <1>6, ProbeKeeps
<1>7. CASE UNCHANGED vars
  <2>1. RunningRpcs' = RunningRpcs /\ Querying' = Querying
    BY <1>7, UsersStay DEF vars, userVars
  <2>2. Typed'  BY <1>7 DEF RuntimeInv, Typed, vars, serverVars, userVars
  <2>3. ServersFit'  BY <1>7 DEF RuntimeInv, ServersFit, vars, serverVars, userVars
  <2>4. CallsFit'  BY <1>7, <2>1 DEF RuntimeInv, CallsFit, vars, serverVars
  <2>5. ProbesFit'  BY <1>7, <2>1 DEF RuntimeInv, ProbesFit, vars, userVars
  <2> QED BY <2>2, <2>3, <2>4, <2>5 DEF RuntimeInv
<1> QED BY <1>1, <1>2, <1>3, <1>4, <1>5, <1>6, <1>7 DEF Next

\* The inductive invariant of a process's life: how far Serve has come bounds what
\* every goroutine beside it may still be doing.
THEOREM RuntimeInvariant == Spec => []RuntimeInv
<1>1. Init => RuntimeInv
  <2> SUFFICES ASSUME Init PROVE RuntimeInv  OBVIOUS
  <2>1. Typed  BY TimesAssumption DEF Init, Typed, Places, Early
  <2>2. ServersFit  BY DEF Init, ServersFit, Early, Over, Ended
  <2>3. RunningRpcs = {} /\ Querying = {}  BY DEF Init, RunningRpcs, Querying
  <2>4. CallsFit /\ ProbesFit  BY <2>3 DEF Init, CallsFit, ProbesFit
  <2> QED BY <2>1, <2>2, <2>4 DEF RuntimeInv
<1>2. RuntimeInv /\ [Next]_vars => RuntimeInv'  BY NextKeepsRuntime
<1> QED BY <1>1, <1>2, PTL DEF Spec

\* Once Serve has returned, no call has a query to make.
LEMMA NoCallsAfter == ASSUME RuntimeInv, main \in Over PROVE RunningRpcs = {}
BY DEF RuntimeInv, ServersFit, CallsFit

\* Close closes the pool after the last handler, publisher and probe that uses it.
THEOREM StoreClosedLast == Spec => []StoreOutlivesUsers
<1>1. ASSUME RuntimeInv PROVE StoreOutlivesUsers
  <2>1. ASSUME store = "closed" PROVE RunningRpcs = {} /\ Querying = {} /\ worker # "running"
    <3>1. main = "done"  BY <1>1, <2>1 DEF RuntimeInv, ServersFit
    <3>2. RunningRpcs = {}  BY <1>1, <3>1, NoCallsAfter DEF Over
    <3>3. Querying = {} /\ worker # "running"
      BY <1>1, <3>1 DEF RuntimeInv, ServersFit, ProbesFit, Over
    <3> QED BY <3>2, <3>3
  <2> QED BY <2>1 DEF StoreOutlivesUsers
<1> QED BY <1>1, RuntimeInvariant, PTL

\* Serve returns only after both listeners, GracefulStop and the publisher ended, with
\* both results taken from the channel.
THEOREM ServeLeavesNothing == Spec => []NothingLeftRunning
<1>1. RuntimeInv => NothingLeftRunning
  BY DEF RuntimeInv, ServersFit, NothingLeftRunning, Over
<1> QED BY <1>1, RuntimeInvariant, PTL

\* A running call is cancelled only once the drain deadline has passed.
THEOREM CallsAreDrained == Spec => CallsGetTheirGrace
<1>1. ASSUME RuntimeInv, [Next]_vars
      PROVE  [~forced /\ forced' /\ RunningRpcs # {} => Expired]_vars
  <2>1. ASSUME ~forced, forced' PROVE (DrainRpc /\ Expired) \/ Close
    BY <1>1, <2>1 DEF Next, vars, Main, Loops, Open, Listen, Start, BeginDrain, DrainWeb, DrainRpc,
       AwaitGraceful, Collect, AwaitWorker, Close, GracefulStop, RpcLoopEnds, WebLoopEnds,
       PublisherStops, Cancel, Tick, RpcBegins, RpcReturns, ProbeBegins, ProbeAnswers,
       ProbeWritten, serverVars
  <2>2. Close => RunningRpcs = {}  BY <1>1, NoCallsAfter DEF Close, Over
  <2> QED BY <2>1, <2>2
<1> QED BY <1>1, RuntimeInvariant, PTL DEF Spec, CallsGetTheirGrace

=============================================================================
