---------------------------- MODULE MCBackends ----------------------------
(***************************************************************************)
(* The registry back ends and the HTTP broker, whose properties are about  *)
(* what must happen, and the routing tree with the pure functions.  They   *)
(* do not interact: a behaviour runs one of them, and the others stay as   *)
(* they begin.                                                             *)
(***************************************************************************)
EXTENDS Integers, FiniteSets, Sequences

CONSTANTS
    EtcdNodes, Leases, MaxNode, MaxEps, MaxContent, MaxFaults,
    MemoryNodes, Watchers, MaxSends, Callers, Topics,
    Handlers, NoRoute, Magic, MaxMessageLength

\* Two nodes of one version, one of another.
VersionOf == [n \in MemoryNodes |-> IF n = "c" THEN 2 ELSE 1]

MCPatterns == {<<"/">>, <<"/", "a">>, <<"/", "a", "/", "a">>, <<"/", "{x}">>,
               <<"/", "{n}", "/", "a">>, <<"/", "a", "{n}">>, <<"/", "*">>,
               <<"/", "{x}", "a", "{n}">>}
Chars == {"/", "a", "1"}
MCPaths == {<<"/">> \o s : s \in UNION {[1 .. n -> Chars] : n \in 0 .. 3}}

VARIABLES
    active,     \* the component this behaviour is about
    eStore, eTtl, eLeases, eRegister, eCall, eArg, eWanted, eFaults,
    cAgent, cRegister, cRecent, cContent, cTtl, cWanted, cPc, cFaults,
    mKnown, mRec, mWanted, mWatcher, mWatchers, mInNext, mSends, bStarted,
    bRunning, bAddress, bLock, bCaller, bListening, bLoop, bLeaving,
    bSubs, bRegistered, bOverlap, tRoot, tLive, tProbe

etcdVars == <<eStore, eTtl, eLeases, eRegister, eCall, eArg, eWanted, eFaults>>
consulVars == <<cAgent, cRegister, cRecent, cContent, cTtl, cWanted, cPc, cFaults>>
memoryVars == <<mKnown, mRec, mWanted, mWatcher, mWatchers, mInNext, mSends>>
brokerVars == <<bStarted, bRunning, bAddress, bLock, bCaller, bListening, bLoop,
    bLeaving, bSubs, bRegistered, bOverlap>>
pureVars == <<tRoot, tLive, tProbe>>
vars == <<active, etcdVars, consulVars, memoryVars, brokerVars, pureVars>>

Etcd == INSTANCE EtcdRegistry WITH
    store <- eStore, ttl <- eTtl, leases <- eLeases,
    register <- eRegister, call <- eCall, arg <- eArg, wanted <- eWanted,
    faults <- eFaults,
    Nodes <- EtcdNodes

Consul == INSTANCE ConsulRegistry WITH
    agent <- cAgent, register <- cRegister, recent <- cRecent,
    content <- cContent, ttl <- cTtl, wanted <- cWanted, pc <- cPc,
    faults <- cFaults

Memory == INSTANCE MemoryRegistry WITH
    known <- mKnown, rec <- mRec, wanted <- mWanted, watcher <- mWatcher,
    watchers <- mWatchers, inNext <- mInNext, sends <- mSends,
    Nodes <- MemoryNodes

Broker == INSTANCE HttpBroker WITH
    started <- bStarted, running <- bRunning, address <- bAddress,
    lock <- bLock, caller <- bCaller, listening <- bListening,
    loop <- bLoop, leaving <- bLeaving, subs <- bSubs,
    registered <- bRegistered, overlap <- bOverlap

Pure == INSTANCE MCPure WITH
    root <- tRoot, live <- tLive, probe <- tProbe, Patterns <- MCPatterns,
    Paths <- MCPaths

Init ==
    /\ active \in {"etcd", "consul", "memory", "broker", "pure"}
    /\ Etcd!EtcdInit /\ Consul!ConsulInit /\ Memory!MemoryInit /\ Broker!BrokerInit
    /\ IF active = "pure" THEN Pure!Init ELSE Pure!TreeInit /\ Pure!ProbeIdle

EtcdRuns ==
    /\ active = "etcd" /\ Etcd!EtcdNext
    /\ UNCHANGED <<active, consulVars, memoryVars, brokerVars, pureVars>>
ConsulRuns ==
    /\ active = "consul" /\ Consul!ConsulNext
    /\ UNCHANGED <<active, etcdVars, memoryVars, brokerVars, pureVars>>
MemoryRuns ==
    /\ active = "memory" /\ Memory!MemoryNext
    /\ UNCHANGED <<active, etcdVars, consulVars, brokerVars, pureVars>>
BrokerRuns ==
    /\ active = "broker" /\ Broker!BrokerNext
    /\ UNCHANGED <<active, etcdVars, consulVars, memoryVars, pureVars>>
PureRuns ==
    /\ active = "pure" /\ Pure!Next
    /\ UNCHANGED <<active, etcdVars, consulVars, memoryVars, brokerVars>>

Next == EtcdRuns \/ ConsulRuns \/ MemoryRuns \/ BrokerRuns \/ PureRuns

\* What does not run is never enabled: its fairness asks for nothing.
Spec ==
    /\ Init /\ [][Next]_vars
    /\ Etcd!EtcdFairness /\ Consul!ConsulFairness
    /\ Memory!MemoryFairness /\ Broker!BrokerFairness

---------------------------------------------------------------------------
(* The properties.  Their parts are stated and explained in the modules of  *)
(* the components.                                                          *)

\* The etcd and the memory registry keep the promise of every registry: a node
\* that is renewed in time is found by every lookup until it leaves.
PromiseKept == Etcd!EtcdPromise /\ Memory!MemoryPromise

\* Heartbeats make an etcd node visible again and bring a consul node back with
\* its present content, whatever call failed or record was lost, and a node
\* given up goes; a consul service whose hash matches has nothing older at the
\* agent.
RecordsHeal == Etcd!EtcdHeals /\ Consul!ConsulHeals /\ []Consul!ConsulCurrent

\* Nobody waits for ever: a watcher of the memory registry never holds a
\* sender, Close of the HTTP broker returns, and a broker that says it runs has
\* its listener, its loop and its address.
CallsEnd == Memory!SendsFinish /\ Broker!CloseReturns /\ []Broker!LoopOwnsListener

\* Whatever was added and deleted, and in which order, the routing tree holds
\* just the live routes, gives a request only a route that accepts its path,
\* and a path that is registered as it stands its own route.
TreeRight ==
    active = "pure" => Pure!MatchSound /\ Pure!StaticWins /\ Pure!RouteOfExact

\* The message codec and consul's tags give back what was encoded, the
\* configuration's text functions agree with their definitions, and CORS and
\* CSRF let through just what they should.
FunctionsRight ==
    active = "pure" => Pure!CodecRight /\ Pure!TextRight /\ Pure!GuardsRight
==========================================================================
