--------------------------- MODULE MCComponents --------------------------
(***************************************************************************)
(* The components whose properties are invariants: the mdns registry and   *)
(* its lookups, the consul watcher, publishing over the HTTP and the       *)
(* memory broker, a websocket connection, the log writer, a call of the    *)
(* HTTP client, gateways that pass a request on, the cache of static       *)
(* files and the service facade.  They do not interact: a behaviour runs   *)
(* one of them, and the others stay as they begin.                         *)
(***************************************************************************)
EXTENDS Integers, FiniteSets, Sequences

CONSTANTS
    TwoNodes, Faults, Versions, Cap, MaxChanges,
    Queue, InboxSize, Batch, Subscribers, Publishers,
    Closers, MaxSent, MaxWrites, ReadLimit, ControlLimit,
    Loggers, MaxLines, Objects, Capacity, MaxModes,
    Targets, RetryCounts, Policies, Hooks, Stoppers,
    Gates, Backends, MaxDepth, MaxHops, Files, Embedded, Openers, MaxWritten

\* Hooks are counted; Run's own goroutine is not among the other stoppers.
ASSUME FacadeAssumption == Hooks \in Nat /\ "run" \notin Stoppers

\* Lines are counted; a message object is no name of a state of the writer.
ASSUME LogAssumption ==
    /\ MaxLines \in Nat
    /\ Objects \cap {"idle", "sync", "off", "waits", "gone", "no", "drains", "returned"} = {}

\* So many messages are taken out of the inbox at a time.
ASSUME PublishAssumption == Batch \in Nat

\* A call makes so many attempts, a request passes so many gateways.
ASSUME OutcomeAssumption == RetryCounts \subseteq Nat /\ MaxDepth \in Nat

\* There are files, of which a goroutine opens one.
ASSUME StaticAssumption == Files # {}

\* A version of a service is none that stands for no service.
ASSUME WatchAssumption == 0 \notin Versions

\* No node has the id of the wildcard's entry, or the one for no service.
ASSUME MdnsAssumption == TwoNodes \cap {"*", "absent"} = {}

\* Payloads have a longest length.
ASSUME SocketAssumption == ReadLimit \in Nat /\ ControlLimit \in Nat

\* What a peer may send: whole and fragmented messages, a character cut in
\* two, control frames of every kind, headers and codes that are not allowed.
Frame(op, fin, data, code) ==
    [op |-> op, fin |-> fin, ok |-> TRUE, data |-> data, code |-> code]
PeerFrames ==
    {Frame("text", TRUE, <<"h1", "h2">>, 0), Frame("text", FALSE, <<"a", "h1">>, 0),
     Frame("bin", FALSE, <<"h1">>, 0),
     Frame("cont", FALSE, <<"h2">>, 0), Frame("cont", TRUE, <<"h2">>, 0),
     Frame("ping", TRUE, <<"a">>, 0), Frame("pong", FALSE, <<>>, 0),
     Frame("close", TRUE, <<>>, 1005), Frame("close", TRUE, <<>>, 1),
     Frame("close", TRUE, <<"h1">>, 3000),
     Frame("bin", TRUE, <<"a", "a", "a", "a">>, 0)}

\* A depth that is no number counts like a negative one.
DepthHeaders == -1 .. MaxDepth + 1

VARIABLES
    active,     \* the component this behaviour is about
    dServices, dLive, dClosing, dStar, dWanted, dCall, dFaults, dNet,
    dListener, dWatching, dHeard, lServer, lNet, lQuery, wEntries,
    wChanges, wPlan, wServices, wHandler, wListing, wNext, wView, wSeen,
    wStopped, wOvertaken, pSubs, pInbox, pPub, pGot, pFull, pNobody,
    pFaults, fConnected, fSlice, fArrays, fChanges, fPub, fRan, fFound,
    sWire, sSent, sFrag, sGot, sReader, sPending, sClosed, sCloseSent,
    sBroken, sOut, sRefused, gAsync, gModes, gQueue, gText, gFree, gAt,
    gNext, gListener, gCloser, gStop, gDropped, gDone, gBefore, hRetries,
    hPolicy, hAt, hI, hNode, hExpired, hGerr, hResult, hHooks, hOutcomes,
    hMarks, vRun, vK, vError, vStopping, vHook, vFailed, vRan, vServer,
    rSocket, rChain, xDisk, xCache, xForever, xWatch, xEvents, xOpen,
    xWrites, xMoved, xLate

mdnsVars == <<dServices, dLive, dClosing, dStar, dWanted, dCall, dFaults, dNet,
    dListener, dWatching, dHeard>>
lookupVars == <<lServer, lNet, lQuery>>
watchVars == <<wEntries, wChanges, wPlan, wServices, wHandler, wListing, wNext,
    wView, wSeen, wStopped, wOvertaken>>
publishVars == <<pSubs, pInbox, pPub, pGot, pFull, pNobody, pFaults>>
fanVars == <<fConnected, fSlice, fArrays, fChanges, fPub, fRan, fFound>>
socketVars == <<sWire, sSent, sFrag, sGot, sReader, sPending, sClosed,
    sCloseSent, sBroken, sOut, sRefused>>
logVars == <<gAsync, gModes, gQueue, gText, gFree, gAt, gNext, gListener,
    gCloser, gStop, gDropped, gDone, gBefore>>
httpVars == <<hRetries, hPolicy, hAt, hI, hNode, hExpired, hGerr, hResult,
    hHooks, hOutcomes, hMarks>>
facadeVars == <<vRun, vK, vError, vStopping, vHook, vFailed, vRan, vServer>>
proxyVars == <<rSocket, rChain>>
staticVars == <<xDisk, xCache, xForever, xWatch, xEvents, xOpen, xWrites,
    xMoved, xLate>>
vars == <<active, mdnsVars, lookupVars, watchVars, publishVars, fanVars,
          socketVars, logVars, httpVars, proxyVars,
                   staticVars, facadeVars>>

Mdns == INSTANCE MdnsRegistry WITH
    services <- dServices, live <- dLive, closing <- dClosing,
    star <- dStar, wanted <- dWanted, call <- dCall, faults <- dFaults,
    net <- dNet, listener <- dListener, watching <- dWatching,
    heard <- dHeard,
    Nodes <- TwoNodes, MaxFaults <- Faults

Lookup == INSTANCE MdnsLookup WITH
    server <- lServer, net <- lNet, query <- lQuery,
    Nodes <- TwoNodes

Watch == INSTANCE ConsulWatch WITH
    entries <- wEntries, changes <- wChanges, plan <- wPlan,
    services <- wServices, handler <- wHandler, listing <- wListing,
    next <- wNext, view <- wView, seen <- wSeen, stopped <- wStopped,
    overtaken <- wOvertaken,
    Nodes <- TwoNodes

Publish == INSTANCE HttpPublish WITH
    subs <- pSubs, inbox <- pInbox, pub <- pPub, got <- pGot,
    full <- pFull, nobody <- pNobody, faults <- pFaults,
    Nodes <- TwoNodes, MaxFaults <- Faults

Fan == INSTANCE MemoryBroker WITH
    connected <- fConnected, slice <- fSlice, arrays <- fArrays,
    changes <- fChanges, pub <- fPub, ran <- fRan, found <- fFound

Socket == INSTANCE Websocket WITH
    wire <- sWire, sent <- sSent, frag <- sFrag, got <- sGot, reader <-
    sReader, pending <- sPending, closed <- sClosed, closeSent <-
    sCloseSent, broken <- sBroken, out <- sOut, refused <- sRefused, Frames
    <- PeerFrames

Log == INSTANCE LogWriter WITH
    async <- gAsync, modes <- gModes, queue <- gQueue, text <- gText, free
    <- gFree, at <- gAt, next <- gNext, listener <- gListener, closer <-
    gCloser, stop <- gStop, dropped <- gDropped, done <- gDone, before <-
    gBefore

Http == INSTANCE HttpCall WITH
    retries <- hRetries, policy <- hPolicy, at <- hAt, i <- hI, node <-
    hNode, expired <- hExpired, gerr <- hGerr, result <- hResult, hooks <-
    hHooks, outcomes <- hOutcomes, marks <- hMarks

Proxy == INSTANCE ReverseProxy WITH
    socket <- rSocket, chain <- rChain, Headers <- DepthHeaders

Static == INSTANCE StaticStore WITH
    disk <- xDisk, cache <- xCache, forever <- xForever, watch <- xWatch,
    events <- xEvents, open <- xOpen, writes <- xWrites, moved <- xMoved,
    late <- xLate, MaxWrites <- MaxWritten

Facade == INSTANCE ServiceFacade WITH
    run <- vRun, k <- vK, error <- vError, stopping <- vStopping, hook <-
    vHook, failed <- vFailed, ran <- vRan, server <- vServer

Init ==
    /\ active \in {"mdns", "lookup", "watch", "publish", "fan", "socket", "log",
                  "http", "proxy", "static", "facade"}
    /\ Mdns!MdnsInit /\ Lookup!LookupInit /\ Watch!WatchInit
    /\ Publish!PublishInit /\ Fan!MemBrokerInit
    /\ Socket!WsInit /\ Log!LogInit /\ Facade!FacadeInit
    /\ IF active = "http" THEN Http!HttpInit ELSE Http!HttpIdle
    /\ IF active = "proxy" THEN Proxy!ProxyInit ELSE rSocket = FALSE /\ rChain = <<>>
    /\ IF active = "static" THEN Static!StaticInit ELSE Static!StaticIdle

MdnsRuns ==
    /\ active = "mdns" /\ Mdns!MdnsNext
    /\ UNCHANGED <<active, lookupVars, watchVars, publishVars, fanVars,
                   socketVars, logVars, httpVars, proxyVars,
                   staticVars, facadeVars>>
LookupRuns ==
    /\ active = "lookup" /\ Lookup!LookupNext
    /\ UNCHANGED <<active, mdnsVars, watchVars, publishVars, fanVars,
                   socketVars, logVars, httpVars, proxyVars,
                   staticVars, facadeVars>>
WatchRuns ==
    /\ active = "watch" /\ Watch!WatchNext
    /\ UNCHANGED <<active, mdnsVars, lookupVars, publishVars, fanVars,
                   socketVars, logVars, httpVars, proxyVars,
                   staticVars, facadeVars>>
PublishRuns ==
    /\ active = "publish" /\ Publish!PublishNext
    /\ UNCHANGED <<active, mdnsVars, lookupVars, watchVars, fanVars,
                   socketVars, logVars, httpVars, proxyVars,
                   staticVars, facadeVars>>
FanRuns ==
    /\ active = "fan" /\ Fan!MemBrokerNext
    /\ UNCHANGED <<active, mdnsVars, lookupVars, watchVars, publishVars,
                   socketVars, logVars, httpVars, proxyVars,
                   staticVars, facadeVars>>
SocketRuns ==
    /\ active = "socket" /\ Socket!WsNext
    /\ UNCHANGED <<active, mdnsVars, lookupVars, watchVars, publishVars,
                   fanVars, logVars, httpVars, proxyVars,
                   staticVars, facadeVars>>
LogRuns ==
    /\ active = "log" /\ Log!LogNext
    /\ UNCHANGED <<active, mdnsVars, lookupVars, watchVars, publishVars,
                   fanVars, socketVars, httpVars, proxyVars,
                   staticVars, facadeVars>>
HttpRuns ==
    /\ active = "http" /\ Http!HttpNext
    /\ UNCHANGED <<active, mdnsVars, lookupVars, watchVars, publishVars,
                   fanVars, socketVars, logVars, proxyVars, staticVars,
                   facadeVars>>
ProxyRuns ==
    /\ active = "proxy" /\ Proxy!ProxyNext
    /\ UNCHANGED <<active, mdnsVars, lookupVars, watchVars, publishVars,
                   fanVars, socketVars, logVars, httpVars, staticVars,
                   facadeVars>>
StaticRuns ==
    /\ active = "static" /\ Static!StaticNext
    /\ UNCHANGED <<active, mdnsVars, lookupVars, watchVars, publishVars,
                   fanVars, socketVars, logVars, httpVars, proxyVars,
                   facadeVars>>
FacadeRuns ==
    /\ active = "facade" /\ Facade!FacadeNext
    /\ UNCHANGED <<active, mdnsVars, lookupVars, watchVars, publishVars,
                   fanVars, socketVars, logVars, httpVars, proxyVars,
                   staticVars>>
Next ==
    \/ MdnsRuns \/ LookupRuns \/ WatchRuns \/ PublishRuns \/ FanRuns
    \/ SocketRuns \/ LogRuns \/ HttpRuns \/ ProxyRuns \/ StaticRuns
    \/ FacadeRuns

Spec == Init /\ [][Next]_vars

---------------------------------------------------------------------------
(* The properties.  Their parts are stated and explained in the modules of  *)
(* the components; each is about the behaviours that run that component.    *)

\* The mdns registry keeps the promise of every registry: a node with an entry
\* is answered for until its owner leaves.
MdnsPromise == Mdns!MdnsPromise

\* What is cached of others is what they are: an mdns lookup returns just the
\* nodes whose answer arrived, each under its own address; a reader of the
\* consul watcher's events has the catalog; a static file is the one on disk.
ViewsExact ==
    /\ active = "lookup" => Lookup!LookupSound /\ Lookup!LookupComplete
    /\ active = "watch" => Watch!WatchExact
    /\ active = "static" => Static!FilesFresh

\* No message published over HTTP is lost for a group, and the memory broker
\* calls every handler that was subscribed, once.
SubscribersServed ==
    /\ active = "publish" => Publish!EveryGroupServed
    /\ active = "fan" => Fan!FanOut

\* A websocket gives its reader what the peer sent, whole and in order, answers
\* pings, and says close once however many goroutines do.
ConnectionKept == active = "socket" => Socket!Reassembled /\ Socket!HandshakeKept

\* A line that was logged is written once, waits, or is counted as dropped.
LinesAccounted == active = "log" => Log!LinesAccounted

\* The selector hears of every attempt of the HTTP client, whose result is the
\* last attempt's, and of every node a gateway dials; no chain of gateways is
\* endless, leaves a connection or loses a part of the path.
OutcomesReported ==
    /\ active = "http" => Http!AttemptsReported
    /\ active = "proxy" =>
           Proxy!LoopBounded /\ Proxy!DialsReported /\ Proxy!NoConnLeft /\ Proxy!PathKept

\* Stop runs every hook and stops the server, whatever fails.
StopIsTotal == active = "facade" => Facade!StopIsTotal
==========================================================================
