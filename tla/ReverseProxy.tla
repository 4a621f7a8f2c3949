--------------------------- MODULE ReverseProxy ----------------------------
(***************************************************************************)
(* Requests that gateways pass on (router/reverse_proxy.go and             *)
(* reverse_proxy_loopguard.go).  What discovery knows may be wrong, so the *)
(* node a gateway picks may be another gateway, or itself.  `chain` holds  *)
(* one record per HttpReverseProxy that runs for one request of a client;  *)
(* each waits for the next one.                                            *)
(*                                                                         *)
(* A path is the sequence of its segments.  RPC endpoints have no proxy    *)
(* route, and RpcReverseProxy only answers with an error.                  *)
(***************************************************************************)
EXTENDS Integers, Sequences, FiniteSets

CONSTANTS
    Gates,          \* the processes that proxy
    Backends,       \* the processes that serve
    MaxDepth,       \* maxProxyDepth
    MaxHops,        \* bound of the model on a chain, above MaxDepth + 1
    Headers         \* what a client may send as X-Volts-Proxy-Depth

VARIABLES
    socket,     \* the request asks for a websocket
    chain       \* the handlers it went through
proxyVars == <<socket, chain>>

Lang == <<"fr">>
Shop == <<"shop">>

\* A request as it arrives at gate g.
Hop(g, header, path) ==
    [gate |-> g, header |-> header, path |-> path, at |-> "guard", node |-> g,
     conns |-> {}, dialled |-> FALSE, marks |-> <<>>, status |-> 0]

ProxyInit == socket \in BOOLEAN /\ chain = <<>>

Arrive ==
    /\ chain = <<>>
    /\ \E g \in Gates, d \in Headers, path \in {Shop, Lang \o Shop} :
           chain' = <<Hop(g, d, path)>>
    /\ UNCHANGED socket

\* Hop i goes on as h.
Step(i, h) == chain' = [chain EXCEPT ![i] = h] /\ UNCHANGED socket
\* The handler of h returns; what it told the selector is among `marks`, and
\* what was closed on the way out is not among `conns`.
Returned(h, status) == [h EXCEPT !.at = "done", !.status = status]
Marked(h, outcome) == [h EXCEPT !.marks = Append(@, outcome)]

---------------------------------------------------------------------------
\* A header that is missing, not a number or negative counts as zero.
proxyDepthOf(h) == IF h.header < 0 THEN 0 ELSE h.header

\* The target is this process, if the address of the listener is known and the
\* target's is recognised as one of this machine (the list of its addresses is
\* cached).
isSelfTarget(h, known) == h.node = h.gate /\ known

HasPrefix(path, p) == Len(p) <= Len(path) /\ SubSeq(path, 1, Len(p)) = p

\* The prefix that the PathRewriter took off goes back in front of the path.
proxyPathWithPrefix(out, base, prefix) ==
    IF base # <<>> /\ HasPrefix(out, base)
    THEN base \o prefix \o SubSeq(out, Len(base) + 1, Len(out))
    ELSE prefix \o out

\* The part of the path that the PathRewriter, a hook of the user, takes off.
PathPrefix(h) == IF HasPrefix(h.path, Lang) THEN Lang ELSE <<>>
Rewritten(h) == SubSeq(h.path, Len(PathPrefix(h)) + 1, Len(h.path))

\* The path that is sent on: the URL of a service has no path of its own.
OutPath(h) == proxyPathWithPrefix(Rewritten(h), <<>>, PathPrefix(h))

---------------------------------------------------------------------------
\* First guard: a request that went through enough proxies is refused.
DepthGuard(i) ==
    /\ chain[i].at = "guard"
    /\ IF proxyDepthOf(chain[i]) >= MaxDepth
       THEN Step(i, Returned(chain[i], 508))
       ELSE Step(i, [chain[i] EXCEPT !.at = "select"])

\* The selector gives any node, or an error.
getService(i) ==
    /\ chain[i].at = "select"
    /\ \/ Step(i, Returned(chain[i], 500))
       \/ \E n \in Gates \cup Backends :
              Step(i, [chain[i] EXCEPT !.at = "target", !.node = n])

\* Second guard, then a websocket is passed on by hand, anything else by
\* httputil.ReverseProxy once the body has been read.
SelfGuard(i) ==
    /\ chain[i].at = "target"
    /\ \E known \in BOOLEAN :
           IF isSelfTarget(chain[i], known)
           THEN Step(i, Returned(chain[i], 508))
           ELSE Step(i, [chain[i] EXCEPT !.at = "dial"])

ReadBodyFails(i) ==
    chain[i].at = "dial" /\ ~socket /\ Step(i, Returned(chain[i], 500))

\* Mutated form: the copy of the request keeps its header.
PassedUncounted(h, path) ==
    IF h.node \in Gates THEN <<Hop(h.node, h.header, path)>> ELSE <<>>
\* The request as the next gateway gets it.
Passed(h, path) ==
    IF h.node \in Gates THEN <<Hop(h.node, proxyDepthOf(h) + 1, path)>> ELSE <<>>

\* The request is sent to the node, whose handler then runs.
Forward(i, h, path) ==
    /\ Len(chain) < MaxHops
    /\ chain' = [chain EXCEPT ![i] = h] \o Passed(h, path)
    /\ UNCHANGED socket

---------------------------------------------------------------------------
(* httputil.ReverseProxy *)

RoundTrip(i) ==
    LET h == [chain[i] EXCEPT !.dialled = TRUE] IN
    /\ chain[i].at = "dial" /\ ~socket
    /\ \/ Step(i, Returned(Marked(h, "unreachable"), 502))
       \/ Forward(i, [h EXCEPT !.at = "wait"], OutPath(h))

\* ModifyResponse: an answer, whatever its status, means the node is there.
ModifyResponse(i) ==
    /\ chain[i].at = "wait"
    /\ \E status \in {200, 500, 502, 508} :
           /\ chain[i].node \in Gates =>
                  i < Len(chain) /\ chain[i + 1].at = "done" /\ chain[i + 1].status = status
           /\ Step(i, Returned(Marked(chain[i], "ok"), status))

\* ErrorHandler: no answer in time, a connection that breaks, or a client that
\* went away, which ends the request's context.
ErrorHandler(i) ==
    /\ chain[i].at = "wait"
    /\ \E why \in {"timeout", "reset", "client"} :
           /\ why = "client" => \A j \in DOMAIN chain : j = i - 1 => chain[j].at = "done"
           /\ Step(i, Returned(Marked(chain[i], why), 502))

---------------------------------------------------------------------------
(* serveWebSocket; HttpReverseProxy reports what it returns *)

dialBackend(i) ==
    LET h == [chain[i] EXCEPT !.dialled = TRUE] IN
    /\ chain[i].at = "dial" /\ socket
    /\ \/ Step(i, Returned(Marked(h, "unreachable"), 500))
       \/ Step(i, [h EXCEPT !.at = "hijack", !.conns = {"back"}])

\* Mutated form: only what defer closes is closed.
HijackFailsOpen(i) ==
    /\ chain[i].at = "hijack"
    /\ \E status \in {0, 500} : Step(i, Returned(Marked(chain[i], "client"), status))
\* Either the writer is no Hijacker, or the client's connection is gone.
HijackFails(i) ==
    /\ chain[i].at = "hijack"
    /\ \E status \in {0, 500} :
           Step(i, [Returned(Marked(chain[i], "client"), status) EXCEPT !.conns = {}])

Hijack(i) ==
    /\ chain[i].at = "hijack"
    /\ Step(i, [chain[i] EXCEPT !.at = "write", !.conns = {"back", "front"}])

\* The path is the rewritten one: nothing puts the prefix back.
WriteRequest(i) ==
    /\ chain[i].at = "write"
    /\ \/ Step(i, [Returned(Marked(chain[i], "reset"), 0) EXCEPT !.conns = {}])
       \/ Forward(i, [chain[i] EXCEPT !.at = "copy"], Rewritten(chain[i]))

\* proxyBidir: the end of one direction closes both connections, which ends the
\* other one.
FirstCopyEnds(i) ==
    /\ chain[i].at = "copy"
    /\ Step(i, [chain[i] EXCEPT !.at = "closing", !.conns = {}])

SecondCopyEnds(i) ==
    /\ chain[i].at = "closing"
    /\ Step(i, Returned(Marked(chain[i], "ok"), 0))

HttpReverseProxy(i) ==
    \/ DepthGuard(i) \/ getService(i) \/ SelfGuard(i) \/ ReadBodyFails(i)
    \/ RoundTrip(i) \/ ModifyResponse(i) \/ ErrorHandler(i)
    \/ dialBackend(i) \/ HijackFails(i) \/ Hijack(i) \/ WriteRequest(i)
    \/ FirstCopyEnds(i) \/ SecondCopyEnds(i)

ProxyNext == Arrive \/ \E i \in DOMAIN chain : HttpReverseProxy(i)

ProxySpec == ProxyInit /\ [][ProxyNext]_proxyVars

---------------------------------------------------------------------------
\* However wrong discovery is, and whatever the client claims, one request
\* never makes more than MaxDepth connections.
LoopBounded == Cardinality({i \in DOMAIN chain : chain[i].dialled}) <= MaxDepth

\* The selector hears once of every node that was dialled, and of no other: a
\* request that was refused says nothing about the node.
DialsReported ==
    \A i \in DOMAIN chain :
        chain[i].at = "done" => Len(chain[i].marks) = IF chain[i].dialled THEN 1 ELSE 0

\* A handler that returned has left no connection behind, and a connection that
\* is closed is closed on both sides.
NoConnLeft ==
    \A i \in DOMAIN chain : chain[i].at \in {"closing", "done"} => chain[i].conns = {}

\* An HTTP request arrives at every hop with the path the client sent.
PathKept == ~socket => \A i \in DOMAIN chain : chain[i].path = chain[1].path

\* The comment on the prefix: what was taken off is always put back.
PathAlwaysKept == \A i \in DOMAIN chain : chain[i].path = chain[1].path

\* The comment in ErrorHandler: only failures of the node are reported.
OnlyNodeFaults ==
    \A i \in DOMAIN chain : \A j \in DOMAIN chain[i].marks : chain[i].marks[j] # "client"

Early  == {"guard", "select", "target", "dial"}
ByHand == {"hijack", "write", "copy", "closing"}
Outcomes == {"ok", "unreachable", "timeout", "reset", "client"}
Segments == {"fr", "shop"}
Handlers == [gate : Gates, header : Int, path : Seq(Segments), at : Early \cup ByHand \cup {"wait", "done"},
             node : Gates \cup Backends, conns : SUBSET {"back", "front"}, dialled : BOOLEAN,
             marks : Seq(Outcomes), status : Int]

\* What holds of one handler of the chain.
HandlerOK(h) ==
    /\ h.at \in Early => ~h.dialled
    /\ h.at \in ByHand \cup {"wait"} => h.dialled
    /\ h.at \in ByHand => socket
    /\ h.at \notin {"guard", "done"} \/ h.dialled => proxyDepthOf(h) < MaxDepth
    /\ h.at # "done" => h.marks = <<>>
    /\ h.at = "done" => Len(h.marks) = IF h.dialled THEN 1 ELSE 0
    /\ h.at \notin {"hijack", "write", "copy"} => h.conns = {}

\* The inductive invariant: the depth counts at least the gateways behind, and
\* only the last handler has not passed its request on yet.
ProxyInv ==
    /\ socket \in BOOLEAN /\ chain \in Seq(Handlers)
    /\ \A i \in 1..Len(chain) :
         /\ HandlerOK(chain[i]) /\ i - 1 <= proxyDepthOf(chain[i])
         /\ i < Len(chain) => chain[i].at \in {"wait", "copy", "closing", "done"}
         /\ ~socket => chain[i].path = chain[1].path
=============================================================================
