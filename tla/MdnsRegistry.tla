-------------------------- MODULE MdnsRegistry ---------------------------
(***************************************************************************)
(* The mdns registry (registry/mdns): a node of the service is registered  *)
(* while an mdns server (internal/mdns) of its own answers for it.         *)
(* Lookups are in MdnsLookup.                                              *)
(***************************************************************************)
EXTENDS Naturals, FiniteSets

CONSTANTS Nodes,
          MaxFaults     \* servers that cannot be started

VARIABLES
    services,   \* m.services[name]: ids of its entries, "*" the wildcard; Absent
    live,       \* node -> servers running for it; one no entry knows stays for ever
    closing,    \* nodes with a server between unregister and the end of Shutdown
    star,       \* servers running for the wildcard
    wanted,     \* nodes whose owner has called Register and has not left
    call,       \* the call that holds m.Lock: [pc, todo, base, err]
    faults,
    net,        \* announcements and goodbyes on their way: [node, ttl]
    listener,   \* m.listener: "made" by New, "listening", or nil
    watching,   \* there is a watcher, and
    heard       \* the nodes it has returned from Next

mdnsVars == <<services, live, closing, star, wanted, call, faults, net,
              listener, watching, heard>>

Absent  == {"absent"}
Free    == [pc |-> "free", todo |-> {}, base |-> {}, err |-> FALSE]

MdnsInit ==
    /\ services = Absent /\ live = [n \in Nodes |-> 0] /\ closing = {} /\ star = 0
    /\ wanted = {} /\ call = Free /\ faults = 0
    /\ net = {}
    /\ listener = "made" /\ watching = FALSE /\ heard = {}

Fault == faults < MaxFaults /\ faults' = faults + 1

---------------------------------------------------------------------------
(* Register                                                                *)

\* The first entry needs the wildcard's server; nodes that have an entry are
\* left as they are.
Register(S) ==
    /\ call.pc = "free"
    /\ wanted' = wanted \cup S
    /\ \/ /\ services = Absent /\ star' = star + 1 /\ UNCHANGED faults
          /\ call' = [pc |-> "start", todo |-> S, base |-> {"*"}, err |-> FALSE]
       \/ /\ services = Absent /\ Fault
          /\ UNCHANGED <<call, star>>
       \/ /\ services # Absent
          /\ call' = [pc |-> "start", todo |-> S \ services, base |-> services, err |-> FALSE]
          /\ UNCHANGED <<faults, star>>
    /\ UNCHANGED <<services, live, closing, net, listener, watching, heard>>

\* NewServer for a node; when it cannot, the loop goes on with the others.
StartNode(n) ==
    /\ call.pc = "start" /\ n \in call.todo
    /\ \/ /\ live' = [live EXCEPT ![n] = @ + 1]
          /\ call' = [call EXCEPT !.todo = @ \ {n}, !.base = @ \cup {n}]
          /\ UNCHANGED faults
       \/ /\ Fault
          /\ call' = [call EXCEPT !.todo = @ \ {n}, !.err = TRUE]
          /\ UNCHANGED <<live>>
    /\ UNCHANGED <<services, closing, star, wanted, net, listener, watching, heard>>

\* The entries are saved only when no node has failed: the servers that were
\* started for the others run on, and nothing knows them.
RegisterEnds ==
    /\ call.pc = "start" /\ call.todo = {}
    /\ services' = IF call.err THEN services ELSE call.base
    /\ call' = Free
    /\ UNCHANGED <<live, closing, star, wanted, faults, net, listener, watching, heard>>

---------------------------------------------------------------------------
(* Deregister                                                              *)

Deregister(S) ==
    /\ call.pc = "free"
    /\ wanted' = wanted \ S
    /\ call' = [pc |-> "stop", todo |-> services \cap S,
                base |-> services \ (S \cup Absent), err |-> FALSE]
    /\ UNCHANGED <<services, live, closing, star, faults, net, listener, watching, heard>>

\* Server.Shutdown: the records' time to live is 0 from here, and a last
\* datagram says so ...
Unregister(n) ==
    /\ call.pc = "stop" /\ n \in call.todo \ closing
    /\ live' = [live EXCEPT ![n] = @ - 1]
    /\ closing' = closing \cup {n}
    /\ net' = net \cup {[node |-> n, ttl |-> FALSE]}
    /\ UNCHANGED <<services, star, wanted, call, faults, listener, watching, heard>>

\* ... then the connections are closed and the prober has ended.
Closed(n) ==
    /\ call.pc = "stop" /\ n \in closing
    /\ closing' = closing \ {n}
    /\ call' = [call EXCEPT !.todo = @ \ {n}]
    /\ UNCHANGED <<services, live, star, wanted, faults, net, listener, watching, heard>>

\* Mutated form: the node that is left goes with the one that is removed.
DeregisterEndsAll ==
    /\ call.pc = "stop" /\ call.todo = {}
    /\ live' = [n \in Nodes |-> IF n \in services THEN 0 ELSE live[n]]
    /\ services' = Absent /\ star' = 0
    /\ call' = Free
    /\ UNCHANGED <<closing, wanted, faults, net, listener, watching, heard>>

\* The wildcard goes with the last node.  A service that was not there is now,
\* without an entry.
DeregisterEnds ==
    /\ call.pc = "stop" /\ call.todo = {}
    /\ IF call.base = {"*"}
       THEN star' = star - 1 /\ services' = Absent
       ELSE services' = call.base /\ UNCHANGED star
    /\ call' = Free
    /\ UNCHANGED <<live, closing, wanted, faults, net, listener, watching, heard>>

---------------------------------------------------------------------------
(* Servers and the network                                                 *)

Up(n) == live[n] > 0

\* probe: announcements of a new server; one can still be sent in Shutdown.
Announce(n) ==
    /\ Up(n) \/ n \in closing
    /\ net' = net \cup {[node |-> n, ttl |-> TRUE]}
    /\ UNCHANGED <<services, live, closing, star, wanted, call, faults,
                   listener, watching, heard>>

---------------------------------------------------------------------------
(* Watcher                                                                 *)

\* The listener is started by the first watcher that finds none.
Watch ==
    /\ ~watching /\ watching' = TRUE
    /\ listener' = IF listener = "nil" THEN "listening" ELSE listener
    /\ heard' = {}
    /\ UNCHANGED <<services, live, closing, star, wanted, call, faults, net>>

StopWatcher ==
    /\ watching /\ watching' = FALSE
    /\ UNCHANGED <<services, live, closing, star, wanted, call, faults, net, listener, heard>>

\* Listen hands an announcement to the watcher, whose Next returns it.
Hear(m) ==
    /\ listener = "listening" /\ watching /\ m \in net
    /\ net' = net \ {m}
    /\ heard' = IF m.ttl THEN heard \cup {m.node} ELSE heard \ {m.node}
    /\ UNCHANGED <<services, live, closing, star, wanted, call, faults, listener, watching>>

NodeLists == SUBSET Nodes \ {{}}

MdnsNext ==
    \/ \E S \in NodeLists : Register(S) \/ Deregister(S)
    \/ \E n \in Nodes : StartNode(n) \/ Unregister(n) \/ Closed(n) \/ Announce(n)
    \/ RegisterEnds \/ DeregisterEnds
    \/ Watch \/ StopWatcher

MdnsSpec == MdnsInit /\ [][MdnsNext]_mdnsVars

\* A network that loses nothing, for a watcher: calls go on, servers announce
\* themselves and what is announced is heard.
MdnsWatchSpec ==
    /\ MdnsInit /\ [][MdnsNext \/ \E m \in net : Hear(m)]_mdnsVars
    /\ WF_mdnsVars(RegisterEnds) /\ WF_mdnsVars(DeregisterEnds)
    /\ \A n \in Nodes :
         /\ WF_mdnsVars(StartNode(n)) /\ WF_mdnsVars(Unregister(n)) /\ WF_mdnsVars(Closed(n))
         /\ SF_mdnsVars(Announce(n))
         /\ SF_mdnsVars(\E m \in net : m.node = n /\ Hear(m))

---------------------------------------------------------------------------
(* Properties                                                              *)

MdnsBackend == INSTANCE RegistryPromise WITH
    st <- [n \in Nodes |->
        [want |-> n \in wanted, visible |-> Up(n),
         age |-> IF n \in wanted /\ n \in services THEN "fresh" ELSE "out"]]

\* Register, Deregister: a node with an entry is answered for until its owner
\* leaves, whatever is registered, fails and is removed beside it.
MdnsPromise == MdnsBackend!PSpec

MdnsTypeOK ==
    /\ live \in [Nodes -> Nat] /\ wanted \subseteq Nodes
    /\ call \in [pc : {"free", "start", "stop"}, todo : SUBSET Nodes,
                 base : SUBSET (Nodes \cup {"*", "absent"}), err : BOOLEAN]
    /\ services \subseteq Nodes \cup {"*", "absent"}

\* A node with an entry, or with one that is about to be saved, is answered for,
\* unless its removal is under way; and that no owner wants any more.
Answered(n) ==
    /\ n \in services => Up(n) \/ (call.pc = "stop" /\ n \notin call.base)
    /\ call.pc = "start" => /\ n \in call.todo => n \in wanted
                            /\ n \in services => n \in call.base
                            /\ n \in call.base => Up(n)
    /\ call.pc = "stop" => /\ n \in call.todo => n \notin wanted /\ n \notin call.base
                           /\ n \in call.todo \ closing => Up(n)
                           /\ n \in call.base => n \in services
                           /\ n \in services \cap wanted => n \in call.base

\* The inductive invariant behind MdnsPromise.
MdnsInv == MdnsTypeOK /\ \A n \in Nodes : Answered(n)

\* mdns_test.go 309: a watcher hears of a node that is registered.
MdnsWatchHears == \A n \in Nodes :
    (watching /\ n \in services) ~> (n \in heard \/ ~watching \/ n \notin services)
==========================================================================
