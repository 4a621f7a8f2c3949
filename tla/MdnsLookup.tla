--------------------------- MODULE MdnsLookup ----------------------------
(***************************************************************************)
(* A lookup of the mdns registry (registry/mdns GetService) over the mdns  *)
(* client and servers (internal/mdns): a question by multicast, and the    *)
(* answers that arrive within its time.  Datagrams arrive in any order,    *)
(* more than once or never; all nodes are on one host.                     *)
(***************************************************************************)
EXTENDS FiniteSets

CONSTANT Nodes

VARIABLES
    server,     \* node -> "down", "up", or "closing": in Shutdown
    net,        \* datagrams on their way: [kind, node, ttl]
    query       \* the lookup, and what happened in it

lookupVars == <<server, net, query>>

NoInp   == [addr |-> {}, port |-> FALSE, txt |-> FALSE, ttl |-> FALSE, sent |-> FALSE]

\* inp is inprogress, host the entry the host's name is an alias of, found the
\* nodes the lookup returns.  Of the past: nodes that were up, that answered
\* while they were, and whose goodbye came.
NoQuery == [pc |-> "none", inp |-> [n \in Nodes |-> NoInp], host |-> "none", found |-> {},
            during |-> {}, answered |-> {}, goodbye |-> {}]

LookupInit == server = [n \in Nodes |-> "down"] /\ net = {} /\ query = NoQuery

---------------------------------------------------------------------------
(* Servers                                                                 *)

Datagram(kind, n, ttl) == [kind |-> kind, node |-> n, ttl |-> ttl]

NewServer(n) ==
    /\ server[n] = "down" /\ server' = [server EXCEPT ![n] = "up"]
    /\ query' = IF query.pc = "run" THEN [query EXCEPT !.during = @ \cup {n}] ELSE query
    /\ UNCHANGED net

\* probe: announcements of a new server; one can still be sent in Shutdown.
Announce(n) ==
    /\ server[n] # "down" /\ Datagram("announce", n, TRUE) \notin net
    /\ net' = net \cup {Datagram("announce", n, TRUE)}
    /\ UNCHANGED <<server, query>>

\* Shutdown: the records' time to live is 0 from here, and a last datagram
\* says so; then the connections are closed.
Unregister(n) ==
    /\ server[n] = "up" /\ server' = [server EXCEPT ![n] = "closing"]
    /\ net' = net \cup {Datagram("goodbye", n, FALSE)}
    /\ UNCHANGED query

Closed(n) ==
    /\ server[n] = "closing" /\ server' = [server EXCEPT ![n] = "down"]
    /\ UNCHANGED <<net, query>>

\* handleQuery of the lookup's question
Answer(n) ==
    /\ query.pc = "run" /\ server[n] # "down"
    /\ net' = net \cup {Datagram("answer", n, server[n] = "up")}
    /\ query' = IF server[n] = "up" THEN [query EXCEPT !.answered = @ \cup {n}] ELSE query
    /\ UNCHANGED server

---------------------------------------------------------------------------
(* GetService: client.query and messageToEntry                             *)

complete(e) == e.addr # {} /\ e.port /\ e.txt

\* One record of a datagram is put into the entry it names, unless that is
\* complete; the time to live of the last one counts.
Put(e, new, ttl) == IF complete(e) THEN e ELSE [new EXCEPT !.ttl = ttl]

\* The records of a datagram in their order: SRV; A, which names the host and so
\* goes to the entry the host's name is an alias of; TXT.
PutRecords(q, m, alias) ==
    LET n    == m.node
        srv  == [q.inp EXCEPT ![n] = Put(@, [@ EXCEPT !.port = TRUE], m.ttl)]
        addr == [srv EXCEPT ![alias] = Put(@, [@ EXCEPT !.addr = {n}], m.ttl)]
    IN [q EXCEPT !.host = alias,
                 !.inp = [addr EXCEPT ![n] = Put(@, [@ EXCEPT !.txt = TRUE], m.ttl)]]

\* Mutated form: the alias stays with the first node.
messageToEntryOnce(q, m) == PutRecords(q, m, IF q.host = "none" THEN m.node ELSE q.host)

\* The SRV record makes the host's name an alias of the node it is of.
messageToEntry(q, m) == PutRecords(q, m, m.node)

QueryStart ==
    /\ query.pc = "none"
    /\ query' = [NoQuery EXCEPT !.pc = "run", !.during = {n \in Nodes : server[n] # "down"}]
    /\ UNCHANGED <<server, net>>

\* Mutated form: what nobody has asked for is not discarded.
AcceptAll(q, m) ==
    IF q.inp[m.node].sent THEN q
    ELSE [q EXCEPT !.inp[m.node].sent = TRUE,
                   !.found = IF q.inp[m.node].ttl
                             THEN @ \cup {[node |-> m.node, addr |-> q.inp[m.node].addr]} ELSE @]

\* An entry is passed on once, if the datagram answers this question and it is
\* complete; GetService leaves out one whose time to live is 0.
Accept(q, m) ==
    IF m.kind # "answer" \/ ~complete(q.inp[m.node]) \/ q.inp[m.node].sent THEN q
    ELSE [q EXCEPT !.inp[m.node].sent = TRUE,
                   !.found = IF q.inp[m.node].ttl
                             THEN @ \cup {[node |-> m.node, addr |-> q.inp[m.node].addr]} ELSE @]

\* A datagram arrives, for the last time or not.
Receive(m) ==
    /\ query.pc = "run" /\ net' \in {net, net \ {m}}
    /\ query' = [Accept(messageToEntry(query, m), m) EXCEPT
                     !.goodbye = IF m.ttl THEN @ ELSE @ \cup {m.node}]
    /\ UNCHANGED server

\* Its time is over; late answers have nowhere to go.
QueryEnd ==
    /\ query.pc = "run" /\ query' = NoQuery
    /\ net' = {m \in net : m.kind # "answer"}
    /\ UNCHANGED server

LookupNext ==
    \/ \E n \in Nodes : NewServer(n) \/ Announce(n) \/ Unregister(n) \/ Closed(n) \/ Answer(n)
    \/ \E m \in net : Receive(m)
    \/ QueryStart \/ QueryEnd

LookupSpec == LookupInit /\ [][LookupNext]_lookupVars

---------------------------------------------------------------------------
(* Properties                                                              *)

\* GetService, messageToEntry: a lookup returns a node only under its own
\* address, though the nodes of a host share its name, and only one that had a
\* server while the lookup ran: not one an announcement or a goodbye that was
\* on its way speaks of.
LookupSound == \A f \in query.found : f.addr = {f.node} /\ f.node \in query.during

\* ... and it returns a node whose answer has arrived, whatever came before it,
\* unless that was a goodbye: then a node that has started again is missed.
LookupComplete == \A n \in query.answered \ query.goodbye :
    Datagram("answer", n, TRUE) \in net \/ \E f \in query.found : f.node = n

LookupTypeOK ==
    /\ server \in [Nodes -> {"down", "up", "closing"}]
    /\ net \subseteq [kind : {"announce", "goodbye", "answer"}, node : Nodes, ttl : BOOLEAN]
    /\ query \in [pc : {"none", "run"},
                  inp : [Nodes -> [addr : SUBSET Nodes, port : BOOLEAN, txt : BOOLEAN,
                                   ttl : BOOLEAN, sent : BOOLEAN]],
                  host : Nodes \cup {"none"}, found : SUBSET [node : Nodes, addr : SUBSET Nodes],
                  during : SUBSET Nodes, answered : SUBSET Nodes, goodbye : SUBSET Nodes]

Found(q, n) == \E f \in q.found : f.node = n

\* An entry is empty, or it has all records of its node and of no other.
EntryOK(q, n) ==
    \/ q.inp[n] = NoInp
    \/ /\ q.inp[n].addr = {n} /\ q.inp[n].port /\ q.inp[n].txt
       /\ q.inp[n].ttl \/ n \in q.goodbye
       /\ q.inp[n].sent => Found(q, n) \/ n \in q.goodbye

\* The inductive invariant: an answer on its way is of a node that was up in
\* this lookup.
LookupInv ==
    /\ LookupTypeOK
    /\ query.pc = "none" => query = NoQuery /\ \A m \in net : m.kind # "answer"
    /\ query.pc = "run" => \A n \in Nodes : server[n] # "down" => n \in query.during
    /\ \A m \in net : m.kind = "answer" => m.node \in query.during
    /\ \A n \in Nodes : EntryOK(query, n)
    /\ LookupSound /\ LookupComplete
==========================================================================
