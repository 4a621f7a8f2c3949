---------------------------- MODULE RouterStore ----------------------------
(***************************************************************************)
(* How a process turns discovered services into proxy routes without ever  *)
(* proxying to itself: the cacher's record of what this process registered *)
(* (registry_cacher.go Register, trackLocalService, withNodesOf,           *)
(* Deregister), and the two router goroutines watch and refresh that run   *)
(* store (router.go).                                                      *)
(*                                                                         *)
(* What GetService hands to store is any set of nodes that were registered *)
(* under the name: the guarantee of the cacher (NoPhantom in               *)
(* RegistryCacher).  Version is left out: every service has one.           *)
(***************************************************************************)
EXTENDS Naturals, Sequences, SequencesExt

CONSTANTS
    Servers,        \* servers of this process; each registers one service
    SvcOf,          \* server -> the service it registers
    NodeOf,         \* server -> its node
    Services, Nodes,
    AddrOf,         \* node -> its normalised address
    HttpNodes,      \* nodes that do not declare a protocol other than http
    Paths,
    Endpoints,      \* service -> the paths of its http endpoints
    LocalPaths,     \* paths this process has handlers for
    LateMount,      \* local handlers may be mounted after discovery started
    NoEntry,
    MaxChanges,     \* bound: changes made by other processes, leases that end
    MaxRegisters    \* bound: calls of Register per server

Routers == {"watch", "refresh"}
Own == {NodeOf[k] : k \in Servers}

ASSUME TopologyAssumption ==
    /\ SvcOf \in [Servers -> Services] /\ NodeOf \in [Servers -> Nodes]
    /\ HttpNodes \subseteq Nodes /\ LocalPaths \subseteq Paths
    /\ Endpoints \in [Services -> SUBSET Paths]
    /\ LateMount \in BOOLEAN
    /\ MaxChanges \in Nat /\ MaxRegisters \in Nat
    /\ NoEntry \notin Servers /\ Services \cap {"none", "local"} = {}

VARIABLES
    reg,            \* external: service -> nodes registered now
    ever,           \* history: service -> nodes registered at some time
    localServices,  \* sequence of [svc, by, nodes]
    server,         \* per server: pc, and what restore needs: index and old entry
    router,         \* per goroutine in store: pc, service, nodes, paths left
    round,          \* the round of refresh: local records and services at its start
    tree,           \* path -> "none", "local", or the service it is proxied to
    changes, registers

vars == <<reg, ever, localServices, server, router, round, tree, changes, registers>>

\* A router goroutine that is not in store.
At(pc) == [pc |-> pc, svc |-> NoEntry, nodes |-> {}, todo |-> {}, path |-> NoEntry]

Init ==
    /\ reg = [s \in Services |-> {}] /\ ever = reg
    /\ localServices = <<>>
    /\ server = [k \in Servers |-> [pc |-> "down", i |-> 0, old |-> NoEntry]]
    /\ router = [g \in Routers |-> At("wait")]
    /\ round = [locals |-> {}, left |-> {}]
    /\ tree = [p \in Paths |-> "none"]
    /\ changes = 0 /\ registers = [k \in Servers |-> 0]

---------------------------------------------------------------------------
(* The registry (external)                                                 *)

Enter(s, n) ==
    /\ reg' = [reg EXCEPT ![s] = @ \cup {n}]
    /\ ever' = [ever EXCEPT ![s] = @ \cup {n}]

\* Another process registers or deregisters; a lease of ours ends.
Others(s, n) ==
    /\ changes < MaxChanges
    /\ changes' = changes + 1
    /\ \/ n \notin Own /\ n \notin reg[s] /\ Enter(s, n)
       \/ /\ n \in reg[s]
          /\ reg' = [reg EXCEPT ![s] = @ \ {n}]
          /\ UNCHANGED ever
    /\ UNCHANGED <<localServices, server, router, round, tree, registers>>

---------------------------------------------------------------------------
(* Register and Deregister of the cacher                                   *)

Entry(s, k, nodes) == [svc |-> s, by |-> k, nodes |-> nodes]

IndexOf(s) == {i \in DOMAIN localServices : localServices[i].svc = s}

\* Mutated form: the entry of the service is not looked for.
TrackedAppends(e) == Append(localServices, e)

\* trackLocalService: replace the entry of the service or append one.  What
\* restore needs is kept: the index and the old entry, or 0.
Tracked(e) ==
    IF IndexOf(e.svc) = {} THEN Append(localServices, e)
    ELSE [i \in DOMAIN localServices |-> IF i \in IndexOf(e.svc) THEN e
                                         ELSE localServices[i]]

SetServer(k, pc) == server' = [server EXCEPT ![k].pc = pc]

\* Register, the first time or again as the server's timer has it: record our
\* identity before anything else.
Register(k) ==
    LET s == SvcOf[k]
    IN  /\ server[k].pc \in {"down", "up"} /\ registers[k] < MaxRegisters
        /\ registers' = [registers EXCEPT ![k] = @ + 1]
        /\ localServices' = Tracked(Entry(s, k, {NodeOf[k]}))
        /\ server' = [server EXCEPT ![k] =
             IF IndexOf(s) = {} THEN [pc |-> "write", i |-> 0, old |-> NoEntry]
             ELSE LET i == CHOOSE j \in IndexOf(s) : TRUE
                  IN  [pc |-> "write", i |-> i, old |-> localServices[i]]]
        /\ UNCHANGED <<reg, ever, router, round, tree, changes>>

\* The registry accepts the record.
Write(k) ==
    /\ server[k].pc = "write"
    /\ Enter(SvcOf[k], NodeOf[k])
    /\ SetServer(k, "readback")
    /\ UNCHANGED <<localServices, router, round, tree, changes, registers>>

\* Mutated form: a failed Register takes the entry out, old or new.
RestoredRemoves(k) ==
    LET mine == {j \in DOMAIN localServices : localServices[j].svc = SvcOf[k]}
    IN  IF mine = {} THEN localServices
        ELSE RemoveAt(localServices, CHOOSE j \in mine : TRUE)

\* restore: put the old entry back, or take the new one out - if it is still
\* the one this Register put there.
Restored(k) ==
    LET i == server[k].i
        mine == {j \in DOMAIN localServices :
                   localServices[j].by = k /\ localServices[j].svc = SvcOf[k]}
    IN  CASE i > 0 /\ i \in mine -> [localServices EXCEPT ![i] = server[k].old]
          [] i = 0 /\ mine # {}  -> RemoveAt(localServices, CHOOSE j \in mine : TRUE)
          [] OTHER               -> localServices

\* The registry returns an error, having applied the record or not.
WriteFails(k) ==
    /\ server[k].pc = "write"
    /\ \/ Enter(SvcOf[k], NodeOf[k])
       \/ UNCHANGED <<reg, ever>>
    /\ localServices' = Restored(k)
    /\ SetServer(k, IF server[k].i > 0 THEN "up" ELSE "down")
    /\ UNCHANGED <<router, round, tree, changes, registers>>

\* Mutated form: the record as the registry has it, everybody's nodes in it.
withNodesOfAll(nodes, mine) == nodes

\* withNodesOf: of the nodes the registry has, those that are ours.
withNodesOf(nodes, mine) ==
    IF nodes \cap mine = {} THEN mine ELSE nodes \cap mine

\* The service is read back and its record narrowed to our nodes; nothing to do
\* when that fails or the service is not there.
ReadBack(k) ==
    LET s == SvcOf[k]
    IN  /\ server[k].pc = "readback"
        /\ \/ /\ reg[s] # {}
              /\ localServices' =
                   Tracked(Entry(s, k, withNodesOf(reg[s], {NodeOf[k]})))
           \/ UNCHANGED localServices
        /\ SetServer(k, "up")
        /\ UNCHANGED <<reg, ever, router, round, tree, changes, registers>>

\* The local records without those of a service: there is one at most (TypeOK).
Forgotten(s) ==
    IF IndexOf(s) = {} THEN localServices
    ELSE RemoveAt(localServices, CHOOSE i \in IndexOf(s) : TRUE)

\* Deregister: forget the service, then tell the registry.
Deregister(k) ==
    /\ server[k].pc = "up"
    /\ localServices' = Forgotten(SvcOf[k])
    /\ SetServer(k, "leave")
    /\ UNCHANGED <<reg, ever, router, round, tree, changes, registers>>

\* The registry drops the node, or returns an error.
Left(k) ==
    /\ server[k].pc = "leave"
    /\ \/ reg' = [reg EXCEPT ![SvcOf[k]] = @ \ {NodeOf[k]}]
       \/ UNCHANGED reg
    /\ SetServer(k, "down")
    /\ UNCHANGED <<ever, localServices, router, round, tree, changes, registers>>

---------------------------------------------------------------------------
(* The routing tree and the router goroutines                              *)

\* A module mounts a handler: AddRoute replaces what is at the path.
Mount(p) ==
    /\ p \in LocalPaths /\ tree[p] # "local"
    /\ LateMount \/ \A g \in Routers : router[g].pc = "wait"
    /\ tree' = [tree EXCEPT ![p] = "local"]
    /\ UNCHANGED <<reg, ever, localServices, server, router, round, changes, registers>>

\* Discovery starts five seconds after the router.  Unless handlers may come
\* later, they are all there by then.
Wake(g) ==
    /\ router[g].pc = "wait"
    /\ LateMount \/ \A p \in LocalPaths : tree[p] = "local"
    /\ router' = [router EXCEPT ![g].pc = "idle"]
    /\ UNCHANGED <<reg, ever, localServices, server, round, tree, changes, registers>>

\* Where store returns to.
Resume(g) == IF g = "refresh" THEN "round" ELSE "idle"

\* The nodes a GetService may return.
Snapshots(s) == (SUBSET ever[s]) \ {{}}

Begin(g, s, nodes) ==
    router' = [router EXCEPT ![g] = [pc |-> "store", svc |-> s, nodes |-> nodes,
                                     todo |-> {}, path |-> NoEntry]]

\* watch: an event names a service; look it up and store it.
WatchEvent(s) ==
    /\ router["watch"].pc = "idle"
    /\ \E nodes \in Snapshots(s) : Begin("watch", s, nodes)
    /\ UNCHANGED <<reg, ever, localServices, server, round, tree, changes, registers>>

\* The local records as isLocalService compares them: by service and nodes.
Locals == {[svc |-> localServices[i].svc, nodes |-> localServices[i].nodes] :
             i \in DOMAIN localServices}

\* refresh, a round: first LocalServices ...
RefreshRound ==
    /\ router["refresh"].pc = "idle"
    /\ router' = [router EXCEPT !["refresh"].pc = "list"]
    /\ round' = [locals |-> Locals, left |-> {}]
    /\ UNCHANGED <<reg, ever, localServices, server, tree, changes, registers>>

\* ... then ListServices.  (An error of it only costs time.)  Of the local records,
\* those that are equal to a listed one matter.
RefreshList ==
    /\ router["refresh"].pc = "list"
    /\ router' = [router EXCEPT !["refresh"].pc = "round"]
    /\ LET list == {[svc |-> s, nodes |-> reg[s]] :
                       s \in {t \in Services : reg[t] # {}}}
       IN  round' = [locals |-> round.locals \cap list, left |-> list]
    /\ UNCHANGED <<reg, ever, localServices, server, tree, changes, registers>>

\* isLocalService: a local record has the same nodes.
isLocalService(listed, locals) == listed \in locals

\* refresh, per service listed: look it up and store it, or skip it because it
\* is local or cannot be looked up.  LocalServices returns the slice itself, which
\* Register writes in place: the local records are those of the start of the
\* round or those of now.
RefreshService(listed) ==
    /\ router["refresh"].pc = "round" /\ listed \in round.left
    /\ round' = [locals |-> round.locals \ {listed}, left |-> round.left \ {listed}]
    /\ \/ UNCHANGED router
       \/ /\ \E locals \in {round.locals, Locals} : ~isLocalService(listed, locals)
          /\ \E nodes \in Snapshots(listed.svc) : Begin("refresh", listed.svc, nodes)
    /\ UNCHANGED <<reg, ever, localServices, server, tree, changes, registers>>

\* refresh sleeps until the next round.
RefreshEnds ==
    /\ router["refresh"].pc = "round" /\ round.left = {}
    /\ router' = [router EXCEPT !["refresh"].pc = "idle"]
    /\ round' = [locals |-> {}, left |-> {}]
    /\ UNCHANGED <<reg, ever, localServices, server, tree, changes, registers>>

\* localIdentity: the ids and the addresses of our nodes.
Ids == UNION {localServices[i].nodes : i \in DOMAIN localServices}

\* filteSelf and filteHttpNodes.
Forwardable(nodes) ==
    {n \in nodes : /\ n \notin Ids /\ AddrOf[n] \notin {AddrOf[m] : m \in Ids}
                   /\ n \in HttpNodes}

\* Mutated form: not knowing ourselves, take every node for another's.
IdentifyAnyway(g) ==
    /\ router[g].pc = "store"
    /\ IF Forwardable(router[g].nodes) = {}
       THEN router' = [router EXCEPT ![g] = At(Resume(g))]
       ELSE router' = [router EXCEPT ![g].pc = "paths", ![g].nodes = {},
                                     ![g].todo = Endpoints[router[g].svc]]
    /\ UNCHANGED <<reg, ever, localServices, server, round, tree, changes, registers>>

\* store: without an identity nothing is stored; without a node of another
\* process neither.
Identify(g) ==
    /\ router[g].pc = "store"
    /\ IF localServices = <<>> \/ Forwardable(router[g].nodes) = {}
       THEN router' = [router EXCEPT ![g] = At(Resume(g))]
       ELSE router' = [router EXCEPT ![g].pc = "paths", ![g].nodes = {},
                                     ![g].todo = Endpoints[router[g].svc]]
    /\ UNCHANGED <<reg, ever, localServices, server, round, tree, changes, registers>>

\* Mutated form: no shield for local routes.
hasLocalRouteNever(p) == FALSE

\* hasLocalRoute, under the tree's read lock.
hasLocalRoute(p) == tree[p] = "local"

\* store, per endpoint: is the path served here?
CheckPath(g, p) ==
    /\ router[g].pc = "paths" /\ p \in router[g].todo
    /\ router' = [router EXCEPT ![g].todo = @ \ {p},
                                ![g].pc = IF hasLocalRoute(p) THEN "paths" ELSE "add",
                                ![g].path = IF hasLocalRoute(p) THEN NoEntry ELSE p]
    /\ UNCHANGED <<reg, ever, localServices, server, round, tree, changes, registers>>

\* store: AddRoute, under the write lock: a later step.
AddRoute(g) ==
    /\ router[g].pc = "add"
    /\ tree' = [tree EXCEPT ![router[g].path] = router[g].svc]
    /\ router' = [router EXCEPT ![g].pc = "paths", ![g].path = NoEntry]
    /\ UNCHANGED <<reg, ever, localServices, server, round, changes, registers>>

\* store returns.
StoreEnds(g) ==
    /\ router[g].pc = "paths" /\ router[g].todo = {}
    /\ router' = [router EXCEPT ![g] = At(Resume(g))]
    /\ UNCHANGED <<reg, ever, localServices, server, round, tree, changes, registers>>

---------------------------------------------------------------------------
Next ==
    \/ \E s \in Services, n \in Nodes : Others(s, n)
    \/ \E k \in Servers : \/ Register(k) \/ Write(k) \/ WriteFails(k) \/ ReadBack(k)
                          \/ Deregister(k) \/ Left(k)
    \/ \E p \in Paths : Mount(p)
    \/ \E s \in Services : WatchEvent(s)
    \/ RefreshRound \/ RefreshList \/ RefreshEnds
    \/ \E listed \in round.left : RefreshService(listed)
    \/ \E g \in Routers : \/ Wake(g) \/ Identify(g) \/ AddRoute(g) \/ StoreEnds(g)
                          \/ \E p \in Paths : CheckPath(g, p)

Spec == Init /\ [][Next]_vars

---------------------------------------------------------------------------
(* Properties                                                              *)

Listed    == [svc : Services, nodes : SUBSET Nodes]
LocalType == [svc : Services, by : Servers, nodes : SUBSET Nodes]

ServerPcs  == {"down", "write", "readback", "up", "leave"}
ServerType == [pc : ServerPcs, i : Nat, old : LocalType \cup {NoEntry}]
RouterPcs  == {"wait", "idle", "list", "round", "store", "paths", "add"}
RouterType == [pc : RouterPcs, svc : Services \cup {NoEntry}, nodes : SUBSET Nodes,
               todo : SUBSET Paths, path : Paths \cup {NoEntry}]

\* Every variable keeps its type, and no service is recorded twice.
TypeOK ==
    /\ reg \in [Services -> SUBSET Nodes] /\ ever \in [Services -> SUBSET Nodes]
    /\ localServices \in Seq(LocalType)
    /\ \A i, j \in DOMAIN localServices :
         localServices[i].svc = localServices[j].svc => i = j
    /\ server \in [Servers -> ServerType]
    /\ router \in [Routers -> RouterType]
    /\ round \in [locals : SUBSET Listed, left : SUBSET Listed]
    /\ tree \in [Paths -> Services \cup {"none", "local"}]
    /\ changes \in Nat /\ registers \in [Servers -> Nat]

\* A node of another process is never taken for ours, although the registry
\* merges the nodes of all processes under one name: a service would lose its
\* proxy routes.
IdentityIsOurs == Ids \subseteq Own

\* A server knows its own node from before the registry shows it to others
\* until it deregisters: whatever other servers of the process register, fail
\* to register or deregister meanwhile.
KnownWhenVisible == \A k \in Servers :
    /\ server[k].pc \in {"write", "readback", "up"}
    /\ \A m \in Servers : SvcOf[m] = SvcOf[k] => m = k
    => NodeOf[k] \in Ids

\* Some process other than this one has offered the service over http, from
\* another address than ours.
OfferedElsewhere(s) == \E n \in ever[s] :
    n \in HttpNodes /\ n \notin Own /\ AddrOf[n] \notin {AddrOf[m] : m \in Own}

OneNode == \A k, m \in Servers : NodeOf[k] = NodeOf[m]

\* A path is proxied only to a service that another process has offered: no
\* request is forwarded to this process, not while a registration is half done,
\* nor after one that failed but took effect, nor during deregistration, if the
\* servers of the process share their node.
NoSelfProxy == \A p \in Paths :
    tree[p] \in Services /\ OneNode => OfferedElsewhere(tree[p])

\* A record of what a server registered: its service with its node.
IsEntry(e) == e.by \in Servers /\ e.svc = SvcOf[e.by] /\ e.nodes = {NodeOf[e.by]}

\* The local records, and those kept for restore, are of that kind.  The only
\* server of its service has a record from Register to Deregister.
LocalInv ==
    /\ \A i \in DOMAIN localServices : IsEntry(localServices[i])
    /\ \A k \in Servers : server[k].i > 0 =>
         server[k].old \in LocalType /\ IsEntry(server[k].old) /\ server[k].old.svc = SvcOf[k]
    /\ \A k \in Servers :
         /\ server[k].pc \in {"write", "readback", "up"}
         /\ \A m \in Servers : SvcOf[m] = SvcOf[k] => m = k
         => IndexOf(SvcOf[k]) # {}

\* A goroutine in store has nodes that were registered; past Identify its service
\* is offered elsewhere, and the path it adds was not local when it looked.
StoreInv == \A g \in Routers :
    /\ router[g].pc \in {"store", "paths", "add"} => router[g].svc \in Services
    /\ router[g].pc = "store" => router[g].nodes \subseteq ever[router[g].svc]
    /\ router[g].pc \in {"paths", "add"} /\ OneNode => OfferedElsewhere(router[g].svc)
    /\ router[g].pc = "add" => /\ router[g].path \in Paths
                               /\ ~LateMount => tree[router[g].path] # "local"

\* The inductive strengthening of IdentityIsOurs, KnownWhenVisible, NoSelfProxy
\* and LocalRouteKept.
RouterInv == TypeOK /\ LocalInv /\ StoreInv /\ NoSelfProxy

\* A path that has a local handler is never taken over by a proxy route.
LocalRouteKept == [][\A p \in Paths : tree[p] = "local" => tree'[p] = "local"]_vars
============================================================================
