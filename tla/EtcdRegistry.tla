-------------------------- MODULE EtcdRegistry --------------------------
(***************************************************************************)
(* The etcd registry (registry/etcd/etcd.go): every node is one key under  *)
(* a lease, the owner renews it by calling Register again and again.       *)
(*                                                                         *)
(* One process owns one node.  What a service says is [node, eps]: the     *)
(* node's own fields and the service's endpoints; both only move on (a     *)
(* server never goes back to an earlier content).  Every request to etcd   *)
(* may fail; a failed Put or Delete may have been applied.  A request that *)
(* is applied after its caller has given up is not modelled.               *)
(***************************************************************************)
EXTENDS Integers, FiniteSets

CONSTANTS
    Nodes,      \* nodes, one process each
    Leases,     \* ids of leases; an id is used again when nothing refers to it
    MaxNode,    \* contents of a node
    MaxEps,     \* contents of the endpoints
    MaxFaults   \* failed requests

VARIABLES
    store,      \* node -> the key in etcd: [lease, node, eps], or NoKey
    ttl,        \* lease -> "dead", "fresh" or "due"
    leases,     \* e.leases: node -> lease, 0
    register,   \* e.register: node -> hash of the node's content, 0
    call,       \* node -> the call under way: [pc, lease, lost]
    arg,        \* node -> what the owner registers: [node, eps]
    wanted,     \* nodes whose owner is up and has called Register, not Deregister
    faults

etcdVars == <<store, ttl, leases, register, call, arg, wanted, faults>>

NoKey  == [lease |-> 0, node |-> 0, eps |-> 0]
Idle   == [pc |-> "idle", lease |-> 0, lost |-> FALSE]
First  == [node |-> 1, eps |-> 1]

EtcdInit ==
    /\ store = [n \in Nodes |-> NoKey]
    /\ ttl = [l \in Leases |-> "dead"]
    /\ leases = [n \in Nodes |-> 0]
    /\ register = [n \in Nodes |-> 0]
    /\ call = [n \in Nodes |-> Idle]
    /\ arg = [n \in Nodes |-> First]
    /\ wanted = {}
    /\ faults = 0

Goto(n, pc) == call' = [call EXCEPT ![n].pc = pc]
Return(n)   == call' = [call EXCEPT ![n] = Idle]

\* A request of n fails with an error, and the call returns it.
RequestFails(n) == faults < MaxFaults /\ faults' = faults + 1 /\ Return(n)

---------------------------------------------------------------------------
(* Register -> registerNode                                                *)

\* The lease that is known is renewed; else the key is looked for.
Register(n) ==
    /\ call[n].pc = "idle"
    /\ wanted' = wanted \cup {n}
    /\ call' = [call EXCEPT ![n] =
           [pc |-> IF leases[n] = 0 THEN "get" ELSE "renew", lease |-> leases[n], lost |-> FALSE]]
    /\ UNCHANGED <<store, ttl, leases, register, arg, faults>>

\* The service is registered with something new.
RegisterChanged(n) ==
    /\ call[n].pc = "idle" /\ n \in wanted
    /\ arg' \in {[arg EXCEPT ![n].node = @ + 1], [arg EXCEPT ![n].eps = @ + 1]}
    /\ arg'[n].node <= MaxNode /\ arg'[n].eps <= MaxEps
    /\ call' = [call EXCEPT ![n] =
           [pc |-> IF leases[n] = 0 THEN "get" ELSE "renew", lease |-> leases[n], lost |-> FALSE]]
    /\ UNCHANGED <<store, ttl, leases, register, wanted, faults>>

\* The lease and the hash of a key that is there are adopted.
GetKey(n) ==
    /\ call[n].pc = "get"
    /\ UNCHANGED <<store, ttl, arg, wanted>>
    /\ \/ RequestFails(n) /\ UNCHANGED <<leases, register>>
       \/ /\ IF store[n] = NoKey
             THEN Goto(n, "check") /\ UNCHANGED <<leases, register>>
             ELSE /\ leases' = [leases EXCEPT ![n] = store[n].lease]
                  /\ register' = [register EXCEPT ![n] = store[n].node]
                  /\ call' = [call EXCEPT ![n] = [pc |-> "renew", lease |-> store[n].lease, lost |-> FALSE]]
          /\ UNCHANGED faults

\* Mutated form: a lease that is gone is taken for a failure of the request.
RenewGivesUp(n) ==
    /\ call[n].pc = "renew"
    /\ IF ttl[call[n].lease] = "dead" THEN Return(n) /\ UNCHANGED ttl
       ELSE ttl' = [ttl EXCEPT ![call[n].lease] = "fresh"] /\ Goto(n, "check")
    /\ UNCHANGED <<store, leases, register, arg, wanted, faults>>

\* KeepAliveOnce
Renew(n) ==
    /\ call[n].pc = "renew"
    /\ \/ RequestFails(n) /\ UNCHANGED ttl
       \/ /\ IF ttl[call[n].lease] = "dead"
             THEN call' = [call EXCEPT ![n].pc = "check", ![n].lost = TRUE] /\ UNCHANGED ttl
             ELSE ttl' = [ttl EXCEPT ![call[n].lease] = "fresh"] /\ Goto(n, "check")
          /\ UNCHANGED faults
    /\ UNCHANGED <<store, leases, register, arg, wanted>>

\* Mutated form: the hash alone decides.
CheckHashOnly(n) ==
    /\ call[n].pc = "check"
    /\ IF register[n] = arg[n].node THEN Return(n) ELSE Goto(n, "grant")
    /\ UNCHANGED <<store, ttl, leases, register, arg, wanted, faults>>

\* Nothing to do when the hash of the node - not of the service - is the one
\* that was registered and the lease is there.
Check(n) ==
    /\ call[n].pc = "check"
    /\ IF register[n] = arg[n].node /\ ~call[n].lost THEN Return(n) ELSE Goto(n, "grant")
    /\ UNCHANGED <<store, ttl, leases, register, arg, wanted, faults>>

\* Ids that no key, no process and no call refers to.
Unused == {l \in Leases : \A n \in Nodes : l \notin {store[n].lease, leases[n], call[n].lease}}

\* Grant (the server always gives a time to live)
Grant(n) ==
    /\ call[n].pc = "grant"
    /\ \/ RequestFails(n) /\ UNCHANGED ttl
       \/ \E l \in Unused :
            /\ \A k \in Unused : l <= k
            /\ ttl' = [ttl EXCEPT ![l] = "fresh"]
            /\ call' = [call EXCEPT ![n].pc = "put", ![n].lease = l]
            /\ UNCHANGED faults
    /\ UNCHANGED <<store, leases, register, arg, wanted>>

Key(n) == [lease |-> call[n].lease, node |-> arg[n].node, eps |-> arg[n].eps]

\* Put, and the hash and the lease are saved.
Put(n) ==
    /\ call[n].pc = "put"
    /\ \/ /\ RequestFails(n)
          /\ store' \in {store, [store EXCEPT ![n] = Key(n)]}
          /\ UNCHANGED <<leases, register>>
       \/ /\ store' = [store EXCEPT ![n] = Key(n)]
          /\ leases' = [leases EXCEPT ![n] = call[n].lease]
          /\ register' = [register EXCEPT ![n] = arg[n].node]
          /\ Return(n) /\ UNCHANGED faults
    /\ UNCHANGED <<ttl, arg, wanted>>

---------------------------------------------------------------------------

\* Mutated form: the hash and the lease are kept.
DeregisterKeeps(n) ==
    /\ call[n].pc = "idle" /\ n \in wanted
    /\ wanted' = wanted \ {n}
    /\ Goto(n, "delete")
    /\ UNCHANGED <<store, ttl, leases, register, arg, faults>>

\* Deregister: the hash and the lease first, then the key.
Deregister(n) ==
    /\ call[n].pc = "idle" /\ n \in wanted
    /\ wanted' = wanted \ {n}
    /\ register' = [register EXCEPT ![n] = 0]
    /\ leases' = [leases EXCEPT ![n] = 0]
    /\ Goto(n, "delete")
    /\ UNCHANGED <<store, ttl, arg, faults>>

Delete(n) ==
    /\ call[n].pc = "delete"
    /\ \/ RequestFails(n) /\ store' \in {store, [store EXCEPT ![n] = NoKey]}
       \/ store' = [store EXCEPT ![n] = NoKey] /\ Return(n) /\ UNCHANGED faults
    /\ UNCHANGED <<ttl, leases, register, arg, wanted>>

---------------------------------------------------------------------------
(* The environment                                                         *)

\* The process dies at any point and comes back with an empty registry and
\* nothing registered; the key and the lease stay.
Crash(n) ==
    /\ faults < MaxFaults /\ faults' = faults + 1
    /\ n \in wanted
    /\ wanted' = wanted \ {n}
    /\ leases' = [leases EXCEPT ![n] = 0]
    /\ register' = [register EXCEPT ![n] = 0]
    /\ Return(n)
    /\ UNCHANGED <<store, ttl, arg>>

\* Time passes for a lease.  A call ends within its timeout, which is shorter
\* than a lease that has just been granted.
LeaseTick(l) ==
    /\ \A n \in Nodes : ~(call[n].pc = "put" /\ call[n].lease = l)
    /\ \/ ttl[l] = "fresh" /\ ttl' = [ttl EXCEPT ![l] = "due"] /\ UNCHANGED store
       \/ /\ ttl[l] = "due" /\ ttl' = [ttl EXCEPT ![l] = "dead"]
          /\ store' = [n \in Nodes |-> IF store[n].lease = l THEN NoKey ELSE store[n]]
    /\ UNCHANGED <<leases, register, call, arg, wanted, faults>>

Step(n) == GetKey(n) \/ Renew(n) \/ Check(n) \/ Grant(n) \/ Put(n) \/ Delete(n)

EtcdNext ==
    \/ \E n \in Nodes : Register(n) \/ RegisterChanged(n) \/ Deregister(n) \/ Step(n) \/ Crash(n)
    \/ \E l \in Leases : LeaseTick(l)

\* A call goes on, an owner calls again, and a lease that is not renewed ends.
EtcdFairness ==
    /\ \A n \in Nodes : WF_etcdVars(Step(n)) /\ WF_etcdVars(n \in wanted /\ Register(n))
    /\ \A l \in Leases : WF_etcdVars(LeaseTick(l))

EtcdSpec == EtcdInit /\ [][EtcdNext]_etcdVars /\ EtcdFairness

---------------------------------------------------------------------------
(* Properties                                                              *)

\* GetService: the nodes whose key is there
EtcdVisible == {n \in Nodes : store[n] # NoKey}

\* A node is confirmed while the process has its lease, alive, and the hash
\* of what it registers.
EtcdAge == [n \in Nodes |->
    IF n \in wanted /\ leases[n] # 0 /\ register[n] = arg[n].node THEN
        IF ttl[leases[n]] = "dead" THEN "out" ELSE ttl[leases[n]]
    ELSE "out"]

EtcdBackend == INSTANCE RegistryPromise WITH
    st <- [n \in Nodes |->
        [want |-> n \in wanted, visible |-> n \in EtcdVisible, age |-> EtcdAge[n]]]

\* registerNode, Deregister: a node whose lease is renewed in time is found by
\* every lookup, through failures, crashes and leases that run out.
EtcdPromise == EtcdBackend!PSpec

CallPcs == {"idle", "get", "renew", "check", "grant", "put", "delete"}
IdOrNone == Leases \cup {0}

EtcdTypeOK ==
    /\ store \in [Nodes -> [lease : IdOrNone, node : Nat, eps : Nat]]
    /\ ttl \in [Leases -> {"dead", "fresh", "due"}]
    /\ leases \in [Nodes -> IdOrNone] /\ register \in [Nodes -> Nat]
    /\ call \in [Nodes -> [pc : CallPcs, lease : IdOrNone, lost : BOOLEAN]]
    /\ arg \in [Nodes -> [node : Nat \ {0}, eps : Nat \ {0}]]
    /\ wanted \in SUBSET Nodes /\ faults \in Nat

LeaseAlive(l) == l \in Leases /\ ttl[l] # "dead"

\* A key is there as long as its lease, and no hash is ahead of the content.
KeysInv == \A n \in Nodes :
    /\ store[n] # NoKey => LeaseAlive(store[n].lease)
    /\ store[n].node <= arg[n].node /\ register[n] <= arg[n].node

\* What the calls under way rely on: the owner is there, and between the decision
\* to write the key and the Put the node is not confirmed.
CallsInv == \A n \in Nodes :
    /\ call[n].pc \in {"get", "renew", "check", "grant", "put"} => n \in wanted
    /\ call[n].pc = "delete" => n \notin wanted
    /\ leases[n] # 0 => n \in wanted
    /\ call[n].pc = "get" => leases[n] = 0
    /\ call[n].pc = "renew" => call[n].lease \in Leases /\ call[n].lease = leases[n]
    /\ call[n].pc \in {"get", "renew"} => ~call[n].lost
    /\ call[n].pc = "check" /\ call[n].lost => ~LeaseAlive(leases[n])
    /\ call[n].pc \in {"grant", "put"} =>
         register[n] # arg[n].node \/ ~LeaseAlive(leases[n])
    /\ call[n].pc = "put" => LeaseAlive(call[n].lease)

\* A confirmed node has the key that its own lease keeps.
Confirmed(n) == leases[n] # 0 /\ register[n] = arg[n].node /\ LeaseAlive(leases[n])
ConfirmedInv == \A n \in Nodes : Confirmed(n) => store[n] # NoKey /\ store[n].lease = leases[n]

\* The inductive invariant behind EtcdPromise.
EtcdInv == EtcdTypeOK /\ KeysInv /\ CallsInv /\ ConfirmedInv

\* A node that its owner keeps registering is found again, and one that is not
\* registered any more goes, whatever failed before.
EtcdHeals == \A n \in Nodes :
    /\ (n \in wanted) ~> (n \in EtcdVisible \/ n \notin wanted)
    /\ (n \notin wanted) ~> (n \notin EtcdVisible \/ n \in wanted)

==========================================================================
