-------------------------- MODULE ComponentProofs --------------------------
(***************************************************************************)
(* What is proved of the components that MCComponents and MCBackends       *)
(* compose, for all values of their constants.                             *)
(*                                                                         *)
(* A step of MCComponents is a step of one component, or leaves the        *)
(* variables of a component alone (lemmas ...Moves), so each part is an    *)
(* induction over the steps of its component with the invariant of its     *)
(* module.  A lemma per action shows that it keeps the invariant, first    *)
(* for the goroutine, node or line that it is about, then for the others.  *)
(*                                                                         *)
(* The components of MCBackends are instantiated here once more, because   *)
(* MCBackends reaches recursive operators.  The etcd registry is extended. *)
(* EtcdInv is shown node by node.  A step of node n leaves the others      *)
(* alone but for the leases: LeftAlone says that a node keeps its part as  *)
(* long as the leases it refers to live and die as they did.  The step of  *)
(* the abstract specification is found by comparing, for each node, the    *)
(* three fields of its abstract state (Moves); the refinements of the      *)
(* memory and the mdns registry are found in the same way.                 *)
(***************************************************************************)
EXTENDS MCComponents, EtcdRegistry, FiniteSetTheorems, SequenceTheorems, TLAPS

CallType == [pc : CallPcs, lease : IdOrNone, lost : BOOLEAN]
KeyType  == [lease : IdOrNone, node : Nat, eps : Nat]
ArgType  == [node : Nat \ {0}, eps : Nat \ {0}]

\* The invariant of one node.
NodeInv(n) ==
  /\ store[n] # NoKey => LeaseAlive(store[n].lease)
  /\ store[n].node <= arg[n].node /\ register[n] <= arg[n].node
  /\ call[n].pc \in {"get", "renew", "check", "grant", "put"} => n \in wanted
  /\ call[n].pc = "delete" => n \notin wanted
  /\ leases[n] # 0 => n \in wanted
  /\ call[n].pc = "get" => leases[n] = 0
  /\ call[n].pc = "renew" => call[n].lease \in Leases /\ call[n].lease = leases[n]
  /\ call[n].pc \in {"get", "renew"} => ~call[n].lost
  /\ call[n].pc = "check" /\ call[n].lost => ~LeaseAlive(leases[n])
  /\ call[n].pc \in {"grant", "put"} =>
       register[n] # arg[n].node \/ ~LeaseAlive(leases[n])
  /\ call[n].pc = "put" => LeaseAlive(call[n].lease)
  /\ Confirmed(n) => store[n] # NoKey /\ store[n].lease = leases[n]

LEMMA Parts == EtcdInv <=> EtcdTypeOK /\ \A n \in Nodes : NodeInv(n)
  BY DEF EtcdInv, KeysInv, CallsInv, ConfirmedInv, NodeInv

LEMMA PartsNext == EtcdInv' <=> EtcdTypeOK' /\ \A n \in Nodes : NodeInv(n)'
  BY DEF EtcdInv, KeysInv, CallsInv, ConfirmedInv, NodeInv

---------------------------------------------------------------------------
(* Effects                                                                 *)

\* After the step node n is in this call; the other calls are what they were.
CallIs(n, pc, l, lost) ==
  /\ call' \in [Nodes -> CallType]
  /\ call'[n].pc = pc /\ call'[n].lease = l /\ (call'[n].lost <=> lost)
  /\ \A m \in Nodes \ {n} : call'[m] = call[m]

LEMMA CallGoes ==
  ASSUME EtcdTypeOK, NEW n \in Nodes, NEW pc \in CallPcs, call' = [call EXCEPT ![n].pc = pc]
  PROVE  CallIs(n, pc, call[n].lease, call[n].lost)
  BY DEF CallIs, EtcdTypeOK, CallType

LEMMA CallBegins ==
  ASSUME EtcdTypeOK, NEW n \in Nodes, NEW pc \in CallPcs, NEW l \in IdOrNone,
         call' = [call EXCEPT ![n] = [pc |-> pc, lease |-> l, lost |-> FALSE]]
  PROVE  CallIs(n, pc, l, FALSE)
  <1>1. PICK e : e = [pc |-> pc, lease |-> l, lost |-> FALSE]  OBVIOUS
  <1>2. e \in CallType /\ e.pc = pc /\ e.lease = l /\ e.lost = FALSE  BY <1>1 DEF CallType
  <1>3. call' = [call EXCEPT ![n] = e]  BY <1>1
  <1>4. call \in [Nodes -> CallType]  BY DEF EtcdTypeOK, CallType
  <1> QED  BY <1>2, <1>3, <1>4 DEF CallIs

LEMMA CallReturns ==
  ASSUME EtcdTypeOK, NEW n \in Nodes, Return(n)
  PROVE  CallIs(n, "idle", 0, FALSE)
  <1>1. "idle" \in CallPcs /\ 0 \in IdOrNone  BY DEF CallPcs, IdOrNone
  <1>2. call' = [call EXCEPT ![n] = [pc |-> "idle", lease |-> 0, lost |-> FALSE]]
    BY DEF Return, Idle
  <1> QED  BY <1>1, <1>2, CallBegins

LEMMA CallLoses ==
  ASSUME EtcdTypeOK, NEW n \in Nodes,
         call' = [call EXCEPT ![n].pc = "check", ![n].lost = TRUE]
  PROVE  CallIs(n, "check", call[n].lease, TRUE)
  <1>1. PICK yes \in BOOLEAN : yes = TRUE  OBVIOUS
  <1>2. PICK pc \in CallPcs : pc = "check"  BY DEF CallPcs
  <1>3. PICK mid : mid = [call EXCEPT ![n].pc = pc]  OBVIOUS
  <1>4. mid \in [Nodes -> CallType]  BY <1>3 DEF EtcdTypeOK, CallType
  <1>5. call' = [mid EXCEPT ![n].lost = yes]  BY <1>1, <1>2, <1>3 DEF EtcdTypeOK
  <1>6. call' \in [Nodes -> CallType]  BY <1>4, <1>5 DEF CallType
  <1>7. call'[n].pc = "check" /\ call'[n].lease = call[n].lease
    BY DEF EtcdTypeOK, CallType
  <1>8. call'[n].lost  BY DEF EtcdTypeOK, CallType
  <1>9. \A m \in Nodes \ {n} : call'[m] = call[m]  BY DEF EtcdTypeOK
  <1> QED  BY <1>6, <1>7, <1>8, <1>9 DEF CallIs

LEMMA CallPuts ==
  ASSUME EtcdTypeOK, NEW n \in Nodes, NEW l \in Leases,
         call' = [call EXCEPT ![n].pc = "put", ![n].lease = l]
  PROVE  CallIs(n, "put", l, call[n].lost)
  <1>1. l \in IdOrNone  BY DEF IdOrNone
  <1>2. PICK pc \in CallPcs : pc = "put"  BY DEF CallPcs
  <1>3. PICK mid : mid = [call EXCEPT ![n].pc = pc]  OBVIOUS
  <1>4. mid \in [Nodes -> CallType]  BY <1>3 DEF EtcdTypeOK, CallType
  <1>5. call' = [mid EXCEPT ![n].lease = l]  BY <1>2, <1>3 DEF EtcdTypeOK
  <1>6. call' \in [Nodes -> CallType]  BY <1>1, <1>4, <1>5 DEF CallType
  <1>7. call'[n].pc = "put" /\ call'[n].lease = l  BY DEF EtcdTypeOK, CallType
  <1>8. call'[n].lost = call[n].lost  BY DEF EtcdTypeOK, CallType
  <1>9. \A m \in Nodes \ {n} : call'[m] = call[m]  BY DEF EtcdTypeOK
  <1> QED  BY <1>6, <1>7, <1>8, <1>9 DEF CallIs

\* Nothing of node m changes, but some leases do.
Untouched(m) ==
  /\ store'[m] = store[m] /\ leases'[m] = leases[m] /\ register'[m] = register[m]
  /\ call'[m] = call[m] /\ arg'[m] = arg[m] /\ (m \in wanted' <=> m \in wanted)

\* The leases node m refers to live and die as they did.
AliveNext(l)  == l \in Leases /\ ttl'[l] # "dead"
SameLeases(m) == \A l \in {store[m].lease, leases[m], call[m].lease} :
  AliveNext(l) <=> LeaseAlive(l)

LEMMA LeftAlone ==
  ASSUME NEW m \in Nodes, NodeInv(m), Untouched(m), SameLeases(m)
  PROVE  NodeInv(m)'
  <1>1. AliveNext(store[m].lease) <=> LeaseAlive(store[m].lease)  BY DEF SameLeases
  <1>2. AliveNext(leases[m]) <=> LeaseAlive(leases[m])  BY DEF SameLeases
  <1>3. AliveNext(call[m].lease) <=> LeaseAlive(call[m].lease)  BY DEF SameLeases
  <1>4. LeaseAlive(store[m].lease)' <=> LeaseAlive(store[m].lease)
    BY <1>1 DEF AliveNext, LeaseAlive, Untouched
  <1>5. LeaseAlive(leases[m])' <=> LeaseAlive(leases[m])
    BY <1>2 DEF AliveNext, LeaseAlive, Untouched
  <1>6. LeaseAlive(call[m].lease)' <=> LeaseAlive(call[m].lease)
    BY <1>3 DEF AliveNext, LeaseAlive, Untouched
  <1>7. Confirmed(m)' <=> Confirmed(m)  BY <1>5 DEF Confirmed, Untouched
  <1> QED  BY <1>4, <1>5, <1>6, <1>7 DEF NodeInv, Untouched

\* A step of node n: it does what it should, and no lease another node refers to
\* begins or ends.
LEMMA StepOf ==
  ASSUME EtcdInv, NEW n \in Nodes, EtcdTypeOK', NodeInv(n)',
         \A m \in Nodes \ {n} : Untouched(m) /\ SameLeases(m)
  PROVE  EtcdInv'
  <1>1. \A m \in Nodes : NodeInv(m)  BY Parts
  <1>2. \A m \in Nodes \ {n} : NodeInv(m)'  BY <1>1, LeftAlone
  <1>3. \A m \in Nodes : NodeInv(m)'  BY <1>2
  <1> QED  BY <1>3, PartsNext

LEMMA SameTtl ==
  ASSUME UNCHANGED ttl, NEW m \in Nodes
  PROVE  SameLeases(m)
  BY DEF SameLeases, AliveNext, LeaseAlive

---------------------------------------------------------------------------
(* The steps of Register                                                   *)

\* The owner calls Register: with the known lease, or to look for the key.
LEMMA RegisterStep ==
  ASSUME EtcdInv, NEW n \in Nodes, Register(n)
  PROVE  EtcdInv'
  <1>1. EtcdTypeOK /\ NodeInv(n)  BY Parts
  <1>2. PICK pc \in CallPcs : pc = IF leases[n] = 0 THEN "get" ELSE "renew"
    BY DEF CallPcs
  <1>3. leases[n] \in IdOrNone  BY <1>1 DEF EtcdTypeOK
  <1>4. CallIs(n, pc, leases[n], FALSE)  BY <1>1, <1>2, <1>3, CallBegins DEF Register
  <1>5. EtcdTypeOK'  BY <1>1, <1>4 DEF Register, EtcdTypeOK, CallIs, CallType
  <1>6. NodeInv(n)'
    <2>1. n \in wanted'  BY DEF Register
    <2>2. (pc = "get" /\ leases[n] = 0) \/ (pc = "renew" /\ leases[n] \in Leases)
      BY <1>2, <1>3 DEF IdOrNone
    <2>3. Confirmed(n)' <=> Confirmed(n)  BY DEF Confirmed, LeaseAlive, Register
    <2> QED  BY <1>1, <1>4, <2>1, <2>2, <2>3 DEF NodeInv, LeaseAlive, CallIs, Register
  <1>7. \A m \in Nodes \ {n} : Untouched(m)  BY <1>4 DEF Untouched, CallIs, Register
  <1>8. \A m \in Nodes : SameLeases(m)  BY SameTtl DEF Register
  <1> QED  BY <1>5, <1>6, <1>7, <1>8, StepOf

LEMMA ArgMoves ==
  ASSUME EtcdTypeOK, NEW n \in Nodes,
         arg' \in {[arg EXCEPT ![n].node = @ + 1], [arg EXCEPT ![n].eps = @ + 1]}
  PROVE  /\ arg' \in [Nodes -> ArgType]
         /\ arg'[n].node = arg[n].node \/ arg'[n].node = arg[n].node + 1
         /\ \A m \in Nodes \ {n} : arg'[m] = arg[m]
  <1>1. arg \in [Nodes -> ArgType] /\ arg[n] \in ArgType  BY DEF EtcdTypeOK, ArgType
  <1>2. arg[n].node + 1 \in Nat \ {0} /\ arg[n].eps + 1 \in Nat \ {0}  BY <1>1 DEF ArgType
  <1>3. PICK i \in Nat \ {0}, j \in Nat \ {0} : i = arg[n].node + 1 /\ j = arg[n].eps + 1
    BY <1>2
  <1>4. CASE arg' = [arg EXCEPT ![n].node = i]
    BY <1>1, <1>3, <1>4 DEF ArgType
  <1>5. CASE arg' = [arg EXCEPT ![n].eps = j]
    BY <1>1, <1>3, <1>5 DEF ArgType
  <1> QED  BY <1>3, <1>4, <1>5

\* The content moves on: a node that was confirmed is so no more.
LEMMA RegisterChangedStep ==
  ASSUME EtcdInv, NEW n \in Nodes, RegisterChanged(n)
  PROVE  EtcdInv'
  <1>1. EtcdTypeOK /\ NodeInv(n)  BY Parts
  <1>2. PICK pc \in CallPcs : pc = IF leases[n] = 0 THEN "get" ELSE "renew"
    BY DEF CallPcs
  <1>3. leases[n] \in IdOrNone  BY <1>1 DEF EtcdTypeOK
  <1>4. CallIs(n, pc, leases[n], FALSE)  BY <1>1, <1>2, <1>3, CallBegins DEF RegisterChanged
  <1>5. /\ arg' \in [Nodes -> ArgType]
        /\ arg'[n].node = arg[n].node \/ arg'[n].node = arg[n].node + 1
        /\ \A m \in Nodes \ {n} : arg'[m] = arg[m]
    BY <1>1, ArgMoves DEF RegisterChanged
  <1>6. EtcdTypeOK'
    BY <1>1, <1>4, <1>5 DEF RegisterChanged, EtcdTypeOK, CallIs, CallType, ArgType
  <1>7. NodeInv(n)'
    <2>1. n \in wanted'  BY DEF RegisterChanged
    <2>2. (pc = "get" /\ leases[n] = 0) \/ (pc = "renew" /\ leases[n] \in Leases)
      BY <1>2, <1>3 DEF IdOrNone
    <2>3. arg[n].node \in Nat /\ register[n] \in Nat /\ store[n].node \in Nat
      BY <1>1 DEF EtcdTypeOK
    <2>4. register[n] <= arg[n].node /\ store[n].node <= arg[n].node  BY <1>1 DEF NodeInv
    <2>5. register[n] = arg'[n].node => register[n] = arg[n].node  BY <1>5, <2>3, <2>4
    <2>6. Confirmed(n)' => Confirmed(n)  BY <2>5 DEF Confirmed, LeaseAlive, RegisterChanged
    <2>7. register[n] <= arg'[n].node /\ store[n].node <= arg'[n].node
      BY <1>5, <2>3, <2>4
    <2> QED  BY <1>1, <1>4, <2>1, <2>2, <2>6, <2>7
             DEF NodeInv, LeaseAlive, CallIs, RegisterChanged
  <1>8. \A m \in Nodes \ {n} : Untouched(m)
    BY <1>4, <1>5 DEF Untouched, CallIs, RegisterChanged
  <1>9. \A m \in Nodes : SameLeases(m)  BY SameTtl DEF RegisterChanged
  <1> QED  BY <1>6, <1>7, <1>8, <1>9, StepOf

\* A call returns and nothing else of its node changes.
LEMMA Returned ==
  ASSUME EtcdInv, NEW n \in Nodes, Return(n), faults' \in Nat,
         UNCHANGED <<store, ttl, leases, register, arg, wanted>>
  PROVE  EtcdInv'
  <1>1. EtcdTypeOK /\ NodeInv(n)  BY Parts
  <1>2. CallIs(n, "idle", 0, FALSE)  BY <1>1, CallReturns
  <1>3. EtcdTypeOK'  BY <1>1, <1>2 DEF EtcdTypeOK, CallIs, CallType
  <1>4. Confirmed(n)' <=> Confirmed(n)  BY DEF Confirmed, LeaseAlive
  <1>5. NodeInv(n)'  BY <1>1, <1>2, <1>4 DEF NodeInv, LeaseAlive, CallIs
  <1>6. \A m \in Nodes \ {n} : Untouched(m)  BY <1>2 DEF Untouched, CallIs
  <1>7. \A m \in Nodes : SameLeases(m)  BY SameTtl
  <1> QED  BY <1>3, <1>5, <1>6, <1>7, StepOf

LEMMA Failed ==
  ASSUME EtcdInv, NEW n \in Nodes, RequestFails(n),
         UNCHANGED <<store, ttl, leases, register, arg, wanted>>
  PROVE  EtcdInv'
  <1>1. faults' \in Nat  BY Parts DEF RequestFails, EtcdTypeOK
  <1> QED  BY <1>1, Returned DEF RequestFails

\* The key that is found is confirmed, if it has the present content.
LEMMA GetKeyStep ==
  ASSUME EtcdInv, NEW n \in Nodes, GetKey(n)
  PROVE  EtcdInv'
  <1>1. EtcdTypeOK /\ NodeInv(n)  BY Parts
  <1>2. CASE RequestFails(n) /\ UNCHANGED <<leases, register>>
    BY <1>2, Failed DEF GetKey
  <1>3. CASE /\ store[n] = NoKey /\ Goto(n, "check")
             /\ UNCHANGED <<leases, register, faults>>
    <2>1. CallIs(n, "check", call[n].lease, call[n].lost)
      BY <1>1, <1>3, CallGoes DEF Goto, CallPcs
    <2>2. EtcdTypeOK'  BY <1>1, <1>3, <2>1 DEF GetKey, EtcdTypeOK, CallIs, CallType
    <2>3. Confirmed(n)' <=> Confirmed(n)  BY <1>3 DEF Confirmed, LeaseAlive, GetKey
    <2>4. ~call[n].lost  BY <1>1 DEF NodeInv, GetKey
    <2>5. NodeInv(n)'
      BY <1>1, <1>3, <2>1, <2>3, <2>4 DEF NodeInv, LeaseAlive, CallIs, GetKey
    <2>6. \A m \in Nodes \ {n} : Untouched(m)  BY <1>3, <2>1 DEF Untouched, CallIs, GetKey
    <2>7. \A m \in Nodes : SameLeases(m)  BY SameTtl DEF GetKey
    <2> QED  BY <2>2, <2>5, <2>6, <2>7, StepOf
  <1>4. CASE /\ store[n] # NoKey /\ UNCHANGED faults
             /\ leases' = [leases EXCEPT ![n] = store[n].lease]
             /\ register' = [register EXCEPT ![n] = store[n].node]
             /\ call' = [call EXCEPT ![n] =
                  [pc |-> "renew", lease |-> store[n].lease, lost |-> FALSE]]
    <2>1. store[n].lease \in IdOrNone /\ store[n].node \in Nat  BY <1>1 DEF EtcdTypeOK
    <2>2. CallIs(n, "renew", store[n].lease, FALSE)
      BY <1>1, <1>4, <2>1, CallBegins DEF CallPcs
    <2>3. EtcdTypeOK'  BY <1>1, <1>4, <2>1, <2>2 DEF GetKey, EtcdTypeOK, CallIs, CallType
    <2>4. leases'[n] = store[n].lease /\ register'[n] = store[n].node
      BY <1>1, <1>4 DEF EtcdTypeOK
    <2>5. LeaseAlive(store[n].lease) /\ n \in wanted  BY <1>1, <1>4 DEF NodeInv, GetKey
    <2>6. NodeInv(n)'
      BY <1>1, <1>4, <2>2, <2>4, <2>5 DEF NodeInv, LeaseAlive, CallIs, GetKey
    <2>7. \A m \in Nodes \ {n} : Untouched(m)
      BY <1>1, <1>4, <2>2 DEF Untouched, CallIs, GetKey, EtcdTypeOK
    <2>8. \A m \in Nodes : SameLeases(m)  BY SameTtl DEF GetKey
    <2> QED  BY <2>3, <2>6, <2>7, <2>8, StepOf
  <1> QED  BY <1>2, <1>3, <1>4 DEF GetKey

\* A lease that is renewed was alive and is; one that is gone is marked lost.
LEMMA RenewStep ==
  ASSUME EtcdInv, NEW n \in Nodes, Renew(n)
  PROVE  EtcdInv'
  <1>1. EtcdTypeOK /\ NodeInv(n)  BY Parts
  <1>2. call[n].lease \in Leases /\ call[n].lease = leases[n] /\ n \in wanted
    BY <1>1 DEF NodeInv, Renew
  <1>3. CASE RequestFails(n) /\ UNCHANGED ttl  BY <1>3, Failed DEF Renew
  <1>4. CASE /\ ttl[call[n].lease] = "dead" /\ UNCHANGED <<ttl, faults>>
             /\ call' = [call EXCEPT ![n].pc = "check", ![n].lost = TRUE]
    <2>1. CallIs(n, "check", call[n].lease, TRUE)  BY <1>1, <1>4, CallLoses
    <2>2. EtcdTypeOK'  BY <1>1, <1>4, <2>1 DEF Renew, EtcdTypeOK, CallIs, CallType
    <2>3. Confirmed(n)' <=> Confirmed(n)  BY <1>4 DEF Confirmed, LeaseAlive, Renew
    <2>4. NodeInv(n)'
      <3>1. ~LeaseAlive(leases[n])  BY <1>2, <1>4 DEF LeaseAlive
      <3> QED  BY <1>1, <1>2, <1>4, <2>1, <2>3, <3>1 DEF NodeInv, LeaseAlive, CallIs, Renew
    <2>5. \A m \in Nodes \ {n} : Untouched(m)  BY <1>4, <2>1 DEF Untouched, CallIs, Renew
    <2>6. \A m \in Nodes : SameLeases(m)  BY <1>4, SameTtl
    <2> QED  BY <2>2, <2>4, <2>5, <2>6, StepOf
  <1>5. CASE /\ ttl[call[n].lease] # "dead" /\ UNCHANGED faults
             /\ ttl' = [ttl EXCEPT ![call[n].lease] = "fresh"] /\ Goto(n, "check")
    <2>1. CallIs(n, "check", call[n].lease, call[n].lost)
      BY <1>1, <1>5, CallGoes DEF Goto, CallPcs
    <2>2. \A l : AliveNext(l) <=> LeaseAlive(l)
      BY <1>1, <1>2, <1>5 DEF AliveNext, LeaseAlive, EtcdTypeOK
    <2>3. EtcdTypeOK'
      BY <1>1, <1>2, <1>5, <2>1 DEF Renew, EtcdTypeOK, CallIs, CallType
    <2>4. LeaseAlive(leases[n]) /\ LeaseAlive(leases[n])'
      BY <1>2, <1>5, <2>2 DEF LeaseAlive, AliveNext, Renew
    <2>5. Confirmed(n)' <=> Confirmed(n)  BY <2>4 DEF Confirmed, Renew
    <2>6. LeaseAlive(store[n].lease)' <=> LeaseAlive(store[n].lease)
      BY <2>2 DEF LeaseAlive, AliveNext, Renew
    <2>7. ~call[n].lost  BY <1>1 DEF NodeInv, Renew
    <2>8. NodeInv(n)'
      BY <1>1, <1>2, <1>5, <2>1, <2>4, <2>5, <2>6, <2>7 DEF NodeInv, CallIs, Renew
    <2>9. \A m \in Nodes \ {n} : Untouched(m) /\ SameLeases(m)
      BY <1>5, <2>1, <2>2 DEF Untouched, SameLeases, CallIs, Renew
    <2> QED  BY <2>3, <2>8, <2>9, StepOf
  <1> QED  BY <1>3, <1>4, <1>5 DEF Renew

\* The key has to be written when the hash differs or the lease was lost.
LEMMA CheckStep ==
  ASSUME EtcdInv, NEW n \in Nodes, Check(n)
  PROVE  EtcdInv'
  <1>1. EtcdTypeOK /\ NodeInv(n)  BY Parts
  <1>2. CASE Return(n)
    <2>1. faults' \in Nat  BY <1>1 DEF Check, EtcdTypeOK
    <2> QED  BY <1>2, <2>1, Returned DEF Check
  <1>3. CASE ~(register[n] = arg[n].node /\ ~call[n].lost) /\ Goto(n, "grant")
    <2>1. CallIs(n, "grant", call[n].lease, call[n].lost)
      BY <1>1, <1>3, CallGoes DEF Goto, CallPcs
    <2>2. EtcdTypeOK'  BY <1>1, <2>1 DEF Check, EtcdTypeOK, CallIs, CallType
    <2>3. Confirmed(n)' <=> Confirmed(n)  BY DEF Confirmed, LeaseAlive, Check
    <2>4. register[n] # arg[n].node \/ ~LeaseAlive(leases[n])
      BY <1>1, <1>3 DEF NodeInv, Check
    <2>5. NodeInv(n)'
      BY <1>1, <2>1, <2>3, <2>4 DEF NodeInv, LeaseAlive, CallIs, Check
    <2>6. \A m \in Nodes \ {n} : Untouched(m)  BY <2>1 DEF Untouched, CallIs, Check
    <2>7. \A m \in Nodes : SameLeases(m)  BY SameTtl DEF Check
    <2> QED  BY <2>2, <2>5, <2>6, <2>7, StepOf
  <1> QED  BY <1>2, <1>3 DEF Check

\* Nobody refers to the lease that is granted.
LEMMA GrantStep ==
  ASSUME EtcdInv, NEW n \in Nodes, Grant(n)
  PROVE  EtcdInv'
  <1>1. EtcdTypeOK /\ NodeInv(n)  BY Parts
  <1>2. CASE RequestFails(n) /\ UNCHANGED ttl  BY <1>2, Failed DEF Grant
  <1>3. ASSUME NEW l \in Unused, ttl' = [ttl EXCEPT ![l] = "fresh"],
               call' = [call EXCEPT ![n].pc = "put", ![n].lease = l], UNCHANGED faults
        PROVE  EtcdInv'
    <2>1. l \in Leases  BY DEF Unused
    <2>2. CallIs(n, "put", l, call[n].lost)  BY <1>1, <1>3, <2>1, CallPuts
    <2>3. EtcdTypeOK'  BY <1>1, <1>3, <2>1, <2>2 DEF Grant, EtcdTypeOK, CallIs, CallType
    <2>4. \A k : k # l => (AliveNext(k) <=> LeaseAlive(k))
      BY <1>1, <1>3 DEF AliveNext, LeaseAlive, EtcdTypeOK
    <2>5. AliveNext(l)  BY <1>1, <1>3, <2>1 DEF AliveNext, EtcdTypeOK
    <2>6. \A m \in Nodes : SameLeases(m)  BY <2>4 DEF SameLeases, Unused
    <2>7. (LeaseAlive(leases[n])' <=> LeaseAlive(leases[n]))
          /\ (LeaseAlive(store[n].lease)' <=> LeaseAlive(store[n].lease))
      BY <2>6 DEF SameLeases, AliveNext, LeaseAlive, Grant
    <2>8. Confirmed(n)' <=> Confirmed(n)  BY <2>7 DEF Confirmed, Grant
    <2>9. LeaseAlive(call[n].lease)'  BY <2>2, <2>5 DEF CallIs, AliveNext, LeaseAlive
    <2>10. NodeInv(n)'
      BY <1>1, <2>2, <2>7, <2>8, <2>9 DEF NodeInv, CallIs, Grant
    <2>11. \A m \in Nodes \ {n} : Untouched(m)  BY <2>2 DEF Untouched, CallIs, Grant
    <2> QED  BY <2>3, <2>6, <2>10, <2>11, StepOf
  <1> QED  BY <1>2, <1>3 DEF Grant

\* The key is written with a lease that is alive; only then is it confirmed.
LEMMA PutStep ==
  ASSUME EtcdInv, NEW n \in Nodes, Put(n)
  PROVE  EtcdInv'
  <1>1. EtcdTypeOK /\ NodeInv(n)  BY Parts
  <1>2. /\ LeaseAlive(call[n].lease) /\ n \in wanted
        /\ register[n] # arg[n].node \/ ~LeaseAlive(leases[n])
    BY <1>1 DEF NodeInv, Put
  <1>3. Key(n) \in KeyType /\ Key(n).lease = call[n].lease /\ Key(n).node = arg[n].node
    BY <1>1 DEF EtcdTypeOK, Key, KeyType
  <1>4. arg[n].node \in Nat /\ arg[n].node # 0 /\ call[n].lease \in IdOrNone
        /\ register[n] \in Nat
    BY <1>1 DEF EtcdTypeOK
  <1>5. Key(n) # NoKey  BY <1>3, <1>4 DEF NoKey
  <1>6. PICK k : k = Key(n)  OBVIOUS
  <1>7. CallIs(n, "idle", 0, FALSE)  BY <1>1, CallReturns DEF Put, RequestFails
  <1>8. faults' \in Nat  BY <1>1 DEF Put, RequestFails, EtcdTypeOK
  <1>9. \A m \in Nodes : SameLeases(m)  BY SameTtl DEF Put
  <1>10. CASE RequestFails(n) /\ UNCHANGED <<store, leases, register>>
    BY <1>10, Failed DEF Put
  <1>11. CASE /\ RequestFails(n) /\ store' = [store EXCEPT ![n] = Key(n)]
              /\ UNCHANGED <<leases, register>>
    <2>1. store' \in [Nodes -> KeyType] /\ store'[n] = k
          /\ \A m \in Nodes \ {n} : store'[m] = store[m]
      BY <1>1, <1>3, <1>6, <1>11 DEF EtcdTypeOK, KeyType
    <2>2. EtcdTypeOK'  BY <1>1, <1>7, <1>8, <1>11, <2>1
                       DEF Put, EtcdTypeOK, CallIs, CallType, KeyType
    <2>3. ~Confirmed(n)'  BY <1>2, <1>11 DEF Confirmed, LeaseAlive, Put
    <2>4. LeaseAlive(store[n].lease)'  BY <1>2, <1>3, <1>6, <2>1 DEF LeaseAlive, Put
    <2>5. store'[n].node = arg[n].node  BY <1>3, <1>6, <2>1
    <2>6. NodeInv(n)'
      BY <1>1, <1>2, <1>4, <1>7, <1>11, <2>3, <2>4, <2>5 DEF NodeInv, CallIs, Put
    <2>7. \A m \in Nodes \ {n} : Untouched(m)
      BY <1>7, <1>11, <2>1 DEF Untouched, CallIs, Put
    <2> QED  BY <1>9, <2>2, <2>6, <2>7, StepOf
  <1>12. CASE /\ store' = [store EXCEPT ![n] = Key(n)]
              /\ leases' = [leases EXCEPT ![n] = call[n].lease]
              /\ register' = [register EXCEPT ![n] = arg[n].node]
    <2>1. store' \in [Nodes -> KeyType] /\ store'[n] = k
          /\ \A m \in Nodes \ {n} : store'[m] = store[m]
      BY <1>1, <1>3, <1>6, <1>12 DEF EtcdTypeOK, KeyType
    <2>2. /\ leases' \in [Nodes -> IdOrNone] /\ leases'[n] = call[n].lease
          /\ \A m \in Nodes \ {n} : leases'[m] = leases[m]
      BY <1>1, <1>4, <1>12 DEF EtcdTypeOK
    <2>3. /\ register' \in [Nodes -> Nat] /\ register'[n] = arg[n].node
          /\ \A m \in Nodes \ {n} : register'[m] = register[m]
      BY <1>1, <1>4, <1>12 DEF EtcdTypeOK
    <2>4. EtcdTypeOK'  BY <1>1, <1>7, <1>8, <2>1, <2>2, <2>3
                       DEF Put, EtcdTypeOK, CallIs, CallType, KeyType
    <2>5. LeaseAlive(store[n].lease)'  BY <1>2, <1>3, <1>6, <2>1 DEF LeaseAlive, Put
    <2>6. store'[n].node = arg[n].node /\ store'[n].lease = leases'[n] /\ store'[n] # NoKey
      BY <1>3, <1>5, <1>6, <2>1, <2>2
    <2>7. NodeInv(n)'
      BY <1>1, <1>2, <1>4, <1>7, <2>3, <2>5, <2>6 DEF NodeInv, CallIs, Put, NoKey
    <2>8. \A m \in Nodes \ {n} : Untouched(m)
      BY <1>7, <2>1, <2>2, <2>3 DEF Untouched, CallIs, Put
    <2> QED  BY <1>9, <2>4, <2>7, <2>8, StepOf
  <1> QED  BY <1>10, <1>11, <1>12 DEF Put

---------------------------------------------------------------------------
(* Deregister, a crash, and the passing of time                            *)

\* The owner leaves, by Deregister or because it dies.
LEMMA LeaveStep ==
  ASSUME EtcdInv, NEW n \in Nodes, Deregister(n) \/ Crash(n)
  PROVE  EtcdInv'
  <1>1. EtcdTypeOK /\ NodeInv(n)  BY Parts
  <1>2. PICK pc, l, lost : CallIs(n, pc, l, lost) /\ pc \in {"idle", "delete"}
    <2>1. CASE Deregister(n)
      <3>1. CallIs(n, "delete", call[n].lease, call[n].lost)
        BY <1>1, <2>1, CallGoes DEF Deregister, Goto, CallPcs
      <3> QED  BY <3>1
    <2>2. CASE Crash(n)  BY <1>1, <2>2, CallReturns DEF Crash
    <2> QED  BY <2>1, <2>2
  <1>3. /\ UNCHANGED <<store, ttl, arg>> /\ wanted' = wanted \ {n}
        /\ leases' = [leases EXCEPT ![n] = 0] /\ register' = [register EXCEPT ![n] = 0]
    BY DEF Deregister, Crash
  <1>4. faults' \in Nat  BY <1>1 DEF Deregister, Crash, EtcdTypeOK
  <1>5. /\ leases' \in [Nodes -> IdOrNone] /\ leases'[n] = 0
        /\ \A m \in Nodes \ {n} : leases'[m] = leases[m]
    BY <1>1, <1>3 DEF EtcdTypeOK, IdOrNone
  <1>6. /\ register' \in [Nodes -> Nat] /\ register'[n] = 0
        /\ \A m \in Nodes \ {n} : register'[m] = register[m]
    BY <1>1, <1>3 DEF EtcdTypeOK
  <1>7. EtcdTypeOK'
    BY <1>1, <1>2, <1>3, <1>4, <1>5, <1>6 DEF EtcdTypeOK, CallIs, CallType
  <1>8. NodeInv(n)'
    <2>1. arg[n].node \in Nat  BY <1>1 DEF EtcdTypeOK
    <2> QED  BY <1>1, <1>2, <1>3, <1>5, <1>6, <2>1 DEF NodeInv, Confirmed, LeaseAlive, CallIs
  <1>9. \A m \in Nodes \ {n} : Untouched(m)
    BY <1>2, <1>3, <1>5, <1>6 DEF Untouched, CallIs
  <1>10. \A m \in Nodes : SameLeases(m)  BY <1>3, SameTtl
  <1> QED  BY <1>7, <1>8, <1>9, <1>10, StepOf

\* The key goes; its owner has left.
LEMMA DeleteStep ==
  ASSUME EtcdInv, NEW n \in Nodes, Delete(n)
  PROVE  EtcdInv'
  <1>1. EtcdTypeOK /\ NodeInv(n)  BY Parts
  <1>2. CallIs(n, "idle", 0, FALSE)  BY <1>1, CallReturns DEF Delete, RequestFails
  <1>3. CASE RequestFails(n) /\ UNCHANGED store  BY <1>3, Failed DEF Delete
  <1>4. CASE store' = [store EXCEPT ![n] = NoKey]
    <2>1. NoKey \in KeyType /\ NoKey.node = 0  BY DEF NoKey, KeyType, IdOrNone
    <2>2. /\ store' \in [Nodes -> KeyType] /\ store'[n] = NoKey
          /\ \A m \in Nodes \ {n} : store'[m] = store[m]
      BY <1>1, <1>4, <2>1 DEF EtcdTypeOK, KeyType
    <2>3. faults' \in Nat  BY <1>1 DEF Delete, RequestFails, EtcdTypeOK
    <2>4. EtcdTypeOK'
      BY <1>1, <1>2, <2>2, <2>3 DEF Delete, EtcdTypeOK, CallIs, CallType, KeyType
    <2>5. ~Confirmed(n)'  BY <1>1 DEF NodeInv, Confirmed, Delete
    <2>6. NodeInv(n)'
      <3>1. arg[n].node \in Nat  BY <1>1 DEF EtcdTypeOK
      <3> QED  BY <1>1, <1>2, <2>1, <2>2, <2>5, <3>1 DEF NodeInv, CallIs, Delete
    <2>7. \A m \in Nodes \ {n} : Untouched(m)  BY <1>2, <2>2 DEF Untouched, CallIs, Delete
    <2>8. \A m \in Nodes : SameLeases(m)  BY SameTtl DEF Delete
    <2> QED  BY <2>4, <2>6, <2>7, <2>8, StepOf
  <1> QED  BY <1>3, <1>4 DEF Delete

\* A lease falls due, or ends and takes its keys with it.
LEMMA LeaseTickStep ==
  ASSUME EtcdInv, NEW l \in Leases, LeaseTick(l)
  PROVE  EtcdInv'
  <1>1. EtcdTypeOK /\ \A m \in Nodes : NodeInv(m)  BY Parts
  <1>2. CASE ttl[l] = "fresh" /\ ttl' = [ttl EXCEPT ![l] = "due"] /\ UNCHANGED store
    <2>1. EtcdTypeOK'  BY <1>1, <1>2 DEF EtcdTypeOK, LeaseTick
    <2>2. \A k : AliveNext(k) <=> LeaseAlive(k)
      BY <1>1, <1>2 DEF AliveNext, LeaseAlive, EtcdTypeOK
    <2>3. \A m \in Nodes : Untouched(m) /\ SameLeases(m)
      BY <1>2, <2>2 DEF Untouched, SameLeases, LeaseTick
    <2>4. \A m \in Nodes : NodeInv(m)'  BY <1>1, <2>3, LeftAlone
    <2> QED  BY <2>1, <2>4, PartsNext
  <1>3. CASE /\ ttl[l] = "due" /\ ttl' = [ttl EXCEPT ![l] = "dead"]
             /\ store' = [n \in Nodes |-> IF store[n].lease = l THEN NoKey ELSE store[n]]
    <2>1. NoKey \in KeyType /\ NoKey.node = 0  BY DEF NoKey, KeyType, IdOrNone
    <2>2. store' \in [Nodes -> KeyType]  BY <1>1, <1>3, <2>1 DEF EtcdTypeOK, KeyType
    <2>3. EtcdTypeOK'  BY <1>1, <1>3, <2>2 DEF EtcdTypeOK, LeaseTick, KeyType
    <2>4. \A k : AliveNext(k) <=> LeaseAlive(k) /\ k # l
      BY <1>1, <1>3 DEF AliveNext, LeaseAlive, EtcdTypeOK
    <2>5. SUFFICES ASSUME NEW m \in Nodes  PROVE NodeInv(m)'
      BY <2>3, PartsNext
    <2>6. NodeInv(m)  BY <1>1
    <2>7. LeaseAlive(leases[m])' <=> LeaseAlive(leases[m]) /\ leases[m] # l
      BY <2>4 DEF AliveNext, LeaseAlive, LeaseTick
    <2>8. LeaseAlive(call[m].lease)' <=> LeaseAlive(call[m].lease) /\ call[m].lease # l
      BY <2>4 DEF AliveNext, LeaseAlive, LeaseTick
    <2>9. Confirmed(m)' => Confirmed(m) /\ leases[m] # l
      BY <2>7 DEF Confirmed, LeaseTick
    <2>10. UNCHANGED <<leases, register, call, arg, wanted>>  BY DEF LeaseTick
    <2>11. call[m].pc = "put" => call[m].lease # l  BY DEF LeaseTick
    <2>12. CASE store[m].lease = l
      <3>1. store'[m] = NoKey  BY <1>3, <2>12
      <3>2. ~Confirmed(m)'  BY <2>6, <2>9, <2>12 DEF NodeInv
      <3>3. arg[m].node \in Nat  BY <1>1 DEF EtcdTypeOK
      <3> QED  BY <2>1, <2>6, <2>7, <2>8, <2>10, <2>11, <3>1, <3>2, <3>3 DEF NodeInv
    <2>13. CASE store[m].lease # l
      <3>1. store'[m] = store[m]  BY <1>3, <2>13
      <3>2. LeaseAlive(store[m].lease)' <=> LeaseAlive(store[m].lease)
        BY <2>4, <2>13, <3>1 DEF AliveNext, LeaseAlive
      <3> QED  BY <2>6, <2>7, <2>8, <2>9, <2>10, <2>11, <3>1, <3>2 DEF NodeInv
    <2> QED  BY <2>12, <2>13
  <1> QED  BY <1>2, <1>3 DEF LeaseTick

LEMMA EtcdInitInv == EtcdInit => EtcdInv
  <1> SUFFICES ASSUME EtcdInit  PROVE EtcdInv
    OBVIOUS
  <1>1. NoKey \in KeyType /\ NoKey.node = 0  BY DEF NoKey, KeyType, IdOrNone
  <1>2. Idle \in CallType /\ Idle.pc = "idle"  BY DEF Idle, CallType, CallPcs, IdOrNone
  <1>3. First \in ArgType /\ First.node = 1  BY DEF First, ArgType
  <1>4. EtcdTypeOK
    <2>1. store \in [Nodes -> KeyType]  BY <1>1 DEF EtcdInit
    <2>2. call \in [Nodes -> CallType]  BY <1>2 DEF EtcdInit
    <2>3. arg \in [Nodes -> ArgType]  BY <1>3 DEF EtcdInit
    <2> QED  BY <2>1, <2>2, <2>3
             DEF EtcdInit, EtcdTypeOK, KeyType, CallType, ArgType, IdOrNone
  <1>5. \A n \in Nodes : NodeInv(n)
    BY <1>1, <1>2, <1>3 DEF EtcdInit, NodeInv, Confirmed
  <1> QED  BY <1>4, <1>5, Parts

LEMMA EtcdNextInv == EtcdInv /\ [EtcdNext]_etcdVars => EtcdInv'
  <1> SUFFICES ASSUME EtcdInv, [EtcdNext]_etcdVars  PROVE EtcdInv'
    OBVIOUS
  <1>1. ASSUME NEW n \in Nodes, Register(n)  PROVE EtcdInv'  BY <1>1, RegisterStep
  <1>2. ASSUME NEW n \in Nodes, RegisterChanged(n)  PROVE EtcdInv'
    BY <1>2, RegisterChangedStep
  <1>3. ASSUME NEW n \in Nodes, Deregister(n) \/ Crash(n)  PROVE EtcdInv'
    BY <1>3, LeaveStep
  <1>4. ASSUME NEW n \in Nodes, Step(n)  PROVE EtcdInv'
    BY <1>4, GetKeyStep, RenewStep, CheckStep, GrantStep, PutStep, DeleteStep DEF Step
  <1>5. ASSUME NEW l \in Leases, LeaseTick(l)  PROVE EtcdInv'  BY <1>5, LeaseTickStep
  <1>6. CASE UNCHANGED etcdVars
    <2>1. EtcdTypeOK'  BY <1>6, Parts DEF EtcdTypeOK, etcdVars
    <2>2. \A m \in Nodes : Untouched(m) /\ SameLeases(m)
      BY <1>6 DEF Untouched, SameLeases, AliveNext, LeaseAlive, etcdVars
    <2>3. \A m \in Nodes : NodeInv(m)'  BY <2>2, Parts, LeftAlone
    <2> QED  BY <2>1, <2>3, PartsNext
  <1> QED  BY <1>1, <1>2, <1>3, <1>4, <1>5, <1>6 DEF EtcdNext

\* registerNode, Deregister and the leases keep EtcdInv: a key is there as long as
\* its lease, no call writes for an owner that has left, and a node whose lease
\* is alive and whose hash is current has the key that this very lease keeps.
THEOREM EtcdInvariant == EtcdSpec => []EtcdInv
  BY EtcdInitInv, EtcdNextInv, PTL DEF EtcdSpec

---------------------------------------------------------------------------
(* The refinement                                                          *)

\* One node may go from (w, v, a) to (x, u, b): Allowed, field by field.
Moves(w, v, a, x, u, b) ==
  \/ (x <=> w) /\ (u <=> v) /\ b = a
  \/ x /\ (u <=> v) /\ b = a
  \/ w /\ x /\ u /\ b = a
  \/ x /\ u /\ b \in {"fresh", "due"}
  \/ w /\ x /\ (u <=> v) /\ b = "out"
  \/ ~x /\ b = "out" /\ (u => v)
  \/ a = "out" /\ (x <=> w) /\ ~u /\ b = a
  \/ a = "fresh" /\ (x <=> w) /\ (u <=> v) /\ b = "due"
  \/ a = "due" /\ (x <=> w) /\ ~u /\ b = "out"

State(w, v, a) == [want |-> w, visible |-> v, age |-> a]

\* The flags are named: the provers do not put TRUE or FALSE into a record.
LEMMA MovesAreAllowed ==
  ASSUME NEW w \in BOOLEAN, NEW v \in BOOLEAN, NEW a,
         NEW x \in BOOLEAN, NEW u \in BOOLEAN, NEW b, Moves(w, v, a, x, u, b)
  PROVE  EtcdBackend!Allowed(State(w, v, a), State(x, u, b))
  <1>1. PICK s : s = State(w, v, a)  OBVIOUS
  <1>2. PICK r : r = State(x, u, b)  OBVIOUS
  <1>3. s.want = w /\ s.visible = v /\ s.age = a  BY <1>1 DEF State
  <1>4. r.want = x /\ r.visible = u /\ r.age = b  BY <1>2 DEF State
  <1> SUFFICES EtcdBackend!Allowed(s, r)  BY <1>1, <1>2
  <1>5. PICK yes, no : yes = TRUE /\ no = FALSE  OBVIOUS
  <1>6. x = w /\ u = v /\ b = a => r = s  BY <1>1, <1>2
  <1>7. x = yes /\ u = v /\ b = a => r = [s EXCEPT !.want = yes]
    BY <1>1, <1>2 DEF State
  <1>8. x = w /\ u = yes /\ b = a => r = [s EXCEPT !.visible = yes]
    BY <1>1, <1>2 DEF State
  <1>9. x = w /\ u = no /\ b = a => r = [s EXCEPT !.visible = no]
    <2>1. [s EXCEPT !.visible = no] = [want |-> w, visible |-> no, age |-> a]
      BY <1>1 DEF State
    <2> QED  BY <1>2, <2>1 DEF State
  <1>10. x = w /\ u = v => r = [s EXCEPT !.age = b]  BY <1>1, <1>2 DEF State
  <1>11. x = w /\ u = no => r = [s EXCEPT !.age = b, !.visible = no]
    <2>1. [s EXCEPT !.age = b, !.visible = no]
            = [[s EXCEPT !.age = b] EXCEPT !.visible = no]
      BY <1>1 DEF State
    <2>2. [s EXCEPT !.age = b] = [want |-> w, visible |-> v, age |-> b]  BY <1>1 DEF State
    <2>3. PICK e : e = [want |-> w, visible |-> v, age |-> b]  OBVIOUS
    <2>4. [e EXCEPT !.visible = no] = [want |-> w, visible |-> no, age |-> b]  BY <2>3
    <2> QED  BY <1>2, <2>1, <2>2, <2>3, <2>4 DEF State
  <1>12. CASE (x <=> w) /\ (u <=> v) /\ b = a
    BY <1>6, <1>12 DEF EtcdBackend!Allowed
  <1>13. CASE x /\ (u <=> v) /\ b = a
    BY <1>5, <1>7, <1>13 DEF EtcdBackend!Allowed, EtcdBackend!Ask
  <1>14. CASE w /\ x /\ u /\ b = a
    BY <1>3, <1>5, <1>8, <1>14 DEF EtcdBackend!Allowed, EtcdBackend!Publish
  <1>15. CASE x /\ u /\ b \in {"fresh", "due"}
    BY <1>4, <1>15 DEF EtcdBackend!Allowed, EtcdBackend!Confirm
  <1>16. CASE w /\ x /\ (u <=> v) /\ b = "out"
    BY <1>3, <1>10, <1>16 DEF EtcdBackend!Allowed, EtcdBackend!Reask
  <1>17. CASE ~x /\ b = "out" /\ (u => v)
    BY <1>3, <1>4, <1>17 DEF EtcdBackend!Allowed, EtcdBackend!Depart
  <1>18. CASE a = "out" /\ (x <=> w) /\ ~u /\ b = a
    BY <1>3, <1>5, <1>9, <1>18 DEF EtcdBackend!Allowed, EtcdBackend!Vanish
  <1>19. CASE a = "fresh" /\ (x <=> w) /\ (u <=> v) /\ b = "due"
    BY <1>3, <1>10, <1>19 DEF EtcdBackend!Allowed, EtcdBackend!FallDue
  <1>20. CASE a = "due" /\ (x <=> w) /\ ~u /\ b = "out"
    BY <1>3, <1>5, <1>11, <1>20 DEF EtcdBackend!Allowed, EtcdBackend!Lapse
  <1> QED  BY <1>12, <1>13, <1>14, <1>15, <1>16, <1>17, <1>18, <1>19, <1>20 DEF Moves

\* The abstract state of a node is its want, its key and its age.
LEMMA AgeIs ==
  ASSUME EtcdTypeOK, NEW m \in Nodes, NodeInv(m)
  PROVE  /\ Confirmed(m) => EtcdAge[m] = ttl[leases[m]] /\ EtcdAge[m] \in {"fresh", "due"}
         /\ ~Confirmed(m) => EtcdAge[m] = "out"
  <1>1. leases[m] \in IdOrNone  BY DEF EtcdTypeOK
  <1>2. leases[m] # 0 => leases[m] \in Leases  BY <1>1 DEF IdOrNone
  <1>3. leases[m] \in Leases => ttl[leases[m]] \in {"dead", "fresh", "due"}
    BY DEF EtcdTypeOK
  <1> QED  BY <1>2, <1>3 DEF EtcdAge, Confirmed, LeaseAlive, NodeInv

LEMMA AgeIsNext ==
  ASSUME EtcdTypeOK', NEW m \in Nodes, NodeInv(m)'
  PROVE  /\ Confirmed(m)' => EtcdAge'[m] = ttl'[leases'[m]] /\ EtcdAge'[m] \in {"fresh", "due"}
         /\ ~Confirmed(m)' => EtcdAge'[m] = "out"
  <1>1. leases'[m] \in IdOrNone  BY DEF EtcdTypeOK
  <1>2. leases'[m] # 0 => leases'[m] \in Leases  BY <1>1 DEF IdOrNone
  <1>3. leases'[m] \in Leases => ttl'[leases'[m]] \in {"dead", "fresh", "due"}
    BY DEF EtcdTypeOK
  <1> QED  BY <1>2, <1>3 DEF EtcdAge, Confirmed, LeaseAlive, NodeInv

NodeMoves(m) == Moves(m \in wanted, store[m] # NoKey, EtcdAge[m],
                      m \in wanted', store'[m] # NoKey, EtcdAge'[m])

\* Nothing that shows of node m changes.
Quiet(m) ==
  /\ store'[m] = store[m] /\ leases'[m] = leases[m] /\ register'[m] = register[m]
  /\ arg'[m].node = arg[m].node /\ (m \in wanted' <=> m \in wanted)
  /\ leases[m] \in Leases => ttl'[leases[m]] = ttl[leases[m]]

LEMMA QuietMoves ==
  ASSUME EtcdInv, EtcdInv', NEW m \in Nodes, Quiet(m)
  PROVE  NodeMoves(m)
  <1>1. EtcdTypeOK /\ NodeInv(m) /\ EtcdTypeOK' /\ NodeInv(m)'  BY Parts, PartsNext
  <1>2. Confirmed(m)' <=> Confirmed(m)  BY DEF Quiet, Confirmed, LeaseAlive
  <1>3. Confirmed(m) => leases[m] \in Leases  BY DEF Confirmed, LeaseAlive
  <1>4. EtcdAge'[m] = EtcdAge[m]
    BY <1>1, <1>2, <1>3, AgeIs, AgeIsNext DEF Quiet
  <1> QED  BY <1>4 DEF NodeMoves, Moves, Quiet

\* Every node makes a move of the promise.
LEMMA RegisterMoves ==
  ASSUME EtcdInv, EtcdInv', NEW n \in Nodes, Register(n), NEW m \in Nodes
  PROVE  NodeMoves(m)
  <1>1. CASE m \in wanted \/ m # n  BY <1>1, QuietMoves DEF Quiet, Register
  <1>2. CASE m \notin wanted /\ m = n
    <2>1. EtcdTypeOK /\ NodeInv(m) /\ EtcdTypeOK' /\ NodeInv(m)'  BY Parts, PartsNext
    <2>2. ~Confirmed(m) /\ ~Confirmed(m)'  BY <1>2, <2>1 DEF Confirmed, NodeInv, Register
    <2>3. EtcdAge[m] = "out" /\ EtcdAge'[m] = "out"  BY <2>1, <2>2, AgeIs, AgeIsNext
    <2>4. m \in wanted' /\ store' = store  BY <1>2 DEF Register
    <2> QED  BY <2>3, <2>4 DEF NodeMoves, Moves
  <1> QED  BY <1>1, <1>2

LEMMA RegisterChangedMoves ==
  ASSUME EtcdInv, EtcdInv', NEW n \in Nodes, RegisterChanged(n), NEW m \in Nodes
  PROVE  NodeMoves(m)
  <1>1. EtcdTypeOK /\ NodeInv(m) /\ EtcdTypeOK' /\ NodeInv(m)'  BY Parts, PartsNext
  <1>2. /\ arg'[n].node = arg[n].node \/ arg'[n].node = arg[n].node + 1
        /\ \A k \in Nodes \ {n} : arg'[k] = arg[k]
    BY <1>1, ArgMoves DEF RegisterChanged
  <1>3. CASE arg'[m].node = arg[m].node  BY <1>3, QuietMoves DEF Quiet, RegisterChanged
  <1>4. CASE m = n /\ arg'[n].node = arg[n].node + 1
    <2>1. register[m] \in Nat /\ arg[m].node \in Nat /\ register[m] <= arg[m].node
      BY <1>1 DEF EtcdTypeOK, NodeInv
    <2>2. register'[m] # arg'[m].node  BY <1>4, <2>1 DEF RegisterChanged
    <2>3. EtcdAge'[m] = "out"  BY <1>1, <2>2, AgeIsNext DEF Confirmed
    <2>4. m \in wanted /\ m \in wanted' /\ store' = store  BY <1>4 DEF RegisterChanged
    <2> QED  BY <2>3, <2>4 DEF NodeMoves, Moves
  <1> QED  BY <1>2, <1>3, <1>4

LEMMA GetKeyMoves ==
  ASSUME EtcdInv, EtcdInv', NEW n \in Nodes, GetKey(n), NEW m \in Nodes
  PROVE  NodeMoves(m)
  <1>1. EtcdTypeOK /\ NodeInv(m) /\ EtcdTypeOK' /\ NodeInv(m)'  BY Parts, PartsNext
  <1>2. CASE UNCHANGED <<leases, register>>  BY <1>2, QuietMoves DEF Quiet, GetKey
  <1>3. CASE /\ store[n] # NoKey
             /\ leases' = [leases EXCEPT ![n] = store[n].lease]
             /\ register' = [register EXCEPT ![n] = store[n].node]
    <2>1. CASE m # n  BY <1>1, <1>3, <2>1, QuietMoves DEF Quiet, GetKey, EtcdTypeOK
    <2>2. CASE m = n
      <3>1. leases[m] = 0 /\ m \in wanted /\ m \in wanted' /\ store' = store
        BY <1>1, <2>2 DEF NodeInv, GetKey
      <3>2. EtcdAge[m] = "out"  BY <1>1, <3>1, AgeIs DEF Confirmed
      <3>3. EtcdAge'[m] \in {"fresh", "due", "out"}  BY <1>1, AgeIsNext
      <3> QED  BY <1>3, <2>2, <3>1, <3>2, <3>3 DEF NodeMoves, Moves
    <2> QED  BY <2>1, <2>2
  <1> QED  BY <1>2, <1>3 DEF GetKey

\* Every node that is confirmed by the renewed lease is confirmed again.
LEMMA RenewMoves ==
  ASSUME EtcdInv, EtcdInv', NEW n \in Nodes, Renew(n), NEW m \in Nodes
  PROVE  NodeMoves(m)
  <1>1. EtcdTypeOK /\ NodeInv(m) /\ EtcdTypeOK' /\ NodeInv(m)' /\ NodeInv(n)
    BY Parts, PartsNext
  <1>2. CASE UNCHANGED ttl  BY <1>2, QuietMoves DEF Quiet, Renew
  <1>3. CASE ttl[call[n].lease] # "dead" /\ ttl' = [ttl EXCEPT ![call[n].lease] = "fresh"]
    <2>1. call[n].lease \in Leases  BY <1>1 DEF NodeInv, Renew
    <2>2. \A k : AliveNext(k) <=> LeaseAlive(k)
      BY <1>1, <1>3, <2>1 DEF AliveNext, LeaseAlive, EtcdTypeOK
    <2>3. Confirmed(m)' <=> Confirmed(m)
      BY <2>2 DEF Confirmed, LeaseAlive, AliveNext, Renew
    <2>4. UNCHANGED <<store, wanted>>  BY DEF Renew
    <2>5. CASE Confirmed(m)
      <3>1. EtcdAge'[m] \in {"fresh", "due"}  BY <1>1, <2>3, <2>5, AgeIsNext
      <3>2. m \in wanted' /\ store'[m] # NoKey
        BY <1>1, <2>4, <2>5 DEF NodeInv, Confirmed
      <3> QED  BY <3>1, <3>2 DEF NodeMoves, Moves
    <2>6. CASE ~Confirmed(m)
      <3>1. EtcdAge[m] = "out" /\ EtcdAge'[m] = "out"
        BY <1>1, <2>3, <2>6, AgeIs, AgeIsNext
      <3> QED  BY <2>4, <3>1 DEF NodeMoves, Moves
    <2> QED  BY <2>5, <2>6
  <1> QED  BY <1>2, <1>3 DEF Renew

LEMMA CheckGrantMoves ==
  ASSUME EtcdInv, EtcdInv', NEW n \in Nodes, Check(n) \/ Grant(n), NEW m \in Nodes
  PROVE  NodeMoves(m)
  <1>1. UNCHANGED <<store, leases, register, arg, wanted>>  BY DEF Check, Grant
  <1>2. leases[m] \in Leases => ttl'[leases[m]] = ttl[leases[m]]
    <2>1. CASE UNCHANGED ttl  BY <2>1
    <2>2. ASSUME NEW l \in Unused, ttl' = [ttl EXCEPT ![l] = "fresh"]
          PROVE  leases[m] \in Leases => ttl'[leases[m]] = ttl[leases[m]]
      <3>1. l # leases[m]  BY DEF Unused
      <3>2. ttl \in [Leases -> {"dead", "fresh", "due"}]  BY Parts DEF EtcdTypeOK
      <3> QED  BY <2>2, <3>1, <3>2
    <2> QED  BY <2>1, <2>2 DEF Check, Grant
  <1> QED  BY <1>1, <1>2, QuietMoves DEF Quiet

\* The key shows before the node is confirmed, or with it.
LEMMA PutMoves ==
  ASSUME EtcdInv, EtcdInv', NEW n \in Nodes, Put(n), NEW m \in Nodes
  PROVE  NodeMoves(m)
  <1>1. EtcdTypeOK /\ NodeInv(m) /\ EtcdTypeOK' /\ NodeInv(m)'  BY Parts, PartsNext
  <1>2. CASE m # n  BY <1>1, <1>2, QuietMoves DEF Quiet, Put, EtcdTypeOK
  <1>3. CASE m = n
    <2>1. m \in wanted /\ m \in wanted' /\ ~Confirmed(m)
      BY <1>1, <1>3 DEF NodeInv, Confirmed, Put
    <2>2. EtcdAge[m] = "out" /\ EtcdAge'[m] \in {"fresh", "due", "out"}
      BY <1>1, <2>1, AgeIs, AgeIsNext
    <2>3. CASE UNCHANGED <<store, leases, register>>
      BY <2>3, QuietMoves DEF Quiet, Put
    <2>4. CASE store' = [store EXCEPT ![n] = Key(n)]
      <3>1. Key(n).node = arg[n].node /\ arg[n].node # 0
        BY <1>1, <1>3 DEF Key, EtcdTypeOK
      <3>2. store'[m] # NoKey  BY <1>1, <1>3, <2>4, <3>1 DEF NoKey, EtcdTypeOK
      <3> QED  BY <2>1, <2>2, <3>2 DEF NodeMoves, Moves
    <2> QED  BY <2>3, <2>4 DEF Put
  <1> QED  BY <1>2, <1>3

LEMMA LeaveMoves ==
  ASSUME EtcdInv, EtcdInv', NEW n \in Nodes, Deregister(n) \/ Crash(n), NEW m \in Nodes
  PROVE  NodeMoves(m)
  <1>1. EtcdTypeOK /\ NodeInv(m) /\ EtcdTypeOK' /\ NodeInv(m)'  BY Parts, PartsNext
  <1>2. CASE m # n
    <2>1. leases'[m] = leases[m] /\ register'[m] = register[m]
      BY <1>1, <1>2 DEF Deregister, Crash, EtcdTypeOK
    <2> QED  BY <1>2, <2>1, QuietMoves DEF Quiet, Deregister, Crash
  <1>3. CASE m = n
    <2>1. m \notin wanted' /\ store' = store  BY <1>3 DEF Deregister, Crash
    <2>2. ~Confirmed(m)'  BY <1>1, <2>1 DEF NodeInv, Confirmed
    <2>3. EtcdAge'[m] = "out"  BY <1>1, <2>2, AgeIsNext
    <2> QED  BY <2>1, <2>3 DEF NodeMoves, Moves
  <1> QED  BY <1>2, <1>3

LEMMA DeleteMoves ==
  ASSUME EtcdInv, EtcdInv', NEW n \in Nodes, Delete(n), NEW m \in Nodes
  PROVE  NodeMoves(m)
  <1>1. EtcdTypeOK /\ NodeInv(m) /\ EtcdTypeOK' /\ NodeInv(m)'  BY Parts, PartsNext
  <1>2. CASE m # n \/ UNCHANGED store
    <2>1. store'[m] = store[m]  BY <1>1, <1>2 DEF Delete, EtcdTypeOK
    <2> QED  BY <2>1, QuietMoves DEF Quiet, Delete
  <1>3. CASE m = n /\ store' = [store EXCEPT ![n] = NoKey]
    <2>1. m \notin wanted /\ m \notin wanted'  BY <1>1, <1>3 DEF NodeInv, Delete
    <2>2. ~Confirmed(m) /\ ~Confirmed(m)'  BY <1>1, <2>1 DEF NodeInv, Confirmed
    <2>3. EtcdAge[m] = "out" /\ EtcdAge'[m] = "out"  BY <1>1, <2>2, AgeIs, AgeIsNext
    <2>4. ~(store'[m] # NoKey)  BY <1>1, <1>3 DEF EtcdTypeOK
    <2> QED  BY <2>1, <2>3, <2>4 DEF NodeMoves, Moves
  <1> QED  BY <1>2, <1>3 DEF Delete

\* A confirmed node falls due and lapses with its own lease only.
LEMMA LeaseTickMoves ==
  ASSUME EtcdInv, EtcdInv', NEW l \in Leases, LeaseTick(l), NEW m \in Nodes
  PROVE  NodeMoves(m)
  <1>1. EtcdTypeOK /\ NodeInv(m) /\ EtcdTypeOK' /\ NodeInv(m)'  BY Parts, PartsNext
  <1>2. UNCHANGED <<leases, register, arg, wanted>>  BY DEF LeaseTick
  <1>3. CASE ttl[l] = "fresh" /\ ttl' = [ttl EXCEPT ![l] = "due"] /\ UNCHANGED store
    <2>1. CASE leases[m] # l
      BY <1>1, <1>2, <1>3, <2>1, QuietMoves DEF Quiet, EtcdTypeOK
    <2>2. CASE leases[m] = l
      <3>1. ttl'[l] = "due"  BY <1>1, <1>3 DEF EtcdTypeOK
      <3>2. Confirmed(m)' <=> Confirmed(m)
        BY <1>2, <1>3, <2>2, <3>1 DEF Confirmed, LeaseAlive
      <3>3. CASE Confirmed(m)
        <4>1. EtcdAge[m] = "fresh" /\ EtcdAge'[m] = "due"
          BY <1>1, <1>2, <1>3, <2>2, <3>1, <3>2, <3>3, AgeIs, AgeIsNext
        <4> QED  BY <1>2, <1>3, <4>1 DEF NodeMoves, Moves
      <3>4. CASE ~Confirmed(m)
        <4>1. EtcdAge[m] = "out" /\ EtcdAge'[m] = "out"
          BY <1>1, <3>2, <3>4, AgeIs, AgeIsNext
        <4> QED  BY <1>2, <1>3, <4>1 DEF NodeMoves, Moves
      <3> QED  BY <3>3, <3>4
    <2> QED  BY <2>1, <2>2
  <1>4. CASE /\ ttl[l] = "due" /\ ttl' = [ttl EXCEPT ![l] = "dead"]
             /\ store' = [n \in Nodes |-> IF store[n].lease = l THEN NoKey ELSE store[n]]
    <2>1. ttl'[l] = "dead"  BY <1>1, <1>4 DEF EtcdTypeOK
    <2>2. CASE Confirmed(m) /\ leases[m] = l
      <3>1. EtcdAge[m] = "due"  BY <1>1, <1>4, <2>2, AgeIs
      <3>2. ~Confirmed(m)'  BY <1>2, <2>1, <2>2 DEF Confirmed, LeaseAlive
      <3>3. EtcdAge'[m] = "out"  BY <1>1, <3>2, AgeIsNext
      <3>4. ~(store'[m] # NoKey)  BY <1>1, <1>4, <2>2 DEF NodeInv
      <3> QED  BY <1>2, <3>1, <3>3, <3>4 DEF NodeMoves, Moves
    <2>3. CASE Confirmed(m) /\ leases[m] # l
      <3>1. store'[m] = store[m]  BY <1>1, <1>4, <2>3 DEF NodeInv
      <3>2. leases[m] \in Leases => ttl'[leases[m]] = ttl[leases[m]]
        BY <1>1, <1>4, <2>3 DEF EtcdTypeOK
      <3> QED  BY <1>2, <3>1, <3>2, QuietMoves DEF Quiet
    <2>4. CASE ~Confirmed(m)
      <3>1. ~Confirmed(m)'
        <4>1. \A k : AliveNext(k) => LeaseAlive(k)
          BY <1>1, <1>4 DEF AliveNext, LeaseAlive, EtcdTypeOK
        <4> QED  BY <1>2, <2>4, <4>1 DEF Confirmed, LeaseAlive, AliveNext
      <3>2. EtcdAge[m] = "out" /\ EtcdAge'[m] = "out"
        BY <1>1, <2>4, <3>1, AgeIs, AgeIsNext
      <3>3. store'[m] = store[m] \/ store'[m] = NoKey  BY <1>4
      <3> QED  BY <1>2, <3>2, <3>3 DEF NodeMoves, Moves
    <2> QED  BY <2>2, <2>3, <2>4
  <1> QED  BY <1>3, <1>4 DEF LeaseTick

\* The abstract state of all nodes.
Abs == [n \in Nodes |-> State(n \in wanted, n \in EtcdVisible, EtcdAge[n])]

LEMMA StepMoves ==
  ASSUME EtcdInv, EtcdInv', EtcdNext, NEW m \in Nodes
  PROVE  NodeMoves(m)
  <1>1. ASSUME NEW n \in Nodes, Register(n)  PROVE NodeMoves(m)  BY <1>1, RegisterMoves
  <1>2. ASSUME NEW n \in Nodes, RegisterChanged(n)  PROVE NodeMoves(m)
    BY <1>2, RegisterChangedMoves
  <1>3. ASSUME NEW n \in Nodes, Deregister(n) \/ Crash(n)  PROVE NodeMoves(m)
    BY <1>3, LeaveMoves
  <1>4. ASSUME NEW n \in Nodes, Step(n)  PROVE NodeMoves(m)
    BY <1>4, GetKeyMoves, RenewMoves, CheckGrantMoves, PutMoves, DeleteMoves DEF Step
  <1>5. ASSUME NEW l \in Leases, LeaseTick(l)  PROVE NodeMoves(m)  BY <1>5, LeaseTickMoves
  <1> QED  BY <1>1, <1>2, <1>3, <1>4, <1>5 DEF EtcdNext

LEMMA EtcdInitRefines == EtcdInit => EtcdBackend!PInit
  <1> SUFFICES ASSUME EtcdInit  PROVE EtcdBackend!PInit
    OBVIOUS
  <1>1. ASSUME NEW n \in Nodes
        PROVE  /\ (n \in wanted) = FALSE /\ (n \in EtcdVisible) = FALSE
               /\ EtcdAge[n] = "out"
    BY DEF EtcdInit, EtcdVisible, EtcdAge
  <1> QED  BY <1>1, Zenon DEF EtcdBackend!PInit

LEMMA EtcdNextRefines ==
  ASSUME EtcdInv, EtcdInv', [EtcdNext]_etcdVars
  PROVE  EtcdBackend!PNext \/ UNCHANGED Abs
  <1>1. CASE EtcdNext
    <2>1. ASSUME NEW m \in Nodes
          PROVE  EtcdBackend!Allowed(Abs[m], Abs'[m])
      <3>1. NodeMoves(m)  BY <1>1, StepMoves
      <3>2. PICK w \in BOOLEAN, v \in BOOLEAN, x \in BOOLEAN, u \in BOOLEAN :
              /\ (w <=> m \in wanted) /\ (v <=> m \in EtcdVisible)
              /\ (x <=> m \in wanted') /\ (u <=> m \in EtcdVisible')
        OBVIOUS
      <3>3. /\ w = (m \in wanted) /\ v = (m \in EtcdVisible)
            /\ x = (m \in wanted') /\ u = (m \in EtcdVisible')
        BY <3>2
      <3>4. Moves(w, v, EtcdAge[m], x, u, EtcdAge'[m])
        BY <3>1, <3>2 DEF NodeMoves, Moves, EtcdVisible
      <3>5. EtcdBackend!Allowed(State(w, v, EtcdAge[m]), State(x, u, EtcdAge'[m]))
        BY <3>4, MovesAreAllowed
      <3>6. Abs[m] = State(w, v, EtcdAge[m]) /\ Abs'[m] = State(x, u, EtcdAge'[m])
        BY <3>3 DEF Abs
      <3> QED  BY <3>5, <3>6
    <2> QED  BY <2>1 DEF EtcdBackend!PNext, Abs, State
  <1>2. CASE UNCHANGED etcdVars  BY <1>2 DEF etcdVars, Abs, EtcdVisible, EtcdAge
  <1> QED  BY <1>1, <1>2

\* The etcd registry keeps the promise of every registry: a node whose lease is
\* renewed in time is found by every lookup until its owner leaves, through failed
\* requests that took effect or not, crashes and leases that run out.
THEOREM EtcdKeepsPromise == EtcdSpec => EtcdPromise
  <1>1. EtcdInit => EtcdBackend!PInit  BY EtcdInitRefines
  <1>2. EtcdInv /\ EtcdInv' /\ [EtcdNext]_etcdVars =>
          [EtcdBackend!PNext]_[n \in Nodes |->
             [want |-> n \in wanted, visible |-> n \in EtcdVisible, age |-> EtcdAge[n]]]
    BY EtcdNextRefines DEF Abs, State
  <1> QED  BY <1>1, <1>2, EtcdInvariant, PTL DEF EtcdSpec, EtcdPromise, EtcdBackend!PSpec

---------------------------------------------------------------------------
(* The components of MCComponents: a step of the composition is a step of  *)
(* one component and leaves the others as they are.                        *)

LEMMA FacadeMoves == [Next]_vars => [Facade!FacadeNext]_facadeVars
  BY DEF Next, vars, MdnsRuns, LookupRuns, WatchRuns, PublishRuns, FanRuns,
         SocketRuns, LogRuns, HttpRuns, ProxyRuns, StaticRuns, FacadeRuns

---------------------------------------------------------------------------
(* The service facade.                                                     *)

\* The beginning of Order, and what the next step of a Stop adds to it.
StopsUpTo(n) == [i \in 1..n |-> Facade!Order[i]]

LEMMA StopGoesOn ==
  ASSUME NEW n \in 0..(2 * Hooks)
  PROVE  Append(StopsUpTo(n), Facade!Order[n + 1]) = StopsUpTo(n + 1)
  BY FacadeAssumption DEF StopsUpTo

LEMMA OrderIs ==
  /\ \A h \in 1..Hooks : /\ Facade!Order[h] = <<"before", h>>
                         /\ Facade!Order[Hooks + 1 + h] = <<"after", h>>
  /\ Facade!Order[Hooks + 1] = <<"server", 1>>
  BY FacadeAssumption DEF Facade!Order

LEMMA FacadeInitInv == Facade!FacadeInit => Facade!FacadeInv
  <1> SUFFICES ASSUME Facade!FacadeInit  PROVE Facade!FacadeInv
    OBVIOUS
  <1>1. \A a \in Facade!Actors : vStopping[a] = "no" /\ vHook[a] = 1 /\ vRan[a] = <<>>
    BY DEF Facade!FacadeInit
  <1>2. \A a \in Facade!Actors : Facade!Made(a) = 0
    BY <1>1 DEF Facade!Made
  <1>3. \A a \in Facade!Actors : vRan[a] = [i \in 1..Facade!Made(a) |-> Facade!Order[i]]
    BY <1>1, <1>2
  <1>4. vRan = [a \in Facade!Actors |-> [i \in 1..Facade!Made(a) |-> Facade!Order[i]]]
    BY <1>3 DEF Facade!FacadeInit
  <1>5. vHook \in [Facade!Actors -> 1..(Hooks + 1)]
    BY FacadeAssumption DEF Facade!FacadeInit
  <1> QED  BY <1>1, <1>4, <1>5 DEF Facade!FacadeInit, Facade!FacadeInv, Facade!Runner, Facade!Actors

LEMMA RanIs ==
  ASSUME Facade!FacadeInv, NEW a \in Facade!Actors
  PROVE  vRan[a] = StopsUpTo(Facade!Made(a))
  BY Zenon DEF StopsUpTo, Facade!FacadeInv

\* The Stop of a goes to phase s and hook h, having made what ran'[a] says; the
\* other Stops stay.
LEMMA StopMoves ==
  ASSUME Facade!FacadeInv, NEW a \in Facade!Actors,
         NEW s \in {"no", "before", "server", "after", "done"}, NEW h \in 1..(Hooks + 1),
         s \in {"no", "server"} => h = 1,
         vStopping' = [vStopping EXCEPT ![a] = s], vHook' = [vHook EXCEPT ![a] = h],
         vRan' = [b \in Facade!Actors |-> vRan'[b]], \A b \in Facade!Actors \ {a} : vRan'[b] = vRan[b],
         vRan'[a] = StopsUpTo(Facade!Made(a)')
  PROVE  /\ vStopping' \in [Facade!Actors -> {"no", "before", "server", "after", "done"}]
         /\ vHook' \in [Facade!Actors -> 1..(Hooks + 1)]
         /\ \A b \in Facade!Actors : vStopping'[b] \in {"no", "server"} => vHook'[b] = 1
         /\ vRan' = [b \in Facade!Actors |-> [i \in 1..Facade!Made(b)' |-> Facade!Order[i]]]
  <1>1. \A b \in Facade!Actors \ {a} : vStopping'[b] = vStopping[b] /\ vHook'[b] = vHook[b]
    BY DEF Facade!FacadeInv
  <1>2. \A b \in Facade!Actors \ {a} : Facade!Made(b)' = Facade!Made(b)
    BY <1>1 DEF Facade!Made
  <1>3. ASSUME NEW b \in Facade!Actors
        PROVE  vRan'[b] = [i \in 1..Facade!Made(b)' |-> Facade!Order[i]]
    <2>1. CASE b = a  BY <2>1 DEF StopsUpTo
    <2>2. CASE b # a
      <3>1. vRan[b] = StopsUpTo(Facade!Made(b))  BY RanIs
      <3> QED  BY <1>2, <2>2, <3>1 DEF StopsUpTo
    <2> QED  BY <2>1, <2>2
  <1>5. vRan' = [b \in Facade!Actors |-> [i \in 1..Facade!Made(b)' |-> Facade!Order[i]]]
    BY <1>3, Zenon
  <1>6. /\ vStopping' \in [Facade!Actors -> {"no", "before", "server", "after", "done"}]
        /\ vHook' \in [Facade!Actors -> 1..(Hooks + 1)]
        /\ vStopping'[a] = s /\ vHook'[a] = h
    BY DEF Facade!FacadeInv
  <1>7. \A b \in Facade!Actors : vStopping'[b] \in {"no", "server"} => vHook'[b] = 1
    BY <1>1, <1>6 DEF Facade!FacadeInv
  <1> QED  BY <1>5, <1>6, <1>7

LEMMA FacadeStarts ==
  ASSUME Facade!FacadeInv, NEW phase, NEW then,
         <<phase, then>> \in {<<"before", "server">>, <<"after", "waits">>},
         Facade!StartHook(phase, then)
  PROVE  Facade!FacadeInv'
  <1>0. /\ vRun = phase /\ UNCHANGED <<vStopping, vHook, vFailed, vRan, vServer>>
        /\ \/ vRun' = vRun /\ vError' = vError
           \/ vRun' = "returned" /\ vError' = phase
           \/ vRun' = then /\ vError' = vError
    BY DEF Facade!StartHook
  <1>1. \A a \in Facade!Actors : Facade!Made(a)' = Facade!Made(a)
    BY <1>0 DEF Facade!Made
  <1> QED  BY <1>0, <1>1 DEF Facade!FacadeInv

LEMMA FacadeServes ==
  ASSUME Facade!FacadeInv, Facade!StartServer \/ Facade!RunReturns
  PROVE  Facade!FacadeInv'
  <1>0. /\ UNCHANGED <<vStopping, vHook, vFailed, vRan>>
        /\ \/ vRun = "server" /\ vRun' = "after" /\ vServer' = "up"
           \/ vRun = "server" /\ vRun' = "returned" /\ vServer' = vServer
           \/ /\ vRun = "stops" /\ vStopping[Facade!Runner] = "done"
              /\ vRun' = "returned" /\ vServer' = vServer
    BY DEF Facade!StartServer, Facade!RunReturns
  <1>1. \A a \in Facade!Actors : Facade!Made(a)' = Facade!Made(a)
    BY <1>0 DEF Facade!Made
  <1> QED  BY <1>0, <1>1 DEF Facade!FacadeInv

LEMMA FacadeStopCalled ==
  ASSUME Facade!FacadeInv, Facade!Signal \/ \E a \in Facade!Actors : Facade!StopCalled(a)
  PROVE  Facade!FacadeInv'
  <1>1. PICK a \in Facade!Actors :
          /\ vStopping' = [vStopping EXCEPT ![a] = "before"] /\ vStopping[a] = "no"
          /\ UNCHANGED <<vHook, vRan, vServer, vError>>
          /\ \/ a = Facade!Runner /\ vRun = "waits" /\ vRun' = "stops"
             \/ a # Facade!Runner /\ vRun' = vRun
    BY FacadeAssumption
    DEF Facade!Signal, Facade!StopCalled, Facade!FacadeInv, Facade!Actors, Facade!Runner
  <1>2. vHook[a] = 1 /\ 1 \in 1..(Hooks + 1) /\ vHook' = [vHook EXCEPT ![a] = 1]
    BY <1>1, FacadeAssumption DEF Facade!FacadeInv
  <1>3. Facade!Made(a) = 0 /\ Facade!Made(a)' = 0
    BY <1>1, <1>2 DEF Facade!Made, Facade!FacadeInv
  <1>4. vRan'[a] = StopsUpTo(Facade!Made(a)') /\ vRan' = [b \in Facade!Actors |-> vRan'[b]]
    BY <1>1, <1>3, RanIs DEF Facade!FacadeInv
  <1>5. /\ vStopping' \in [Facade!Actors -> {"no", "before", "server", "after", "done"}]
        /\ vHook' \in [Facade!Actors -> 1..(Hooks + 1)]
        /\ \A b \in Facade!Actors : vStopping'[b] \in {"no", "server"} => vHook'[b] = 1
        /\ vRan' = [b \in Facade!Actors |-> [i \in 1..Facade!Made(b)' |-> Facade!Order[i]]]
    BY <1>1, <1>2, <1>4, StopMoves
  <1>6. vStopping'[Facade!Runner] = IF a = Facade!Runner THEN "before" ELSE vStopping[Facade!Runner]
    BY <1>1 DEF Facade!FacadeInv, Facade!Actors
  <1> QED  BY <1>1, <1>5, <1>6 DEF Facade!FacadeInv

LEMMA FacadeStopServer ==
  ASSUME Facade!FacadeInv, NEW a \in Facade!Actors, Facade!StopServer(a)
  PROVE  Facade!FacadeInv'
  <1>1. /\ vStopping[a] = "server" /\ vStopping' = [vStopping EXCEPT ![a] = "after"]
        /\ vServer' = "down" /\ UNCHANGED <<vRun, vError, vHook>>
        /\ vRan' = [vRan EXCEPT ![a] = Append(@, <<"server", 1>>)]
    BY DEF Facade!StopServer
  <1>2. vHook[a] = 1 /\ 1 \in 1..(Hooks + 1) /\ vHook' = [vHook EXCEPT ![a] = 1]
    BY <1>1, FacadeAssumption DEF Facade!FacadeInv
  <1>3. Facade!Made(a) = Hooks /\ Facade!Made(a)' = Hooks + 1
    BY <1>1, <1>2 DEF Facade!Made, Facade!FacadeInv
  <1>4. vRan[a] = StopsUpTo(Hooks)  BY <1>3, RanIs
  <1>5. vRan'[a] = StopsUpTo(Hooks + 1)
    <2>1. vRan'[a] = Append(vRan[a], <<"server", 1>>)  BY <1>1 DEF Facade!FacadeInv
    <2>2. Hooks \in 0..(2 * Hooks)  BY FacadeAssumption
    <2> QED  BY <1>4, <2>1, <2>2, StopGoesOn, OrderIs
  <1>6. vRan' = [b \in Facade!Actors |-> vRan'[b]] /\ \A b \in Facade!Actors \ {a} : vRan'[b] = vRan[b]
    BY <1>1 DEF Facade!FacadeInv
  <1>7. /\ vStopping' \in [Facade!Actors -> {"no", "before", "server", "after", "done"}]
        /\ vHook' \in [Facade!Actors -> 1..(Hooks + 1)]
        /\ \A b \in Facade!Actors : vStopping'[b] \in {"no", "server"} => vHook'[b] = 1
        /\ vRan' = [b \in Facade!Actors |-> [i \in 1..Facade!Made(b)' |-> Facade!Order[i]]]
    <2>1. vRan'[a] = StopsUpTo(Facade!Made(a)')  BY <1>3, <1>5
    <2> QED  BY <1>1, <1>2, <1>6, <2>1, StopMoves
  <1>8. vStopping'[Facade!Runner] = IF a = Facade!Runner THEN "after" ELSE vStopping[Facade!Runner]
    BY <1>1 DEF Facade!FacadeInv, Facade!Actors
  <1> QED  BY <1>1, <1>7, <1>8 DEF Facade!FacadeInv

LEMMA FacadeStopHook ==
  ASSUME Facade!FacadeInv, NEW a \in Facade!Actors, NEW phase, NEW then,
         <<phase, then>> \in {<<"before", "server">>, <<"after", "done">>},
         Facade!StopHook(a, phase, then)
  PROVE  Facade!FacadeInv'
  <1>0. vStopping[a] = phase /\ UNCHANGED <<vRun, vError, vServer>> /\ vHook[a] \in 1..(Hooks + 1)
    BY DEF Facade!StopHook, Facade!FacadeInv
  <1>1. CASE vHook[a] <= Hooks
    <2>1. /\ vRan' = [vRan EXCEPT ![a] = Append(@, <<phase, vHook[a]>>)]
          /\ vHook' = [vHook EXCEPT ![a] = vHook[a] + 1] /\ vStopping' = vStopping
      BY <1>1 DEF Facade!StopHook, Facade!FacadeInv
    <2>2. vHook'[a] = vHook[a] + 1 /\ vHook[a] + 1 \in 1..(Hooks + 1)
      BY <1>0, <1>1, <2>1, FacadeAssumption DEF Facade!FacadeInv
    <2>3. PICK n \in 0..(2 * Hooks) :
            /\ n = Facade!Made(a) /\ Facade!Made(a)' = n + 1
            /\ Facade!Order[n + 1] = <<phase, vHook[a]>>
      <3>1. CASE phase = "before"
        <4>1. Facade!Made(a) = vHook[a] - 1 /\ Facade!Made(a)' = vHook[a]
          BY <1>0, <2>1, <2>2, <3>1 DEF Facade!Made
        <4> QED  BY <1>0, <1>1, <3>1, <4>1, OrderIs, FacadeAssumption
      <3>2. CASE phase = "after"
        <4>1. Facade!Made(a) = Hooks + vHook[a] /\ Facade!Made(a)' = Hooks + vHook[a] + 1
          BY <1>0, <2>1, <2>2, <3>2, FacadeAssumption DEF Facade!Made
        <4>2. Facade!Order[Hooks + 1 + vHook[a]] = <<phase, vHook[a]>>
          BY <1>0, <1>1, <3>2, OrderIs, FacadeAssumption
        <4> QED  BY <1>0, <1>1, <4>1, <4>2, FacadeAssumption
      <3> QED  BY <3>1, <3>2
    <2>4. vRan[a] = StopsUpTo(n)  BY <2>3, RanIs
    <2>5. vRan'[a] = StopsUpTo(n + 1)  BY <2>1, <2>3, <2>4, StopGoesOn DEF Facade!FacadeInv
    <2>6. vRan' = [b \in Facade!Actors |-> vRan'[b]] /\ \A b \in Facade!Actors \ {a} : vRan'[b] = vRan[b]
      BY <2>1 DEF Facade!FacadeInv
    <2>7. vStopping' = [vStopping EXCEPT ![a] = phase]  BY <1>0, <2>1 DEF Facade!FacadeInv
    <2>8. PICK h \in 1..(Hooks + 1) : h = vHook[a] + 1  BY <2>2
    <2>9. vHook' = [vHook EXCEPT ![a] = h] /\ vRan'[a] = StopsUpTo(Facade!Made(a)')
      BY <2>1, <2>3, <2>5, <2>8
    <2>10. phase \in {"before", "after"}  OBVIOUS
    <2>11. /\ vStopping' \in [Facade!Actors -> {"no", "before", "server", "after", "done"}]
           /\ vHook' \in [Facade!Actors -> 1..(Hooks + 1)]
           /\ \A b \in Facade!Actors : vStopping'[b] \in {"no", "server"} => vHook'[b] = 1
           /\ vRan' = [b \in Facade!Actors |-> [i \in 1..Facade!Made(b)' |-> Facade!Order[i]]]
      BY <2>6, <2>7, <2>9, <2>10, StopMoves
    <2> QED  BY <1>0, <2>1, <2>11 DEF Facade!FacadeInv
  <1>2. CASE vHook[a] = Hooks + 1
    <2>1. /\ vStopping' = [vStopping EXCEPT ![a] = then]
          /\ vHook' = [vHook EXCEPT ![a] = 1] /\ vRan' = vRan
      BY <1>2, FacadeAssumption DEF Facade!StopHook
    <2>2. Facade!Made(a)' = Facade!Made(a)
      <3>1. vStopping'[a] = then /\ vHook'[a] = 1  BY <2>1 DEF Facade!FacadeInv
      <3>2. CASE phase = "before" /\ then = "server"
        <4>1. Facade!Made(a) = vHook[a] - 1  BY <1>0, <3>2 DEF Facade!Made
        <4>2. Facade!Made(a)' = Hooks  BY <3>1, <3>2 DEF Facade!Made
        <4> QED  BY <1>2, <4>1, <4>2, FacadeAssumption
      <3>3. CASE phase = "after" /\ then = "done"
        <4>1. Facade!Made(a) = Hooks + vHook[a]  BY <1>0, <3>3 DEF Facade!Made
        <4>2. Facade!Made(a)' = 2 * Hooks + 1  BY <3>1, <3>3 DEF Facade!Made
        <4> QED  BY <1>2, <4>1, <4>2, FacadeAssumption
      <3> QED  BY <3>2, <3>3
    <2>3. vRan'[a] = StopsUpTo(Facade!Made(a)') /\ vRan' = [b \in Facade!Actors |-> vRan'[b]]
      BY <2>1, <2>2, RanIs DEF Facade!FacadeInv
    <2>4. 1 \in 1..(Hooks + 1)  BY FacadeAssumption
    <2>5. /\ vStopping' \in [Facade!Actors -> {"no", "before", "server", "after", "done"}]
          /\ vHook' \in [Facade!Actors -> 1..(Hooks + 1)]
          /\ \A b \in Facade!Actors : vStopping'[b] \in {"no", "server"} => vHook'[b] = 1
          /\ vRan' = [b \in Facade!Actors |-> [i \in 1..Facade!Made(b)' |-> Facade!Order[i]]]
      BY <2>1, <2>3, <2>4, StopMoves
    <2>6. vStopping'[Facade!Runner] = IF a = Facade!Runner THEN then ELSE vStopping[Facade!Runner]
      BY <2>1 DEF Facade!FacadeInv, Facade!Actors
    <2> QED  BY <1>0, <2>5, <2>6 DEF Facade!FacadeInv
  <1> QED  BY <1>0, <1>1, <1>2, FacadeAssumption

LEMMA FacadeNextInv == Facade!FacadeInv /\ [Facade!FacadeNext]_facadeVars => Facade!FacadeInv'
  <1> SUFFICES ASSUME Facade!FacadeInv, [Facade!FacadeNext]_facadeVars
               PROVE  Facade!FacadeInv'
    OBVIOUS
  <1>1. CASE Facade!FacadeNext
    BY <1>1, FacadeStarts, FacadeServes, FacadeStopCalled, FacadeStopServer, FacadeStopHook
    DEF Facade!FacadeNext
  <1>2. CASE UNCHANGED facadeVars
    <2>1. \A a \in Facade!Actors : Facade!Made(a)' = Facade!Made(a)
      BY <1>2 DEF facadeVars, Facade!Made
    <2> QED  BY <1>2, <2>1 DEF facadeVars, Facade!FacadeInv
  <1> QED  BY <1>1, <1>2

\* Stop of a service: every Stop that has returned has run all hooks and stopped
\* the server in order, whatever failed and whoever stopped beside it, for any
\* number of hooks and goroutines; a Run that returned left a server only when a
\* hook after its start failed.
THEOREM StopsAreTotal == Spec => []StopIsTotal
  <1>1. Init => Facade!FacadeInv  BY FacadeInitInv DEF Init
  <1>2. Facade!FacadeInv /\ [Next]_vars => Facade!FacadeInv'  BY FacadeNextInv, FacadeMoves
  <1>3. Facade!FacadeInv => StopIsTotal
    <2> SUFFICES ASSUME Facade!FacadeInv  PROVE Facade!StopIsTotal
      BY DEF StopIsTotal
    <2>1. ASSUME NEW a \in Facade!Actors, vStopping[a] = "done"  PROVE vRan[a] = Facade!Order
      <3>1. Facade!Made(a) = 2 * Hooks + 1  BY <2>1 DEF Facade!Made
      <3> QED  BY <3>1 DEF Facade!FacadeInv, Facade!Order
    <2> QED  BY <2>1 DEF Facade!StopIsTotal, Facade!FacadeInv
  <1> QED  BY <1>1, <1>2, <1>3, PTL DEF Spec

---------------------------------------------------------------------------
(* The log writer.                                                         *)

LEMMA LogMoves == [Next]_vars => [Log!LogNext]_logVars
  BY DEF Next, vars, MdnsRuns, LookupRuns, WatchRuns, PublishRuns, FanRuns,
         SocketRuns, LogRuns, HttpRuns, ProxyRuns, StaticRuns, FacadeRuns

LEMMA InHandIs == \A o : Log!InHand(o) <=> o = gListener \/ o = gCloser \/ o \in Log!Queued
  BY DEF Log!InHand, Log!Queued

LEMMA InHandIsNext ==
  \A o : Log!InHand(o)' <=> o = gListener' \/ o = gCloser' \/ o \in Log!Queued'
  BY DEF Log!InHand, Log!Queued

LEMMA LineIs ==
  ASSUME Log!LogTypeOK, NEW l \in Loggers, gNext[l] <= MaxLines
  PROVE  /\ Log!Line(l) \in Log!Logged /\ Log!Line(l).by = l /\ Log!Line(l).n = gNext[l]
         /\ gNext[l] \in Nat
  BY LogAssumption DEF Log!LogTypeOK, Log!Line, Log!Logged

LEMMA LoggedIs ==
  ASSUME NEW x \in Log!Logged
  PROVE  /\ x.by \in Loggers /\ x.n \in Nat /\ x # Log!None
         /\ \A y \in Log!Logged : x.by = y.by /\ x.n = y.n => x = y
  BY LogAssumption DEF Log!Logged, Log!None

\* The front of the channel is taken.
LEMMA QueueTaken ==
  ASSUME Log!LogInv, gQueue # <<>>, gQueue' = Tail(gQueue)
  PROVE  /\ gQueue' \in Seq(Objects) /\ Head(gQueue) \in Objects /\ Head(gQueue) \in Log!Queued
         /\ Log!Queued' = Log!Queued \ {Head(gQueue)}
         /\ \A i, j \in 1..Len(gQueue') : gQueue'[i] = gQueue'[j] => i = j
  <1>1. /\ gQueue \in Seq(Objects) /\ Len(gQueue) \in Nat \ {0}
        /\ \A i, j \in 1..Len(gQueue) : gQueue[i] = gQueue[j] => i = j
    BY DEF Log!LogInv, Log!LogTypeOK, Log!OnePlace
  <1>2. /\ Head(gQueue) = gQueue[1] /\ Len(gQueue') = Len(gQueue) - 1 /\ gQueue' \in Seq(Objects)
        /\ \A i \in 1..Len(gQueue') : gQueue'[i] = gQueue[i + 1]
    BY <1>1
  <1>3. ASSUME NEW o  PROVE o \in Log!Queued' <=> o \in Log!Queued /\ o # gQueue[1]
    <2>1. ASSUME o \in Log!Queued'  PROVE o \in Log!Queued /\ o # gQueue[1]
      <3>1. PICK i \in 1..Len(gQueue') : o = gQueue'[i]  BY <2>1 DEF Log!Queued
      <3> QED  BY <1>1, <1>2, <3>1 DEF Log!Queued
    <2>2. ASSUME o \in Log!Queued, o # gQueue[1]  PROVE o \in Log!Queued'
      <3>1. PICK i \in 1..Len(gQueue) : o = gQueue[i]  BY <2>2 DEF Log!Queued
      <3>2. i - 1 \in 1..Len(gQueue') /\ gQueue'[i - 1] = o  BY <1>1, <1>2, <2>2, <3>1
      <3> QED  BY <3>2 DEF Log!Queued
    <2> QED  BY <2>1, <2>2
  <1> QED  BY <1>1, <1>2, <1>3 DEF Log!Queued

\* An object that is not there is put at the end of the channel.
LEMMA QueueGrows ==
  ASSUME Log!LogInv, NEW o \in Objects, o \notin Log!Queued, gQueue' = Append(gQueue, o)
  PROVE  /\ gQueue' \in Seq(Objects) /\ Log!Queued' = Log!Queued \cup {o}
         /\ \A i, j \in 1..Len(gQueue') : gQueue'[i] = gQueue'[j] => i = j
  <1>1. /\ gQueue \in Seq(Objects) /\ Len(gQueue) \in Nat
        /\ \A i, j \in 1..Len(gQueue) : gQueue[i] = gQueue[j] => i = j
    BY DEF Log!LogInv, Log!LogTypeOK, Log!OnePlace
  <1>2. /\ Len(gQueue') = Len(gQueue) + 1 /\ gQueue' \in Seq(Objects)
        /\ \A i \in 1..Len(gQueue) : gQueue'[i] = gQueue[i]
        /\ gQueue'[Len(gQueue) + 1] = o
    BY <1>1
  <1>3. \A i \in 1..Len(gQueue) : gQueue[i] # o  BY DEF Log!Queued
  <1>4. ASSUME NEW p  PROVE p \in Log!Queued' <=> p \in Log!Queued \/ p = o
    <2>1. \A i \in 1..Len(gQueue') : i \in 1..Len(gQueue) \/ i = Len(gQueue) + 1
      BY <1>1, <1>2
    <2>2. \A i \in 1..Len(gQueue) : i \in 1..Len(gQueue')  BY <1>1, <1>2
    <2>3. Len(gQueue) + 1 \in 1..Len(gQueue')  BY <1>1, <1>2
    <2> QED  BY <1>2, <2>1, <2>2, <2>3 DEF Log!Queued
  <1>5. Log!Queued' = Log!Queued \cup {o}  BY <1>4
  <1>6. \A i, j \in 1..Len(gQueue') : gQueue'[i] = gQueue'[j] => i = j  BY <1>1, <1>2, <1>3
  <1> QED  BY <1>2, <1>5, <1>6

---------------------------------------------------------------------------
\* What a step does to the lines, in four kinds.

\* Nobody's line moves: the objects in hand are the same, with the same text.
LEMMA LinesStay ==
  ASSUME Log!LogInv, UNCHANGED <<gNext, gDone, gDropped>>,
         \A o \in Objects : Log!InHand(o)' <=> Log!InHand(o),
         \A o \in Objects : Log!InHand(o) => gText'[o] = gText[o]
  PROVE  /\ \A x \in Log!Logged : Log!Accounted(x)'
         /\ \A o \in Objects : Log!InHand(o)' =>
              gText'[o] \in Log!Logged /\ gText'[o].n < gNext'[gText'[o].by]
  <1>1. \A x : \A o \in Objects : Log!Holds(o, x)' <=> Log!Holds(o, x)  BY DEF Log!Holds
  <1>2. ASSUME NEW x \in Log!Logged  PROVE Log!Accounted(x)'
    <2>1. Log!Accounted(x)  BY DEF Log!LogInv
    <2> QED  BY <1>1, <2>1 DEF Log!Accounted
  <1> QED  BY <1>2 DEF Log!LogInv, Log!TextsKept

\* The write of a line returns: it was written, dropped, or is in hand now.
LEMMA LineEnds ==
  ASSUME Log!LogInv, NEW l \in Loggers, gNext[l] <= MaxLines, gText' = gText,
         gNext' = [gNext EXCEPT ![l] = @ + 1],
         \/ /\ gDone' = [gDone EXCEPT ![Log!Line(l)] = @ + 1] /\ gDropped' = gDropped
            /\ \A o \in Objects : Log!InHand(o)' <=> Log!InHand(o)
         \/ /\ gDropped' = gDropped \cup {Log!Line(l)} /\ gDone' = gDone
            /\ \A o \in Objects : Log!InHand(o)' <=> Log!InHand(o)
         \/ /\ gDropped' = gDropped /\ gDone' = gDone
            /\ \E p \in Objects :
                 /\ gText[p] = Log!Line(l) /\ ~Log!InHand(p)
                 /\ \A o \in Objects : Log!InHand(o)' <=> Log!InHand(o) \/ o = p
  PROVE  /\ \A x \in Log!Logged : Log!Accounted(x)'
         /\ \A o \in Objects : Log!InHand(o)' =>
              gText'[o] \in Log!Logged /\ gText'[o].n < gNext'[gText'[o].by]
  <1>0. Log!LogTypeOK  BY DEF Log!LogInv
  <1>1. PICK y \in Log!Logged :
          y = Log!Line(l) /\ y.by = l /\ y.n = gNext[l] /\ gNext[l] \in Nat
    BY <1>0, LineIs
  <1>2. \A k \in Loggers : gNext'[k] \in Nat /\ gNext[k] \in Nat
                           /\ gNext'[k] = IF k = l THEN gNext[k] + 1 ELSE gNext[k]
    BY <1>0 DEF Log!LogTypeOK
  <1>3. gDone[y] = 0 /\ y \notin gDropped /\ \A o \in Objects : ~Log!Holds(o, y)
    <2>1. Log!Accounted(y)  BY <1>1 DEF Log!LogInv
    <2>2. gDone[y] = 0 /\ y \notin gDropped  BY <1>1, <2>1 DEF Log!Accounted
    <2>3. \A o \in Objects : Log!InHand(o) => gText[o].n < gNext[gText[o].by]
      BY DEF Log!LogInv, Log!TextsKept
    <2> QED  BY <1>1, <2>2, <2>3 DEF Log!Holds
  <1>4. ASSUME NEW x \in Log!Logged, x # y  PROVE Log!Accounted(x)'
    <2>1. Log!Accounted(x)  BY DEF Log!LogInv
    <2>2. \A o \in Objects : Log!Holds(o, x)' <=> Log!Holds(o, x)
      BY <1>1, <1>4 DEF Log!Holds
    <2>3. gDone'[x] = gDone[x] /\ (x \in gDropped' <=> x \in gDropped)
      BY <1>0, <1>1, <1>4 DEF Log!LogTypeOK
    <2>4. x.n >= gNext'[x.by] <=> x.n >= gNext[x.by]
      <3>1. x.by \in Loggers /\ x.n \in Nat /\ ~(x.by = y.by /\ x.n = y.n)
        BY <1>1, <1>4, LoggedIs
      <3> QED  BY <1>1, <1>2, <3>1
    <2> QED  BY <2>1, <2>2, <2>3, <2>4 DEF Log!Accounted
  <1>5. Log!Accounted(y)'
    <2>1. ~(y.n >= gNext'[y.by])  BY <1>1, <1>2
    <2>2. CASE /\ gDone' = [gDone EXCEPT ![y] = @ + 1] /\ gDropped' = gDropped
               /\ \A o \in Objects : Log!InHand(o)' <=> Log!InHand(o)
      <3>1. gDone'[y] = 1  BY <1>0, <1>1, <1>3, <2>2 DEF Log!LogTypeOK
      <3>2. \A o \in Objects : ~Log!Holds(o, y)'  BY <1>3, <2>2 DEF Log!Holds
      <3> QED  BY <1>3, <2>1, <2>2, <3>1, <3>2 DEF Log!Accounted
    <2>3. CASE /\ gDropped' = gDropped \cup {y} /\ gDone' = gDone
               /\ \A o \in Objects : Log!InHand(o)' <=> Log!InHand(o)
      <3>2. \A o \in Objects : ~Log!Holds(o, y)'  BY <1>3, <2>3 DEF Log!Holds
      <3> QED  BY <1>3, <2>1, <2>3, <3>2 DEF Log!Accounted
    <2>4. CASE /\ gDropped' = gDropped /\ gDone' = gDone
               /\ \E p \in Objects :
                    /\ gText[p] = y /\ ~Log!InHand(p)
                    /\ \A o \in Objects : Log!InHand(o)' <=> Log!InHand(o) \/ o = p
      <3>1. PICK p \in Objects : gText[p] = y /\ ~Log!InHand(p)
              /\ \A o \in Objects : Log!InHand(o)' <=> Log!InHand(o) \/ o = p
        BY <2>4
      <3>2. Log!Holds(p, y)' /\ \A o \in Objects : Log!Holds(o, y)' => o = p
        BY <1>3, <3>1 DEF Log!Holds
      <3> QED  BY <1>3, <2>1, <2>4, <3>2 DEF Log!Accounted
    <2> QED  BY <1>1, <2>2, <2>3, <2>4
  <1>6. ASSUME NEW o \in Objects, Log!InHand(o)'
        PROVE  gText'[o] \in Log!Logged /\ gText'[o].n < gNext'[gText'[o].by]
    <2>1. CASE Log!InHand(o)
      <3>1. gText[o] \in Log!Logged /\ gText[o].n < gNext[gText[o].by]
        BY <2>1 DEF Log!LogInv, Log!TextsKept
      <3>2. gText[o].by \in Loggers /\ gText[o].n \in Nat  BY <3>1, LoggedIs
      <3> QED  BY <1>1, <1>2, <3>1, <3>2
    <2>2. CASE ~Log!InHand(o)
      <3>1. gText[o] = y  BY <1>1, <1>6, <2>2
      <3> QED  BY <1>1, <1>2, <3>1
    <2> QED  BY <2>1, <2>2
  <1> QED  BY <1>4, <1>5, <1>6

\* The line of an object in hand is written, and the object is let go.
LEMMA ObjectWritten ==
  ASSUME Log!LogInv, NEW p \in Objects, Log!InHand(p), UNCHANGED <<gNext, gDropped>>,
         gDone' = [gDone EXCEPT ![gText[p]] = @ + 1],
         \A o \in Objects : Log!InHand(o)' <=> Log!InHand(o) /\ o # p,
         \A o \in Objects \ {p} : gText'[o] = gText[o]
  PROVE  /\ \A x \in Log!Logged : Log!Accounted(x)'
         /\ \A o \in Objects : Log!InHand(o)' =>
              gText'[o] \in Log!Logged /\ gText'[o].n < gNext'[gText'[o].by]
  <1>0. Log!LogTypeOK  BY DEF Log!LogInv
  <1>1. PICK y \in Log!Logged : y = gText[p] /\ y.n < gNext[y.by]
    BY DEF Log!LogInv, Log!TextsKept
  <1>2. \A x : \A o \in Objects : Log!Holds(o, x)' <=> Log!Holds(o, x) /\ o # p
    BY DEF Log!Holds
  <1>3. ASSUME NEW x \in Log!Logged, x # y  PROVE Log!Accounted(x)'
    <2>1. Log!Accounted(x)  BY DEF Log!LogInv
    <2>2. gDone'[x] = gDone[x]  BY <1>0, <1>1, <1>3 DEF Log!LogTypeOK
    <2>3. ~Log!Holds(p, x)  BY <1>1, <1>3 DEF Log!Holds
    <2>4. \A o \in Objects : Log!Holds(o, x)' <=> Log!Holds(o, x)  BY <1>2, <2>3
    <2> QED  BY <2>1, <2>2, <2>4 DEF Log!Accounted
  <1>4. Log!Accounted(y)'
    <2>1. Log!Accounted(y) /\ Log!Holds(p, y)  BY <1>1 DEF Log!LogInv, Log!Holds
    <2>2. ~(y.n >= gNext[y.by])
      <3>1. y.by \in Loggers /\ y.n \in Nat /\ gNext[y.by] \in Nat
        BY <1>0, LoggedIs DEF Log!LogTypeOK
      <3> QED  BY <1>1, <3>1
    <2>3. gDone[y] = 0 /\ y \notin gDropped /\ \A o \in Objects : Log!Holds(o, y) => o = p
      BY <2>1, <2>2 DEF Log!Accounted
    <2>4. gDone'[y] = 1  BY <1>0, <1>1, <2>3 DEF Log!LogTypeOK
    <2>5. \A o \in Objects : ~Log!Holds(o, y)'  BY <1>2, <2>3
    <2> QED  BY <2>2, <2>3, <2>4, <2>5 DEF Log!Accounted
  <1>5. \A o \in Objects : Log!InHand(o)' =>
              gText'[o] \in Log!Logged /\ gText'[o].n < gNext'[gText'[o].by]
    BY DEF Log!LogInv, Log!TextsKept
  <1> QED  BY <1>3, <1>4, <1>5

---------------------------------------------------------------------------
LEMMA LogWriteBegins ==
  ASSUME Log!LogInv, NEW l \in Loggers, Log!writeBegins(l)
  PROVE  Log!LogInv'
  <1>0. /\ Log!LogTypeOK /\ Log!OnePlace /\ Log!TextsKept
        /\ gAt[l] = "idle" /\ gNext[l] <= MaxLines
        /\ UNCHANGED <<gQueue, gNext, gListener, gCloser, gDropped, gDone>>
    BY DEF Log!LogInv, Log!writeBegins, Log!Idle
  <1> USE <1>0
  <1>1. \A o : (Log!InHand(o)' <=> Log!InHand(o)) /\ (o \in Log!Queued' <=> o \in Log!Queued)
    BY DEF Log!InHand, Log!Queued
  <1>2. \A k \in Loggers : Log!Line(k)' = Log!Line(k)  BY DEF Log!Line
  <1>3. CASE /\ gAt' = [gAt EXCEPT ![l] = "sync"] /\ UNCHANGED <<gFree, gText>>
    <2>1. Log!LogTypeOK'  BY <1>3 DEF Log!LogTypeOK, Log!Sync
    <2>2. \A k \in Loggers : gAt'[k] = IF k = l THEN "sync" ELSE gAt[k]
      BY <1>3 DEF Log!LogTypeOK
    <2>3. "sync" \notin Objects  BY LogAssumption
    <2>4. Log!OnePlace'  BY <1>1, <1>3, <2>2, <2>3 DEF Log!OnePlace
    <2>5. /\ \A x \in Log!Logged : Log!Accounted(x)'
          /\ \A o \in Objects : Log!InHand(o)' =>
               gText'[o] \in Log!Logged /\ gText'[o].n < gNext'[gText'[o].by]
      BY <1>1, <1>3, LinesStay
    <2>6. Log!TextsKept'
      BY <1>2, <1>3, <2>2, <2>3, <2>5 DEF Log!TextsKept
    <2> QED  BY <2>1, <2>4, <2>5, <2>6 DEF Log!LogInv
  <1>4. CASE \E o \in gFree : /\ gFree' = gFree \ {o}
                              /\ gText' = [gText EXCEPT ![o] = Log!Line(l)]
                              /\ gAt' = [gAt EXCEPT ![l] = o]
    <2>1. PICK o \in gFree : /\ gFree' = gFree \ {o}
                             /\ gText' = [gText EXCEPT ![o] = Log!Line(l)]
                             /\ gAt' = [gAt EXCEPT ![l] = o]
      BY <1>4
    <2>2. o \in Objects /\ ~Log!InHand(o) /\ Log!Line(l) \in Log!Logged
      BY LineIs DEF Log!LogTypeOK, Log!OnePlace
    <2>3. Log!LogTypeOK'  BY <2>1, <2>2 DEF Log!LogTypeOK
    <2>4. /\ \A k \in Loggers : gAt'[k] = IF k = l THEN o ELSE gAt[k]
          /\ \A p \in Objects : gText'[p] = IF p = o THEN Log!Line(l) ELSE gText[p]
      BY <2>1 DEF Log!LogTypeOK
    <2>5. \A k \in Loggers : gAt[k] # o  BY <2>2 DEF Log!OnePlace
    <2>6. Log!OnePlace'  BY <1>1, <2>1, <2>2, <2>4, <2>5 DEF Log!OnePlace
    <2>7. /\ \A x \in Log!Logged : Log!Accounted(x)'
          /\ \A p \in Objects : Log!InHand(p)' =>
               gText'[p] \in Log!Logged /\ gText'[p].n < gNext'[gText'[p].by]
      BY <1>1, <2>2, <2>4, LinesStay
    <2>8. Log!TextsKept'
      BY <1>2, <2>2, <2>4, <2>5, <2>7 DEF Log!TextsKept, Log!Idle
    <2> QED  BY <2>3, <2>6, <2>7, <2>8 DEF Log!LogInv
  <1> QED  BY <1>3, <1>4 DEF Log!writeBegins, Log!Sync

\* The logger is done with its line, which the last two parts account for.
LEMMA LoggerReturns ==
  ASSUME Log!LogInv, NEW l \in Loggers, gAt[l] # "idle",
         gNext' = [gNext EXCEPT ![l] = @ + 1], gAt' = [gAt EXCEPT ![l] = "idle"], gText' = gText,
         \A o \in Objects : Log!InHand(o)' =>
           gText'[o] \in Log!Logged /\ gText'[o].n < gNext'[gText'[o].by]
  PROVE  /\ gAt' \in [Loggers -> Objects \cup {Log!Idle, Log!Sync}]
         /\ gNext' \in [Loggers -> Nat \ {0}]
         /\ \A k \in Loggers : gAt'[k] = IF k = l THEN "idle" ELSE gAt[k]
         /\ "idle" \notin Objects
         /\ Log!TextsKept'
  <1>0. Log!LogTypeOK /\ Log!TextsKept  BY DEF Log!LogInv
  <1>1. gNext' \in [Loggers -> Nat \ {0}] /\ \A k \in Loggers \ {l} : gNext'[k] = gNext[k]
    BY <1>0 DEF Log!LogTypeOK
  <1>2. gAt' \in [Loggers -> Objects \cup {Log!Idle, Log!Sync}]
    BY <1>0 DEF Log!LogTypeOK, Log!Idle
  <1>3. \A k \in Loggers : gAt'[k] = IF k = l THEN "idle" ELSE gAt[k]
    BY <1>0 DEF Log!LogTypeOK
  <1>4. "idle" \notin Objects  BY LogAssumption
  <1>5. \A k \in Loggers \ {l} : Log!Line(k)' = Log!Line(k)  BY <1>1 DEF Log!Line
  <1>6. Log!TextsKept'
    BY <1>0, <1>1, <1>3, <1>4, <1>5 DEF Log!TextsKept, Log!Idle
  <1> QED  BY <1>1, <1>2, <1>3, <1>4, <1>6

LEMMA LogWriteDown ==
  ASSUME Log!LogInv, NEW l \in Loggers, Log!writeDown(l)
  PROVE  Log!LogInv'
  <1>0. /\ Log!LogTypeOK /\ Log!OnePlace /\ Log!TextsKept
        /\ gAt[l] = "sync" /\ gAt' = [gAt EXCEPT ![l] = "idle"]
        /\ gNext' = [gNext EXCEPT ![l] = @ + 1]
        /\ gDone' = [gDone EXCEPT ![Log!Line(l)] = @ + 1]
        /\ UNCHANGED <<gQueue, gText, gFree, gListener, gCloser, gDropped>>
    BY DEF Log!LogInv, Log!writeDown, Log!Idle, Log!Sync
  <1> USE <1>0
  <1>1. \A o : (Log!InHand(o)' <=> Log!InHand(o)) /\ (o \in Log!Queued' <=> o \in Log!Queued)
    BY DEF Log!InHand, Log!Queued
  <1>2. gNext[l] <= MaxLines  BY DEF Log!TextsKept, Log!Idle
  <1>3. /\ \A x \in Log!Logged : Log!Accounted(x)'
        /\ \A o \in Objects : Log!InHand(o)' =>
             gText'[o] \in Log!Logged /\ gText'[o].n < gNext'[gText'[o].by]
    BY <1>1, <1>2, LineEnds
  <1>4. /\ gAt' \in [Loggers -> Objects \cup {Log!Idle, Log!Sync}]
        /\ gNext' \in [Loggers -> Nat \ {0}]
        /\ \A k \in Loggers : gAt'[k] = IF k = l THEN "idle" ELSE gAt[k]
        /\ "idle" \notin Objects
        /\ Log!TextsKept'
    BY <1>3, LoggerReturns
  <1>5. Log!LogTypeOK'
    <2>1. gDone' \in [Log!Logged -> Nat]  BY <1>2, LineIs DEF Log!LogTypeOK
    <2> QED  BY <1>4, <2>1 DEF Log!LogTypeOK
  <1>6. Log!OnePlace'  BY <1>1, <1>4 DEF Log!OnePlace
  <1> QED  BY <1>3, <1>4, <1>5, <1>6 DEF Log!LogInv

LEMMA LogSend ==
  ASSUME Log!LogInv, NEW l \in Loggers, Log!send(l)
  PROVE  Log!LogInv'
  <1>0. /\ Log!LogTypeOK /\ Log!OnePlace /\ Log!TextsKept
        /\ gAt[l] \in Objects /\ gAt' = [gAt EXCEPT ![l] = "idle"]
        /\ gNext' = [gNext EXCEPT ![l] = @ + 1]
        /\ UNCHANGED <<gText, gListener, gCloser, gDone>>
    BY DEF Log!LogInv, Log!send, Log!Idle
  <1> USE <1>0
  <1>1. gAt[l] # "idle" /\ gNext[l] <= MaxLines
    BY LogAssumption DEF Log!TextsKept, Log!Idle
  <1>2. /\ gText[gAt[l]] = Log!Line(l) /\ ~Log!InHand(gAt[l]) /\ gAt[l] \notin gFree
        /\ Log!Line(l) \in Log!Logged
    BY <1>1, LineIs DEF Log!TextsKept, Log!OnePlace
  <1>3. CASE gQueue' = Append(gQueue, gAt[l]) /\ UNCHANGED <<gDropped, gFree>>
    <2>1. /\ gQueue' \in Seq(Objects) /\ Log!Queued' = Log!Queued \cup {gAt[l]}
          /\ \A i, j \in 1..Len(gQueue') : gQueue'[i] = gQueue'[j] => i = j
      BY <1>2, <1>3, QueueGrows, InHandIs
    <2>2. \A o : Log!InHand(o)' <=> Log!InHand(o) \/ o = gAt[l]
      BY <2>1, InHandIs, InHandIsNext
    <2>3. /\ \A x \in Log!Logged : Log!Accounted(x)'
          /\ \A o \in Objects : Log!InHand(o)' =>
               gText'[o] \in Log!Logged /\ gText'[o].n < gNext'[gText'[o].by]
      BY <1>1, <1>2, <1>3, <2>2, LineEnds
    <2>4. /\ gAt' \in [Loggers -> Objects \cup {Log!Idle, Log!Sync}]
          /\ gNext' \in [Loggers -> Nat \ {0}]
          /\ \A k \in Loggers : gAt'[k] = IF k = l THEN "idle" ELSE gAt[k]
          /\ "idle" \notin Objects
          /\ Log!TextsKept'
      BY <1>1, <2>3, LoggerReturns
    <2>5. Log!LogTypeOK'  BY <1>3, <2>1, <2>4 DEF Log!LogTypeOK
    <2>6. gListener # gAt[l] /\ gCloser # gAt[l]  BY <1>2, InHandIs
    <2>7. Log!OnePlace'  BY <1>2, <1>3, <2>1, <2>2, <2>4, <2>6 DEF Log!OnePlace
    <2> QED  BY <2>3, <2>4, <2>5, <2>7 DEF Log!LogInv
  <1>4. CASE /\ gDropped' = gDropped \cup {Log!Line(l)}
             /\ gFree' = gFree \cup {gAt[l]} /\ UNCHANGED gQueue
    <2>1. \A o : (Log!InHand(o)' <=> Log!InHand(o)) /\ (o \in Log!Queued' <=> o \in Log!Queued)
      BY <1>4 DEF Log!InHand, Log!Queued
    <2>3. /\ \A x \in Log!Logged : Log!Accounted(x)'
          /\ \A o \in Objects : Log!InHand(o)' =>
               gText'[o] \in Log!Logged /\ gText'[o].n < gNext'[gText'[o].by]
      BY <1>1, <1>4, <2>1, LineEnds
    <2>4. /\ gAt' \in [Loggers -> Objects \cup {Log!Idle, Log!Sync}]
          /\ gNext' \in [Loggers -> Nat \ {0}]
          /\ \A k \in Loggers : gAt'[k] = IF k = l THEN "idle" ELSE gAt[k]
          /\ "idle" \notin Objects
          /\ Log!TextsKept'
      BY <1>1, <2>3, LoggerReturns
    <2>5. Log!LogTypeOK'  BY <1>2, <1>4, <2>4 DEF Log!LogTypeOK
    <2>6. Log!OnePlace'  BY <1>2, <1>4, <2>1, <2>4 DEF Log!OnePlace
    <2> QED  BY <2>3, <2>4, <2>5, <2>6 DEF Log!LogInv
  <1> QED  BY <1>3, <1>4 DEF Log!send

\* Nothing moves but the flags.
LEMMA LogFlags ==
  ASSUME Log!LogInv, UNCHANGED <<gQueue, gText, gFree, gAt, gNext, gDropped, gDone>>,
         gListener' \in {gListener, "waits"}, gListener' # gListener => gListener = "off",
         gCloser' \in {gCloser, "drains"},
         gCloser' # gCloser => gCloser \in {"no", "returned"}
  PROVE  Log!LogInv'
  <1>0. Log!LogTypeOK /\ Log!OnePlace /\ Log!TextsKept  BY DEF Log!LogInv
  <1> USE <1>0
  <1>1. {"off", "waits", "no", "drains", "returned"} \cap Objects = {}  BY LogAssumption
  <1>2. \A o : o \in Log!Queued' <=> o \in Log!Queued  BY DEF Log!Queued
  <1>3. Log!Queued \subseteq Objects  BY DEF Log!Queued, Log!LogTypeOK
  <1>4. \A o \in Objects : Log!InHand(o)' <=> Log!InHand(o)
    BY <1>1, <1>2, InHandIs, InHandIsNext
  <1>5. Log!LogTypeOK'  BY DEF Log!LogTypeOK
  <1>6. gListener' \notin Log!Queued' /\ gCloser' \notin Log!Queued'
    BY <1>1, <1>2, <1>3 DEF Log!OnePlace
  <1>7. Log!OnePlace'
    <2>1. gListener' \in Objects => gListener' # gCloser'  BY <1>1 DEF Log!OnePlace
    <2>2. \A o \in gFree' : ~Log!InHand(o)'  BY <1>4 DEF Log!OnePlace, Log!LogTypeOK
    <2> QED  BY <1>4, <1>6, <2>1, <2>2 DEF Log!OnePlace
  <1>8. /\ \A x \in Log!Logged : Log!Accounted(x)'
        /\ \A o \in Objects : Log!InHand(o)' =>
             gText'[o] \in Log!Logged /\ gText'[o].n < gNext'[gText'[o].by]
    BY <1>4, LinesStay
  <1>9. Log!TextsKept'  BY <1>8 DEF Log!TextsKept, Log!Line
  <1> QED  BY <1>5, <1>7, <1>8, <1>9 DEF Log!LogInv

\* The listener, or Close, takes the front of the channel.
LEMMA LogTakes ==
  ASSUME Log!LogInv, gQueue # <<>>, gQueue' = Tail(gQueue),
         UNCHANGED <<gText, gFree, gAt, gNext, gDropped, gDone>>,
         \/ gListener = "waits" /\ gListener' = Head(gQueue) /\ gCloser' = gCloser
         \/ gCloser = "drains" /\ gCloser' = Head(gQueue) /\ gListener' = gListener
  PROVE  Log!LogInv'
  <1>0. Log!LogTypeOK /\ Log!OnePlace /\ Log!TextsKept  BY DEF Log!LogInv
  <1> USE <1>0
  <1>1. PICK h \in Objects :
          /\ h = Head(gQueue) /\ h \in Log!Queued
          /\ gQueue' \in Seq(Objects) /\ Log!Queued' = Log!Queued \ {h}
          /\ \A i, j \in 1..Len(gQueue') : gQueue'[i] = gQueue'[j] => i = j
    BY QueueTaken
  <1>2. "waits" \notin Objects /\ "drains" \notin Objects  BY LogAssumption
  <1>3. \A o \in Objects : Log!InHand(o)' <=> Log!InHand(o)
    BY <1>1, <1>2, InHandIs, InHandIsNext
  <1>4. Log!LogTypeOK'  BY <1>1 DEF Log!LogTypeOK
  <1>5. gListener # h /\ gCloser # h  BY <1>1 DEF Log!OnePlace
  <1>6. Log!OnePlace'
    <2>1. gListener' \in Objects => gListener' # gCloser'  BY <1>1, <1>5 DEF Log!OnePlace
    <2>2. \A o \in gFree' : ~Log!InHand(o)'  BY <1>3 DEF Log!OnePlace, Log!LogTypeOK
    <2>3. gListener' \notin Log!Queued' /\ gCloser' \notin Log!Queued'
      BY <1>1 DEF Log!OnePlace
    <2> QED  BY <1>1, <1>3, <2>1, <2>2, <2>3 DEF Log!OnePlace
  <1>7. /\ \A x \in Log!Logged : Log!Accounted(x)'
        /\ \A o \in Objects : Log!InHand(o)' =>
             gText'[o] \in Log!Logged /\ gText'[o].n < gNext'[gText'[o].by]
    BY <1>3, LinesStay
  <1>8. Log!TextsKept'  BY <1>7 DEF Log!TextsKept, Log!Line
  <1> QED  BY <1>4, <1>6, <1>7, <1>8 DEF Log!LogInv

\* The stop is seen, or nothing is left to drain.
LEMMA LogStops ==
  ASSUME Log!LogInv, UNCHANGED <<gQueue, gText, gFree, gAt, gNext, gDropped, gDone>>,
         \/ gListener = "waits" /\ gListener' = "gone" /\ gCloser' = gCloser
         \/ gCloser = "drains" /\ gCloser' = "returned" /\ gListener' = gListener
  PROVE  Log!LogInv'
  <1>0. Log!LogTypeOK /\ Log!OnePlace /\ Log!TextsKept  BY DEF Log!LogInv
  <1> USE <1>0
  <1>1. {"gone", "waits", "drains", "returned"} \cap Objects = {}  BY LogAssumption
  <1>2. \A o : o \in Log!Queued' <=> o \in Log!Queued  BY DEF Log!Queued
  <1>3. Log!Queued \subseteq Objects  BY DEF Log!Queued, Log!LogTypeOK
  <1>4. \A o \in Objects : Log!InHand(o)' <=> Log!InHand(o)
    BY <1>1, <1>2, InHandIs, InHandIsNext
  <1>5. Log!LogTypeOK'  BY DEF Log!LogTypeOK
  <1>6. Log!OnePlace'
    <2>1. gListener' \in Objects => gListener' # gCloser'  BY <1>1 DEF Log!OnePlace
    <2>2. \A o \in gFree' : ~Log!InHand(o)'  BY <1>4 DEF Log!OnePlace, Log!LogTypeOK
    <2>3. gListener' \notin Log!Queued' /\ gCloser' \notin Log!Queued'
      BY <1>1, <1>2, <1>3 DEF Log!OnePlace
    <2> QED  BY <1>4, <2>1, <2>2, <2>3 DEF Log!OnePlace
  <1>7. /\ \A x \in Log!Logged : Log!Accounted(x)'
        /\ \A o \in Objects : Log!InHand(o)' =>
             gText'[o] \in Log!Logged /\ gText'[o].n < gNext'[gText'[o].by]
    BY <1>4, LinesStay
  <1>8. Log!TextsKept'  BY <1>7 DEF Log!TextsKept, Log!Line
  <1> QED  BY <1>5, <1>6, <1>7, <1>8 DEF Log!LogInv

LEMMA LogDispatch ==
  ASSUME Log!LogInv, Log!dispatch
  PROVE  Log!LogInv'
  <1>0. /\ Log!LogTypeOK /\ Log!OnePlace /\ Log!TextsKept
        /\ gListener' = "waits" /\ gFree' = gFree \cup {gListener}
        /\ gDone' = [gDone EXCEPT ![gText[gListener]] = @ + 1]
        /\ gText' = [gText EXCEPT ![gListener] = Log!None]
        /\ UNCHANGED <<gQueue, gAt, gNext, gCloser, gDropped>>
    BY DEF Log!LogInv, Log!dispatch
  <1> USE <1>0
  <1>1. PICK p \in Objects : p = gListener  BY DEF Log!dispatch
  <1>2. "waits" \notin Objects  BY LogAssumption
  <1>3. \A o : o \in Log!Queued' <=> o \in Log!Queued  BY DEF Log!Queued
  <1>4. Log!InHand(p) /\ p # gCloser /\ p \notin Log!Queued
    BY <1>1, InHandIs DEF Log!OnePlace
  <1>5. \A o \in Objects : Log!InHand(o)' <=> Log!InHand(o) /\ o # p
    BY <1>1, <1>2, <1>3, <1>4, InHandIs, InHandIsNext
  <1>6. \A o \in Objects \ {p} : gText'[o] = gText[o]  BY <1>1 DEF Log!LogTypeOK
  <1>7. /\ \A x \in Log!Logged : Log!Accounted(x)'
        /\ \A o \in Objects : Log!InHand(o)' =>
             gText'[o] \in Log!Logged /\ gText'[o].n < gNext'[gText'[o].by]
    BY <1>1, <1>4, <1>5, <1>6, ObjectWritten
  <1>8. Log!LogTypeOK'
    <2>1. gText[p] \in Log!Logged  BY <1>4 DEF Log!TextsKept
    <2>2. gDone' \in [Log!Logged -> Nat]  BY <1>1, <2>1 DEF Log!LogTypeOK
    <2> QED  BY <1>1, <2>2 DEF Log!LogTypeOK
  <1>9. \A l \in Loggers : gAt[l] # p  BY <1>4 DEF Log!OnePlace
  <1>10. Log!OnePlace'
    <2>1. Log!Queued \subseteq Objects  BY DEF Log!Queued, Log!LogTypeOK
    <2>2. \A o \in gFree' : ~Log!InHand(o)'  BY <1>1, <1>5 DEF Log!OnePlace, Log!LogTypeOK
    <2> QED  BY <1>1, <1>2, <1>3, <1>5, <1>9, <2>1, <2>2 DEF Log!OnePlace
  <1>11. Log!TextsKept'
    <2>1. \A l \in Loggers : gAt'[l] \in Objects => gText'[gAt'[l]] = Log!Line(l)'
      BY <1>6, <1>9 DEF Log!TextsKept, Log!Line
    <2> QED  BY <1>7, <2>1 DEF Log!TextsKept
  <1> QED  BY <1>7, <1>8, <1>10, <1>11 DEF Log!LogInv

LEMMA LogCloseWrites ==
  ASSUME Log!LogInv, Log!CloseWrites
  PROVE  Log!LogInv'
  <1>0. /\ Log!LogTypeOK /\ Log!OnePlace /\ Log!TextsKept
        /\ gCloser' = "drains" /\ gDone' = [gDone EXCEPT ![gText[gCloser]] = @ + 1]
        /\ UNCHANGED <<gQueue, gText, gFree, gAt, gNext, gListener, gDropped>>
    BY DEF Log!LogInv, Log!CloseWrites
  <1> USE <1>0
  <1>1. PICK p \in Objects : p = gCloser  BY DEF Log!CloseWrites
  <1>2. "drains" \notin Objects  BY LogAssumption
  <1>3. \A o : o \in Log!Queued' <=> o \in Log!Queued  BY DEF Log!Queued
  <1>4. Log!InHand(p) /\ p # gListener /\ p \notin Log!Queued
    BY <1>1, InHandIs DEF Log!OnePlace
  <1>5. \A o \in Objects : Log!InHand(o)' <=> Log!InHand(o) /\ o # p
    BY <1>1, <1>2, <1>3, <1>4, InHandIs, InHandIsNext
  <1>7. /\ \A x \in Log!Logged : Log!Accounted(x)'
        /\ \A o \in Objects : Log!InHand(o)' =>
             gText'[o] \in Log!Logged /\ gText'[o].n < gNext'[gText'[o].by]
    BY <1>1, <1>4, <1>5, ObjectWritten
  <1>8. Log!LogTypeOK'
    <2>1. gText[p] \in Log!Logged  BY <1>4 DEF Log!TextsKept
    <2>2. gDone' \in [Log!Logged -> Nat]  BY <1>1, <2>1 DEF Log!LogTypeOK
    <2> QED  BY <1>1, <2>2 DEF Log!LogTypeOK
  <1>9. Log!OnePlace'
    <2>1. Log!Queued \subseteq Objects  BY DEF Log!Queued, Log!LogTypeOK
    <2>2. \A o \in gFree' : ~Log!InHand(o)'  BY <1>5 DEF Log!OnePlace, Log!LogTypeOK
    <2> QED  BY <1>2, <1>3, <1>5, <2>1, <2>2 DEF Log!OnePlace
  <1>10. Log!TextsKept'  BY <1>7 DEF Log!TextsKept, Log!Line
  <1> QED  BY <1>7, <1>8, <1>9, <1>10 DEF Log!LogInv

LEMMA LogInitInv == Log!LogInit => Log!LogInv
  <1> SUFFICES ASSUME Log!LogInit  PROVE Log!LogInv
    OBVIOUS
  <1>1. Log!LogTypeOK  BY DEF Log!LogInit, Log!LogTypeOK, Log!Idle
  <1>2. {"off", "no", "idle"} \cap Objects = {}  BY LogAssumption
  <1>3. Log!Queued = {}  BY DEF Log!LogInit, Log!Queued
  <1>4. \A o \in Objects : ~Log!InHand(o)  BY <1>2, <1>3, InHandIs DEF Log!LogInit
  <1>5. Log!OnePlace  BY <1>2, <1>3, <1>4 DEF Log!LogInit, Log!OnePlace, Log!Idle
  <1>6. Log!TextsKept  BY <1>2, <1>4 DEF Log!LogInit, Log!TextsKept, Log!Idle
  <1>7. ASSUME NEW x \in Log!Logged  PROVE Log!Accounted(x)
    <2>1. x.by \in Loggers /\ x.n >= 1  BY LogAssumption DEF Log!Logged
    <2> QED  BY <2>1 DEF Log!LogInit, Log!Accounted
  <1> QED  BY <1>1, <1>5, <1>6, <1>7 DEF Log!LogInv

LEMMA LogNextInv == Log!LogInv /\ [Log!LogNext]_logVars => Log!LogInv'
  <1> SUFFICES ASSUME Log!LogInv, [Log!LogNext]_logVars  PROVE Log!LogInv'
    OBVIOUS
  <1>1. ASSUME NEW l \in Loggers, Log!writeBegins(l) \/ Log!writeDown(l) \/ Log!send(l)
        PROVE  Log!LogInv'
    BY <1>1, LogWriteBegins, LogWriteDown, LogSend
  <1>2. ASSUME NEW on \in BOOLEAN, Log!Async(on)  PROVE Log!LogInv'
    BY <1>2, LogFlags DEF Log!Async
  <1>3. CASE Log!listen  BY <1>3, LogTakes, LogStops DEF Log!listen
  <1>4. CASE Log!dispatch  BY <1>4, LogDispatch
  <1>5. CASE Log!CloseBegins  BY <1>5, LogFlags DEF Log!CloseBegins
  <1>6. CASE Log!CloseDrains  BY <1>6, LogTakes, LogStops DEF Log!CloseDrains
  <1>7. CASE Log!CloseWrites  BY <1>7, LogCloseWrites
  <1>8. CASE UNCHANGED logVars  BY <1>8, LogFlags DEF logVars
  <1> QED  BY <1>1, <1>2, <1>3, <1>4, <1>5, <1>6, <1>7, <1>8 DEF Log!LogNext

LEMMA LogCardinality == \A S : Log!Cardinality(S) = Cardinality(S)
  BY DEF Log!Cardinality, Cardinality, Log!IsFiniteSet, IsFiniteSet

\* write, send, listen, dispatch, Close: every line whose write returned is in one
\* place, written once, dropped and counted, or in an object nobody fills before
\* it is written; for any loggers, lines, objects and size of the channel.
THEOREM LinesAreAccounted == Spec => []LinesAccounted
  <1>1. Init => Log!LogInv  BY LogInitInv DEF Init
  <1>2. Log!LogInv /\ [Next]_vars => Log!LogInv'  BY LogNextInv, LogMoves
  <1>3. Log!LogInv => LinesAccounted
    <2> SUFFICES ASSUME Log!LogInv  PROVE Log!LinesAccounted
      BY DEF LinesAccounted
    <2> SUFFICES ASSUME NEW x \in Log!Logged
                 PROVE  IF x.n >= gNext[x.by]
                        THEN gDone[x] = 0 /\ x \notin gDropped /\ Log!Held(x) = {}
                        ELSE gDone[x] + Cardinality(Log!Held(x)) + Cardinality({x} \cap gDropped) = 1
      BY LogCardinality DEF Log!LinesAccounted
    <2>1. Log!Accounted(x) /\ Log!LogTypeOK /\ Log!TextsKept  BY DEF Log!LogInv
    <2>2. x.by \in Loggers /\ x.n \in Nat /\ gNext[x.by] \in Nat
      BY <2>1, LoggedIs DEF Log!LogTypeOK
    <2>3. CASE x.n >= gNext[x.by]
      <3>1. \A o \in Objects : Log!InHand(o) => gText[o].n < gNext[gText[o].by]
        BY <2>1 DEF Log!TextsKept
      <3>2. Log!Held(x) = {}  BY <2>2, <2>3, <3>1 DEF Log!Held, Log!Holds
      <3> QED  BY <2>1, <2>3, <3>2 DEF Log!Accounted
    <2>4. CASE ~(x.n >= gNext[x.by])
      <3>1. /\ x \in gDropped => Cardinality({x} \cap gDropped) = 1
            /\ x \notin gDropped => Cardinality({x} \cap gDropped) = 0
        <4>1. x \in gDropped => {x} \cap gDropped = {x}  OBVIOUS
        <4>2. x \notin gDropped => {x} \cap gDropped = {}  OBVIOUS
        <4> QED  BY <4>1, <4>2, FS_EmptySet, FS_Singleton
      <3>2. (\A o \in Objects : ~Log!Holds(o, x)) => Cardinality(Log!Held(x)) = 0
        <4>1. (\A o \in Objects : ~Log!Holds(o, x)) => Log!Held(x) = {}  BY DEF Log!Held
        <4> QED  BY <4>1, FS_EmptySet
      <3>3. ASSUME NEW o \in Objects, Log!Holds(o, x), \A p \in Objects : Log!Holds(p, x) => p = o
            PROVE  Cardinality(Log!Held(x)) = 1
        <4>1. Log!Held(x) = {o}  BY <3>3 DEF Log!Held
        <4> QED  BY <4>1, FS_Singleton
      <3>4. gDone[x] + Cardinality(Log!Held(x)) + Cardinality({x} \cap gDropped) = 1
        BY <2>1, <2>4, <3>1, <3>2, <3>3 DEF Log!Accounted
      <3> QED  BY <2>4, <3>4
    <2> QED  BY <2>3, <2>4
  <1> QED  BY <1>1, <1>2, <1>3, PTL DEF Spec

---------------------------------------------------------------------------
(* Publish of the HTTP broker.                                             *)

LEMMA PublishMoves == [Next]_vars => [Publish!PublishNext]_publishVars
  BY DEF Next, vars, MdnsRuns, LookupRuns, WatchRuns, PublishRuns, FanRuns,
         SocketRuns, LogRuns, HttpRuns, ProxyRuns, StaticRuns, FacadeRuns

LEMMA RangeAppend ==
  ASSUME NEW S, NEW s \in Seq(S), NEW m
  PROVE  /\ m \in Publish!Range(Append(s, m))
         /\ \A x \in Publish!Range(s) : x \in Publish!Range(Append(s, m))
  <1>1. Len(s) \in Nat /\ DOMAIN s = 1..Len(s) /\ DOMAIN Append(s, m) = 1..(Len(s) + 1)
    OBVIOUS
  <1>2. Append(s, m)[Len(s) + 1] = m /\ \A i \in 1..Len(s) : Append(s, m)[i] = s[i]
    OBVIOUS
  <1>3. Len(s) + 1 \in 1..(Len(s) + 1) /\ \A i \in 1..Len(s) : i \in 1..(Len(s) + 1)
    BY <1>1
  <1> QED  BY <1>1, <1>2, <1>3 DEF Publish!Range

LEMMA RangeSplit ==
  ASSUME NEW S, NEW s \in Seq(S), NEW n \in 0..Len(s), NEW m \in Publish!Range(s)
  PROVE  m \in Publish!Range(SubSeq(s, 1, n)) \/ m \in Publish!Range(SubSeq(s, n + 1, Len(s)))
  <1> DEFINE a == SubSeq(s, 1, n)
             b == SubSeq(s, n + 1, Len(s))
  <1>1. PICK i \in 1..Len(s) : m = s[i]  BY DEF Publish!Range
  <1>2. /\ DOMAIN a = 1..n /\ DOMAIN b = 1..(Len(s) - n)
        /\ \A j \in 1..n : a[j] = s[j]
        /\ \A j \in 1..(Len(s) - n) : b[j] = s[n + j]
    OBVIOUS
  <1>3. CASE i <= n
    <2>1. i \in DOMAIN a /\ a[i] = m  BY <1>1, <1>2, <1>3
    <2> QED  BY <2>1 DEF Publish!Range
  <1>4. CASE i > n
    <2>1. i - n \in DOMAIN b /\ b[i - n] = m  BY <1>1, <1>2, <1>4
    <2> QED  BY <2>1 DEF Publish!Range
  <1> QED  BY <1>1, <1>3, <1>4

LEMMA RangeTail ==
  ASSUME NEW S, NEW s \in Seq(S), s # <<>>, NEW m \in Publish!Range(s), m # Head(s)
  PROVE  m \in Publish!Range(Tail(s))
  <1>1. PICK i \in 1..Len(s) : m = s[i]  BY DEF Publish!Range
  <1>2. /\ Head(s) = s[1] /\ DOMAIN Tail(s) = 1..(Len(s) - 1)
        /\ \A j \in 1..(Len(s) - 1) : Tail(s)[j] = s[j + 1]
    OBVIOUS
  <1>3. i - 1 \in DOMAIN Tail(s) /\ Tail(s)[i - 1] = m  BY <1>1, <1>2
  <1> QED  BY <1>3 DEF Publish!Range

\* saveMessage: nothing leaves the inbox, and m is in it or among those that were
\* dropped.
LEMMA MessageSaved ==
  ASSUME Publish!PublishTypeOK, NEW m \in Publishers, Publish!saveMessage(m)
  PROVE  /\ pInbox' \in Seq(Publishers)
         /\ \A x \in Publish!Range(pInbox) : x \in Publish!Range(pInbox')
         /\ pFull \subseteq pFull'
         /\ m \in Publish!Range(pInbox') \/ m \in pFull'
  <1>1. pInbox \in Seq(Publishers)  BY DEF Publish!PublishTypeOK
  <1>2. CASE pFull' = pFull \cup {m} /\ pInbox' = pInbox  BY <1>1, <1>2
  <1>3. CASE pInbox' = Append(pInbox, m) /\ pFull' = pFull  BY <1>1, <1>3, RangeAppend
  <1> QED  BY <1>2, <1>3 DEF Publish!saveMessage

\* What is served stays served as long as what waits goes on waiting.
Served(m, g) == \/ pGot[m] \cap Publish!Members(g) # {} \/ Publish!Waits(m, g)
                \/ <<m, g>> \in pNobody \/ m \in pFull

LEMMA ServedStays ==
  ASSUME NEW m \in Publishers, NEW g \in Publish!Groups, Served(m, g),
         pGot[m] \subseteq pGot'[m], pNobody \subseteq pNobody', pFull \subseteq pFull',
         Publish!Waits(m, g) => Served(m, g)'
  PROVE  Served(m, g)'
  BY DEF Served

LEMMA PublishWaits ==
  ASSUME NEW m, NEW g, Publish!Waits(m, g),
         \A x \in Publish!Range(pInbox) : x \in Publish!Range(pInbox'),
         \A p \in Publishers : pPub'[p].batch = pPub[p].batch /\ pPub'[p].groups = pPub[p].groups
  PROVE  Publish!Waits(m, g)'
  BY DEF Publish!Waits

LEMMA PublishPublishes ==
  ASSUME Publish!PublishInv, NEW p \in Publishers, Publish!Publish(p)
  PROVE  Publish!PublishInv'
  <1>0. /\ Publish!PublishTypeOK /\ pPub[p].pc = "idle" /\ Publish!saveMessage(p)
        /\ pPub' = [pPub EXCEPT ![p].pc = "lookup"] /\ UNCHANGED <<pSubs, pGot, pNobody>>
    BY DEF Publish!PublishInv, Publish!Publish
  <1> USE <1>0
  <1>1. /\ pInbox' \in Seq(Publishers)
        /\ \A x \in Publish!Range(pInbox) : x \in Publish!Range(pInbox')
        /\ pFull \subseteq pFull'
        /\ p \in Publish!Range(pInbox') \/ p \in pFull'
    BY MessageSaved
  <1>2. Publish!PublishTypeOK'  BY <1>1 DEF Publish!PublishTypeOK
  <1>3. \A q \in Publishers : /\ pPub'[q].batch = pPub[q].batch
                              /\ pPub'[q].groups = pPub[q].groups
                              /\ pPub'[q].pc = IF q = p THEN "lookup" ELSE pPub[q].pc
    BY DEF Publish!PublishTypeOK
  <1>4. ASSUME NEW m \in Publishers, NEW g \in Publish!Groups, pPub'[m].pc # "idle"
        PROVE  Served(m, g)'
    <2>1. CASE m = p  BY <1>1, <2>1 DEF Served, Publish!Waits
    <2>2. CASE m # p
      <3>1. Served(m, g)  BY <1>3, <1>4, <2>2 DEF Served, Publish!PublishInv, Publish!EveryGroupServed
      <3> QED  BY <1>1, <1>3, <3>1, PublishWaits DEF Served
    <2> QED  BY <2>1, <2>2
  <1> QED  BY <1>2, <1>3, <1>4 DEF Served, Publish!PublishInv, Publish!EveryGroupServed

\* Subscribe and Lookup: no batch and no message moves.
LEMMA PublishQuiet ==
  ASSUME Publish!PublishInv, Publish!PublishTypeOK', UNCHANGED <<pInbox, pGot, pFull, pNobody>>,
         \A q \in Publishers : /\ pPub'[q].batch = pPub[q].batch
                               /\ pPub'[q].groups = pPub[q].groups
                               /\ pPub'[q].pc = "post" <=> pPub[q].pc = "post"
                               /\ pPub'[q].pc = "idle" <=> pPub[q].pc = "idle"
  PROVE  Publish!PublishInv'
  <1>1. ASSUME NEW m \in Publishers, NEW g \in Publish!Groups, pPub'[m].pc # "idle"
        PROVE  Served(m, g)'
    <2>1. Served(m, g)  BY <1>1 DEF Served, Publish!PublishInv, Publish!EveryGroupServed
    <2> QED  BY <2>1, PublishWaits DEF Served
  <1> QED  BY <1>1 DEF Served, Publish!PublishInv, Publish!EveryGroupServed

LEMMA PublishLooksUp ==
  ASSUME Publish!PublishInv, NEW p \in Publishers, Publish!Lookup(p)
  PROVE  Publish!PublishInv'
  <1>0. /\ Publish!PublishTypeOK /\ pPub[p].pc = "lookup"
        /\ UNCHANGED <<pSubs, pInbox, pGot, pFull, pNobody>>
        /\ \/ pPub' = [pPub EXCEPT ![p].pc = "take", ![p].nodes = pSubs]
           \/ pPub' = [pPub EXCEPT ![p].pc = "done"]
    BY DEF Publish!PublishInv, Publish!Lookup
  <1>1. PICK r : /\ pPub' = [pPub EXCEPT ![p] = r]
                 /\ \/ r = [pPub[p] EXCEPT !.pc = "take", !.nodes = pSubs]
                    \/ r = [pPub[p] EXCEPT !.pc = "done"]
    BY <1>0 DEF Publish!PublishTypeOK
  <1>2. pPub[p] \in [pc : {"idle", "lookup", "take", "post", "done"}, nodes : SUBSET TwoNodes,
                     batch : Seq(Publishers), groups : SUBSET Publish!Groups]
    BY <1>0 DEF Publish!PublishTypeOK
  <1>3. /\ r \in [pc : {"idle", "lookup", "take", "post", "done"}, nodes : SUBSET TwoNodes,
                  batch : Seq(Publishers), groups : SUBSET Publish!Groups]
        /\ r.pc \notin {"post", "idle"} /\ r.batch = pPub[p].batch /\ r.groups = pPub[p].groups
    <2>1. pSubs \in SUBSET TwoNodes  BY <1>0 DEF Publish!PublishTypeOK
    <2>2. CASE r = [pPub[p] EXCEPT !.pc = "take", !.nodes = pSubs]  BY <1>2, <2>1, <2>2
    <2>3. CASE r = [pPub[p] EXCEPT !.pc = "done"]  BY <1>2, <2>3
    <2> QED  BY <1>1, <2>2, <2>3
  <1>4. Publish!PublishTypeOK'  BY <1>0, <1>1, <1>3 DEF Publish!PublishTypeOK
  <1>5. \A q \in Publishers : /\ pPub'[q].batch = pPub[q].batch
                              /\ pPub'[q].groups = pPub[q].groups
                              /\ pPub'[q].pc = "post" <=> pPub[q].pc = "post"
                              /\ pPub'[q].pc = "idle" <=> pPub[q].pc = "idle"
    BY <1>0, <1>1, <1>3 DEF Publish!PublishTypeOK
  <1> QED  BY <1>0, <1>4, <1>5, PublishQuiet

LEMMA PublishTakes ==
  ASSUME Publish!PublishInv, NEW p \in Publishers, Publish!Take(p)
  PROVE  Publish!PublishInv'
  <1> DEFINE n == IF Len(pInbox) < Batch THEN Len(pInbox) ELSE Batch
  <1>0. /\ Publish!PublishTypeOK /\ pPub[p].pc = "take" /\ pPub[p].batch = <<>>
        /\ UNCHANGED <<pSubs, pGot, pFull, pNobody>>
    BY DEF Publish!PublishInv, Publish!Take
  <1> USE <1>0
  <1>1. n \in 0..Len(pInbox) /\ Len(pInbox) \in Nat /\ pInbox \in Seq(Publishers)
    BY PublishAssumption DEF Publish!PublishTypeOK
  <1>2. PICK t \in Seq(Publishers) :
          t = Publish!Taken /\ t = SubSeq(pInbox, 1, n) /\ Len(t) = n
    <2>1. Publish!Taken = SubSeq(pInbox, 1, n)  BY DEF Publish!Taken
    <2> HIDE DEF n
    <2>2. SubSeq(pInbox, 1, n) \in Seq(Publishers) /\ Len(SubSeq(pInbox, 1, n)) = n  BY <1>1
    <2> QED  BY <2>1, <2>2
  <1>3. PICK r : /\ r = [pPub[p] EXCEPT !.pc = "post", !.batch = t, !.groups = Publish!Groups]
                 /\ pPub' = [pPub EXCEPT ![p] = r]
    BY <1>2 DEF Publish!Take, Publish!PublishTypeOK
  <1>4. /\ r \in [pc : {"idle", "lookup", "take", "post", "done"}, nodes : SUBSET TwoNodes,
                  batch : Seq(Publishers), groups : SUBSET Publish!Groups]
        /\ r.pc = "post" /\ r.batch = t /\ r.groups = Publish!Groups
    BY <1>3 DEF Publish!PublishTypeOK
  <1>5. \A q \in Publishers : pPub'[q] = IF q = p THEN r ELSE pPub[q]
    BY <1>3 DEF Publish!PublishTypeOK
  <1>6. pInbox' = SubSeq(pInbox, n + 1, Len(pInbox)) /\ pInbox' \in Seq(Publishers)
    <2>1. pInbox' = SubSeq(pInbox, Len(t) + 1, Len(pInbox))  BY <1>2 DEF Publish!Take
    <2> HIDE DEF n
    <2>2. SubSeq(pInbox, n + 1, Len(pInbox)) \in Seq(Publishers)  BY <1>1
    <2> QED  BY <1>2, <2>1, <2>2
  <1>7. Publish!PublishTypeOK'  BY <1>3, <1>4, <1>6 DEF Publish!PublishTypeOK
  <1> HIDE DEF n
  <1>8. ASSUME NEW m \in Publishers, NEW g \in Publish!Groups, Publish!Waits(m, g)
        PROVE  Publish!Waits(m, g)'
    <2>1. CASE m \in Publish!Range(pInbox)
      <3>1. m \in Publish!Range(t) \/ m \in Publish!Range(pInbox')
        BY <1>1, <1>2, <1>6, <2>1, RangeSplit
      <3> QED  BY <1>4, <1>5, <3>1 DEF Publish!Waits
    <2>2. CASE m \notin Publish!Range(pInbox)
      <3>1. PICK q \in Publishers : /\ m \in Publish!Range(pPub[q].batch)
                                    /\ m = Head(pPub[q].batch) => g \in pPub[q].groups
        BY <1>8, <2>2 DEF Publish!Waits
      <3>2. q # p  BY <3>1 DEF Publish!Range
      <3> QED  BY <1>5, <3>1, <3>2 DEF Publish!Waits
    <2> QED  BY <2>1, <2>2
  <1>9. ASSUME NEW m \in Publishers, NEW g \in Publish!Groups, pPub'[m].pc # "idle"
        PROVE  Served(m, g)'
    <2>1. Served(m, g)
      BY <1>5, <1>9 DEF Served, Publish!PublishInv, Publish!EveryGroupServed
    <2> QED  BY <1>8, <2>1 DEF Served
  <1> QED  BY <1>4, <1>5, <1>7, <1>9 DEF Served, Publish!PublishInv, Publish!EveryGroupServed

LEMMA PublishPosts ==
  ASSUME Publish!PublishInv, NEW p \in Publishers, NEW g \in Publish!Groups, Publish!Post(p, g)
  PROVE  Publish!PublishInv'
  <1>0. /\ Publish!PublishTypeOK /\ pPub[p].pc = "post" /\ pPub[p].batch # <<>>
        /\ pPub' = [pPub EXCEPT ![p].groups = @ \ {g}] /\ pSubs' = pSubs
    BY DEF Publish!PublishInv, Publish!Post, Publish!Group
  <1> USE <1>0
  <1>1. PICK m \in Publishers : m = Head(pPub[p].batch)  BY DEF Publish!PublishTypeOK
  <1>2. PICK there : there = pPub[p].nodes \cap Publish!Members(g)  OBVIOUS
  <1>3. \A q \in Publishers :
          /\ pPub'[q].batch = pPub[q].batch /\ pPub'[q].pc = pPub[q].pc
          /\ pPub'[q].groups = IF q = p THEN pPub[q].groups \ {g} ELSE pPub[q].groups
    BY DEF Publish!PublishTypeOK
  <1>4. /\ pInbox' \in Seq(Publishers) /\ pGot' \in [Publishers -> SUBSET TwoNodes]
        /\ \A x \in Publish!Range(pInbox) : x \in Publish!Range(pInbox')
        /\ pFull \subseteq pFull' /\ pNobody \subseteq pNobody'
        /\ \A x \in Publishers : pGot[x] \subseteq pGot'[x]
        /\ \/ <<m, g>> \in pNobody' \/ pGot'[m] \cap Publish!Members(g) # {}
           \/ m \in Publish!Range(pInbox') \/ m \in pFull'
    <2>1. CASE /\ there = {} /\ pNobody' = pNobody \cup {<<m, g>>}
               /\ UNCHANGED <<pInbox, pGot, pFull>>
      BY <2>1 DEF Publish!PublishTypeOK
    <2>2. ASSUME NEW ran \in SUBSET (there \cap pSubs), NEW ok \in SUBSET ran,
                 pGot' = [pGot EXCEPT ![m] = @ \cup ran], pNobody' = pNobody,
                 IF ok = {} THEN Publish!saveMessage(m) ELSE UNCHANGED <<pInbox, pFull>>
          PROVE  /\ pInbox' \in Seq(Publishers) /\ pGot' \in [Publishers -> SUBSET TwoNodes]
                 /\ \A x \in Publish!Range(pInbox) : x \in Publish!Range(pInbox')
                 /\ pFull \subseteq pFull' /\ pNobody \subseteq pNobody'
                 /\ \A x \in Publishers : pGot[x] \subseteq pGot'[x]
                 /\ \/ <<m, g>> \in pNobody' \/ pGot'[m] \cap Publish!Members(g) # {}
                    \/ m \in Publish!Range(pInbox') \/ m \in pFull'
      <3>1. pGot' \in [Publishers -> SUBSET TwoNodes] /\ pGot'[m] = pGot[m] \cup ran
            /\ \A x \in Publishers : pGot[x] \subseteq pGot'[x]
        BY <2>2 DEF Publish!PublishTypeOK
      <3>2. CASE ok = {}
        <4>1. Publish!saveMessage(m)  BY <2>2, <3>2
        <4> QED  BY <2>2, <3>1, <4>1, MessageSaved
      <3>3. CASE ok # {}
        <4>1. pInbox' = pInbox /\ pFull' = pFull /\ pInbox \in Seq(Publishers)
          BY <2>2, <3>3 DEF Publish!PublishTypeOK
        <4>2. pGot'[m] \cap Publish!Members(g) # {}  BY <1>2, <2>2, <3>1, <3>3
        <4> QED  BY <2>2, <3>1, <4>1, <4>2
      <3> QED  BY <3>2, <3>3
    <2> QED  BY <1>1, <1>2, <2>1, <2>2 DEF Publish!Post
  <1>5. Publish!PublishTypeOK'  BY <1>4 DEF Publish!PublishTypeOK
  <1>6. ASSUME NEW x \in Publishers, NEW h \in Publish!Groups, pPub'[x].pc # "idle"
        PROVE  Served(x, h)'
    <2>1. CASE x = m /\ h = g  BY <1>4, <2>1 DEF Served, Publish!Waits
    <2>2. CASE ~(x = m /\ h = g)
      <3>1. Served(x, h)
        BY <1>3, <1>6 DEF Served, Publish!PublishInv, Publish!EveryGroupServed
      <3>2. Publish!Waits(x, h) => Publish!Waits(x, h)'
        BY <1>1, <1>3, <1>4, <2>2 DEF Publish!Waits
      <3> QED  BY <1>4, <3>1, <3>2 DEF Served
    <2> QED  BY <2>1, <2>2
  <1> QED  BY <1>3, <1>5, <1>6 DEF Served, Publish!PublishInv, Publish!EveryGroupServed

LEMMA PublishIdle ==
  /\ Publish!Idle.pc = "idle" /\ Publish!Idle.batch = <<>>
  /\ Publish!Idle \in [pc : {"idle", "lookup", "take", "post", "done"}, nodes : SUBSET TwoNodes,
                       batch : Seq(Publishers), groups : SUBSET Publish!Groups]
  BY DEF Publish!Idle

LEMMA PublishGoesOn ==
  ASSUME Publish!PublishInv, NEW p \in Publishers, Publish!NextMessage(p)
  PROVE  Publish!PublishInv'
  <1>0. /\ Publish!PublishTypeOK /\ pPub[p].pc = "post"
        /\ UNCHANGED <<pSubs, pInbox, pGot, pFull, pNobody>>
    BY DEF Publish!PublishInv, Publish!NextMessage
  <1> USE <1>0
  <1>1. CASE /\ pPub[p].batch # <<>> /\ pPub[p].groups = {}
             /\ pPub' = [pPub EXCEPT ![p].batch = Tail(@), ![p].groups = Publish!Groups]
    <2>1. pPub[p].batch \in Seq(Publishers) /\ Tail(pPub[p].batch) \in Seq(Publishers)
      BY <1>1 DEF Publish!PublishTypeOK
    <2>2. Publish!PublishTypeOK'  BY <1>1, <2>1 DEF Publish!PublishTypeOK
    <2>3. \A q \in Publishers :
            /\ pPub'[q].pc = pPub[q].pc
            /\ pPub'[q].batch = IF q = p THEN Tail(pPub[q].batch) ELSE pPub[q].batch
            /\ pPub'[q].groups = IF q = p THEN Publish!Groups ELSE pPub[q].groups
      BY <1>1 DEF Publish!PublishTypeOK
    <2>4. ASSUME NEW m \in Publishers, NEW g \in Publish!Groups, Publish!Waits(m, g)
          PROVE  Publish!Waits(m, g)'
      <3>1. CASE m \in Publish!Range(pInbox)  BY <3>1 DEF Publish!Waits
      <3>2. CASE m \notin Publish!Range(pInbox)
        <4>1. PICK q \in Publishers : /\ m \in Publish!Range(pPub[q].batch)
                                      /\ m = Head(pPub[q].batch) => g \in pPub[q].groups
          BY <2>4, <3>2 DEF Publish!Waits
        <4>2. CASE q = p
          <5>1. m \in Publish!Range(Tail(pPub[p].batch))
            BY <1>1, <2>1, <4>1, <4>2, RangeTail
          <5> QED  BY <2>3, <4>2, <5>1 DEF Publish!Waits
        <4>3. CASE q # p  BY <2>3, <4>1, <4>3 DEF Publish!Waits
        <4> QED  BY <4>2, <4>3
      <3> QED  BY <3>1, <3>2
    <2>5. ASSUME NEW m \in Publishers, NEW g \in Publish!Groups, pPub'[m].pc # "idle"
          PROVE  Served(m, g)'
      <3>1. Served(m, g)
        BY <2>3, <2>5 DEF Served, Publish!PublishInv, Publish!EveryGroupServed
      <3> QED  BY <2>4, <3>1 DEF Served
    <2> QED  BY <2>2, <2>3, <2>5 DEF Served, Publish!PublishInv, Publish!EveryGroupServed
  <1>2. CASE /\ pPub[p].batch = <<>>
             /\ pPub' = [pPub EXCEPT ![p] = [Publish!Idle EXCEPT !.pc = "done"]]
    <2>0. PICK i \in [pc : {"idle", "lookup", "take", "post", "done"}, nodes : SUBSET TwoNodes,
                      batch : Seq(Publishers), groups : SUBSET Publish!Groups] :
            i = Publish!Idle /\ i.batch = <<>>
      BY PublishIdle
    <2>1. PICK r : r = [Publish!Idle EXCEPT !.pc = "done"] /\ r = [i EXCEPT !.pc = "done"]
      BY <2>0
    <2>2. /\ r.pc = "done" /\ r.batch = <<>>
          /\ r \in [pc : {"idle", "lookup", "take", "post", "done"}, nodes : SUBSET TwoNodes,
                    batch : Seq(Publishers), groups : SUBSET Publish!Groups]
      BY <2>0, <2>1
    <2>3. pPub' = [pPub EXCEPT ![p] = r]  BY <1>2, <2>1
    <2>4. Publish!PublishTypeOK'  BY <2>2, <2>3 DEF Publish!PublishTypeOK
    <2>5. \A q \in Publishers : pPub'[q] = IF q = p THEN r ELSE pPub[q]
      BY <2>3 DEF Publish!PublishTypeOK
    <2>6. Publish!Range(<<>>) = {}  BY DEF Publish!Range
    <2>7. ASSUME NEW m \in Publishers, NEW g \in Publish!Groups, pPub'[m].pc # "idle"
          PROVE  Served(m, g)'
      <3>1. Served(m, g)
        BY <2>5, <2>7 DEF Served, Publish!PublishInv, Publish!EveryGroupServed
      <3>2. Publish!Waits(m, g) => Publish!Waits(m, g)'
        BY <1>2, <2>5, <2>6 DEF Publish!Waits
      <3> QED  BY <3>1, <3>2 DEF Served
    <2> QED  BY <2>2, <2>4, <2>5, <2>7 DEF Served, Publish!PublishInv, Publish!EveryGroupServed
  <1> QED  BY <1>1, <1>2 DEF Publish!NextMessage

LEMMA PublishInitInv == Publish!PublishInit => Publish!PublishInv
  <1> SUFFICES ASSUME Publish!PublishInit  PROVE Publish!PublishInv
    OBVIOUS
  <1>1. \A p \in Publishers : pPub[p] = Publish!Idle  BY DEF Publish!PublishInit
  <1>2. Publish!PublishTypeOK  BY PublishIdle DEF Publish!PublishInit, Publish!PublishTypeOK
  <1> QED  BY <1>1, <1>2, PublishIdle DEF Publish!PublishInv, Publish!EveryGroupServed

LEMMA PublishNextInv ==
  Publish!PublishInv /\ [Publish!PublishNext]_publishVars => Publish!PublishInv'
  <1> SUFFICES ASSUME Publish!PublishInv, [Publish!PublishNext]_publishVars
               PROVE  Publish!PublishInv'
    OBVIOUS
  <1>0. Publish!PublishTypeOK  BY DEF Publish!PublishInv
  <1>1. ASSUME NEW n \in TwoNodes, Publish!Subscribe(n)  PROVE Publish!PublishInv'
    <2>1. /\ UNCHANGED <<pInbox, pPub, pGot, pFull, pNobody>>
          /\ pSubs' \in {pSubs \cup {n}, pSubs \ {n}}
      BY <1>1 DEF Publish!Subscribe
    <2>2. Publish!PublishTypeOK'  BY <1>0, <2>1 DEF Publish!PublishTypeOK
    <2> QED  BY <2>1, <2>2, PublishQuiet
  <1>2. ASSUME NEW p \in Publishers,
               Publish!Publish(p) \/ Publish!Lookup(p) \/ Publish!Take(p) \/ Publish!NextMessage(p)
        PROVE  Publish!PublishInv'
    BY <1>2, PublishPublishes, PublishLooksUp, PublishTakes, PublishGoesOn
  <1>3. ASSUME NEW p \in Publishers, NEW g \in Publish!Groups, Publish!Post(p, g)
        PROVE  Publish!PublishInv'
    BY <1>3, PublishPosts
  <1>4. CASE UNCHANGED publishVars
    <2>1. UNCHANGED <<pSubs, pInbox, pPub, pGot, pFull, pNobody>>  BY <1>4 DEF publishVars
    <2>2. Publish!PublishTypeOK'  BY <1>0, <2>1 DEF Publish!PublishTypeOK
    <2> QED  BY <2>1, <2>2, PublishQuiet
  <1> QED  BY <1>1, <1>2, <1>3, <1>4 DEF Publish!PublishNext

---------------------------------------------------------------------------
(* The memory broker.                                                      *)

LEMMA FanMoves == [Next]_vars => [Fan!MemBrokerNext]_fanVars
  BY DEF Next, vars, MdnsRuns, LookupRuns, WatchRuns, PublishRuns, FanRuns,
         SocketRuns, LogRuns, HttpRuns, ProxyRuns, StaticRuns, FacadeRuns

LEMMA Prefix ==
  ASSUME NEW S, NEW s \in Seq(S), NEW n \in 0..Len(s)
  PROVE  /\ SubSeq(s, 1, n) \in Seq(S) /\ Len(SubSeq(s, 1, n)) = n
         /\ SubSeq(s, 1, n) = [i \in 1..n |-> s[i]]
         /\ \A i \in 1..n : SubSeq(s, 1, n)[i] = s[i]
  <1>1. SubSeq(s, 1, n) \in Seq(S) /\ Len(SubSeq(s, 1, n)) = n
        /\ \A i \in 1..n : SubSeq(s, 1, n)[i] = s[i]
    OBVIOUS
  <1>2. PICK t \in Seq(S) : t = SubSeq(s, 1, n) /\ Len(t) = n /\ \A i \in 1..n : t[i] = s[i]
    BY <1>1
  <1>3. t = [i \in 1..Len(t) |-> t[i]]  OBVIOUS
  <1> QED  BY <1>1, <1>2, <1>3

LEMMA Replaced ==
  ASSUME NEW S, NEW s \in Seq(S), NEW a \in 1..Len(s), NEW b \in S
  PROVE  /\ [s EXCEPT ![a] = b] \in Seq(S) /\ Len([s EXCEPT ![a] = b]) = Len(s)
         /\ [s EXCEPT ![a] = b][a] = b
         /\ \A i \in 1..Len(s) : i # a => [s EXCEPT ![a] = b][i] = s[i]
  OBVIOUS

LEMMA HeadFirst ==
  ASSUME NEW S, NEW s \in Seq(S), s # <<>>
  PROVE  Head(s) \in S /\ Head(s) = s[1]
  OBVIOUS

LEMMA EmptyIsSeq == ASSUME NEW S  PROVE <<>> \in Seq(S)
  OBVIOUS

LEMMA PrefixGrows ==
  ASSUME NEW S, NEW s \in Seq(S), NEW n \in 0..Len(s), n < Len(s)
  PROVE  SubSeq(s, 1, n + 1) = Append(SubSeq(s, 1, n), s[n + 1])
  OBVIOUS

LEMMA FanElements ==
  ASSUME Fan!MemBrokerTypeOK, NEW t \in [array : Nat, len : Nat], Fan!IsSlice(t)
  PROVE  /\ fArrays[t.array] \in Seq(Fan!Slots)
         /\ Fan!Elements(t) \in Seq(Fan!Slots) /\ Len(Fan!Elements(t)) = t.len
         /\ Fan!Elements(t) = [i \in 1..t.len |-> fArrays[t.array][i]]
  <1>1. fArrays[t.array] \in Seq(Fan!Slots) /\ t.len \in 0..Len(fArrays[t.array])
    BY DEF Fan!MemBrokerTypeOK, Fan!IsSlice
  <1> QED  BY <1>1, Prefix DEF Fan!Elements

\* Arrays change where no publisher looks.
LEMMA FanChanges ==
  ASSUME Fan!MemBrokerInv, Fan!MemBrokerTypeOK', UNCHANGED <<fPub, fRan, fFound>>,
         \A t \in [array : Nat, len : Nat] :
           Fan!IsSlice(t) /\ (t.array = fSlice.array => t.len <= fSlice.len) =>
             /\ Fan!IsSlice(t)' /\ fArrays'[t.array] \in Seq(Fan!Slots)
             /\ t.array = fSlice'.array => t.len <= fSlice'.len
             /\ \A i \in 1..t.len : fArrays'[t.array][i] = fArrays[t.array][i]
  PROVE  Fan!MemBrokerInv'
  <1>1. ASSUME NEW p \in Publishers, fPub[p].pc = "call"  PROVE Fan!Walks(p)'
    <2>1. PICK t \in [array : Nat, len : Nat] : t = fPub[p].slice
      BY DEF Fan!MemBrokerInv, Fan!MemBrokerTypeOK
    <2>2. Fan!Walks(p)  BY <1>1 DEF Fan!MemBrokerInv
    <2>3. Fan!IsSlice(t) /\ (t.array = fSlice.array => t.len <= fSlice.len)
      BY <2>1, <2>2 DEF Fan!Walks
    <2>4. /\ Fan!IsSlice(t)' /\ fArrays'[t.array] \in Seq(Fan!Slots)
          /\ t.array = fSlice'.array => t.len <= fSlice'.len
          /\ \A i \in 1..t.len : fArrays'[t.array][i] = fArrays[t.array][i]
      BY <2>3
    <2>5. SubSeq(fArrays'[t.array], 1, t.len) = [i \in 1..t.len |-> fArrays'[t.array][i]]
      BY <2>4, Prefix DEF Fan!IsSlice
    <2>6. SubSeq(fArrays[t.array], 1, t.len) = [i \in 1..t.len |-> fArrays[t.array][i]]
      BY <2>3, FanElements DEF Fan!MemBrokerInv, Fan!Elements
    <2>7. SubSeq(fArrays'[t.array], 1, t.len) = SubSeq(fArrays[t.array], 1, t.len)
      BY <2>4, <2>5, <2>6
    <2> QED  BY <2>1, <2>2, <2>4, <2>7 DEF Fan!Walks, Fan!Elements, Fan!IsSlice
  <1> QED  BY <1>1 DEF Fan!MemBrokerInv

LEMMA FanNewArray ==
  ASSUME Fan!MemBrokerInv, NEW e \in Seq(Fan!Slots), Fan!NewArray(e),
         UNCHANGED <<fPub, fRan, fFound>>
  PROVE  Fan!MemBrokerInv'
  <1>0. /\ Fan!MemBrokerTypeOK /\ fArrays \in Seq(Seq(Fan!Slots)) /\ fSlice.len \in Nat
        /\ Len(fArrays) \in Nat /\ Len(e) \in Nat
    BY DEF Fan!MemBrokerInv, Fan!MemBrokerTypeOK
  <1>1. PICK room \in 0..fSlice.len :
          /\ fArrays' = Append(fArrays, e \o [i \in 1..room |-> Fan!Free])
          /\ fSlice' = [array |-> Len(fArrays) + 1, len |-> Len(e)]
    BY DEF Fan!NewArray
  <1>2. room \in Nat /\ [i \in 1..room |-> Fan!Free] \in [1..room -> Fan!Slots]
    BY <1>0, <1>1 DEF Fan!Slots
  <1>3. [i \in 1..room |-> Fan!Free] \in Seq(Fan!Slots)  BY <1>2, SeqDef
  <1>4. PICK a \in Seq(Fan!Slots) :
          a = e \o [i \in 1..room |-> Fan!Free] /\ Len(e) <= Len(a)
    <2>1. PICK f \in Seq(Fan!Slots) : f = [i \in 1..room |-> Fan!Free]  BY <1>3
    <2>2. e \o f \in Seq(Fan!Slots) /\ Len(e \o f) = Len(e) + Len(f) /\ Len(f) \in Nat
      OBVIOUS
    <2>3. Len(e) <= Len(e \o f)  BY <1>0, <2>2
    <2> QED  BY <2>1, <2>2, <2>3
  <1>5. fArrays' = Append(fArrays, a)  BY <1>1, <1>4
  <1>6. /\ fArrays' \in Seq(Seq(Fan!Slots)) /\ Len(fArrays') = Len(fArrays) + 1
        /\ fArrays'[Len(fArrays) + 1] = a
        /\ \A i \in 1..Len(fArrays) : fArrays'[i] = fArrays[i]
    BY <1>0, <1>5
  <1>7. /\ fSlice' \in [array : Nat, len : Nat] /\ fSlice'.array = Len(fArrays) + 1
        /\ fSlice'.len = Len(e)
    BY <1>0, <1>1
  <1>8. fSlice'.array \in 1..Len(fArrays') /\ fSlice'.len \in 0..Len(fArrays'[fSlice'.array])
    BY <1>0, <1>4, <1>6, <1>7
  <1>9. Fan!MemBrokerTypeOK'
    BY <1>0, <1>6, <1>7, <1>8 DEF Fan!MemBrokerTypeOK, Fan!IsSlice
  <1>10. ASSUME NEW t \in [array : Nat, len : Nat], Fan!IsSlice(t)
         PROVE  /\ Fan!IsSlice(t)' /\ fArrays'[t.array] \in Seq(Fan!Slots)
                /\ t.array # fSlice'.array
                /\ fArrays'[t.array] = fArrays[t.array]
    <2>1. t.array \in 1..Len(fArrays) /\ t.len \in 0..Len(fArrays[t.array])
      BY <1>10 DEF Fan!IsSlice
    <2>2. t.array \in 1..Len(fArrays') /\ fArrays'[t.array] = fArrays[t.array]
          /\ t.array # fSlice'.array
      BY <1>0, <1>6, <1>7, <2>1
    <2>3. fArrays'[t.array] \in Seq(Fan!Slots)  BY <1>0, <2>1, <2>2
    <2> QED  BY <2>1, <2>2, <2>3 DEF Fan!IsSlice
  <1> QED  BY <1>9, <1>10, FanChanges

LEMMA FanSubscribes ==
  ASSUME Fan!MemBrokerInv, NEW s \in Subscribers, Fan!Subscribe(s)
  PROVE  Fan!MemBrokerInv'
  <1>0. /\ Fan!MemBrokerTypeOK /\ fArrays \in Seq(Seq(Fan!Slots)) /\ Fan!IsSlice(fSlice)
        /\ fSlice \in [array : Nat, len : Nat] /\ UNCHANGED <<fPub, fRan, fFound>>
    BY DEF Fan!MemBrokerInv, Fan!MemBrokerTypeOK, Fan!Subscribe
  <1>1. s \in Fan!Slots  BY DEF Fan!Slots
  <1>2. fArrays[fSlice.array] \in Seq(Fan!Slots) /\ Fan!Elements(fSlice) \in Seq(Fan!Slots)
    BY <1>0, FanElements
  <1>3. PICK a, n \in Nat : /\ a = fSlice.array /\ n = fSlice.len /\ a \in 1..Len(fArrays)
                            /\ n \in 0..Len(fArrays[a])
    BY <1>0 DEF Fan!IsSlice
  <1>4. CASE /\ fSlice.len < Len(fArrays[fSlice.array])
             /\ fArrays' = [fArrays EXCEPT ![fSlice.array][fSlice.len + 1] = s]
             /\ fSlice' = [fSlice EXCEPT !.len = @ + 1]
    <2>1. n < Len(fArrays[a]) /\ fArrays' = [fArrays EXCEPT ![a][n + 1] = s]
      BY <1>3, <1>4
    <2>2. fSlice' \in [array : Nat, len : Nat] /\ fSlice'.array = a /\ fSlice'.len = n + 1
      BY <1>0, <1>3, <1>4
    <2>3. PICK b : b = [fArrays[a] EXCEPT ![n + 1] = s] /\ fArrays' = [fArrays EXCEPT ![a] = b]
      BY <2>1
    <2>4. /\ b \in Seq(Fan!Slots) /\ Len(b) = Len(fArrays[a])
          /\ \A i \in 1..n : b[i] = fArrays[a][i]
      BY <1>1, <1>2, <1>3, <2>1, <2>3
    <2>5. /\ fArrays' \in Seq(Seq(Fan!Slots)) /\ Len(fArrays') = Len(fArrays) /\ fArrays'[a] = b
          /\ \A i \in 1..Len(fArrays) : i # a => fArrays'[i] = fArrays[i]
      <3> DEFINE S == Seq(Fan!Slots)
      <3>1. fArrays \in Seq(S) /\ b \in S  BY <1>0, <2>4
      <3> HIDE DEF S
      <3>2. /\ fArrays' \in Seq(S) /\ Len(fArrays') = Len(fArrays) /\ fArrays'[a] = b
            /\ \A i \in 1..Len(fArrays) : i # a => fArrays'[i] = fArrays[i]
        BY <1>3, <2>3, <3>1, Replaced
      <3> QED  BY <3>2 DEF S
    <2>6. fSlice'.array \in 1..Len(fArrays') /\ fSlice'.len \in 0..Len(fArrays'[fSlice'.array])
      BY <1>2, <1>3, <2>1, <2>2, <2>4, <2>5
    <2>7. Fan!MemBrokerTypeOK'
      BY <1>0, <2>2, <2>5, <2>6 DEF Fan!MemBrokerTypeOK, Fan!IsSlice
    <2>8. ASSUME NEW t \in [array : Nat, len : Nat], Fan!IsSlice(t),
                 t.array = fSlice.array => t.len <= fSlice.len
          PROVE  /\ Fan!IsSlice(t)' /\ fArrays'[t.array] \in Seq(Fan!Slots)
                 /\ t.array = fSlice'.array => t.len <= fSlice'.len
                 /\ \A i \in 1..t.len : fArrays'[t.array][i] = fArrays[t.array][i]
      <3>1. t.array \in 1..Len(fArrays) /\ t.len \in 0..Len(fArrays[t.array])
        BY <2>8 DEF Fan!IsSlice
      <3>2. CASE t.array = a
        <4>1. t.len <= n  BY <1>3, <2>8, <3>2
        <4>2. t.len <= n + 1 /\ \A i \in 1..t.len : i \in 1..n  BY <4>1
        <4>3. t.array \in 1..Len(fArrays') /\ t.len \in 0..Len(fArrays'[t.array])
              /\ fArrays'[t.array] \in Seq(Fan!Slots)
          BY <2>4, <2>5, <3>1, <3>2
        <4>4. \A i \in 1..t.len : fArrays'[t.array][i] = fArrays[t.array][i]
          BY <2>4, <2>5, <3>2, <4>2
        <4> QED  BY <2>2, <4>2, <4>3, <4>4 DEF Fan!IsSlice
      <3>3. CASE t.array # a
        <4>0. PICK k \in 1..Len(fArrays) : k = t.array /\ k # a  BY <3>1, <3>3
        <4>a. fArrays'[k] = fArrays[k] /\ k \in 1..Len(fArrays')  BY <1>0, <2>5, <4>0
        <4>b. fArrays[k] \in Seq(Fan!Slots)  BY <1>0, <4>0
        <4>1. fArrays'[t.array] = fArrays[t.array] /\ t.array \in 1..Len(fArrays')
              /\ fArrays'[t.array] \in Seq(Fan!Slots)
          BY <4>0, <4>a, <4>b
        <4> QED  BY <2>2, <3>1, <3>3, <4>1 DEF Fan!IsSlice
      <3> QED  BY <3>2, <3>3
    <2> QED  BY <1>0, <2>7, <2>8, FanChanges
  <1>5. CASE Fan!NewArray(Append(Fan!Elements(fSlice), s))
    <2>1. Append(Fan!Elements(fSlice), s) \in Seq(Fan!Slots)  BY <1>1, <1>2
    <2> QED  BY <1>0, <1>5, <2>1, FanNewArray
  <1> QED  BY <1>4, <1>5 DEF Fan!Subscribe

LEMMA FanUnsubscribes ==
  ASSUME Fan!MemBrokerInv, NEW s \in Subscribers, Fan!Unsubscribe(s)
  PROVE  Fan!MemBrokerInv'
  <1>0. /\ Fan!MemBrokerTypeOK /\ Fan!IsSlice(fSlice) /\ fSlice \in [array : Nat, len : Nat]
        /\ Fan!NewArray(Fan!Without(s)) /\ UNCHANGED <<fPub, fRan, fFound>>
        /\ s \in Fan!Range(Fan!Elements(fSlice))
    BY DEF Fan!MemBrokerInv, Fan!MemBrokerTypeOK, Fan!Unsubscribe
  <1>1. PICK e \in Seq(Fan!Slots), n \in Nat :
          e = Fan!Elements(fSlice) /\ n = fSlice.len /\ Len(e) = n
    BY <1>0, FanElements
  <1>2. n > 0
    <2>1. PICK k \in DOMAIN e : e[k] = s  BY <1>0, <1>1 DEF Fan!Range
    <2> QED  BY <1>1, <2>1
  <1>3. PICK at : Fan!Without(s) = [i \in 1..(n - 1) |-> e[IF i < at THEN i ELSE i + 1]]
    BY <1>1 DEF Fan!Without
  <1>4. \A i \in 1..(n - 1) : (IF i < at THEN i ELSE i + 1) \in 1..n  BY <1>1
  <1>5. \A i \in 1..n : e[i] \in Fan!Slots  BY <1>1
  <1>6. Fan!Without(s) \in [1..(n - 1) -> Fan!Slots] /\ n - 1 \in Nat
    BY <1>1, <1>2, <1>3, <1>4, <1>5
  <1>7. Fan!Without(s) \in Seq(Fan!Slots)  BY <1>6, SeqDef
  <1> QED  BY <1>0, <1>7, FanNewArray

LEMMA FanPublishes ==
  ASSUME Fan!MemBrokerInv, NEW p \in Publishers, Fan!Publish(p)
  PROVE  Fan!MemBrokerInv'
  <1>0. /\ Fan!MemBrokerTypeOK /\ fPub[p].pc = "idle" /\ UNCHANGED <<fSlice, fArrays, fRan>>
        /\ Fan!IsSlice(fSlice) /\ fSlice \in [array : Nat, len : Nat] /\ fRan[p] = <<>>
        /\ fFound' = [fFound EXCEPT ![p] = Fan!Elements(fSlice)]
    BY DEF Fan!MemBrokerInv, Fan!MemBrokerTypeOK, Fan!Publish
  <1> USE <1>0
  <1>1. PICK r : /\ r = [pc |-> "call", slice |-> fSlice, next |-> 1]
                 /\ fPub' = [fPub EXCEPT ![p] = r]
    BY DEF Fan!Publish
  <1>2. PICK e \in Seq(Fan!Slots) : e = Fan!Elements(fSlice) /\ Len(e) = fSlice.len
    BY FanElements
  <1>3. /\ r \in [pc : {"idle", "call"}, slice : [array : Nat, len : Nat], next : Nat]
        /\ r.pc = "call" /\ r.slice = fSlice /\ r.next = 1
    BY <1>1
  <1>4. Fan!MemBrokerTypeOK'
    BY <1>1, <1>2, <1>3 DEF Fan!MemBrokerTypeOK, Fan!IsSlice
  <1>5. \A q \in Publishers : /\ fPub'[q] = IF q = p THEN r ELSE fPub[q]
                              /\ fFound'[q] = IF q = p THEN e ELSE fFound[q]
    BY <1>1, <1>2 DEF Fan!MemBrokerTypeOK
  <1>6. SubSeq(e, 1, 0) = <<>> /\ fSlice.len \in Nat /\ 1 \in 1..(fSlice.len + 1)
    BY <1>2
  <1>7. Fan!Walks(p)'
    <2>1. fPub'[p] = r /\ fFound'[p] = e /\ fRan'[p] = <<>>  BY <1>5
    <2>2. fPub'[p].slice = fSlice /\ fPub'[p].next = 1 /\ fPub'[p].next - 1 = 0  BY <1>3, <2>1
    <2>3. fRan'[p] = SubSeq(fFound'[p], 1, fPub'[p].next - 1)  BY <1>6, <2>1, <2>2
    <2>4. fPub'[p].next \in 1..(fPub'[p].slice.len + 1) /\ fPub'[p].slice.len <= fSlice'.len
      BY <1>6, <2>2
    <2>5. fFound'[p] = SubSeq(fArrays'[fPub'[p].slice.array], 1, fPub'[p].slice.len)
      BY <1>2, <2>1, <2>2 DEF Fan!Elements
    <2>6. Fan!IsSlice(fPub[p].slice)'  BY <2>2 DEF Fan!IsSlice
    <2> QED  BY <2>3, <2>4, <2>5, <2>6 DEF Fan!Walks, Fan!Elements, Fan!IsSlice
  <1>8. ASSUME NEW q \in Publishers, q # p
        PROVE  IF fPub'[q].pc = "call" THEN Fan!Walks(q)' ELSE fRan'[q] = <<>>
    <2>1. IF fPub[q].pc = "call" THEN Fan!Walks(q) ELSE fRan[q] = <<>>  BY DEF Fan!MemBrokerInv
    <2> QED  BY <1>5, <1>8, <2>1 DEF Fan!Walks, Fan!IsSlice, Fan!Elements
  <1> QED  BY <1>3, <1>4, <1>5, <1>7, <1>8 DEF Fan!MemBrokerInv

LEMMA FanCalls ==
  ASSUME Fan!MemBrokerInv, NEW p \in Publishers, Fan!CallHandler(p)
  PROVE  Fan!MemBrokerInv'
  <1>0. /\ Fan!MemBrokerTypeOK /\ fPub[p].pc = "call" /\ fPub[p].next <= fPub[p].slice.len
        /\ UNCHANGED <<fSlice, fArrays, fFound>> /\ Fan!Walks(p)
        /\ fRan' = [fRan EXCEPT ![p] = Append(@, Fan!Elements(fPub[p].slice)[fPub[p].next])]
        /\ fPub' = [fPub EXCEPT ![p].next = @ + 1]
    BY DEF Fan!MemBrokerInv, Fan!CallHandler
  <1> USE <1>0
  <1>1. PICK t \in [array : Nat, len : Nat], n \in Nat :
          t = fPub[p].slice /\ n = fPub[p].next /\ n \in 1..t.len
    BY DEF Fan!MemBrokerTypeOK, Fan!Walks
  <1>2. PICK e \in Seq(Fan!Slots) : e = Fan!Elements(t) /\ Len(e) = t.len /\ e = fFound[p]
    BY <1>1, FanElements DEF Fan!Walks
  <1>3. fRan[p] = SubSeq(e, 1, n - 1)  BY <1>1, <1>2 DEF Fan!Walks
  <1>4. PICK x \in Seq(Fan!Slots) : x = SubSeq(e, 1, n) /\ x = Append(fRan[p], e[n])
    <2>0. t.len \in Nat /\ n - 1 \in 0..t.len /\ n - 1 < t.len /\ n = (n - 1) + 1  BY <1>1
    <2>1. PICK k \in 0..Len(e) : k = n - 1 /\ k < Len(e) /\ n = k + 1  BY <1>2, <2>0
    <2>2. SubSeq(e, 1, k + 1) = Append(SubSeq(e, 1, k), e[k + 1])  BY <2>1, PrefixGrows
    <2>3. SubSeq(e, 1, n) \in Seq(Fan!Slots)  BY <1>1, <1>2
    <2> QED  BY <1>3, <2>1, <2>2, <2>3
  <1>5. fRan' = [fRan EXCEPT ![p] = x]  BY <1>1, <1>2, <1>4 DEF Fan!MemBrokerTypeOK
  <1>6. PICK r : /\ r = [fPub[p] EXCEPT !.next = n + 1] /\ fPub' = [fPub EXCEPT ![p] = r]
    BY <1>1
  <1>7. /\ r \in [pc : {"idle", "call"}, slice : [array : Nat, len : Nat], next : Nat]
        /\ r.pc = "call" /\ r.slice = t /\ r.next = n + 1
    <2>1. fPub[p] \in [pc : {"idle", "call"}, slice : [array : Nat, len : Nat], next : Nat]
      BY DEF Fan!MemBrokerTypeOK
    <2>2. n + 1 \in Nat  BY <1>1
    <2> QED  BY <1>1, <1>6, <2>1, <2>2
  <1>8. Fan!MemBrokerTypeOK'
    <2>1. fRan' \in [Publishers -> Seq(Fan!Slots)]  BY <1>5 DEF Fan!MemBrokerTypeOK
    <2>2. fPub' \in [Publishers ->
                      [pc : {"idle", "call"}, slice : [array : Nat, len : Nat], next : Nat]]
      BY <1>6, <1>7 DEF Fan!MemBrokerTypeOK
    <2> QED  BY <2>1, <2>2 DEF Fan!MemBrokerTypeOK, Fan!IsSlice
  <1>9. \A q \in Publishers : /\ fPub'[q] = IF q = p THEN r ELSE fPub[q]
                              /\ fRan'[q] = IF q = p THEN x ELSE fRan[q]
    BY <1>5, <1>6 DEF Fan!MemBrokerTypeOK
  <1>10. n + 1 \in 1..(t.len + 1) /\ (n + 1) - 1 = n
    <2>1. PICK l \in Nat : l = t.len /\ n \in 1..l  BY <1>1
    <2>2. n + 1 \in 1..(l + 1) /\ (n + 1) - 1 = n  BY <2>1
    <2> QED  BY <2>1, <2>2
  <1>11. Fan!Walks(p)'
    <2>1. fPub'[p] = r /\ fFound'[p] = e /\ fRan'[p] = x  BY <1>2, <1>9
    <2>2. fPub'[p].slice = t /\ fPub'[p].next = n + 1 /\ fPub'[p].next - 1 = n
      BY <1>7, <1>10, <2>1
    <2>3. fRan'[p] = SubSeq(fFound'[p], 1, fPub'[p].next - 1)  BY <1>4, <2>1, <2>2
    <2>4. fPub'[p].next \in 1..(fPub'[p].slice.len + 1)  BY <1>10, <2>2
    <2>5. fFound'[p] = SubSeq(fArrays'[fPub'[p].slice.array], 1, fPub'[p].slice.len)
      BY <1>2, <2>1, <2>2 DEF Fan!Elements
    <2>6. /\ Fan!IsSlice(fPub[p].slice)'
          /\ fPub'[p].slice.array = fSlice'.array => fPub'[p].slice.len <= fSlice'.len
      BY <1>1, <2>2 DEF Fan!IsSlice, Fan!Walks
    <2> QED  BY <2>3, <2>4, <2>5, <2>6 DEF Fan!Walks, Fan!Elements, Fan!IsSlice
  <1>12. ASSUME NEW q \in Publishers, q # p
         PROVE  IF fPub'[q].pc = "call" THEN Fan!Walks(q)' ELSE fRan'[q] = <<>>
    <2>1. IF fPub[q].pc = "call" THEN Fan!Walks(q) ELSE fRan[q] = <<>>  BY DEF Fan!MemBrokerInv
    <2> QED  BY <1>9, <1>12, <2>1 DEF Fan!Walks, Fan!IsSlice, Fan!Elements
  <1> QED  BY <1>7, <1>8, <1>9, <1>11, <1>12 DEF Fan!MemBrokerInv

LEMMA FanEnds ==
  ASSUME Fan!MemBrokerInv, NEW p \in Publishers, Fan!PublishEnds(p)
  PROVE  Fan!MemBrokerInv'
  <1>0. /\ Fan!MemBrokerTypeOK /\ UNCHANGED <<fSlice, fArrays>>
        /\ fPub' = [fPub EXCEPT ![p] = Fan!Quiet]
        /\ fRan' = [fRan EXCEPT ![p] = <<>>] /\ fFound' = [fFound EXCEPT ![p] = <<>>]
    BY DEF Fan!MemBrokerInv, Fan!PublishEnds
  <1> USE <1>0
  <1>1. /\ Fan!Quiet \in [pc : {"idle", "call"}, slice : [array : Nat, len : Nat], next : Nat]
        /\ Fan!Quiet.pc = "idle"
    BY DEF Fan!Quiet
  <1>2. Fan!MemBrokerTypeOK'
    BY <1>1 DEF Fan!MemBrokerTypeOK, Fan!IsSlice
  <1>3. \A q \in Publishers : /\ fPub'[q] = IF q = p THEN Fan!Quiet ELSE fPub[q]
                              /\ fRan'[q] = IF q = p THEN <<>> ELSE fRan[q]
                              /\ fFound'[q] = IF q = p THEN <<>> ELSE fFound[q]
    BY DEF Fan!MemBrokerTypeOK
  <1>4. ASSUME NEW q \in Publishers
        PROVE  IF fPub'[q].pc = "call" THEN Fan!Walks(q)' ELSE fRan'[q] = <<>>
    <2>1. CASE q = p  BY <1>1, <1>3, <2>1
    <2>2. CASE q # p
      <3>1. IF fPub[q].pc = "call" THEN Fan!Walks(q) ELSE fRan[q] = <<>>  BY DEF Fan!MemBrokerInv
      <3> QED  BY <1>3, <2>2, <3>1 DEF Fan!Walks, Fan!IsSlice, Fan!Elements
    <2> QED  BY <2>1, <2>2
  <1> QED  BY <1>2, <1>4 DEF Fan!MemBrokerInv

LEMMA FanInitInv == Fan!MemBrokerInit => Fan!MemBrokerInv
  <1> SUFFICES ASSUME Fan!MemBrokerInit  PROVE Fan!MemBrokerInv
    OBVIOUS
  <1>1. /\ Fan!Quiet \in [pc : {"idle", "call"}, slice : [array : Nat, len : Nat], next : Nat]
        /\ Fan!Quiet.pc = "idle"
    BY DEF Fan!Quiet
  <1>2. fArrays \in Seq(Seq(Fan!Slots)) /\ Len(fArrays) = 1 /\ fArrays[1] = <<>>
    BY DEF Fan!MemBrokerInit
  <1>3. fSlice \in [array : Nat, len : Nat] /\ fSlice.array = 1 /\ fSlice.len = 0
    BY DEF Fan!MemBrokerInit
  <1>4. Fan!IsSlice(fSlice)  BY <1>2, <1>3 DEF Fan!IsSlice
  <1>5. Fan!MemBrokerTypeOK
    BY <1>1, <1>2, <1>3, <1>4 DEF Fan!MemBrokerInit, Fan!MemBrokerTypeOK
  <1> QED  BY <1>1, <1>5 DEF Fan!MemBrokerInv, Fan!MemBrokerInit

LEMMA FanNextInv ==
  Fan!MemBrokerInv /\ [Fan!MemBrokerNext]_fanVars => Fan!MemBrokerInv'
  <1> SUFFICES ASSUME Fan!MemBrokerInv, [Fan!MemBrokerNext]_fanVars
               PROVE  Fan!MemBrokerInv'
    OBVIOUS
  <1>1. CASE UNCHANGED <<fSlice, fArrays, fPub, fRan, fFound>>
    BY <1>1 DEF Fan!MemBrokerInv, Fan!MemBrokerTypeOK, Fan!IsSlice, Fan!Walks, Fan!Elements
  <1>2. CASE Fan!Start \/ Fan!Close \/ UNCHANGED fanVars
    BY <1>1, <1>2 DEF Fan!Start, Fan!Close, fanVars
  <1>3. ASSUME NEW s \in Subscribers, Fan!Subscribe(s) \/ Fan!Unsubscribe(s)
        PROVE  Fan!MemBrokerInv'
    BY <1>3, FanSubscribes, FanUnsubscribes
  <1>4. ASSUME NEW p \in Publishers, Fan!Publish(p) \/ Fan!CallHandler(p) \/ Fan!PublishEnds(p)
        PROVE  Fan!MemBrokerInv'
    BY <1>4, FanPublishes, FanCalls, FanEnds
  <1> QED  BY <1>2, <1>3, <1>4 DEF Fan!MemBrokerNext

LEMMA FanServes == Fan!MemBrokerInv => Fan!FanOut
  <1> SUFFICES ASSUME Fan!MemBrokerInv, NEW p \in Publishers, fPub[p].pc = "call",
                      fPub[p].next > fPub[p].slice.len
               PROVE  fRan[p] = fFound[p]
    BY DEF Fan!FanOut
  <1>1. Fan!Walks(p) /\ Fan!MemBrokerTypeOK  BY DEF Fan!MemBrokerInv
  <1>2. PICK t \in [array : Nat, len : Nat], n \in Nat :
          t = fPub[p].slice /\ n = fPub[p].next /\ n = t.len + 1
    BY <1>1 DEF Fan!MemBrokerTypeOK, Fan!Walks
  <1>3. PICK e \in Seq(Fan!Slots) : e = fFound[p] /\ Len(e) = n - 1
    BY <1>1, <1>2, FanElements DEF Fan!Walks
  <1>4. SubSeq(e, 1, Len(e)) = e  BY <1>3
  <1> QED  BY <1>1, <1>2, <1>3, <1>4 DEF Fan!Walks

\* broker/http/http.go and broker/memory/memory.go: a message that was published
\* over HTTP is handled by a node of each group, waits, had nobody to go to or
\* found the inbox full; a publisher of the memory broker that has come to the end
\* of its slice has called the handlers it found, once each and in order.  For
\* any publishers, subscribers, nodes, lengths of inbox and batch, and faults.
THEOREM SubscribersAreServed == Spec => []SubscribersServed
  <1>1. Init => Publish!PublishInv /\ Fan!MemBrokerInv
    BY PublishInitInv, FanInitInv DEF Init
  <1>2. Publish!PublishInv /\ Fan!MemBrokerInv /\ [Next]_vars
          => Publish!PublishInv' /\ Fan!MemBrokerInv'
    BY PublishMoves, FanMoves, PublishNextInv, FanNextInv
  <1>3. Publish!PublishInv /\ Fan!MemBrokerInv => SubscribersServed
    BY FanServes DEF SubscribersServed, Publish!PublishInv
  <1> QED  BY <1>1, <1>2, <1>3, PTL DEF Spec

---------------------------------------------------------------------------
(* A call of the HTTP client.                                              *)

LEMMA HttpMoves == [Next]_vars => [Http!HttpNext]_httpVars
  BY DEF Next, vars, MdnsRuns, LookupRuns, WatchRuns, PublishRuns, FanRuns,
         SocketRuns, LogRuns, HttpRuns, ProxyRuns, StaticRuns, FacadeRuns

\* The call returns, without a request in this step, something else than a
\* success.
LEMMA HttpReturns ==
  ASSUME Http!HttpInv, hAt # "returned", Http!HttpTypeOK', hAt' = "returned",
         UNCHANGED <<hRetries, hI, hNode, hGerr, hOutcomes, hMarks>>,
         hOutcomes # <<>> => hHooks' = 1,
         hResult' # Http!Ok, hResult' = Http!Nothing => hRetries = 0
  PROVE  Http!HttpInv'
  <1>1. Http!NoneSucceeded  BY DEF Http!HttpInv
  <1>2. Http!AttemptsReported'
    BY <1>1 DEF Http!HttpInv, Http!AttemptsReported, Http!NoneSucceeded
  <1> QED  BY <1>2 DEF Http!HttpInv

\* What follows a failed attempt that made no request in this step.
LEMMA HttpFails ==
  ASSUME NEW e \in {Http!NotFound, Http!Internal}, Http!Failed(e)
  PROVE  \/ hAt' = "returned" /\ hResult' \notin {Http!Ok, Http!Nothing} /\ hGerr' = hGerr
         \/ hAt' = "backoff" /\ hGerr' = e /\ hResult' = hResult
  BY DEF Http!Failed, Http!Return, Http!NotFound, Http!Internal, Http!Ok, Http!Nothing,
         Http!Custom

LEMMA HttpBegins ==
  ASSUME Http!HttpInv, Http!next \/ Http!applyRequestHooks
  PROVE  Http!HttpInv'
  <1>0. /\ hAt \in {"next", "hooks"} /\ hOutcomes = <<>> /\ hHooks = 0 /\ hI = 0
        /\ UNCHANGED <<hRetries, hI, hNode, hGerr, hOutcomes, hMarks>>
        /\ Http!HttpTypeOK /\ Http!NoneSucceeded /\ hI <= hRetries /\ Http!AttemptsReported
    BY DEF Http!HttpInv, Http!next, Http!applyRequestHooks
  <1> USE <1>0
  <1>1. /\ hHooks' \in {0, 1}
        /\ \/ /\ hAt' = "returned" /\ hResult' \notin {Http!Ok, Http!Nothing}
           \/ /\ hAt' = "hooks" /\ hHooks' = 0 /\ hResult' = hResult
           \/ /\ hAt' = "loop" /\ hHooks' = 1 /\ hResult' = hResult
    BY DEF Http!next, Http!applyRequestHooks, Http!Return, Http!NotFound, Http!Internal,
           Http!Timeout, Http!Ok, Http!Nothing
  <1>2. Http!HttpTypeOK'  BY <1>1 DEF Http!HttpTypeOK
  <1>3. CASE hAt' = "returned"  BY <1>1, <1>2, <1>3, HttpReturns
  <1>4. CASE hAt' \in {"hooks", "loop"}
    <2>1. Http!AttemptsReported'  BY <1>1, <1>4 DEF Http!AttemptsReported
    <2>2. Http!NoneSucceeded' /\ Len(hOutcomes') = 0  BY DEF Http!NoneSucceeded
    <2> QED  BY <1>1, <1>2, <1>4, <2>1, <2>2 DEF Http!HttpInv
  <1> QED  BY <1>1, <1>3, <1>4

LEMMA HttpLoops ==
  ASSUME Http!HttpInv, Http!loop
  PROVE  Http!HttpInv'
  <1>0. /\ hAt = "loop" /\ hHooks = 1 /\ hI <= hRetries /\ Len(hOutcomes) <= hI
        /\ UNCHANGED <<hRetries, hI, hNode, hGerr, hHooks, hOutcomes, hMarks>>
        /\ Http!HttpTypeOK /\ Http!NoneSucceeded /\ Http!AttemptsReported
        /\ hGerr = Http!Nothing => hI = 0
    BY DEF Http!HttpInv, Http!loop
  <1> USE <1>0
  <1>1. CASE hI >= hRetries /\ Http!Return(hGerr)
    <2>1. hAt' = "returned" /\ hResult' = hGerr /\ hResult' # Http!Ok
      BY <1>1 DEF Http!Return, Http!HttpTypeOK, Http!Nothing, Http!NotFound, Http!Internal, Http!Ok
    <2>2. hGerr = Http!Nothing => hRetries = 0  BY <1>1 DEF Http!HttpTypeOK
    <2>3. Http!HttpTypeOK'  BY <2>1 DEF Http!HttpTypeOK
    <2> QED  BY <2>1, <2>2, <2>3, HttpReturns
  <1>2. CASE Http!Return(Http!Timeout)
    <2>1. hAt' = "returned" /\ hResult' # Http!Ok /\ hResult' # Http!Nothing
      BY <1>2 DEF Http!Return, Http!Timeout, Http!Nothing, Http!Ok
    <2>2. Http!HttpTypeOK'  BY <2>1 DEF Http!HttpTypeOK
    <2> QED  BY <2>1, <2>2, HttpReturns
  <1>3. CASE hI < hRetries /\ hAt' = "select" /\ UNCHANGED hResult
    <2>1. Http!HttpTypeOK'  BY <1>3 DEF Http!HttpTypeOK
    <2>2. Http!AttemptsReported' /\ Http!NoneSucceeded'
      BY <1>3 DEF Http!AttemptsReported, Http!NoneSucceeded
    <2> QED  BY <1>3, <2>1, <2>2 DEF Http!HttpInv
  <1> QED  BY <1>1, <1>2, <1>3 DEF Http!loop

LEMMA HttpSelects ==
  ASSUME Http!HttpInv, Http!select
  PROVE  Http!HttpInv'
  <1>0. /\ hAt = "select" /\ hHooks = 1 /\ hI < hRetries /\ hI <= hRetries /\ Len(hOutcomes) <= hI
        /\ UNCHANGED <<hRetries, hI, hHooks, hOutcomes, hMarks>>
        /\ Http!HttpTypeOK /\ Http!NoneSucceeded /\ Http!AttemptsReported
        /\ hGerr = Http!Nothing => hI = 0
    BY DEF Http!HttpInv, Http!select
  <1> USE <1>0
  <1>1. CASE \E n \in Targets : hNode' = n /\ hAt' = "request" /\ UNCHANGED <<hResult, hGerr>>
    <2>1. Http!HttpTypeOK'  BY <1>1 DEF Http!HttpTypeOK
    <2>2. Http!AttemptsReported' /\ Http!NoneSucceeded'
      BY <1>1 DEF Http!AttemptsReported, Http!NoneSucceeded
    <2> QED  BY <1>1, <2>1, <2>2 DEF Http!HttpInv
  <1>2. ASSUME NEW e \in {Http!NotFound, Http!Internal}, Http!Failed(e), UNCHANGED hNode
        PROVE  Http!HttpInv'
    <2>1. CASE hAt' = "returned" /\ hResult' \notin {Http!Ok, Http!Nothing} /\ hGerr' = hGerr
      <3>1. Http!HttpTypeOK'  BY <1>2, <2>1 DEF Http!HttpTypeOK
      <3> QED  BY <1>2, <2>1, <3>1, HttpReturns
    <2>2. CASE hAt' = "backoff" /\ hGerr' = e /\ hResult' = hResult
      <3>1. Http!HttpTypeOK'  BY <1>2, <2>2 DEF Http!HttpTypeOK
      <3>2. Http!AttemptsReported' /\ Http!NoneSucceeded'
        BY <2>2 DEF Http!AttemptsReported, Http!NoneSucceeded
      <3>3. hGerr' # Http!Nothing  BY <2>2 DEF Http!NotFound, Http!Internal, Http!Nothing
      <3>4. Len(hOutcomes') <= hI' + 1  BY DEF Http!HttpTypeOK
      <3> QED  BY <2>2, <3>1, <3>2, <3>3, <3>4 DEF Http!HttpInv
    <2> QED  BY <1>2, <2>1, <2>2, HttpFails
  <1> QED  BY <1>1, <1>2 DEF Http!select

LEMMA HttpPauses ==
  ASSUME Http!HttpInv, Http!backoff
  PROVE  Http!HttpInv'
  <1>0. /\ hAt = "backoff" /\ hHooks = 1 /\ hI < hRetries /\ Len(hOutcomes) <= hI + 1
        /\ UNCHANGED <<hRetries, hNode, hGerr, hHooks, hOutcomes, hMarks>>
        /\ Http!HttpTypeOK /\ Http!NoneSucceeded /\ Http!AttemptsReported
        /\ hGerr # Http!Nothing
    BY DEF Http!HttpInv, Http!backoff
  <1> USE <1>0
  <1>1. CASE Http!Return(Http!Timeout) /\ UNCHANGED hI
    <2>1. hAt' = "returned" /\ hResult' # Http!Ok /\ hResult' # Http!Nothing
      BY <1>1 DEF Http!Return, Http!Timeout, Http!Nothing, Http!Ok
    <2>2. Http!HttpTypeOK'  BY <1>1, <2>1 DEF Http!HttpTypeOK
    <2> QED  BY <1>1, <2>1, <2>2, HttpReturns
  <1>2. CASE hI' = hI + 1 /\ hAt' = "loop" /\ UNCHANGED hResult
    <2>1. Http!HttpTypeOK'  BY <1>2 DEF Http!HttpTypeOK
    <2>2. Http!AttemptsReported' /\ Http!NoneSucceeded'
      BY <1>2 DEF Http!AttemptsReported, Http!NoneSucceeded
    <2>3. hI' <= hRetries /\ Len(hOutcomes') <= hI'  BY <1>2 DEF Http!HttpTypeOK
    <2> QED  BY <1>2, <2>1, <2>2, <2>3 DEF Http!HttpInv
  <1> QED  BY <1>1, <1>2 DEF Http!backoff

LEMMA HttpRequests ==
  ASSUME Http!HttpInv, Http!call
  PROVE  Http!HttpInv'
  <1>0. /\ hAt = "request" /\ hHooks = 1 /\ hI < hRetries /\ Len(hOutcomes) <= hI
        /\ UNCHANGED <<hRetries, hI, hNode, hHooks>>
        /\ Http!HttpTypeOK /\ Http!NoneSucceeded /\ Http!AttemptsReported
        /\ hGerr = Http!Nothing => hI = 0
    BY DEF Http!HttpInv, Http!call
  <1> USE <1>0
  <1>1. PICK o \in {Http!Ok, Http!Internal}, x \in [node : Targets, code : {Http!Ok, Http!Internal}] :
          /\ x = [node |-> hNode, code |-> o] /\ x.code = o
          /\ hOutcomes' = Append(hOutcomes, x) /\ hMarks' = Append(hMarks, x)
          /\ \/ o = Http!Ok /\ Http!Return(Http!Ok) /\ UNCHANGED hGerr
             \/ o # Http!Ok /\ Http!Failed(o)
    BY DEF Http!call, Http!HttpTypeOK
  <1>2. hMarks' = hOutcomes'  BY <1>1 DEF Http!AttemptsReported
  <1>3. /\ hOutcomes' \in Seq([node : Targets, code : {Http!Ok, Http!Internal}])
        /\ Len(hOutcomes) \in Nat /\ Len(hOutcomes') = Len(hOutcomes) + 1
        /\ hOutcomes'[Len(hOutcomes) + 1] = x
        /\ \A k \in 1..Len(hOutcomes) : hOutcomes'[k] = hOutcomes[k]
    BY <1>1 DEF Http!HttpTypeOK
  <1>4. \A k \in 1..Len(hOutcomes') : k \in 1..Len(hOutcomes) \/ k = Len(hOutcomes')
    BY <1>3
  <1>5. \A k \in 1..Len(hOutcomes') : hOutcomes'[k].code = Http!Ok => k = Len(hOutcomes') /\ o = Http!Ok
    BY <1>1, <1>3, <1>4 DEF Http!NoneSucceeded
  <1>6. Len(hOutcomes') <= hI + 1 /\ Len(hOutcomes') <= hRetries
    BY <1>3 DEF Http!HttpTypeOK
  <1>7. CASE o = Http!Ok /\ Http!Return(Http!Ok) /\ UNCHANGED hGerr
    <2>1. hAt' = "returned" /\ hResult' = Http!Ok  BY <1>7 DEF Http!Return
    <2>2. Http!HttpTypeOK'  BY <1>3, <1>7, <2>1 DEF Http!HttpTypeOK
    <2>3. Len(hOutcomes') \in 1..Len(hOutcomes') /\ hOutcomes'[Len(hOutcomes')].code = Http!Ok
      BY <1>1, <1>3, <1>7
    <2>4. Http!Ok # Http!Nothing  BY DEF Http!Ok, Http!Nothing
    <2>5. Http!AttemptsReported'
      BY <1>2, <1>5, <1>6, <2>1, <2>3, <2>4 DEF Http!AttemptsReported
    <2> QED  BY <1>7, <2>1, <2>2, <2>5 DEF Http!HttpInv
  <1>8. CASE o # Http!Ok /\ Http!Failed(o)
    <2>1. o \in {Http!NotFound, Http!Internal}  BY <1>1, <1>8
    <2>2. \A k \in 1..Len(hOutcomes') : hOutcomes'[k].code # Http!Ok  BY <1>5, <1>8
    <2>3. CASE hAt' = "returned" /\ hResult' \notin {Http!Ok, Http!Nothing} /\ hGerr' = hGerr
      <3>1. Http!HttpTypeOK'  BY <1>3, <2>3 DEF Http!HttpTypeOK
      <3>2. Http!AttemptsReported'
        BY <1>2, <1>6, <2>2, <2>3 DEF Http!AttemptsReported
      <3> QED  BY <2>3, <3>1, <3>2 DEF Http!HttpInv
    <2>4. CASE hAt' = "backoff" /\ hGerr' = o /\ hResult' = hResult
      <3>1. Http!HttpTypeOK'  BY <1>3, <2>1, <2>4 DEF Http!HttpTypeOK
      <3>2. Http!AttemptsReported'
        BY <1>2, <1>6, <2>2, <2>4 DEF Http!AttemptsReported
      <3>3. Http!NoneSucceeded'  BY <2>2 DEF Http!NoneSucceeded
      <3>4. hGerr' # Http!Nothing  BY <2>1, <2>4 DEF Http!NotFound, Http!Internal, Http!Nothing
      <3>5. hI <= hRetries  BY DEF Http!HttpTypeOK
      <3> QED  BY <1>6, <2>4, <3>1, <3>2, <3>3, <3>4, <3>5 DEF Http!HttpInv
    <2> QED  BY <1>8, <2>1, <2>3, <2>4, HttpFails
  <1> QED  BY <1>1, <1>7, <1>8

LEMMA HttpInitInv == Http!HttpInit => Http!HttpInv
  <1> SUFFICES ASSUME Http!HttpInit  PROVE Http!HttpInv
    OBVIOUS
  <1>1. /\ hRetries \in Nat /\ hAt = "next" /\ hI = 0 /\ hNode \in Targets /\ hHooks = 0
        /\ hGerr = Http!Nothing /\ hOutcomes = <<>> /\ hMarks = <<>>
    BY OutcomeAssumption DEF Http!HttpInit
  <1>2. Http!HttpTypeOK  BY <1>1 DEF Http!HttpTypeOK
  <1>3. Http!AttemptsReported /\ Http!NoneSucceeded
    BY <1>1 DEF Http!AttemptsReported, Http!NoneSucceeded
  <1>4. hI <= hRetries  BY <1>1
  <1> QED  BY <1>1, <1>2, <1>3, <1>4 DEF Http!HttpInv

LEMMA HttpNextInv == Http!HttpInv /\ [Http!HttpNext]_httpVars => Http!HttpInv'
  <1> SUFFICES ASSUME Http!HttpInv, [Http!HttpNext]_httpVars  PROVE Http!HttpInv'
    OBVIOUS
  <1>1. CASE UNCHANGED <<hRetries, hAt, hI, hNode, hGerr, hResult, hHooks, hOutcomes, hMarks>>
    BY <1>1 DEF Http!HttpInv, Http!HttpTypeOK, Http!AttemptsReported, Http!NoneSucceeded
  <1>2. CASE Http!Expire \/ UNCHANGED httpVars
    BY <1>1, <1>2 DEF Http!Expire, httpVars
  <1> QED  BY <1>2, HttpBegins, HttpLoops, HttpSelects, HttpRequests, HttpPauses
           DEF Http!HttpNext, Http!HttpStep

---------------------------------------------------------------------------
(* Gateways that pass a request on.                                        *)

LEMMA ProxyMoves == [Next]_vars => [Proxy!ProxyNext]_proxyVars
  BY DEF Next, vars, MdnsRuns, LookupRuns, WatchRuns, PublishRuns, FanRuns,
         SocketRuns, LogRuns, HttpRuns, ProxyRuns, StaticRuns, FacadeRuns

\* Two handlers of the same request at the same gateway.
SameRequest(g, h) == h.header = g.header /\ h.path = g.path

LEMMA ProxyReturned ==
  ASSUME NEW g \in Proxy!Handlers, NEW status \in Int
  PROVE  LET h == Proxy!Returned(g, status)
         IN /\ h \in Proxy!Handlers /\ SameRequest(g, h) /\ h.at = "done"
            /\ h.dialled = g.dialled /\ h.marks = g.marks /\ h.conns = g.conns
  BY DEF Proxy!Returned, Proxy!Handlers, SameRequest

LEMMA ProxyMarked ==
  ASSUME NEW g \in Proxy!Handlers, NEW outcome \in Proxy!Outcomes
  PROVE  LET h == Proxy!Marked(g, outcome)
         IN /\ h \in Proxy!Handlers /\ SameRequest(g, h) /\ h.at = g.at
            /\ h.dialled = g.dialled /\ h.marks = Append(g.marks, outcome) /\ h.conns = g.conns
  <1>1. Append(g.marks, outcome) \in Seq(Proxy!Outcomes)  BY DEF Proxy!Handlers
  <1> QED  BY <1>1 DEF Proxy!Marked, Proxy!Handlers, SameRequest

\* The handler of a node that was dialled reports the outcome and returns.
LEMMA ProxyReports ==
  ASSUME NEW g \in Proxy!Handlers, NEW outcome \in Proxy!Outcomes, NEW status \in Int,
         g.dialled, g.marks = <<>>
  PROVE  LET h == Proxy!Returned(Proxy!Marked(g, outcome), status)
         IN /\ h \in Proxy!Handlers /\ SameRequest(g, h) /\ h.at = "done"
            /\ h.dialled /\ Len(h.marks) = 1 /\ h.conns = g.conns
  <1>1. PICK m \in Proxy!Handlers :
          /\ m = Proxy!Marked(g, outcome) /\ SameRequest(g, m) /\ m.dialled
          /\ m.marks = Append(<<>>, outcome) /\ m.conns = g.conns
    BY ProxyMarked
  <1>2. PICK h \in Proxy!Handlers :
          /\ h = Proxy!Returned(m, status) /\ SameRequest(m, h) /\ h.at = "done"
          /\ h.dialled = m.dialled /\ h.marks = m.marks /\ h.conns = m.conns
    BY ProxyReturned
  <1>3. Len(Append(<<>>, outcome)) = 1  OBVIOUS
  <1> QED  BY <1>1, <1>2, <1>3 DEF SameRequest

\* One handler goes on and passes nothing on.
LEMMA ProxySteps ==
  ASSUME Proxy!ProxyInv, NEW i \in 1..Len(rChain), NEW h \in Proxy!Handlers,
         Proxy!Step(i, h), SameRequest(rChain[i], h), Proxy!HandlerOK(h),
         rChain[i].at \in {"wait", "copy", "closing", "done"}
           => h.at \in {"wait", "copy", "closing", "done"}
  PROVE  Proxy!ProxyInv'
  <1>1. /\ rChain' = [rChain EXCEPT ![i] = h] /\ rSocket' = rSocket
        /\ rChain \in Seq(Proxy!Handlers) /\ rSocket \in BOOLEAN
    BY DEF Proxy!Step, Proxy!ProxyInv
  <1>2. /\ rChain' \in Seq(Proxy!Handlers) /\ Len(rChain') = Len(rChain)
        /\ rChain'[i] = h /\ \A j \in 1..Len(rChain) : j # i => rChain'[j] = rChain[j]
    BY <1>1, Replaced
  <1>3. 1 \in 1..Len(rChain) /\ rChain'[1].path = rChain[1].path
    <2>1. 1 \in 1..Len(rChain)  OBVIOUS
    <2> QED  BY <1>2, <2>1 DEF SameRequest
  <1>4. ASSUME NEW j \in 1..Len(rChain)
        PROVE  /\ Proxy!HandlerOK(rChain'[j]) /\ j - 1 <= Proxy!proxyDepthOf(rChain'[j])
               /\ j < Len(rChain) => rChain'[j].at \in {"wait", "copy", "closing", "done"}
               /\ ~rSocket => rChain'[j].path = rChain'[1].path
    <2>1. /\ Proxy!HandlerOK(rChain[j]) /\ j - 1 <= Proxy!proxyDepthOf(rChain[j])
          /\ j < Len(rChain) => rChain[j].at \in {"wait", "copy", "closing", "done"}
          /\ ~rSocket => rChain[j].path = rChain[1].path
      BY DEF Proxy!ProxyInv
    <2>2. CASE j # i  BY <1>2, <1>3, <2>1, <2>2
    <2>3. CASE j = i
      <3>1. Proxy!proxyDepthOf(h) = Proxy!proxyDepthOf(rChain[j])
        BY <2>3 DEF Proxy!proxyDepthOf, SameRequest
      <3> QED  BY <1>2, <1>3, <2>1, <2>3, <3>1 DEF SameRequest
    <2> QED  BY <2>2, <2>3
  <1> QED  BY <1>1, <1>2, <1>4 DEF Proxy!ProxyInv, Proxy!HandlerOK

LEMMA ProxyHop ==
  ASSUME NEW g \in Gates, NEW d \in Int, NEW path \in Seq(Proxy!Segments)
  PROVE  LET h == Proxy!Hop(g, d, path)
         IN h \in Proxy!Handlers /\ h.header = d /\ h.path = path /\ Proxy!HandlerOK(h)
  <1>0. PICK h : h = Proxy!Hop(g, d, path)  OBVIOUS
  <1>1. /\ h = Proxy!Hop(g, d, path) /\ h \in Proxy!Handlers /\ h.header = d
        /\ h.path = path /\ h.at = "guard" /\ h.dialled = FALSE /\ h.marks = <<>>
        /\ h.conns = {}
    BY <1>0 DEF Proxy!Hop, Proxy!Handlers, Proxy!Early, Proxy!ByHand
  <1>2. Proxy!HandlerOK(h)
    BY <1>1 DEF Proxy!HandlerOK, Proxy!Early, Proxy!ByHand
  <1> QED  BY <1>1, <1>2

\* The last handler passes the request on.
LEMMA ProxyForwards ==
  ASSUME Proxy!ProxyInv, NEW i \in 1..Len(rChain), NEW h \in Proxy!Handlers,
         NEW path \in Seq(Proxy!Segments), Proxy!Forward(i, h, path),
         SameRequest(rChain[i], h), Proxy!HandlerOK(h), h.at \in {"wait", "copy"},
         rChain[i].at \notin {"wait", "copy", "closing", "done"},
         ~rSocket => path = rChain[i].path
  PROVE  Proxy!ProxyInv'
  <1>1. /\ rChain' = [rChain EXCEPT ![i] = h] \o Proxy!Passed(h, path) /\ rSocket' = rSocket
        /\ rChain \in Seq(Proxy!Handlers) /\ rSocket \in BOOLEAN
    BY DEF Proxy!Forward, Proxy!ProxyInv
  <1>2. i = Len(rChain)  BY DEF Proxy!ProxyInv
  <1>3. PICK c \in Seq(Proxy!Handlers) :
          /\ c = [rChain EXCEPT ![i] = h] /\ Len(c) = Len(rChain) /\ c[i] = h
          /\ \A j \in 1..Len(rChain) : j # i => c[j] = rChain[j]
    <2>1. PICK c : c = [rChain EXCEPT ![i] = h]  OBVIOUS
    <2>2. /\ c \in Seq(Proxy!Handlers) /\ Len(c) = Len(rChain) /\ c[i] = h
          /\ \A j \in 1..Len(rChain) : j # i => c[j] = rChain[j]
      BY <1>1, <2>1, Replaced
    <2> QED  BY <2>1, <2>2
  <1>4. 1 \in 1..Len(rChain) /\ c[1].path = rChain[1].path
    <2>1. 1 \in 1..Len(rChain)  OBVIOUS
    <2> QED  BY <1>3, <2>1 DEF SameRequest
  <1>5. ASSUME NEW j \in 1..Len(rChain)
        PROVE  /\ Proxy!HandlerOK(c[j]) /\ j - 1 <= Proxy!proxyDepthOf(c[j])
               /\ c[j].at \in {"wait", "copy", "closing", "done"}
               /\ ~rSocket => c[j].path = rChain[1].path
    <2>1. /\ Proxy!HandlerOK(rChain[j]) /\ j - 1 <= Proxy!proxyDepthOf(rChain[j])
          /\ j < Len(rChain) => rChain[j].at \in {"wait", "copy", "closing", "done"}
          /\ ~rSocket => rChain[j].path = rChain[1].path
      BY DEF Proxy!ProxyInv
    <2>2. CASE j # i  BY <1>2, <1>3, <2>1, <2>2
    <2>3. CASE j = i
      <3>1. Proxy!proxyDepthOf(h) = Proxy!proxyDepthOf(rChain[j])
        BY <2>3 DEF Proxy!proxyDepthOf, SameRequest
      <3> QED  BY <1>3, <2>1, <2>3, <3>1 DEF SameRequest
    <2> QED  BY <2>2, <2>3
  <1>6. CASE h.node \in Gates
    <2>1. h.header \in Int /\ Proxy!proxyDepthOf(h) \in Int
      BY DEF Proxy!Handlers, Proxy!proxyDepthOf
    <2>2. PICK x \in Proxy!Handlers :
            /\ x = Proxy!Hop(h.node, Proxy!proxyDepthOf(h) + 1, path) /\ x.path = path
            /\ x.header = Proxy!proxyDepthOf(h) + 1 /\ Proxy!HandlerOK(x)
      BY <1>6, <2>1, ProxyHop
    <2>3. rChain' = c \o <<x>>  BY <1>1, <1>3, <1>6, <2>2 DEF Proxy!Passed
    <2>4. /\ rChain' \in Seq(Proxy!Handlers) /\ Len(rChain') = i + 1 /\ rChain'[i + 1] = x
          /\ \A j \in 1..Len(rChain) : rChain'[j] = c[j]
      BY <1>2, <1>3, <2>3
    <2>5. i - 1 <= Proxy!proxyDepthOf(h)  BY <1>3, <1>5
    <2>6. (i + 1) - 1 <= Proxy!proxyDepthOf(x)
      BY <2>1, <2>2, <2>5 DEF Proxy!proxyDepthOf
    <2>7. ~rSocket => path = rChain[1].path  BY DEF Proxy!ProxyInv
    <2>8. rChain'[1].path = rChain[1].path  BY <1>4, <2>4
    <2>9. ASSUME NEW j \in 1..Len(rChain')
          PROVE  /\ Proxy!HandlerOK(rChain'[j]) /\ j - 1 <= Proxy!proxyDepthOf(rChain'[j])
                 /\ j < Len(rChain') => rChain'[j].at \in {"wait", "copy", "closing", "done"}
                 /\ ~rSocket => rChain'[j].path = rChain'[1].path
      <3>1. j \in 1..Len(rChain) \/ j = i + 1  BY <1>2, <2>4
      <3>2. CASE j \in 1..Len(rChain)  BY <1>5, <2>4, <2>8, <3>2
      <3>3. CASE j = i + 1  BY <2>2, <2>4, <2>6, <2>7, <2>8, <3>3
      <3> QED  BY <3>1, <3>2, <3>3
    <2> QED  BY <1>1, <2>4, <2>9 DEF Proxy!ProxyInv, Proxy!HandlerOK
  <1>7. CASE h.node \notin Gates
    <2>1. rChain' = c
      <3>1. c \o <<>> = c  OBVIOUS
      <3> QED  BY <1>1, <1>3, <1>7, <3>1 DEF Proxy!Passed
    <2>2. ASSUME NEW j \in 1..Len(rChain')
          PROVE  /\ Proxy!HandlerOK(rChain'[j]) /\ j - 1 <= Proxy!proxyDepthOf(rChain'[j])
                 /\ j < Len(rChain') => rChain'[j].at \in {"wait", "copy", "closing", "done"}
                 /\ ~rSocket => rChain'[j].path = rChain'[1].path
      BY <1>3, <1>4, <1>5, <2>1
    <2>3. rChain' \in Seq(Proxy!Handlers)  BY <2>1
    <2> QED  BY <1>1, <2>2, <2>3 DEF Proxy!ProxyInv, Proxy!HandlerOK
  <1> QED  BY <1>6, <1>7

\* httputil.ReverseProxy sends on the path that came: what the PathRewriter took
\* off goes back in front.
LEMMA ProxyPath ==
  ASSUME NEW h \in Proxy!Handlers
  PROVE  /\ Proxy!OutPath(h) = h.path
         /\ Proxy!Rewritten(h) \in Seq(Proxy!Segments)
  <1>1. h.path \in Seq(Proxy!Segments)  BY DEF Proxy!Handlers
  <1>2. Proxy!OutPath(h) = Proxy!PathPrefix(h) \o Proxy!Rewritten(h)
    BY DEF Proxy!OutPath, Proxy!proxyPathWithPrefix
  <1>3. CASE Proxy!HasPrefix(h.path, Proxy!Lang)
    <2>1. /\ Len(Proxy!Lang) = 1 /\ Len(h.path) >= 1 /\ SubSeq(h.path, 1, 1) = Proxy!Lang
          /\ Proxy!PathPrefix(h) = Proxy!Lang
      BY <1>1, <1>3 DEF Proxy!HasPrefix, Proxy!Lang, Proxy!PathPrefix
    <2>2. Proxy!Rewritten(h) = SubSeq(h.path, 2, Len(h.path))
      <3>1. Len(Proxy!PathPrefix(h)) = 1  BY <2>1, Zenon
      <3>2. PICK n \in Nat : n = Len(Proxy!PathPrefix(h)) /\ n = 1  BY <3>1
      <3>3. n + 1 = 2  BY <3>2
      <3> QED  BY <3>2, <3>3 DEF Proxy!Rewritten
    <2>3. /\ SubSeq(h.path, 1, 1) \o SubSeq(h.path, 2, Len(h.path)) = h.path
          /\ SubSeq(h.path, 2, Len(h.path)) \in Seq(Proxy!Segments)
      BY <1>1, <2>1
    <2> QED  BY <1>2, <2>1, <2>2, <2>3
  <1>4. CASE ~Proxy!HasPrefix(h.path, Proxy!Lang)
    <2>1. Proxy!PathPrefix(h) = <<>> /\ Proxy!Rewritten(h) = SubSeq(h.path, 1, Len(h.path))
      BY <1>4 DEF Proxy!PathPrefix, Proxy!Rewritten
    <2>2. SubSeq(h.path, 1, Len(h.path)) = h.path /\ <<>> \o h.path = h.path
      BY <1>1
    <2> QED  BY <1>1, <1>2, <2>1, <2>2
  <1> QED  BY <1>3, <1>4

\* The parts of HandlerOK that depend on the step the handler is at.
LEMMA ProxyHandler ==
  ASSUME Proxy!ProxyInv, NEW i \in 1..Len(rChain)
  PROVE  LET g == rChain[i]
         IN /\ g \in Proxy!Handlers /\ SameRequest(g, g)
            /\ g.at \in {"guard", "select", "target", "dial"} =>
                 ~g.dialled /\ g.marks = <<>> /\ g.conns = {}
            /\ g.at \in {"wait", "hijack", "write", "copy", "closing"} => g.dialled /\ g.marks = <<>>
            /\ g.at \in {"hijack", "write", "copy", "closing"} => rSocket
            /\ g.at \in {"wait", "closing"} => g.conns = {}
            /\ g.at \notin {"guard", "done"} => Proxy!proxyDepthOf(g) < MaxDepth
  <1>1. rChain[i] \in Proxy!Handlers /\ Proxy!HandlerOK(rChain[i])  BY DEF Proxy!ProxyInv
  <1> QED  BY <1>1 DEF Proxy!HandlerOK, Proxy!Early, Proxy!ByHand, SameRequest

\* A handler that returns.
LEMMA ProxyDone ==
  ASSUME Proxy!ProxyInv, NEW i \in 1..Len(rChain), NEW h \in Proxy!Handlers,
         Proxy!Step(i, h), SameRequest(rChain[i], h), h.at = "done", h.conns = {},
         Len(h.marks) = IF h.dialled THEN 1 ELSE 0,
         h.dialled => Proxy!proxyDepthOf(rChain[i]) < MaxDepth
  PROVE  Proxy!ProxyInv'
  <1>1. Proxy!proxyDepthOf(h) = Proxy!proxyDepthOf(rChain[i])
    BY DEF Proxy!proxyDepthOf, SameRequest
  <1>2. Proxy!HandlerOK(h)
    BY <1>1 DEF Proxy!HandlerOK, Proxy!Early, Proxy!ByHand
  <1> QED  BY <1>2, ProxySteps

\* A handler that goes on to another step before the request is sent.
LEMMA ProxyEarly ==
  ASSUME Proxy!ProxyInv, NEW i \in 1..Len(rChain), NEW h \in Proxy!Handlers,
         Proxy!Step(i, h), SameRequest(rChain[i], h), h.at \in {"select", "target", "dial"},
         rChain[i].at \in {"guard", "select", "target", "dial"}, h.conns = {},
         ~h.dialled, h.marks = <<>>, Proxy!proxyDepthOf(rChain[i]) < MaxDepth
  PROVE  Proxy!ProxyInv'
  <1>1. Proxy!proxyDepthOf(h) = Proxy!proxyDepthOf(rChain[i])
    BY DEF Proxy!proxyDepthOf, SameRequest
  <1>2. Proxy!HandlerOK(h)
    BY <1>1 DEF Proxy!HandlerOK, Proxy!Early, Proxy!ByHand
  <1> QED  BY <1>2, ProxySteps

\* A websocket on its way through serveWebSocket.
LEMMA ProxyByHand ==
  ASSUME Proxy!ProxyInv, NEW i \in 1..Len(rChain), NEW h \in Proxy!Handlers,
         Proxy!Step(i, h), SameRequest(rChain[i], h),
         h.at \in {"hijack", "write", "closing"}, rSocket,
         rChain[i].at \in {"wait", "copy", "closing", "done"} => h.at = "closing",
         h.at = "closing" => h.conns = {},
         h.dialled, h.marks = <<>>, Proxy!proxyDepthOf(rChain[i]) < MaxDepth
  PROVE  Proxy!ProxyInv'
  <1>1. Proxy!proxyDepthOf(h) = Proxy!proxyDepthOf(rChain[i])
    BY DEF Proxy!proxyDepthOf, SameRequest
  <1>2. Proxy!HandlerOK(h)
    BY <1>1 DEF Proxy!HandlerOK, Proxy!Early, Proxy!ByHand
  <1> QED  BY <1>2, ProxySteps

LEMMA ProxyGuards ==
  ASSUME Proxy!ProxyInv, NEW i \in 1..Len(rChain),
         \/ Proxy!DepthGuard(i) \/ Proxy!getService(i) \/ Proxy!SelfGuard(i)
         \/ Proxy!ReadBodyFails(i)
  PROVE  Proxy!ProxyInv'
  <1>0. PICK g \in Proxy!Handlers : g = rChain[i]  BY ProxyHandler
  <1>1. /\ g.at \in {"guard", "select", "target", "dial"} /\ ~g.dialled /\ g.marks = <<>>
        /\ g.conns = {}
        /\ g.at # "guard" => Proxy!proxyDepthOf(g) < MaxDepth
    BY <1>0, ProxyHandler
       DEF Proxy!DepthGuard, Proxy!getService, Proxy!SelfGuard, Proxy!ReadBodyFails
  <1>2. ASSUME NEW status \in Int, Proxy!Step(i, Proxy!Returned(g, status))
        PROVE  Proxy!ProxyInv'
    <2>1. PICK h \in Proxy!Handlers :
            /\ h = Proxy!Returned(g, status) /\ SameRequest(g, h) /\ h.at = "done"
            /\ h.dialled = g.dialled /\ h.marks = g.marks /\ h.conns = g.conns
      BY ProxyReturned
    <2>2. ~h.dialled /\ Len(h.marks) = 0 /\ h.conns = {}  BY <1>1, <2>1
    <2> QED  BY <1>0, <1>2, <2>1, <2>2, ProxyDone
  <1>3. ASSUME NEW h, NEW a \in {"select", "target", "dial"}, NEW n \in Gates \cup Backends,
               h = [g EXCEPT !.at = a] \/ h = [g EXCEPT !.at = a, !.node = n],
               Proxy!Step(i, h), Proxy!proxyDepthOf(g) < MaxDepth
        PROVE  Proxy!ProxyInv'
    <2>1. /\ h \in Proxy!Handlers /\ SameRequest(g, h) /\ h.at = a /\ h.conns = g.conns
          /\ h.dialled = g.dialled /\ h.marks = g.marks
      BY <1>3 DEF Proxy!Handlers, Proxy!Early, Proxy!ByHand, SameRequest
    <2> QED  BY <1>0, <1>1, <1>3, <2>1, ProxyEarly
  <1>4. CASE Proxy!DepthGuard(i)
    <2>1. CASE Proxy!Step(i, Proxy!Returned(g, 508))  BY <1>2, <2>1
    <2>2. CASE /\ ~(Proxy!proxyDepthOf(g) >= MaxDepth)
               /\ Proxy!Step(i, [g EXCEPT !.at = "select"])
      <3>1. Proxy!proxyDepthOf(g) < MaxDepth
        BY <2>2, OutcomeAssumption DEF Proxy!proxyDepthOf, Proxy!Handlers
      <3>2. g.node \in Gates \cup Backends  BY DEF Proxy!Handlers
      <3>3. PICK h : h = [g EXCEPT !.at = "select"] /\ Proxy!Step(i, h)  BY <2>2
      <3> QED  BY <1>3, <3>1, <3>2, <3>3
    <2> QED  BY <1>0, <1>4, <2>1, <2>2 DEF Proxy!DepthGuard
  <1>5. CASE Proxy!getService(i)
    <2>1. CASE Proxy!Step(i, Proxy!Returned(g, 500))  BY <1>2, <2>1
    <2>2. ASSUME NEW n \in Gates \cup Backends,
                 Proxy!Step(i, [g EXCEPT !.at = "target", !.node = n])
          PROVE  Proxy!ProxyInv'
      <3>1. PICK h : h = [g EXCEPT !.at = "target", !.node = n] /\ Proxy!Step(i, h)  BY <2>2
      <3>2. Proxy!proxyDepthOf(g) < MaxDepth  BY <1>0, <1>1, <1>5 DEF Proxy!getService
      <3> QED  BY <1>3, <3>1, <3>2
    <2> QED  BY <1>0, <1>5, <2>1, <2>2 DEF Proxy!getService
  <1>6. CASE Proxy!SelfGuard(i)
    <2>1. CASE Proxy!Step(i, Proxy!Returned(g, 508))  BY <1>2, <2>1
    <2>2. CASE Proxy!Step(i, [g EXCEPT !.at = "dial"])
      <3>1. PICK h : h = [g EXCEPT !.at = "dial"] /\ Proxy!Step(i, h)  BY <2>2
      <3>2. Proxy!proxyDepthOf(g) < MaxDepth  BY <1>0, <1>1, <1>6 DEF Proxy!SelfGuard
      <3>3. g.node \in Gates \cup Backends  BY DEF Proxy!Handlers
      <3> QED  BY <1>3, <3>1, <3>2, <3>3
    <2> QED  BY <1>0, <1>6, <2>1, <2>2 DEF Proxy!SelfGuard
  <1>7. CASE Proxy!ReadBodyFails(i)  BY <1>0, <1>2, <1>7 DEF Proxy!ReadBodyFails
  <1> QED  BY <1>4, <1>5, <1>6, <1>7

\* The ways an attempt to reach the node can end.
LEMMA ProxyEnds ==
  ASSUME Proxy!ProxyInv, NEW i \in 1..Len(rChain), NEW g \in Proxy!Handlers,
         SameRequest(rChain[i], g), g.dialled, g.marks = <<>>, g.conns = {},
         Proxy!proxyDepthOf(rChain[i]) < MaxDepth, NEW outcome \in Proxy!Outcomes, NEW status \in Int,
         Proxy!Step(i, Proxy!Returned(Proxy!Marked(g, outcome), status))
  PROVE  Proxy!ProxyInv'
  <1>1. PICK h \in Proxy!Handlers :
          /\ h = Proxy!Returned(Proxy!Marked(g, outcome), status) /\ SameRequest(g, h)
          /\ h.at = "done" /\ h.dialled /\ Len(h.marks) = 1 /\ h.conns = g.conns
    BY ProxyReports
  <1>2. SameRequest(rChain[i], h) /\ Proxy!Step(i, h)  BY <1>1 DEF SameRequest
  <1> QED  BY <1>1, <1>2, ProxyDone

\* The same with the connections closed on the way out.
LEMMA ProxyEndsClosed ==
  ASSUME Proxy!ProxyInv, NEW i \in 1..Len(rChain), NEW g \in Proxy!Handlers,
         SameRequest(rChain[i], g), g.dialled, g.marks = <<>>,
         Proxy!proxyDepthOf(rChain[i]) < MaxDepth, NEW outcome \in Proxy!Outcomes, NEW status \in Int,
         Proxy!Step(i, [Proxy!Returned(Proxy!Marked(g, outcome), status) EXCEPT !.conns = {}])
  PROVE  Proxy!ProxyInv'
  <1>1. PICK e \in Proxy!Handlers :
          /\ e = Proxy!Returned(Proxy!Marked(g, outcome), status) /\ SameRequest(g, e)
          /\ e.at = "done" /\ e.dialled /\ Len(e.marks) = 1
    BY ProxyReports
  <1>2. PICK h : h = [e EXCEPT !.conns = {}]  OBVIOUS
  <1>3. /\ h \in Proxy!Handlers /\ SameRequest(e, h) /\ h.at = e.at /\ h.conns = {}
        /\ h.dialled = e.dialled /\ h.marks = e.marks
    BY <1>2 DEF Proxy!Handlers, SameRequest
  <1>4. SameRequest(rChain[i], h) /\ Proxy!Step(i, h)  BY <1>1, <1>2, <1>3 DEF SameRequest
  <1> QED  BY <1>1, <1>3, <1>4, ProxyDone

LEMMA ProxyRoundTrip ==
  ASSUME Proxy!ProxyInv, NEW i \in 1..Len(rChain), Proxy!RoundTrip(i)
  PROVE  Proxy!ProxyInv'
  <1>0. PICK g \in Proxy!Handlers : /\ g = rChain[i] /\ g.at = "dial" /\ ~rSocket
                                    /\ ~g.dialled /\ g.marks = <<>> /\ g.conns = {}
                                    /\ Proxy!proxyDepthOf(g) < MaxDepth
    BY ProxyHandler DEF Proxy!RoundTrip
  <1>1. PICK d : d = [g EXCEPT !.dialled = TRUE]  OBVIOUS
  <1>2. /\ d \in Proxy!Handlers /\ SameRequest(g, d) /\ d.dialled /\ d.marks = <<>> /\ d.conns = {}
    BY <1>0, <1>1 DEF Proxy!Handlers, SameRequest
  <1>3. CASE Proxy!Step(i, Proxy!Returned(Proxy!Marked(d, "unreachable"), 502))
    <2>1. SameRequest(rChain[i], d) /\ Proxy!proxyDepthOf(rChain[i]) < MaxDepth  BY <1>0, <1>2
    <2>2. "unreachable" \in Proxy!Outcomes  BY DEF Proxy!Outcomes
    <2> QED  BY <1>2, <1>3, <2>1, <2>2, ProxyEnds
  <1>4. CASE Proxy!Forward(i, [d EXCEPT !.at = "wait"], Proxy!OutPath(d))
    <2>1. PICK h : h = [d EXCEPT !.at = "wait"]  OBVIOUS
    <2>2. /\ h \in Proxy!Handlers /\ SameRequest(g, h) /\ h.at = "wait" /\ h.dialled
          /\ h.marks = <<>> /\ h.conns = {}
      BY <1>2, <2>1 DEF Proxy!Handlers, SameRequest, Proxy!Early, Proxy!ByHand
    <2>3. Proxy!proxyDepthOf(h) < MaxDepth
      BY <1>0, <2>2 DEF Proxy!proxyDepthOf, SameRequest
    <2>4. Proxy!HandlerOK(h)
      BY <2>2, <2>3 DEF Proxy!HandlerOK, Proxy!Early, Proxy!ByHand
    <2>5. PICK path \in Seq(Proxy!Segments) : path = Proxy!OutPath(d) /\ path = g.path
      BY <1>2, ProxyPath DEF SameRequest, Proxy!Handlers
    <2> QED  BY <1>0, <1>4, <2>1, <2>2, <2>4, <2>5, ProxyForwards
  <1> QED  BY <1>0, <1>1, <1>3, <1>4 DEF Proxy!RoundTrip

LEMMA ProxyAnswers ==
  ASSUME Proxy!ProxyInv, NEW i \in 1..Len(rChain),
         Proxy!ModifyResponse(i) \/ Proxy!ErrorHandler(i) \/ Proxy!SecondCopyEnds(i)
  PROVE  Proxy!ProxyInv'
  <1>0. PICK g \in Proxy!Handlers : /\ g = rChain[i] /\ SameRequest(rChain[i], g)
                                    /\ g.dialled /\ g.marks = <<>> /\ g.conns = {}
                                    /\ Proxy!proxyDepthOf(g) < MaxDepth
    BY ProxyHandler DEF Proxy!ModifyResponse, Proxy!ErrorHandler, Proxy!SecondCopyEnds
  <1>1. PICK outcome \in Proxy!Outcomes, status \in Int :
          Proxy!Step(i, Proxy!Returned(Proxy!Marked(g, outcome), status))
    <2>1. CASE Proxy!ModifyResponse(i)
      <3>1. PICK status \in {200, 500, 502, 508} :
              Proxy!Step(i, Proxy!Returned(Proxy!Marked(g, "ok"), status))
        BY <1>0, <2>1 DEF Proxy!ModifyResponse
      <3> QED  BY <3>1 DEF Proxy!Outcomes
    <2>2. CASE Proxy!ErrorHandler(i)
      <3>1. PICK why \in {"timeout", "reset", "client"} :
              Proxy!Step(i, Proxy!Returned(Proxy!Marked(g, why), 502))
        BY <1>0, <2>2 DEF Proxy!ErrorHandler
      <3> QED  BY <3>1 DEF Proxy!Outcomes
    <2>3. CASE Proxy!SecondCopyEnds(i)
      <3>1. Proxy!Step(i, Proxy!Returned(Proxy!Marked(g, "ok"), 0))
        BY <1>0, <2>3 DEF Proxy!SecondCopyEnds
      <3> QED  BY <3>1 DEF Proxy!Outcomes
    <2> QED  BY <2>1, <2>2, <2>3
  <1> QED  BY <1>0, <1>1, ProxyEnds

LEMMA ProxyWebsocket ==
  ASSUME Proxy!ProxyInv, NEW i \in 1..Len(rChain),
         Proxy!HijackFails(i) \/ Proxy!Hijack(i) \/ Proxy!WriteRequest(i) \/ Proxy!FirstCopyEnds(i)
  PROVE  Proxy!ProxyInv'
  <1>0. PICK g \in Proxy!Handlers : /\ g = rChain[i] /\ SameRequest(rChain[i], g) /\ rSocket
                                    /\ g.at \in {"hijack", "write", "copy"}
                                    /\ g.dialled /\ g.marks = <<>>
                                    /\ Proxy!proxyDepthOf(g) < MaxDepth
    BY ProxyHandler DEF Proxy!HijackFails, Proxy!Hijack, Proxy!WriteRequest, Proxy!FirstCopyEnds
  <1>1. CASE Proxy!HijackFails(i)
    <2>1. PICK status \in {0, 500} :
            Proxy!Step(i, [Proxy!Returned(Proxy!Marked(rChain[i], "client"), status) EXCEPT !.conns = {}])
      BY <1>1, Zenon DEF Proxy!HijackFails
    <2>2. "client" \in Proxy!Outcomes /\ status \in Int  BY DEF Proxy!Outcomes
    <2>3. Proxy!Step(i, [Proxy!Returned(Proxy!Marked(g, "client"), status) EXCEPT !.conns = {}])
      BY <1>0, <2>1
    <2> QED  BY <1>0, <2>2, <2>3, ProxyEndsClosed
  <1>2. CASE Proxy!Hijack(i)
    <2>1. PICK h : h = [g EXCEPT !.at = "write", !.conns = {"back", "front"}] /\ Proxy!Step(i, h)
                   /\ g.at = "hijack"
      BY <1>0, <1>2 DEF Proxy!Hijack
    <2>2. /\ h \in Proxy!Handlers /\ SameRequest(g, h) /\ h.at = "write" /\ h.dialled
          /\ h.marks = <<>>
      BY <1>0, <2>1 DEF Proxy!Handlers, SameRequest, Proxy!Early, Proxy!ByHand
    <2> QED  BY <1>0, <2>1, <2>2, ProxyByHand
  <1>3. CASE Proxy!WriteRequest(i)
    <2>1. CASE Proxy!Step(i, [Proxy!Returned(Proxy!Marked(g, "reset"), 0) EXCEPT !.conns = {}])
      <3>1. PICK outcome \in Proxy!Outcomes, status \in Int : outcome = "reset" /\ status = 0
        BY DEF Proxy!Outcomes
      <3>2. Proxy!Step(i, [Proxy!Returned(Proxy!Marked(g, outcome), status) EXCEPT !.conns = {}])
        BY <2>1, <3>1
      <3> QED  BY <1>0, <3>2, ProxyEndsClosed
    <2>2. CASE Proxy!Forward(i, [g EXCEPT !.at = "copy"], Proxy!Rewritten(g))
      <3>1. PICK h : h = [g EXCEPT !.at = "copy"]  OBVIOUS
      <3>2. /\ h \in Proxy!Handlers /\ SameRequest(g, h) /\ h.at = "copy" /\ h.dialled
            /\ h.marks = <<>>
        BY <1>0, <3>1 DEF Proxy!Handlers, SameRequest, Proxy!Early, Proxy!ByHand
      <3>3. Proxy!proxyDepthOf(h) < MaxDepth
        BY <1>0, <3>2 DEF Proxy!proxyDepthOf, SameRequest
      <3>4. Proxy!HandlerOK(h)
        BY <1>0, <3>2, <3>3 DEF Proxy!HandlerOK, Proxy!Early, Proxy!ByHand
      <3>5. PICK path \in Seq(Proxy!Segments) : path = Proxy!Rewritten(g)  BY ProxyPath
      <3>6. g.at = "write"  BY <1>0, <1>3 DEF Proxy!WriteRequest
      <3> QED  BY <1>0, <2>2, <3>1, <3>2, <3>4, <3>5, <3>6, ProxyForwards
    <2> QED  BY <1>0, <1>3, <2>1, <2>2 DEF Proxy!WriteRequest
  <1>4. CASE Proxy!FirstCopyEnds(i)
    <2>1. PICK h : h = [g EXCEPT !.at = "closing", !.conns = {}] /\ Proxy!Step(i, h)
      BY <1>0, <1>4 DEF Proxy!FirstCopyEnds
    <2>2. /\ h \in Proxy!Handlers /\ SameRequest(g, h) /\ h.at = "closing" /\ h.dialled
          /\ h.marks = <<>> /\ h.conns = {}
      BY <1>0, <2>1 DEF Proxy!Handlers, SameRequest, Proxy!Early, Proxy!ByHand
    <2> QED  BY <1>0, <2>1, <2>2, ProxyByHand
  <1> QED  BY <1>1, <1>2, <1>3, <1>4

LEMMA ProxyDials ==
  ASSUME Proxy!ProxyInv, NEW i \in 1..Len(rChain), Proxy!dialBackend(i)
  PROVE  Proxy!ProxyInv'
  <1>0. PICK g \in Proxy!Handlers : /\ g = rChain[i] /\ g.at = "dial" /\ rSocket
                                    /\ ~g.dialled /\ g.marks = <<>> /\ g.conns = {}
                                    /\ Proxy!proxyDepthOf(g) < MaxDepth
    BY ProxyHandler DEF Proxy!dialBackend
  <1>1. PICK d : d = [g EXCEPT !.dialled = TRUE]  OBVIOUS
  <1>2. /\ d \in Proxy!Handlers /\ SameRequest(g, d) /\ d.dialled /\ d.marks = <<>> /\ d.conns = {}
    BY <1>0, <1>1 DEF Proxy!Handlers, SameRequest
  <1>3. CASE Proxy!Step(i, Proxy!Returned(Proxy!Marked(d, "unreachable"), 500))
    <2>1. SameRequest(rChain[i], d) /\ Proxy!proxyDepthOf(rChain[i]) < MaxDepth  BY <1>0, <1>2
    <2>2. "unreachable" \in Proxy!Outcomes  BY DEF Proxy!Outcomes
    <2> QED  BY <1>2, <1>3, <2>1, <2>2, ProxyEnds
  <1>4. CASE Proxy!Step(i, [d EXCEPT !.at = "hijack", !.conns = {"back"}])
    <2>1. PICK h : h = [d EXCEPT !.at = "hijack", !.conns = {"back"}] /\ Proxy!Step(i, h)
      BY <1>4
    <2>2. /\ h \in Proxy!Handlers /\ SameRequest(g, h) /\ h.at = "hijack" /\ h.dialled
          /\ h.marks = <<>>
      BY <1>2, <2>1 DEF Proxy!Handlers, SameRequest, Proxy!Early, Proxy!ByHand
    <2> QED  BY <1>0, <2>1, <2>2, ProxyByHand
  <1> QED  BY <1>0, <1>1, <1>3, <1>4 DEF Proxy!dialBackend

LEMMA ProxyInitInv == rSocket \in BOOLEAN /\ rChain = <<>> => Proxy!ProxyInv
  BY DEF Proxy!ProxyInv

LEMMA ProxyArrives ==
  ASSUME Proxy!ProxyInv, Proxy!Arrive
  PROVE  Proxy!ProxyInv'
  <1>1. PICK g \in Gates, d \in DepthHeaders, path \in {Proxy!Shop, Proxy!Lang \o Proxy!Shop} :
          rChain' = <<Proxy!Hop(g, d, path)>> /\ rSocket' = rSocket
    BY DEF Proxy!Arrive
  <1>2. d \in Int  BY OutcomeAssumption DEF DepthHeaders
  <1>3. path \in Seq(Proxy!Segments)
    <2>1. Proxy!Lang \in Seq(Proxy!Segments) /\ Proxy!Shop \in Seq(Proxy!Segments)
      BY DEF Proxy!Lang, Proxy!Shop, Proxy!Segments
    <2>2. Proxy!Lang \o Proxy!Shop \in Seq(Proxy!Segments)  BY <2>1
    <2> QED  BY <2>1, <2>2
  <1>4. PICK h \in Proxy!Handlers :
          h = Proxy!Hop(g, d, path) /\ h.header = d /\ h.path = path /\ Proxy!HandlerOK(h)
    BY <1>2, <1>3, ProxyHop
  <1>5. /\ rChain' = <<h>> /\ rChain' \in Seq(Proxy!Handlers) /\ Len(rChain') = 1
        /\ rChain'[1] = h
    BY <1>1, <1>4
  <1>6. 0 <= Proxy!proxyDepthOf(h)  BY <1>2, <1>4 DEF Proxy!proxyDepthOf
  <1>7. ASSUME NEW j \in 1..Len(rChain')
        PROVE  /\ Proxy!HandlerOK(rChain'[j]) /\ j - 1 <= Proxy!proxyDepthOf(rChain'[j])
               /\ j < Len(rChain') => rChain'[j].at \in {"wait", "copy", "closing", "done"}
               /\ ~rSocket => rChain'[j].path = rChain'[1].path
    <2>1. j = 1  BY <1>5
    <2> QED  BY <1>4, <1>5, <1>6, <2>1
  <1> QED  BY <1>1, <1>5, <1>7 DEF Proxy!ProxyInv, Proxy!HandlerOK

LEMMA ProxyNextInv == Proxy!ProxyInv /\ [Proxy!ProxyNext]_proxyVars => Proxy!ProxyInv'
  <1> SUFFICES ASSUME Proxy!ProxyInv, [Proxy!ProxyNext]_proxyVars  PROVE Proxy!ProxyInv'
    OBVIOUS
  <1>1. CASE UNCHANGED proxyVars
    BY <1>1 DEF proxyVars, Proxy!ProxyInv, Proxy!HandlerOK
  <1>2. ASSUME NEW i \in DOMAIN rChain, Proxy!HttpReverseProxy(i)  PROVE Proxy!ProxyInv'
    <2>1. i \in 1..Len(rChain)  BY DEF Proxy!ProxyInv
    <2> QED  BY <1>2, <2>1, ProxyGuards, ProxyRoundTrip, ProxyAnswers, ProxyWebsocket, ProxyDials
             DEF Proxy!HttpReverseProxy
  <1> QED  BY <1>1, <1>2, ProxyArrives DEF Proxy!ProxyNext

LEMMA ProxyBounded == Proxy!ProxyInv => Proxy!LoopBounded
  <1> SUFFICES ASSUME Proxy!ProxyInv  PROVE Proxy!LoopBounded
    OBVIOUS
  <1> DEFINE D == {i \in DOMAIN rChain : rChain[i].dialled}
  <1>1. D \subseteq 1..MaxDepth
    <2> SUFFICES ASSUME NEW i \in 1..Len(rChain), rChain[i].dialled  PROVE i \in 1..MaxDepth
      BY DEF Proxy!ProxyInv
    <2>1. /\ i - 1 <= Proxy!proxyDepthOf(rChain[i]) /\ Proxy!proxyDepthOf(rChain[i]) < MaxDepth
          /\ rChain[i] \in Proxy!Handlers
      BY DEF Proxy!ProxyInv, Proxy!HandlerOK
    <2>2. Proxy!proxyDepthOf(rChain[i]) \in Int  BY <2>1 DEF Proxy!proxyDepthOf, Proxy!Handlers
    <2> QED  BY <2>1, <2>2, OutcomeAssumption
  <1>2. IsFiniteSet(1..MaxDepth) /\ Cardinality(1..MaxDepth) = MaxDepth
    BY FS_Interval, OutcomeAssumption
  <1>3. Cardinality(D) <= MaxDepth  BY <1>1, <1>2, FS_Subset
  <1>4. Proxy!Cardinality(D) = Cardinality(D)
    BY DEF Proxy!Cardinality, Cardinality, Proxy!IsFiniteSet, IsFiniteSet
  <1> QED  BY <1>3, <1>4 DEF Proxy!LoopBounded

LEMMA ProxyKeeps ==
  Proxy!ProxyInv => Proxy!DialsReported /\ Proxy!NoConnLeft /\ Proxy!PathKept
  <1> SUFFICES ASSUME Proxy!ProxyInv
               PROVE  Proxy!DialsReported /\ Proxy!NoConnLeft /\ Proxy!PathKept
    OBVIOUS
  <1>1. DOMAIN rChain = 1..Len(rChain)  BY DEF Proxy!ProxyInv
  <1> QED  BY <1>1 DEF Proxy!ProxyInv, Proxy!HandlerOK, Proxy!DialsReported,
                       Proxy!NoConnLeft, Proxy!PathKept

\* client/http_client.go, router/reverse_proxy.go: the selector hears of every
\* request of the HTTP client once, at most Retries of them, and the call succeeds
\* just when the last did; it hears once of every node a gateway dials; however
\* wrong discovery is, a request makes at most MaxDepth connections, leaves none
\* behind and keeps its path.  For any gateways, headers, retries and policies,
\* and for chains of any length.
THEOREM OutcomesAreReported == Spec => []OutcomesReported
  <1>1. Init => Http!HttpInv /\ Proxy!ProxyInv
    <2> SUFFICES ASSUME Init  PROVE Http!HttpInv /\ Proxy!ProxyInv
      OBVIOUS
    <2>1. Http!HttpInit  BY DEF Init, Http!HttpIdle
    <2>2. rSocket \in BOOLEAN /\ rChain = <<>>  BY DEF Init, Proxy!ProxyInit
    <2> QED  BY <2>1, <2>2, HttpInitInv, ProxyInitInv
  <1>2. Http!HttpInv /\ Proxy!ProxyInv /\ [Next]_vars => Http!HttpInv' /\ Proxy!ProxyInv'
    BY HttpMoves, ProxyMoves, HttpNextInv, ProxyNextInv
  <1>3. Http!HttpInv /\ Proxy!ProxyInv => OutcomesReported
    BY ProxyBounded, ProxyKeeps DEF OutcomesReported, Http!HttpInv
  <1> QED  BY <1>1, <1>2, <1>3, PTL DEF Spec

---------------------------------------------------------------------------
(* The cache of static files.                                              *)

LEMMA StaticMoves == [Next]_vars => [Static!StaticNext]_staticVars
  BY DEF Next, vars, MdnsRuns, LookupRuns, WatchRuns, PublishRuns, FanRuns,
         SocketRuns, LogRuns, HttpRuns, ProxyRuns, StaticRuns, FacadeRuns

LEMMA StaticIdleOpen ==
  Static!Idle \in [at : {"idle", "read", "store"}, file : Files, data : Nat] /\ Static!Idle.at = "idle"
  <1>1. (CHOOSE f \in Files : TRUE) \in Files  BY StaticAssumption
  <1> QED  BY <1>1 DEF Static!Idle, Static!NoFile

\* The steps of Open that do not touch the cache.
LEMMA StaticOpens ==
  ASSUME Static!StaticInv, NEW o \in Openers, Static!OpenMisses(o) \/ Static!OpenReads(o)
  PROVE  Static!StaticInv'
  <1>0. /\ Static!StaticTypeOK /\ xWatch # "new"
        /\ UNCHANGED <<xDisk, xCache, xWatch, xEvents, xWrites, xMoved, xLate>>
    BY DEF Static!StaticInv, Static!OpenMisses, Static!OpenReads
  <1>1. xOpen' \in [Openers -> [at : {"idle", "read", "store"}, file : Files, data : Nat]]
    <2>1. CASE Static!OpenMisses(o)
      <3>1. PICK f \in Files :
              xOpen' = [xOpen EXCEPT ![o] = [at |-> "read", file |-> f, data |-> Static!NoFile]]
        BY <2>1 DEF Static!OpenMisses
      <3>2. [at |-> "read", file |-> f, data |-> Static!NoFile]
              \in [at : {"idle", "read", "store"}, file : Files, data : Nat]
        BY DEF Static!NoFile
      <3> QED  BY <1>0, <3>1, <3>2 DEF Static!StaticTypeOK
    <2>2. CASE Static!OpenReads(o)
      <3>1. PICK d : d = Static!Current(xOpen[o].file)  OBVIOUS
      <3>2. d \in Nat
        BY <1>0, <3>1 DEF Static!Current, Static!StaticTypeOK, Static!Baked, Static!NoFile
      <3>3. PICK r : /\ r = IF d = Static!NoFile THEN Static!Idle
                            ELSE [xOpen[o] EXCEPT !.at = "store", !.data = d]
                     /\ xOpen' = [xOpen EXCEPT ![o] = r]
        BY <2>2, <3>1 DEF Static!OpenReads
      <3>4. r \in [at : {"idle", "read", "store"}, file : Files, data : Nat]
        BY <1>0, <3>2, <3>3, StaticIdleOpen DEF Static!StaticTypeOK
      <3> QED  BY <1>0, <3>3, <3>4 DEF Static!StaticTypeOK
    <2> QED  BY <2>1, <2>2
  <1>2. Static!StaticTypeOK'  BY <1>0, <1>1 DEF Static!StaticTypeOK
  <1>3. Static!FilesFresh'
    BY <1>0 DEF Static!StaticInv, Static!FilesFresh, Static!Pending, Static!Current
  <1> QED  BY <1>0, <1>2, <1>3 DEF Static!StaticInv

LEMMA StaticCaches ==
  ASSUME Static!StaticInv, NEW o \in Openers, Static!setCache(o)
  PROVE  Static!StaticInv'
  <1>0. /\ Static!StaticTypeOK /\ xWatch # "new" /\ xOpen' = [xOpen EXCEPT ![o] = Static!Idle]
        /\ UNCHANGED <<xDisk, xWatch, xEvents, xWrites, xMoved>>
    BY DEF Static!StaticInv, Static!setCache
  <1>1. PICK f \in Files, d \in Nat :
          /\ xCache' = [xCache EXCEPT ![f] = d]
          /\ xLate' = IF d # Static!Current(f) /\ ~Static!Pending(f)
                      THEN xLate \cup {f} ELSE xLate
    BY <1>0 DEF Static!setCache, Static!StaticTypeOK
  <1>2. Static!StaticTypeOK'  BY <1>0, <1>1, StaticIdleOpen DEF Static!StaticTypeOK
  <1>3. ASSUME NEW g \in Files, xWatch' = "on", xCache'[g] # Static!NoFile, ~Static!Pending(g)',
               g \notin xMoved' \cup xLate'
        PROVE  xCache'[g] = Static!Current(g)'
    <2>1. ~Static!Pending(g) /\ Static!Current(g)' = Static!Current(g)
      BY <1>0, <1>3 DEF Static!Pending, Static!Current
    <2>2. CASE g = f
      <3>1. xCache'[g] = d  BY <1>0, <1>1, <2>2 DEF Static!StaticTypeOK
      <3>2. d = Static!Current(f)  BY <1>1, <1>3, <2>1, <2>2
      <3> QED  BY <2>1, <2>2, <3>1, <3>2
    <2>3. CASE g # f
      <3>1. xCache'[g] = xCache[g] /\ g \notin xMoved \cup xLate
        BY <1>0, <1>1, <1>3, <2>3 DEF Static!StaticTypeOK
      <3> QED  BY <1>0, <1>3, <2>1, <3>1 DEF Static!StaticInv, Static!FilesFresh
    <2> QED  BY <2>2, <2>3
  <1> QED  BY <1>0, <1>2, <1>3 DEF Static!StaticInv, Static!FilesFresh

\* An entry goes, and with it what is noted of it; an event of another file, or
\* of a rename, may be taken off.
LEMMA StaticDrops ==
  ASSUME Static!StaticInv, NEW f \in Files, Static!Dropped(f), Static!StaticTypeOK',
         UNCHANGED <<xDisk, xWatch, xOpen>>,
         \A g \in Files : g # f /\ Static!Pending(g) => Static!Pending(g)'
  PROVE  Static!StaticInv'
  <1>1. /\ xCache' = [xCache EXCEPT ![f] = Static!NoFile]
        /\ xMoved' = xMoved \ {f} /\ xLate' = xLate \ {f} /\ xCache \in [Files -> Nat]
    BY DEF Static!Dropped, Static!StaticInv, Static!StaticTypeOK
  <1>2. \A g \in Files : xCache'[g] = IF g = f THEN Static!NoFile ELSE xCache[g]  BY <1>1
  <1>3. ASSUME NEW g \in Files, xWatch' = "on", xCache'[g] # Static!NoFile, ~Static!Pending(g)',
               g \notin xMoved' \cup xLate'
        PROVE  xCache'[g] = Static!Current(g)'
    <2>1. g # f /\ xCache'[g] = xCache[g] /\ ~Static!Pending(g) /\ g \notin xMoved \cup xLate
      BY <1>1, <1>2, <1>3
    <2> QED  BY <1>3, <2>1 DEF Static!StaticInv, Static!FilesFresh, Static!Current
  <1> QED  BY <1>2, <1>3 DEF Static!StaticInv, Static!FilesFresh

LEMMA StaticExpires ==
  ASSUME Static!StaticInv, NEW f \in Files, Static!Expire(f)
  PROVE  Static!StaticInv'
  <1>1. /\ Static!Dropped(f) /\ UNCHANGED <<xDisk, xWatch, xEvents, xOpen, xWrites>>
        /\ Static!StaticTypeOK
    BY DEF Static!Expire, Static!StaticInv
  <1>2. Static!StaticTypeOK'
    BY <1>1 DEF Static!StaticTypeOK, Static!Dropped, Static!NoFile
  <1> QED  BY <1>1, <1>2, StaticDrops DEF Static!Pending

LEMMA StaticChanges ==
  ASSUME Static!StaticInv, NEW f \in Files, NEW c \in Nat,
         NEW op \in {"create", "write", "remove", "rename"}, Static!Changed(f, c, op)
  PROVE  Static!StaticInv'
  <1>0. /\ Static!StaticTypeOK /\ UNCHANGED <<xCache, xWatch, xOpen, xLate>>
        /\ xWrites' = xWrites + 1 /\ xDisk' = [xDisk EXCEPT ![f] = c]
        /\ xMoved' = IF op = "rename" /\ xCache[f] # Static!NoFile THEN xMoved \cup {f} ELSE xMoved
    BY DEF Static!StaticInv, Static!Changed
  <1>1. PICK e \in [op : {"create", "write", "remove", "rename"}, file : Files] :
          /\ e.op = op /\ e.file = f
          /\ xEvents' = IF xWatch = "on" THEN Append(xEvents, e) ELSE xEvents
    BY DEF Static!Changed
  <1>2. /\ xEvents \in Seq([op : {"create", "write", "remove", "rename"}, file : Files])
        /\ Len(xEvents) \in Nat /\ DOMAIN xEvents = 1..Len(xEvents)
    BY <1>0 DEF Static!StaticTypeOK
  <1>3. Static!StaticTypeOK'
    <2>1. xEvents' \in Seq([op : {"create", "write", "remove", "rename"}, file : Files])
      <3>1. Append(xEvents, e) \in Seq([op : {"create", "write", "remove", "rename"}, file : Files])
        BY <1>2
      <3> QED  BY <1>1, <1>2, <3>1
    <2>2. xDisk' \in [Files -> Nat] /\ xWrites' \in Nat  BY <1>0 DEF Static!StaticTypeOK
    <2> QED  BY <1>0, <2>1, <2>2 DEF Static!StaticTypeOK
  <1>4. ASSUME xWatch = "on"
        PROVE  /\ \A g \in Files : Static!Pending(g) => Static!Pending(g)'
               /\ op # "rename" => Static!Pending(f)'
    <2>1. /\ DOMAIN xEvents' = 1..(Len(xEvents) + 1) /\ xEvents'[Len(xEvents) + 1] = e
          /\ \A k \in 1..Len(xEvents) : xEvents'[k] = xEvents[k]
      BY <1>1, <1>2, <1>4
    <2>2. /\ Len(xEvents) + 1 \in 1..(Len(xEvents) + 1)
          /\ \A k \in 1..Len(xEvents) : k \in 1..(Len(xEvents) + 1)
      BY <1>2
    <2> QED  BY <1>1, <1>2, <2>1, <2>2 DEF Static!Pending
  <1>5. ASSUME NEW g \in Files, xWatch' = "on", xCache'[g] # Static!NoFile, ~Static!Pending(g)',
               g \notin xMoved' \cup xLate'
        PROVE  xCache'[g] = Static!Current(g)'
    <2>1. ~Static!Pending(g) /\ (g = f => op = "rename")  BY <1>0, <1>4, <1>5
    <2>2. g # f  BY <1>0, <1>5, <2>1
    <2>3. Static!Current(g)' = Static!Current(g)
      BY <1>0, <2>2 DEF Static!Current, Static!StaticTypeOK
    <2> QED  BY <1>0, <1>5, <2>1, <2>3 DEF Static!StaticInv, Static!FilesFresh
  <1> QED  BY <1>0, <1>3, <1>5 DEF Static!StaticInv, Static!FilesFresh

LEMMA StaticInvalidates ==
  ASSUME Static!StaticInv, Static!Invalidate
  PROVE  Static!StaticInv'
  <1>0. /\ Static!StaticTypeOK /\ xWatch = "on" /\ xEvents # <<>> /\ xEvents' = Tail(xEvents)
        /\ UNCHANGED <<xDisk, xWatch, xOpen, xWrites>>
    BY DEF Static!StaticInv, Static!Invalidate
  <1>1. PICK e \in [op : {"create", "write", "remove", "rename"}, file : Files] :
          e = Head(xEvents) /\ e = xEvents[1]
    <2>1. xEvents \in Seq([op : {"create", "write", "remove", "rename"}, file : Files])
      BY <1>0 DEF Static!StaticTypeOK
    <2>2. /\ Head(xEvents) \in [op : {"create", "write", "remove", "rename"}, file : Files]
          /\ Head(xEvents) = xEvents[1]
      BY <1>0, <2>1, HeadFirst
    <2> QED  BY <2>2
  <1>2. /\ Len(xEvents) \in Nat /\ DOMAIN xEvents = 1..Len(xEvents)
        /\ DOMAIN xEvents' = 1..(Len(xEvents) - 1)
        /\ \A k \in 1..(Len(xEvents) - 1) : xEvents'[k] = xEvents[k + 1]
        /\ xEvents' \in Seq([op : {"create", "write", "remove", "rename"}, file : Files])
    BY <1>0 DEF Static!StaticTypeOK
  <1>3. ASSUME NEW g \in Files, Static!Pending(g), g # e.file \/ e.op = "rename"
        PROVE  Static!Pending(g)'
    <2>1. PICK k \in 1..Len(xEvents) : xEvents[k].file = g /\ xEvents[k].op # "rename"
      BY <1>2, <1>3 DEF Static!Pending
    <2>2. k # 1  BY <1>1, <1>3, <2>1
    <2>3. k - 1 \in DOMAIN xEvents' /\ xEvents'[k - 1] = xEvents[k]  BY <1>2, <2>1, <2>2
    <2> QED  BY <2>1, <2>3 DEF Static!Pending
  <1>4. CASE Static!invalidates(e.op)
    <2>1. Static!Dropped(e.file)  BY <1>1, <1>4 DEF Static!Invalidate
    <2>2. Static!StaticTypeOK'
      BY <1>0, <1>2, <2>1 DEF Static!StaticTypeOK, Static!Dropped, Static!NoFile
    <2> QED  BY <1>0, <1>3, <2>1, <2>2, StaticDrops
  <1>5. CASE ~Static!invalidates(e.op)
    <2>1. UNCHANGED <<xCache, xMoved, xLate>>  BY <1>1, <1>5 DEF Static!Invalidate
    <2>2. Static!StaticTypeOK'  BY <1>0, <1>2, <2>1 DEF Static!StaticTypeOK
    <2>3. e.op = "rename"  BY <1>5 DEF Static!invalidates
    <2>4. Static!FilesFresh'
      BY <1>0, <1>3, <2>1, <2>3 DEF Static!StaticInv, Static!FilesFresh, Static!Current
    <2> QED  BY <1>0, <2>2, <2>4 DEF Static!StaticInv
  <1> QED  BY <1>4, <1>5

LEMMA StaticInitInv == Static!StaticInit => Static!StaticInv
  <1> SUFFICES ASSUME Static!StaticInit  PROVE Static!StaticInv
    OBVIOUS
  <1>1. /\ xDisk \in [Files -> Nat] /\ xCache = [f \in Files |-> Static!NoFile] /\ xEvents = <<>>
        /\ xOpen = [o \in Openers |-> Static!Idle] /\ xWrites = 1 /\ Static!NoFile \in Nat
    BY DEF Static!StaticInit, Static!NoFile
  <1>2. Static!StaticTypeOK  BY <1>1, StaticIdleOpen DEF Static!StaticTypeOK
  <1>3. /\ \A f \in Files : xCache[f] = Static!NoFile
        /\ \A o \in Openers : xOpen[o].at = "idle"
    BY <1>1, StaticIdleOpen
  <1> QED  BY <1>2, <1>3 DEF Static!StaticInv, Static!FilesFresh

LEMMA StaticNextInv == Static!StaticInv /\ [Static!StaticNext]_staticVars => Static!StaticInv'
  <1> SUFFICES ASSUME Static!StaticInv, [Static!StaticNext]_staticVars  PROVE Static!StaticInv'
    OBVIOUS
  <1>0. Static!StaticTypeOK  BY DEF Static!StaticInv
  <1>1. CASE UNCHANGED staticVars
    <2>1. UNCHANGED <<xDisk, xCache, xWatch, xEvents, xOpen, xWrites, xMoved, xLate>>
      BY <1>1 DEF staticVars
    <2> QED  BY <2>1 DEF Static!StaticInv, Static!StaticTypeOK, Static!FilesFresh, Static!Pending,
                         Static!Current
  <1>2. CASE Static!SetStatic \/ Static!Stop
    <2>1. /\ UNCHANGED <<xDisk, xCache, xOpen, xWrites, xMoved, xLate>>
          /\ xWatch' = "on" => \A f \in Files : xCache[f] = Static!NoFile
          /\ xEvents' = xEvents \/ xEvents' = <<>>
      BY <1>2 DEF Static!SetStatic, Static!Stop, Static!StaticInv
    <2>2. Static!StaticTypeOK'
      <3>1. xEvents' \in Seq([op : {"create", "write", "remove", "rename"}, file : Files])
        BY <1>0, <2>1, EmptyIsSeq DEF Static!StaticTypeOK
      <3> QED  BY <1>0, <2>1, <3>1 DEF Static!StaticTypeOK
    <2>3. xWatch' # "new"  BY <1>2 DEF Static!SetStatic, Static!Stop
    <2> QED  BY <2>1, <2>2, <2>3 DEF Static!StaticInv, Static!FilesFresh
  <1>3. ASSUME NEW f \in Files, Static!WriteFile(f) \/ Static!RemoveFile(f) \/ Static!RenameFile(f)
        PROVE  Static!StaticInv'
    <2>1. PICK c \in Nat, op \in {"create", "write", "remove", "rename"} : Static!Changed(f, c, op)
      <3>1. xWrites + 1 \in Nat /\ Static!NoFile \in Nat
        BY <1>0 DEF Static!StaticTypeOK, Static!NoFile
      <3> QED  BY <1>3, <3>1 DEF Static!WriteFile, Static!RemoveFile, Static!RenameFile
    <2> QED  BY <2>1, StaticChanges
  <1> QED  BY <1>1, <1>2, <1>3, StaticOpens, StaticCaches, StaticExpires, StaticInvalidates
           DEF Static!StaticNext

---------------------------------------------------------------------------
(* Lookups of the mdns registry.                                           *)

LEMMA LookupMoves == [Next]_vars => [Lookup!LookupNext]_lookupVars
  BY DEF Next, vars, MdnsRuns, LookupRuns, WatchRuns, PublishRuns, FanRuns,
         SocketRuns, LogRuns, HttpRuns, ProxyRuns, StaticRuns, FacadeRuns

InpSet == [addr : SUBSET TwoNodes, port : BOOLEAN, txt : BOOLEAN, ttl : BOOLEAN, sent : BOOLEAN]
Datagrams == [kind : {"announce", "goodbye", "answer"}, node : TwoNodes, ttl : BOOLEAN]
Queries == [pc : {"none", "run"}, inp : [TwoNodes -> InpSet], host : TwoNodes \cup {"none"},
            found : SUBSET [node : TwoNodes, addr : SUBSET TwoNodes],
            during : SUBSET TwoNodes, answered : SUBSET TwoNodes, goodbye : SUBSET TwoNodes]

LEMMA LookupType ==
  Lookup!LookupTypeOK <=> /\ lServer \in [TwoNodes -> {"down", "up", "closing"}]
                          /\ lNet \subseteq Datagrams /\ lQuery \in Queries
  BY DEF Lookup!LookupTypeOK, Datagrams, Queries, InpSet

LEMMA LookupDatagram ==
  ASSUME NEW kind \in {"announce", "goodbye", "answer"}, NEW n \in TwoNodes, NEW t \in BOOLEAN
  PROVE  LET m == Lookup!Datagram(kind, n, t)
         IN m \in Datagrams /\ m.kind = kind /\ m.node = n /\ m.ttl = t
  BY DEF Lookup!Datagram, Datagrams

LEMMA LookupNoInp ==
  /\ Lookup!NoInp \in InpSet /\ Lookup!NoInp.addr = {} /\ ~Lookup!NoInp.port
  /\ ~Lookup!NoInp.txt /\ ~Lookup!NoInp.sent
  BY DEF Lookup!NoInp, InpSet

LEMMA LookupNoQuery ==
  /\ Lookup!NoQuery \in Queries /\ Lookup!NoQuery.pc = "none"
  /\ \A n \in TwoNodes : Lookup!NoQuery.inp[n] = Lookup!NoInp
  /\ Lookup!NoQuery.found = {} /\ Lookup!NoQuery.answered = {} /\ Lookup!NoQuery.during = {}
  BY LookupNoInp DEF Lookup!NoQuery, Queries

LEMMA LookupPut ==
  ASSUME NEW e \in InpSet, NEW n \in TwoNodes, NEW t \in BOOLEAN, ~Lookup!complete(e),
         NEW new, new \in {[e EXCEPT !.port = TRUE], [e EXCEPT !.addr = {n}], [e EXCEPT !.txt = TRUE]}
  PROVE  LET r == Lookup!Put(e, new, t)
         IN /\ r \in InpSet /\ r.ttl = t /\ r.sent = e.sent
            /\ r.port = new.port /\ r.addr = new.addr /\ r.txt = new.txt
  <1>1. new \in InpSet /\ new.sent = e.sent
    <2>1. {n} \subseteq TwoNodes  OBVIOUS
    <2>2. CASE new = [e EXCEPT !.port = TRUE]  BY <2>2 DEF InpSet
    <2>3. CASE new = [e EXCEPT !.addr = {n}]  BY <2>1, <2>3 DEF InpSet
    <2>4. CASE new = [e EXCEPT !.txt = TRUE]  BY <2>4 DEF InpSet
    <2> QED  BY <2>2, <2>3, <2>4
  <1>2. PICK r : r = [new EXCEPT !.ttl = t]  OBVIOUS
  <1>3. /\ r \in InpSet /\ r.ttl = t /\ r.sent = new.sent
        /\ r.port = new.port /\ r.addr = new.addr /\ r.txt = new.txt
    BY <1>1, <1>2 DEF InpSet
  <1>4. Lookup!Put(e, new, t) = r  BY <1>2 DEF Lookup!Put
  <1> QED  BY <1>1, <1>3, <1>4

\* One datagram fills an empty entry of its node, and changes no other entry.
LEMMA LookupPuts ==
  ASSUME NEW q \in Queries, NEW m \in Datagrams,
         q.inp[m.node] = Lookup!NoInp \/ Lookup!complete(q.inp[m.node])
  PROVE  \E e \in InpSet :
           /\ Lookup!messageToEntry(q, m)
                = [q EXCEPT !.host = m.node, !.inp = [q.inp EXCEPT ![m.node] = e]]
           /\ IF q.inp[m.node] = Lookup!NoInp
              THEN e.addr = {m.node} /\ e.port /\ e.txt /\ e.ttl = m.ttl /\ ~e.sent
              ELSE e = q.inp[m.node]
  <1>0. PICK n \in TwoNodes, t \in BOOLEAN, f \in [TwoNodes -> InpSet] :
          n = m.node /\ t = m.ttl /\ f = q.inp
    BY DEF Datagrams, Queries
  <1>1. PICK s : s = [f EXCEPT ![n] = Lookup!Put(f[n], [f[n] EXCEPT !.port = TRUE], t)]
    OBVIOUS
  <1>2. PICK a : a = [s EXCEPT ![n] = Lookup!Put(s[n], [s[n] EXCEPT !.addr = {n}], t)]
    OBVIOUS
  <1>3. PICK x : x = [a EXCEPT ![n] = Lookup!Put(a[n], [a[n] EXCEPT !.txt = TRUE], t)]
    OBVIOUS
  <1>4. Lookup!messageToEntry(q, m) = [q EXCEPT !.host = n, !.inp = x]
    BY <1>0, <1>1, <1>2, <1>3 DEF Lookup!messageToEntry, Lookup!PutRecords
  <1>5. CASE f[n] = Lookup!NoInp
    <2>0. f[n] \in InpSet  OBVIOUS
    <2>1. ~Lookup!complete(f[n])  BY <1>5, LookupNoInp DEF Lookup!complete
    <2>2. PICK u : u = [f[n] EXCEPT !.port = TRUE]  OBVIOUS
    <2>3. u.port /\ u.addr = {} /\ ~u.txt  BY <1>5, <2>2, LookupNoInp DEF InpSet
    <2>4. PICK e1 \in InpSet : /\ e1 = Lookup!Put(f[n], u, t) /\ e1.port /\ e1.addr = {}
                               /\ ~e1.txt /\ ~e1.sent
      <3>1. PICK r : r = Lookup!Put(f[n], u, t)  OBVIOUS
      <3>2. /\ r \in InpSet /\ r.sent = f[n].sent /\ r.port = u.port /\ r.addr = u.addr
            /\ r.txt = u.txt
        <4>1. u \in {[f[n] EXCEPT !.port = TRUE], [f[n] EXCEPT !.addr = {n}], [f[n] EXCEPT !.txt = TRUE]}
          BY <2>2, Zenon
        <4>2. PICK g \in InpSet : g = f[n]  BY <2>0
        <4> QED  BY <2>1, <3>1, <4>1, <4>2, LookupPut
      <3> QED  BY <1>5, <2>3, <3>1, <3>2, LookupNoInp, Zenon
    <2>5. s = [f EXCEPT ![n] = e1] /\ s[n] = e1  BY <1>1, <2>2, <2>4
    <2>6. ~Lookup!complete(e1)  BY <2>4 DEF Lookup!complete
    <2>7. PICK v : v = [e1 EXCEPT !.addr = {n}]  OBVIOUS
    <2>8. v.port /\ v.addr = {n} /\ ~v.txt  BY <2>4, <2>7 DEF InpSet
    <2>9. PICK e2 \in InpSet : /\ e2 = Lookup!Put(e1, v, t) /\ e2.port /\ e2.addr = {n}
                               /\ ~e2.txt /\ ~e2.sent
      <3>1. PICK r : r = Lookup!Put(e1, v, t)  OBVIOUS
      <3>2. /\ r \in InpSet /\ r.sent = e1.sent /\ r.port = v.port /\ r.addr = v.addr
            /\ r.txt = v.txt
        <4>1. v \in {[e1 EXCEPT !.port = TRUE], [e1 EXCEPT !.addr = {n}], [e1 EXCEPT !.txt = TRUE]}
          BY <2>7, Zenon
        <4> QED  BY <2>6, <3>1, <4>1, LookupPut
      <3> QED  BY <2>4, <2>8, <3>1, <3>2, Zenon
    <2>10. a = [s EXCEPT ![n] = e2] /\ a[n] = e2  BY <1>2, <2>5, <2>7, <2>9
    <2>11. ~Lookup!complete(e2)  BY <2>9 DEF Lookup!complete
    <2>12. PICK w : w = [e2 EXCEPT !.txt = TRUE]  OBVIOUS
    <2>13. w.port /\ w.addr = {n} /\ w.txt  BY <2>9, <2>12 DEF InpSet
    <2>14. PICK e \in InpSet : /\ e = Lookup!Put(e2, w, t) /\ e.port /\ e.addr = {n}
                               /\ e.txt /\ e.ttl = t /\ ~e.sent
      <3>1. PICK r : r = Lookup!Put(e2, w, t)  OBVIOUS
      <3>2. /\ r \in InpSet /\ r.sent = e2.sent /\ r.port = w.port /\ r.addr = w.addr
            /\ r.txt = w.txt /\ r.ttl = t
        <4>1. w \in {[e2 EXCEPT !.port = TRUE], [e2 EXCEPT !.addr = {n}], [e2 EXCEPT !.txt = TRUE]}
          BY <2>12, Zenon
        <4> QED  BY <2>11, <3>1, <4>1, LookupPut
      <3> QED  BY <2>9, <2>13, <3>1, <3>2, Zenon
    <2>15. x = [f EXCEPT ![n] = e]  BY <1>3, <2>5, <2>10, <2>12, <2>14
    <2> QED  BY <1>0, <1>4, <1>5, <2>14, <2>15
  <1>6. CASE f[n] # Lookup!NoInp
    <2>1. Lookup!complete(f[n])  BY <1>0, <1>6
    <2>2. [f EXCEPT ![n] = f[n]] = f /\ f[n] \in InpSet  OBVIOUS
    <2>3. s = f  BY <1>1, <2>1, <2>2 DEF Lookup!Put
    <2>4. a = f  BY <1>2, <2>1, <2>2, <2>3 DEF Lookup!Put
    <2>5. x = f  BY <1>3, <2>1, <2>2, <2>4 DEF Lookup!Put
    <2> QED  BY <1>0, <1>4, <1>6, <2>2, <2>5
  <1> QED  BY <1>5, <1>6

\* What LookupInv says of the entries and of what was found, for steps that leave
\* both alone.
LEMMA LookupEntriesStay ==
  ASSUME Lookup!LookupInv, lQuery'.inp = lQuery.inp, lQuery'.found = lQuery.found,
         lQuery'.goodbye = lQuery.goodbye, lQuery.during \subseteq lQuery'.during
  PROVE  (\A n \in TwoNodes : Lookup!EntryOK(lQuery, n)') /\ Lookup!LookupSound'
  BY DEF Lookup!LookupInv, Lookup!EntryOK, Lookup!Found, Lookup!LookupSound

LEMMA LookupServers ==
  ASSUME Lookup!LookupInv, NEW n \in TwoNodes, Lookup!NewServer(n) \/ Lookup!Closed(n)
  PROVE  Lookup!LookupInv'
  <1>0. /\ Lookup!LookupTypeOK /\ lQuery \in Queries /\ lNet \subseteq Datagrams
        /\ lServer \in [TwoNodes -> {"down", "up", "closing"}]
        /\ UNCHANGED lNet
    BY LookupType DEF Lookup!LookupInv, Lookup!NewServer, Lookup!Closed
  <1>1. \/ /\ lServer' = [lServer EXCEPT ![n] = "up"] /\ lQuery.pc = "run"
           /\ lQuery' = [lQuery EXCEPT !.during = @ \cup {n}]
        \/ lServer' = [lServer EXCEPT ![n] = "up"] /\ lQuery.pc # "run" /\ lQuery' = lQuery
        \/ lServer' = [lServer EXCEPT ![n] = "down"] /\ lQuery' = lQuery
    BY DEF Lookup!NewServer, Lookup!Closed
  <1>2. /\ lServer' \in [TwoNodes -> {"down", "up", "closing"}] /\ lQuery' \in Queries
        /\ lQuery'.inp = lQuery.inp /\ lQuery'.found = lQuery.found
        /\ lQuery'.goodbye = lQuery.goodbye /\ lQuery.during \subseteq lQuery'.during
        /\ lQuery'.pc = lQuery.pc /\ lQuery'.answered = lQuery.answered
        /\ lQuery.pc = "none" => lQuery' = lQuery
    BY <1>0, <1>1 DEF Queries
  <1>3. ASSUME lQuery'.pc = "run", NEW k \in TwoNodes, lServer'[k] # "down"
        PROVE  k \in lQuery'.during
    <2>1. CASE k = n  BY <1>0, <1>1, <1>2, <1>3, <2>1 DEF Queries
    <2>2. CASE k # n
      <3>1. lServer'[k] = lServer[k]  BY <1>0, <1>1, <2>2
      <3> QED  BY <1>2, <1>3, <3>1 DEF Lookup!LookupInv
    <2> QED  BY <2>1, <2>2
  <1>4. Lookup!LookupTypeOK'  BY <1>0, <1>2, LookupType DEF Lookup!LookupTypeOK, Queries, InpSet, Datagrams
  <1>5. Lookup!LookupComplete'  BY <1>0, <1>2 DEF Lookup!LookupInv, Lookup!LookupComplete
  <1>6. (\A k \in TwoNodes : Lookup!EntryOK(lQuery, k)') /\ Lookup!LookupSound'
    BY <1>2, LookupEntriesStay
  <1>7. /\ lQuery'.pc = "none" => lQuery' = Lookup!NoQuery /\ \A m \in lNet' : m.kind # "answer"
        /\ \A m \in lNet' : m.kind = "answer" => m.node \in lQuery'.during
    BY <1>0, <1>2 DEF Lookup!LookupInv
  <1> QED  BY <1>3, <1>4, <1>5, <1>6, <1>7 DEF Lookup!LookupInv

LEMMA LookupAnnounces ==
  ASSUME Lookup!LookupInv, NEW n \in TwoNodes, Lookup!Announce(n) \/ Lookup!Unregister(n)
  PROVE  Lookup!LookupInv'
  <1>0. /\ Lookup!LookupTypeOK /\ lQuery \in Queries /\ lNet \subseteq Datagrams
        /\ lServer \in [TwoNodes -> {"down", "up", "closing"}]
        /\ UNCHANGED lQuery
    BY LookupType DEF Lookup!LookupInv, Lookup!Announce, Lookup!Unregister
  <1>1. PICK x \in Datagrams : x.kind # "answer" /\ lNet' = lNet \cup {x}
    BY LookupDatagram DEF Lookup!Announce, Lookup!Unregister
  <1>2. \/ lServer' = lServer
        \/ lServer[n] = "up" /\ lServer' = [lServer EXCEPT ![n] = "closing"]
    BY DEF Lookup!Announce, Lookup!Unregister
  <1>3. /\ lServer' \in [TwoNodes -> {"down", "up", "closing"}]
        /\ \A k \in TwoNodes : lServer'[k] # "down" => lServer[k] # "down"
    BY <1>0, <1>2
  <1>4. Lookup!LookupTypeOK'
    BY <1>0, <1>1, <1>3 DEF Lookup!LookupTypeOK, Queries, InpSet, Datagrams
  <1>5. Lookup!LookupComplete'  BY <1>0, <1>1 DEF Lookup!LookupInv, Lookup!LookupComplete
  <1>6. (\A k \in TwoNodes : Lookup!EntryOK(lQuery, k)') /\ Lookup!LookupSound'
    BY <1>0, LookupEntriesStay
  <1>7. /\ lQuery'.pc = "none" => lQuery' = Lookup!NoQuery /\ \A m \in lNet' : m.kind # "answer"
        /\ \A m \in lNet' : m.kind = "answer" => m.node \in lQuery'.during
        /\ lQuery'.pc = "run" => \A k \in TwoNodes : lServer'[k] # "down" => k \in lQuery'.during
    BY <1>0, <1>1, <1>3 DEF Lookup!LookupInv
  <1> QED  BY <1>4, <1>5, <1>6, <1>7 DEF Lookup!LookupInv

LEMMA LookupAnswers ==
  ASSUME Lookup!LookupInv, NEW n \in TwoNodes, Lookup!Answer(n)
  PROVE  Lookup!LookupInv'
  <1>0. /\ Lookup!LookupTypeOK /\ lQuery \in Queries /\ lNet \subseteq Datagrams
        /\ lQuery.pc = "run" /\ lServer[n] # "down" /\ lServer' = lServer /\ n \in lQuery.during
    BY LookupType DEF Lookup!LookupInv, Lookup!Answer
  <1>1. PICK x \in Datagrams : /\ x = Lookup!Datagram("answer", n, lServer[n] = "up")
                               /\ x.node = n /\ lNet' = lNet \cup {x}
    <2>1. PICK b \in BOOLEAN : b = (lServer[n] = "up")  OBVIOUS
    <2>2. PICK x : x = Lookup!Datagram("answer", n, b)  OBVIOUS
    <2>3. x \in Datagrams /\ x.node = n  BY <2>2, LookupDatagram
    <2>4. lNet' = lNet \cup {x}  BY <2>1, <2>2 DEF Lookup!Answer
    <2> QED  BY <2>1, <2>2, <2>3, <2>4
  <1>2. /\ lQuery' \in Queries /\ lQuery'.inp = lQuery.inp /\ lQuery'.found = lQuery.found
        /\ lQuery'.goodbye = lQuery.goodbye /\ lQuery'.during = lQuery.during
        /\ lQuery'.pc = "run"
        /\ lQuery'.answered = IF lServer[n] = "up" THEN lQuery.answered \cup {n} ELSE lQuery.answered
    BY <1>0 DEF Lookup!Answer, Queries
  <1>3. Lookup!LookupTypeOK'
    BY <1>0, <1>1, <1>2 DEF Lookup!LookupTypeOK, Queries, InpSet, Datagrams
  <1>4. ASSUME NEW k \in lQuery'.answered \ lQuery'.goodbye
        PROVE  Lookup!Datagram("answer", k, TRUE) \in lNet' \/ \E f \in lQuery'.found : f.node = k
    <2>1. CASE k \in lQuery.answered
      BY <1>1, <1>2, <1>4, <2>1 DEF Lookup!LookupInv, Lookup!LookupComplete
    <2>2. CASE k \notin lQuery.answered
      <3>1. k = n /\ lServer[n] = "up"  BY <1>2, <1>4, <2>2
      <3>2. (lServer[n] = "up") = TRUE  BY <3>1
      <3> QED  BY <1>1, <3>1, <3>2
    <2> QED  BY <2>1, <2>2
  <1>5. (\A k \in TwoNodes : Lookup!EntryOK(lQuery, k)') /\ Lookup!LookupSound'
    BY <1>2, LookupEntriesStay
  <1>6. /\ lQuery'.pc # "none"
        /\ \A m \in lNet' : m.kind = "answer" => m.node \in lQuery'.during
        /\ \A k \in TwoNodes : lServer'[k] # "down" => k \in lQuery'.during
    BY <1>0, <1>1, <1>2 DEF Lookup!LookupInv
  <1> QED  BY <1>3, <1>4, <1>5, <1>6 DEF Lookup!LookupInv, Lookup!LookupComplete

LEMMA LookupStarts ==
  ASSUME Lookup!LookupInv, Lookup!QueryStart \/ Lookup!QueryEnd
  PROVE  Lookup!LookupInv'
  <1>0. /\ Lookup!LookupTypeOK /\ lQuery \in Queries /\ lNet \subseteq Datagrams
        /\ lServer' = lServer
    BY LookupType DEF Lookup!LookupInv, Lookup!QueryStart, Lookup!QueryEnd
  <1>1. PICK d \in SUBSET TwoNodes : d = {n \in TwoNodes : lServer[n] # "down"}  OBVIOUS
  <1>2. /\ lNet' \subseteq lNet /\ \A m \in lNet' : m.kind # "answer"
        /\ \/ lQuery' = [Lookup!NoQuery EXCEPT !.pc = "run", !.during = d]
           \/ lQuery' = Lookup!NoQuery
    BY <1>1 DEF Lookup!LookupInv, Lookup!QueryStart, Lookup!QueryEnd
  <1>3. PICK q \in Queries : q = Lookup!NoQuery  BY LookupNoQuery
  <1>4. /\ lQuery' \in Queries /\ lQuery'.inp = q.inp /\ lQuery'.found = {} /\ lQuery'.answered = {}
        /\ \/ lQuery'.pc = "run" /\ lQuery'.during = d
           \/ lQuery'.pc = "none" /\ lQuery' = Lookup!NoQuery
    <2>1. q.found = {} /\ q.answered = {} /\ q.pc = "none"  BY <1>3, LookupNoQuery
    <2>2. CASE lQuery' = [q EXCEPT !.pc = "run", !.during = d]  BY <2>1, <2>2 DEF Queries
    <2>3. CASE lQuery' = q  BY <1>3, <2>1, <2>3
    <2> QED  BY <1>2, <1>3, <2>2, <2>3
  <1>5. \A n \in TwoNodes : lQuery'.inp[n] = Lookup!NoInp  BY <1>3, <1>4, LookupNoQuery
  <1>6. Lookup!LookupTypeOK'
    BY <1>0, <1>2, <1>4 DEF Lookup!LookupTypeOK, Queries, InpSet, Datagrams
  <1>7. lQuery'.pc = "run" => \A k \in TwoNodes : lServer'[k] # "down" => k \in lQuery'.during
    BY <1>0, <1>1, <1>4
  <1>8. lQuery'.pc = "none" => lQuery' = Lookup!NoQuery  BY <1>4
  <1> QED  BY <1>2, <1>4, <1>5, <1>6, <1>7, <1>8
           DEF Lookup!LookupInv, Lookup!EntryOK, Lookup!LookupSound, Lookup!LookupComplete

\* What a datagram does to the lookup.
LEMMA LookupReceives ==
  ASSUME Lookup!LookupInv, NEW m \in lNet, Lookup!Receive(m)
  PROVE  Lookup!LookupInv'
  <1>0. /\ Lookup!LookupTypeOK /\ lQuery \in Queries /\ lNet \subseteq Datagrams
        /\ lQuery.pc = "run" /\ lServer' = lServer /\ lNet' \in {lNet, lNet \ {m}}
        /\ m \in Datagrams
    BY LookupType DEF Lookup!LookupInv, Lookup!Receive
  <1>1. PICK n \in TwoNodes : n = m.node  BY <1>0 DEF Datagrams
  <1>2. m.ttl \in BOOLEAN  BY <1>0 DEF Datagrams
  <1>3. Lookup!EntryOK(lQuery, n)  BY DEF Lookup!LookupInv
  <1>4. lQuery.inp[n] = Lookup!NoInp \/ Lookup!complete(lQuery.inp[n])
    BY <1>3 DEF Lookup!EntryOK, Lookup!complete
  <1>5. PICK e \in InpSet :
          /\ Lookup!messageToEntry(lQuery, m)
               = [lQuery EXCEPT !.host = n, !.inp = [lQuery.inp EXCEPT ![n] = e]]
          /\ IF lQuery.inp[n] = Lookup!NoInp
             THEN e.addr = {n} /\ e.port /\ e.txt /\ e.ttl = m.ttl /\ ~e.sent
             ELSE e = lQuery.inp[n]
    <2>1. lQuery.inp[m.node] = Lookup!NoInp \/ Lookup!complete(lQuery.inp[m.node])
      BY <1>1, <1>4
    <2>2. PICK e \in InpSet :
            /\ Lookup!messageToEntry(lQuery, m)
                 = [lQuery EXCEPT !.host = m.node, !.inp = [lQuery.inp EXCEPT ![m.node] = e]]
            /\ IF lQuery.inp[m.node] = Lookup!NoInp
               THEN e.addr = {m.node} /\ e.port /\ e.txt /\ e.ttl = m.ttl /\ ~e.sent
               ELSE e = lQuery.inp[m.node]
      BY <1>0, <2>1, LookupPuts, Zenon
    <2> QED  BY <1>1, <2>2
  <1>6. PICK p : p = [lQuery EXCEPT !.host = n, !.inp = [lQuery.inp EXCEPT ![n] = e]]
    OBVIOUS
  <1>7. /\ p \in Queries /\ p.inp = [lQuery.inp EXCEPT ![n] = e] /\ p.pc = "run"
        /\ p.found = lQuery.found /\ p.during = lQuery.during
        /\ p.answered = lQuery.answered /\ p.goodbye = lQuery.goodbye
    BY <1>0, <1>6 DEF Queries
  <1>8. /\ p.inp[n] = e /\ \A k \in TwoNodes : k # n => p.inp[k] = lQuery.inp[k]
    BY <1>0, <1>7 DEF Queries
  \* The entry is complete, and its time to live is 0 only after a goodbye.
  <1>9. /\ e.addr = {n} /\ e.port /\ e.txt /\ Lookup!complete(e)
        /\ e.ttl \/ n \in lQuery.goodbye \/ ~m.ttl
        /\ e.sent => Lookup!Found(lQuery, n) \/ n \in lQuery.goodbye
    BY <1>3, <1>5 DEF Lookup!EntryOK, Lookup!complete
  <1>10. PICK a \in Queries :
           /\ a = Lookup!Accept(p, m) /\ a.pc = "run" /\ a.during = lQuery.during
           /\ a.answered = lQuery.answered /\ a.goodbye = lQuery.goodbye
           /\ \A k \in TwoNodes : k # n => a.inp[k] = lQuery.inp[k]
           /\ a.inp[n].addr = {n} /\ a.inp[n].port /\ a.inp[n].txt /\ a.inp[n].ttl = e.ttl
           /\ m.kind = "answer" => a.inp[n].sent
           /\ \/ a.found = lQuery.found /\ a.inp[n].sent = e.sent
              \/ a.found = lQuery.found /\ ~e.ttl
              \/ /\ m.kind = "answer"
                 /\ \E f \in a.found : f.node = n /\ f.addr = {n} /\ a.found = lQuery.found \cup {f}
    <2>1. CASE m.kind # "answer" \/ e.sent
      <3>1. Lookup!Accept(p, m) = p  BY <1>1, <1>8, <2>1 DEF Lookup!Accept
      <3> QED  BY <1>7, <1>8, <1>9, <2>1, <3>1
    <2>2. CASE m.kind = "answer" /\ ~e.sent
      <3>1. PICK s : s = [e EXCEPT !.sent = TRUE]  OBVIOUS
      <3>2. s \in InpSet /\ s.addr = {n} /\ s.port /\ s.txt /\ s.ttl = e.ttl /\ s.sent
        BY <1>9, <3>1 DEF InpSet
      <3>3. PICK g : /\ g = IF e.ttl THEN lQuery.found \cup {[node |-> n, addr |-> {n}]} ELSE lQuery.found
                     /\ g \in SUBSET [node : TwoNodes, addr : SUBSET TwoNodes]
        <4>1. PICK f \in [node : TwoNodes, addr : SUBSET TwoNodes] : f = [node |-> n, addr |-> {n}]
          OBVIOUS
        <4>2. lQuery.found \in SUBSET [node : TwoNodes, addr : SUBSET TwoNodes]
          BY <1>0 DEF Queries
        <4>3. lQuery.found \cup {f} \in SUBSET [node : TwoNodes, addr : SUBSET TwoNodes]
          BY <4>2
        <4> QED  BY <4>1, <4>2, <4>3
      <3>4. PICK a : a = [p EXCEPT !.inp = [p.inp EXCEPT ![n] = s], !.found = g]  OBVIOUS
      <3>5. Lookup!Accept(p, m) = a
        BY <1>1, <1>7, <1>8, <1>9, <2>2, <3>1, <3>3, <3>4 DEF Lookup!Accept, Queries
      <3>6. /\ a \in Queries /\ a.inp = [p.inp EXCEPT ![n] = s] /\ a.found = g /\ a.pc = p.pc
            /\ a.during = p.during /\ a.answered = p.answered /\ a.goodbye = p.goodbye
        BY <1>7, <3>2, <3>3, <3>4 DEF Queries
      <3>7. a.inp[n] = s /\ \A k \in TwoNodes : k # n => a.inp[k] = lQuery.inp[k]
        BY <1>7, <1>8, <3>6 DEF Queries
      <3>8. \/ a.found = lQuery.found /\ ~e.ttl
            \/ \E f \in a.found : f.node = n /\ f.addr = {n} /\ a.found = lQuery.found \cup {f}
        BY <3>3, <3>6
      <3> QED  BY <1>7, <2>2, <3>2, <3>5, <3>6, <3>7, <3>8
    <2> QED  BY <2>1, <2>2
  <1>11. /\ lQuery' \in Queries /\ lQuery'.pc = "run" /\ lQuery'.during = lQuery.during
         /\ lQuery'.answered = lQuery.answered /\ lQuery'.inp = a.inp /\ lQuery'.found = a.found
         /\ lQuery'.goodbye = IF m.ttl THEN lQuery.goodbye ELSE lQuery.goodbye \cup {n}
    <2>1. lQuery' = [a EXCEPT !.goodbye = IF m.ttl THEN a.goodbye ELSE a.goodbye \cup {n}]
      BY <1>1, <1>5, <1>6, <1>10 DEF Lookup!Receive
    <2> QED  BY <1>10, <2>1 DEF Queries
  <1>12. lQuery.goodbye \subseteq lQuery'.goodbye /\ lQuery.found \subseteq lQuery'.found
         /\ (~m.ttl => n \in lQuery'.goodbye)
    BY <1>10, <1>11
  <1>13. Lookup!LookupTypeOK'
    BY <1>0, <1>11 DEF Lookup!LookupTypeOK, Queries, InpSet, Datagrams
  <1>14. \/ ~a.inp[n].sent \/ n \in lQuery'.goodbye \/ \E f \in lQuery'.found : f.node = n
    <2>1. CASE a.found = lQuery.found /\ a.inp[n].sent = e.sent
      BY <1>9, <1>12, <2>1 DEF Lookup!Found
    <2>2. CASE ~e.ttl  BY <1>9, <1>12, <2>2
    <2>3. CASE \E f \in a.found : f.node = n  BY <1>11, <2>3
    <2> QED  BY <1>10, <2>1, <2>2, <2>3
  <1>15. ASSUME NEW k \in TwoNodes  PROVE Lookup!EntryOK(lQuery, k)'
    <2>1. CASE k = n
      <3>1. lQuery'.inp[n].ttl \/ n \in lQuery'.goodbye  BY <1>9, <1>10, <1>11, <1>12
      <3> QED  BY <1>10, <1>11, <1>14, <2>1, <3>1 DEF Lookup!EntryOK, Lookup!Found
    <2>2. CASE k # n
      <3>1. Lookup!EntryOK(lQuery, k) /\ lQuery'.inp[k] = lQuery.inp[k]
        BY <1>10, <1>11, <2>2 DEF Lookup!LookupInv
      <3> QED  BY <1>12, <3>1 DEF Lookup!EntryOK, Lookup!Found
    <2> QED  BY <2>1, <2>2
  <1>16. Lookup!LookupSound'
    <2>1. m.kind = "answer" => n \in lQuery.during  BY <1>1 DEF Lookup!LookupInv
    <2>2. \A f \in lQuery.found : f.addr = {f.node} /\ f.node \in lQuery.during
      BY DEF Lookup!LookupInv, Lookup!LookupSound
    <2> QED  BY <1>10, <1>11, <2>1, <2>2 DEF Lookup!LookupSound
  <1>17. ASSUME NEW k \in lQuery'.answered \ lQuery'.goodbye
         PROVE  Lookup!Datagram("answer", k, TRUE) \in lNet' \/ \E f \in lQuery'.found : f.node = k
    <2>1. k \in lQuery.answered \ lQuery.goodbye /\ k \in TwoNodes
      BY <1>0, <1>11, <1>12, <1>17 DEF Queries
    <2>2. Lookup!Datagram("answer", k, TRUE) \in lNet \/ \E f \in lQuery.found : f.node = k
      BY <2>1 DEF Lookup!LookupInv, Lookup!LookupComplete
    <2>3. CASE \E f \in lQuery.found : f.node = k  BY <1>12, <2>3
    <2>4. CASE Lookup!Datagram("answer", k, TRUE) \in lNet \ lNet'
      <3>1. m = Lookup!Datagram("answer", k, TRUE)  BY <1>0, <2>4
      <3>2. m.kind = "answer" /\ n = k  BY <1>1, <2>1, <3>1, LookupDatagram
      <3> QED  BY <1>10, <1>14, <1>17, <3>2
    <2> QED  BY <2>2, <2>3, <2>4
  <1>18. /\ lQuery'.pc # "none"
         /\ \A x \in lNet' : x.kind = "answer" => x.node \in lQuery'.during
         /\ \A k \in TwoNodes : lServer'[k] # "down" => k \in lQuery'.during
    BY <1>0, <1>11 DEF Lookup!LookupInv
  <1> QED  BY <1>13, <1>15, <1>16, <1>17, <1>18 DEF Lookup!LookupInv, Lookup!LookupComplete

LEMMA LookupInitInv == Lookup!LookupInit => Lookup!LookupInv
  <1> SUFFICES ASSUME Lookup!LookupInit  PROVE Lookup!LookupInv
    OBVIOUS
  <1>1. /\ lServer \in [TwoNodes -> {"down", "up", "closing"}] /\ lNet = {}
        /\ lQuery = Lookup!NoQuery
    BY DEF Lookup!LookupInit
  <1>2. Lookup!LookupTypeOK  BY <1>1, LookupType, LookupNoQuery
  <1> QED  BY <1>1, <1>2, LookupNoQuery
           DEF Lookup!LookupInv, Lookup!EntryOK, Lookup!LookupSound, Lookup!LookupComplete

LEMMA LookupNextInv == Lookup!LookupInv /\ [Lookup!LookupNext]_lookupVars => Lookup!LookupInv'
  <1> SUFFICES ASSUME Lookup!LookupInv, [Lookup!LookupNext]_lookupVars  PROVE Lookup!LookupInv'
    OBVIOUS
  <1>1. CASE UNCHANGED lookupVars
    BY <1>1 DEF lookupVars, Lookup!LookupInv, Lookup!LookupTypeOK, Lookup!EntryOK, Lookup!Found,
                Lookup!LookupSound, Lookup!LookupComplete
  <1> QED  BY <1>1, LookupServers, LookupAnnounces, LookupAnswers, LookupStarts, LookupReceives
           DEF Lookup!LookupNext

---------------------------------------------------------------------------
(* The watcher of the consul registry.                                     *)

LEMMA WatchMoves == [Next]_vars => [Watch!WatchNext]_watchVars
  BY DEF Next, vars, MdnsRuns, LookupRuns, WatchRuns, PublishRuns, FanRuns,
         SocketRuns, LogRuns, HttpRuns, ProxyRuns, StaticRuns, FacadeRuns

WatchEntries == [TwoNodes -> Watch!Entry]
WatchHandlers ==
    [pc : {"idle", "send"}, todo : SUBSET Versions, gone : SUBSET Versions,
     out : Seq(Watch!Events), old : Watch!Maps, new : Watch!Maps, data : WatchEntries]
WatchListings == [pc : {"idle", "new", "gone"}, todo : SUBSET Versions, old : Watch!Maps]

LEMMA WatchType ==
  Watch!WatchTypeOK <=>
    /\ wEntries \in WatchEntries /\ wSeen \in WatchEntries /\ wServices \in Watch!Maps
    /\ wView \in [Versions -> SUBSET TwoNodes] /\ wNext \in Seq(Watch!Events)
    /\ wHandler \in WatchHandlers /\ wListing \in WatchListings
  BY DEF Watch!WatchTypeOK, WatchHandlers, WatchListings, WatchEntries

LEMMA WatchTypeNext ==
  Watch!WatchTypeOK' <=>
    /\ wEntries' \in WatchEntries /\ wSeen' \in WatchEntries /\ wServices' \in Watch!Maps
    /\ wView' \in [Versions -> SUBSET TwoNodes] /\ wNext' \in Seq(Watch!Events)
    /\ wHandler' \in WatchHandlers /\ wListing' \in WatchListings
  BY DEF Watch!WatchTypeOK, WatchHandlers, WatchListings, WatchEntries, Watch!Maps,
         Watch!Events, Watch!Entry, Watch!Absent

LEMMA WatchMaps ==
  \A f : f \in Watch!Maps <=> \E S \in SUBSET Versions : f \in [S -> SUBSET TwoNodes]
  BY DEF Watch!Maps

\* A map has versions, and nodes under each.
LEMMA WatchMap ==
  ASSUME NEW f \in Watch!Maps
  PROVE  /\ DOMAIN f \subseteq Versions
         /\ \A v \in DOMAIN f : f[v] \subseteq TwoNodes
         /\ \A v : Watch!At(f, v) \subseteq TwoNodes
  <1>1. PICK S \in SUBSET Versions : f \in [S -> SUBSET TwoNodes]  BY WatchMaps
  <1> QED  BY <1>1 DEF Watch!At

LEMMA WatchNone ==
  /\ Watch!NoServices \in Watch!Maps /\ DOMAIN Watch!NoServices = {}
  /\ \A v : Watch!At(Watch!NoServices, v) = {}
  /\ Watch!NoEntries \in WatchEntries
  <1>1. DOMAIN Watch!NoServices = {} /\ Watch!NoServices \in [{} -> SUBSET TwoNodes]
    BY DEF Watch!NoServices
  <1>2. Watch!NoServices \in Watch!Maps  BY <1>1, WatchMaps
  <1>3. Watch!NoEntries \in WatchEntries  BY DEF Watch!NoEntries, WatchEntries, Watch!Entry
  <1> QED  BY <1>1, <1>2, <1>3 DEF Watch!At

\* What serviceMap makes of the entries: each version's nodes that pass.
LEMMA WatchServiceMap ==
  ASSUME NEW data \in WatchEntries
  PROVE  /\ Watch!ServiceMap(data) \in Watch!Maps
         /\ \A v \in Versions : Watch!At(Watch!ServiceMap(data), v)
                                  = {n \in TwoNodes : data[n].version = v /\ data[n].ok}
  <1>1. \A n \in TwoNodes : data[n].version \in Versions \cup {0}
    <2>1. \A e \in Watch!Entry : e.version \in Versions \cup {0}
      BY DEF Watch!Entry, Watch!Absent
    <2> QED  BY <2>1 DEF WatchEntries
  <1>2. PICK S \in SUBSET Versions : S = {data[n].version : n \in TwoNodes} \ {0}
    BY <1>1
  <1>3. Watch!ServiceMap(data) \in [S -> SUBSET TwoNodes]
    BY <1>2 DEF Watch!ServiceMap
  <1>4. ASSUME NEW v \in Versions
        PROVE  Watch!At(Watch!ServiceMap(data), v)
                 = {n \in TwoNodes : data[n].version = v /\ data[n].ok}
    <2>1. CASE v \in S
      <3>1. v \in DOMAIN Watch!ServiceMap(data)  BY <1>3, <2>1
      <3> QED  BY <1>2, <2>1, <3>1 DEF Watch!At, Watch!ServiceMap
    <2>2. CASE v \notin S
      <3>1. v # 0  BY WatchAssumption
      <3>2. v \notin DOMAIN Watch!ServiceMap(data)  BY <1>3, <2>2
      <3>3. \A n \in TwoNodes : data[n].version # v  BY <1>2, <2>2, <3>1
      <3> QED  BY <3>2, <3>3 DEF Watch!At
    <2> QED  BY <2>1, <2>2
  <1> QED  BY <1>3, <1>4, WatchMaps

LEMMA WatchEvent ==
  ASSUME NEW action \in {"create", "update", "delete"}, NEW v \in Versions \cup {0},
         NEW S \in SUBSET TwoNodes
  PROVE  LET e == Watch!Event(action, v, S)
         IN e \in Watch!Events /\ e.action = action /\ e.version = v /\ e.nodes = S
  BY DEF Watch!Event, Watch!Events

LEMMA WatchIdle ==
  /\ Watch!IdleHandler \in WatchHandlers /\ Watch!IdleHandler.pc = "idle"
  /\ Watch!IdleHandler.todo = {} /\ Watch!IdleHandler.gone = {}
  /\ Watch!IdleHandler.out = <<>> /\ Watch!IdleHandler.data = Watch!NoEntries
  /\ Watch!IdleListing \in WatchListings /\ Watch!IdleListing.pc = "idle"
  /\ Watch!IdleListing.todo = {}
  <1>1. <<>> \in Seq(Watch!Events)  BY EmptyIsSeq
  <1> QED  BY <1>1, WatchNone DEF Watch!IdleHandler, Watch!IdleListing, WatchHandlers, WatchListings

\* What the reader will have, once one more event is sent.
LEMMA WatchSends ==
  ASSUME wNext \in Seq(Watch!Events), NEW e, wNext' = Append(wNext, e), wView' = wView,
         NEW v \in Versions, NEW n \in TwoNodes
  PROVE  Watch!WillHave(v, n)'
           <=> Watch!Adds(e, v, n) \/ (Watch!WillHave(v, n) /\ ~Watch!Removes(e, v, n))
  <1>1. PICK L \in Nat : L = Len(wNext)  OBVIOUS
  <1>2. /\ Len(wNext') = L + 1 /\ wNext'[L + 1] = e
        /\ \A j \in 1..L : wNext'[j] = wNext[j]
    BY <1>1
  <1>3. ~(Watch!Adds(e, v, n) /\ Watch!Removes(e, v, n))  BY DEF Watch!Adds, Watch!Removes
  <1> DEFINE rem(x) == Watch!Removes(x, v, n)
             add(x) == Watch!Adds(x, v, n)
             have   == n \in wView[v]
  <1>4. Watch!WillHave(v, n) <=>
          \/ have /\ \A j \in 1..L : ~rem(wNext[j])
          \/ \E k \in 1..L : add(wNext[k]) /\ \A j \in (k + 1)..L : ~rem(wNext[j])
    BY <1>1 DEF Watch!WillHave
  <1>5. Watch!WillHave(v, n)' <=>
          \/ have /\ \A j \in 1..(L + 1) : ~rem(wNext'[j])
          \/ \E k \in 1..(L + 1) : add(wNext'[k]) /\ \A j \in (k + 1)..(L + 1) : ~rem(wNext'[j])
    BY <1>2 DEF Watch!WillHave, Watch!Removes, Watch!Adds, Watch!WholeService, Watch!Event
  <1> HIDE DEF rem, add, have
  <1>7. (\A j \in 1..(L + 1) : ~rem(wNext'[j])) <=> (\A j \in 1..L : ~rem(wNext[j])) /\ ~rem(e)
    BY <1>2
  <1>8. \A k \in 1..L :
          (\A j \in (k + 1)..(L + 1) : ~rem(wNext'[j]))
             <=> (\A j \in (k + 1)..L : ~rem(wNext[j])) /\ ~rem(e)
    BY <1>2
  <1>9. (\E k \in 1..(L + 1) : add(wNext'[k]) /\ \A j \in (k + 1)..(L + 1) : ~rem(wNext'[j]))
          <=> \/ add(e)
              \/ \E k \in 1..L : add(wNext[k]) /\ (\A j \in (k + 1)..L : ~rem(wNext[j])) /\ ~rem(e)
    BY <1>2, <1>8
  <1>10. Watch!WillHave(v, n)' <=> add(e) \/ (Watch!WillHave(v, n) /\ ~rem(e))
    BY <1>4, <1>5, <1>7, <1>9
  <1> QED  BY <1>10 DEF add, rem

\* An event changes the view of one version, or of none, or of all.
LEMMA WatchApplies ==
  ASSUME NEW e \in Watch!Events, wView \in [Versions -> SUBSET TwoNodes]
  PROVE  Watch!Applied(e) \in [Versions -> SUBSET TwoNodes]
  <1>1. e.version \in Versions \cup {0} /\ e.nodes \in SUBSET TwoNodes  BY DEF Watch!Events
  <1>2. Watch!WholeService.version = 0  BY DEF Watch!WholeService, Watch!Event
  <1>3. \/ Watch!Applied(e) = [x \in Versions |-> {}] \/ Watch!Applied(e) = wView
        \/ Watch!Applied(e) = [wView EXCEPT ![e.version] = @ \ e.nodes] /\ e.version # 0
        \/ Watch!Applied(e) = [wView EXCEPT ![e.version] = @ \cup e.nodes] /\ e.version # 0
    <2>1. CASE e = Watch!WholeService  BY <1>2, <2>1 DEF Watch!Applied
    <2>2. CASE e # Watch!WholeService /\ e.version = 0  BY <2>2 DEF Watch!Applied
    <2>3. CASE e # Watch!WholeService /\ e.version # 0 /\ e.action = "delete"
      BY <2>3 DEF Watch!Applied
    <2>4. CASE e # Watch!WholeService /\ e.version # 0 /\ e.action # "delete"
      BY <2>4 DEF Watch!Applied
    <2> QED  BY <2>1, <2>2, <2>3, <2>4
  <1> QED  BY <1>1, <1>3

\* Reading an event changes nothing of what the reader will have in the end.
LEMMA WatchReads ==
  ASSUME wNext \in Seq(Watch!Events), wView \in [Versions -> SUBSET TwoNodes], wNext # <<>>,
         wView' = Watch!Applied(Head(wNext)), wNext' = Tail(wNext),
         NEW v \in Versions, NEW n \in TwoNodes
  PROVE  Watch!WillHave(v, n)' <=> Watch!WillHave(v, n)
  <1>1. PICK L \in Nat : L + 1 = Len(wNext)  OBVIOUS
  <1>2. /\ Len(wNext') = L /\ \A j \in 1..L : wNext'[j] = wNext[j + 1]
    BY <1>1
  <1>3. PICK e \in Watch!Events : e = Head(wNext) /\ e = wNext[1]  BY HeadFirst
  <1>4. n \in wView'[v] <=> Watch!Adds(e, v, n) \/ (n \in wView[v] /\ ~Watch!Removes(e, v, n))
    <2>1. wView' = Watch!Applied(e)  BY <1>3
    <2>2. /\ e.action \in {"create", "update", "delete"} /\ e.version \in Versions \cup {0}
          /\ e.nodes \in SUBSET TwoNodes
      BY DEF Watch!Events
    <2>3. Watch!WholeService.action = "delete" /\ Watch!WholeService.version = 0
      BY DEF Watch!WholeService, Watch!Event
    <2>4. v # 0  BY WatchAssumption
    <2>5. CASE e = Watch!WholeService
      <3>1. wView' = [x \in Versions |-> {}]  BY <2>1, <2>3, <2>5 DEF Watch!Applied
      <3> QED  BY <2>3, <2>5, <3>1 DEF Watch!Adds, Watch!Removes
    <2>6. CASE e # Watch!WholeService /\ e.version = 0
      <3>1. wView' = wView  BY <2>1, <2>6 DEF Watch!Applied
      <3> QED  BY <2>4, <2>6, <3>1 DEF Watch!Adds, Watch!Removes
    <2>7. CASE e # Watch!WholeService /\ e.version # 0 /\ e.action = "delete"
      <3>1. wView' = [wView EXCEPT ![e.version] = @ \ e.nodes]
        BY <2>1, <2>7 DEF Watch!Applied
      <3> QED  BY <2>2, <2>7, <3>1 DEF Watch!Adds, Watch!Removes
    <2>8. CASE e # Watch!WholeService /\ e.version # 0 /\ e.action # "delete"
      <3>1. wView' = [wView EXCEPT ![e.version] = @ \cup e.nodes]
        BY <2>1, <2>8 DEF Watch!Applied
      <3> QED  BY <2>2, <2>8, <3>1 DEF Watch!Adds, Watch!Removes
    <2> QED  BY <2>5, <2>6, <2>7, <2>8
  <1> DEFINE rem(x) == Watch!Removes(x, v, n)
             add(x) == Watch!Adds(x, v, n)
  <1>5. Watch!WillHave(v, n) <=>
          \/ n \in wView[v] /\ \A j \in 1..(L + 1) : ~rem(wNext[j])
          \/ \E k \in 1..(L + 1) : add(wNext[k]) /\ \A j \in (k + 1)..(L + 1) : ~rem(wNext[j])
    BY <1>1 DEF Watch!WillHave
  <1>6. Watch!WillHave(v, n)' <=>
          \/ n \in wView'[v] /\ \A j \in 1..L : ~rem(wNext'[j])
          \/ \E k \in 1..L : add(wNext'[k]) /\ \A j \in (k + 1)..L : ~rem(wNext'[j])
    BY <1>2 DEF Watch!WillHave, Watch!Removes, Watch!Adds, Watch!WholeService, Watch!Event
  <1>7. n \in wView'[v] <=> add(e) \/ (n \in wView[v] /\ ~rem(e))  BY <1>4
  <1> HIDE DEF rem, add
  <1>8. \A a \in 1..(L + 1) : \A b \in Nat :
          b = a + 1 => ((\A j \in a..L : ~rem(wNext'[j])) <=> (\A j \in b..(L + 1) : ~rem(wNext[j])))
    <2> SUFFICES ASSUME NEW a \in 1..(L + 1), NEW b \in Nat, b = a + 1
                 PROVE  (\A j \in a..L : ~rem(wNext'[j])) <=> (\A j \in b..(L + 1) : ~rem(wNext[j]))
      OBVIOUS
    <2>1. ASSUME \A j \in a..L : ~rem(wNext'[j]), NEW j \in b..(L + 1)
          PROVE  ~rem(wNext[j])
      <3>1. PICK i \in a..L : i \in 1..L /\ i + 1 = j  BY j - 1 \in a..L
      <3> QED  BY <1>2, <2>1, <3>1
    <2>2. ASSUME \A j \in b..(L + 1) : ~rem(wNext[j]), NEW j \in a..L
          PROVE  ~rem(wNext'[j])
      <3>1. j + 1 \in b..(L + 1) /\ j \in 1..L  OBVIOUS
      <3> QED  BY <1>2, <2>2, <3>1
    <2> QED  BY <2>1, <2>2
  <1>9. /\ (\A j \in 1..L : ~rem(wNext'[j])) <=> (\A j \in 2..(L + 1) : ~rem(wNext[j]))
        /\ (\A j \in 1..(L + 1) : ~rem(wNext[j])) <=> ~rem(e) /\ \A j \in 1..L : ~rem(wNext'[j])
    <2>1. (\A j \in 1..L : ~rem(wNext'[j])) <=> (\A j \in 2..(L + 1) : ~rem(wNext[j]))
      <3>1. 1 \in 1..(L + 1) /\ 2 \in Nat /\ 2 = 1 + 1  OBVIOUS
      <3> QED  BY <1>8, <3>1
    <2>2. (\A j \in 1..(L + 1) : ~rem(wNext[j])) <=> ~rem(e) /\ \A j \in 2..(L + 1) : ~rem(wNext[j])
      BY <1>3
    <2> QED  BY <2>1, <2>2
  <1>10. (\E k \in 1..(L + 1) : add(wNext[k]) /\ \A j \in (k + 1)..(L + 1) : ~rem(wNext[j]))
           <=> \/ add(e) /\ \A j \in 1..L : ~rem(wNext'[j])
               \/ \E k \in 1..L : add(wNext'[k]) /\ \A j \in (k + 1)..L : ~rem(wNext'[j])
    <2>1. ASSUME NEW k \in 1..(L + 1), add(wNext[k]), \A j \in (k + 1)..(L + 1) : ~rem(wNext[j])
          PROVE  \/ add(e) /\ \A j \in 1..L : ~rem(wNext'[j])
                 \/ \E i \in 1..L : add(wNext'[i]) /\ \A j \in (i + 1)..L : ~rem(wNext'[j])
      <3>1. CASE k = 1
        <4>1. add(e)  BY <1>3, <2>1, <3>1
        <4>2. \A j \in 2..(L + 1) : ~rem(wNext[j])  BY <2>1, <3>1
        <4> QED  BY <1>9, <4>1, <4>2
      <3>2. CASE k # 1
        <4>1. PICK i \in 1..L : k = i + 1  BY <3>2, k - 1 \in 1..L
        <4>2. add(wNext'[i])  BY <1>2, <2>1, <4>1
        <4>3. \A j \in (i + 1)..L : ~rem(wNext'[j])
          <5>1. PICK a \in 1..(L + 1), b \in Nat : a = i + 1 /\ b = a + 1 /\ b = k + 1
            BY <4>1, i + 1 \in 1..(L + 1), k + 1 \in Nat
          <5>2. \A j \in b..(L + 1) : ~rem(wNext[j])  BY <2>1, <5>1
          <5> QED  BY <1>8, <5>1, <5>2
        <4> QED  BY <4>2, <4>3
      <3> QED  BY <3>1, <3>2
    <2>2. ASSUME add(e), \A j \in 1..L : ~rem(wNext'[j])
          PROVE  \E k \in 1..(L + 1) : add(wNext[k]) /\ \A j \in (k + 1)..(L + 1) : ~rem(wNext[j])
      <3>1. \A j \in 2..(L + 1) : ~rem(wNext[j])  BY <1>9, <2>2
      <3>2. 1 \in 1..(L + 1) /\ \A j \in (1 + 1)..(L + 1) : ~rem(wNext[j])  BY <3>1
      <3> QED  BY <1>3, <2>2, <3>2
    <2>3. ASSUME NEW i \in 1..L, add(wNext'[i]), \A j \in (i + 1)..L : ~rem(wNext'[j])
          PROVE  \E k \in 1..(L + 1) : add(wNext[k]) /\ \A j \in (k + 1)..(L + 1) : ~rem(wNext[j])
      <3>1. PICK a \in 1..(L + 1), b \in Nat : a = i + 1 /\ b = a + 1
        BY i + 1 \in 1..(L + 1), i + 2 \in Nat
      <3>2. \A j \in a..L : ~rem(wNext'[j])  BY <2>3, <3>1
      <3>3. \A j \in b..(L + 1) : ~rem(wNext[j])  BY <1>8, <3>1, <3>2
      <3>4. add(wNext[a])  BY <1>2, <2>3, <3>1
      <3>5. \A j \in (a + 1)..(L + 1) : ~rem(wNext[j])  BY <3>1, <3>3
      <3> QED  BY <3>4, <3>5
    <2> QED  BY <2>1, <2>2, <2>3
  <1> QED  BY <1>5, <1>6, <1>7, <1>9, <1>10

\* Steps that leave the handlers alone, and what the reader will have.
LEMMA WatchFollows ==
  ASSUME Watch!Following, UNCHANGED <<wPlan, wServices, wHandler, wListing, wSeen>>,
         \A v \in Versions : \A n \in TwoNodes : Watch!WillHave(v, n)' <=> Watch!WillHave(v, n)
  PROVE  Watch!Following'
  <1>1. \A v \in Versions : Watch!Sent(v)' = Watch!Sent(v)
    BY DEF Watch!Sent, Watch!At, Watch!NoEntries, Watch!Absent
  <1>2. /\ ~wPlan' => wServices' = Watch!NoServices /\ wHandler'.pc = "idle"
        /\ wPlan' /\ wSeen' # Watch!NoEntries => wServices' = Watch!ServiceMap(wSeen')
        /\ wHandler'.pc = "send" =>
             IF wHandler'.data = Watch!NoEntries
             THEN wHandler'.todo = {} /\ wHandler'.gone = {} /\ wHandler'.out = <<>>
             ELSE wHandler'.old = wServices'
    BY DEF Watch!Following
  <1>3. IF wListing'.pc = "gone" THEN ~wPlan'
        ELSE /\ wListing'.todo = {}
             /\ \A v \in Versions : \A n \in TwoNodes : Watch!WillHave(v, n)' <=> n \in Watch!Sent(v)'
    BY <1>1 DEF Watch!Following
  <1> QED  BY <1>2, <1>3 DEF Watch!Following

LEMMA WatchWorks ==
  ASSUME Watch!WorkOK, UNCHANGED <<wHandler, wListing>>
  PROVE  Watch!WorkOK'
  BY DEF Watch!WorkOK

LEMMA WatchKept ==
  ASSUME wNext' = wNext, wView' = wView
  PROVE  \A v \in Versions : \A n \in TwoNodes : Watch!WillHave(v, n)' <=> Watch!WillHave(v, n)
  BY DEF Watch!WillHave, Watch!Adds, Watch!Removes

LEMMA WatchChanges ==
  ASSUME Watch!WatchInv, Watch!Change
  PROVE  Watch!WatchInv'
  <1>0. /\ wEntries' \in WatchEntries
        /\ UNCHANGED <<wPlan, wServices, wHandler, wListing, wNext, wView, wSeen, wStopped, wOvertaken>>
        /\ Watch!WatchTypeOK /\ Watch!WorkOK
    BY WatchType DEF Watch!WatchInv, Watch!Change, WatchEntries
  <1>1. Watch!WatchTypeOK'  BY <1>0, WatchType, WatchTypeNext
  <1>2. Watch!WorkOK'  BY <1>0, WatchWorks
  <1>3. ~wStopped' /\ ~wOvertaken' => Watch!Following'
    BY <1>0, WatchKept, WatchFollows DEF Watch!WatchInv
  <1> QED  BY <1>1, <1>2, <1>3 DEF Watch!WatchInv

LEMMA WatchReader ==
  ASSUME Watch!WatchInv, Watch!Read
  PROVE  Watch!WatchInv'
  <1>0. /\ UNCHANGED <<wEntries, wPlan, wServices, wHandler, wListing, wSeen, wStopped, wOvertaken>>
        /\ Watch!WatchTypeOK /\ Watch!WorkOK
        /\ wNext # <<>> /\ wNext' = Tail(wNext) /\ wView' = Watch!Applied(Head(wNext))
        /\ wNext \in Seq(Watch!Events) /\ wView \in [Versions -> SUBSET TwoNodes]
    BY WatchType DEF Watch!WatchInv, Watch!Read
  <1>1. Watch!WatchTypeOK'
    <2>1. wNext' \in Seq(Watch!Events)  BY <1>0
    <2>2. wView' \in [Versions -> SUBSET TwoNodes]  BY <1>0, HeadFirst, WatchApplies
    <2> QED  BY <1>0, <2>1, <2>2, WatchType, WatchTypeNext
  <1>2. Watch!WorkOK'  BY <1>0, WatchWorks
  <1>3. \A v \in Versions : \A n \in TwoNodes : Watch!WillHave(v, n)' <=> Watch!WillHave(v, n)
    BY <1>0, WatchReads
  <1>4. ~wStopped' /\ ~wOvertaken' => Watch!Following'
    BY <1>0, <1>3, WatchFollows DEF Watch!WatchInv
  <1> QED  BY <1>1, <1>2, <1>4 DEF Watch!WatchInv

LEMMA WatchStop ==
  ASSUME Watch!WatchInv, Watch!Stop
  PROVE  Watch!WatchInv'
  <1>0. /\ UNCHANGED <<wEntries, wPlan, wServices, wHandler, wListing, wView, wSeen, wOvertaken>>
        /\ Watch!WatchTypeOK /\ Watch!WorkOK /\ wStopped' = TRUE /\ wNext' = <<>>
    BY DEF Watch!WatchInv, Watch!Stop
  <1>1. wNext' \in Seq(Watch!Events)  BY <1>0, EmptyIsSeq
  <1>2. Watch!WatchTypeOK'  BY <1>0, <1>1, WatchType, WatchTypeNext
  <1>3. Watch!WorkOK'  BY <1>0, WatchWorks
  <1> QED  BY <1>0, <1>2, <1>3 DEF Watch!WatchInv

\* An answer arrives: nothing is sent yet.
LEMMA WatchHandles ==
  ASSUME Watch!WatchInv, Watch!ServiceHandler
  PROVE  Watch!WatchInv'
  <1>0. /\ UNCHANGED <<wEntries, wPlan, wServices, wListing, wNext, wView, wSeen, wStopped, wOvertaken>>
        /\ Watch!WatchTypeOK /\ Watch!WorkOK /\ wPlan /\ wHandler.pc = "idle"
        /\ wEntries \in WatchEntries /\ wServices \in Watch!Maps /\ wListing \in WatchListings
    BY WatchType DEF Watch!WatchInv, Watch!ServiceHandler
  <1>1. PICK new \in Watch!Maps : new = Watch!ServiceMap(wEntries)  BY <1>0, WatchServiceMap
  <1>2. DOMAIN new \subseteq Versions /\ DOMAIN wServices \subseteq Versions  BY <1>0, WatchMap
  <1>3. /\ wHandler' \in WatchHandlers /\ wHandler'.out = <<>> /\ wHandler'.pc = "send"
        /\ \/ /\ wHandler'.data = Watch!NoEntries
              /\ wHandler'.todo = {} /\ wHandler'.gone = {}
           \/ /\ wHandler'.data = wEntries /\ wEntries # Watch!NoEntries
              /\ wHandler'.todo = DOMAIN new /\ wHandler'.gone = DOMAIN wServices \ DOMAIN new
              /\ wHandler'.old = wServices /\ wHandler'.new = new
    <2>1. CASE wEntries = Watch!NoEntries
      <3>1. PICK i \in WatchHandlers : i = Watch!IdleHandler /\ i.todo = {} /\ i.gone = {}
                                       /\ i.out = <<>> /\ i.data = Watch!NoEntries
        BY WatchIdle
      <3>2. wHandler' = [i EXCEPT !.pc = "send"]  BY <2>1, <3>1 DEF Watch!ServiceHandler
      <3> QED  BY <3>1, <3>2 DEF WatchHandlers
    <2>2. CASE wEntries # Watch!NoEntries
      <3>1. wHandler' = [pc |-> "send", todo |-> DOMAIN new,
                         gone |-> DOMAIN wServices \ DOMAIN new, out |-> <<>>,
                         old |-> wServices, new |-> new, data |-> wEntries]
        BY <1>1, <2>2 DEF Watch!ServiceHandler
      <3>2. <<>> \in Seq(Watch!Events)  BY EmptyIsSeq
      <3> QED  BY <1>0, <1>2, <2>2, <3>1, <3>2 DEF WatchHandlers
    <2> QED  BY <2>1, <2>2
  <1>4. Watch!WatchTypeOK'  BY <1>0, <1>3, WatchType, WatchTypeNext
  <1>5. Watch!WorkOK'
    <2>1. /\ wHandler'.todo \subseteq DOMAIN wHandler'.new
          /\ wHandler'.gone \subseteq DOMAIN wHandler'.old \ DOMAIN wHandler'.new
          /\ wHandler'.data # Watch!NoEntries => wHandler'.new = Watch!ServiceMap(wHandler'.data)
      BY <1>1, <1>3
    <2>2. wListing'.todo \subseteq DOMAIN wListing'.old  BY <1>0 DEF Watch!WorkOK
    <2> QED  BY <1>3, <2>1, <2>2 DEF Watch!WorkOK
  <1>6. ASSUME ~wStopped', ~wOvertaken'  PROVE Watch!Following'
    <2>1. Watch!Following  BY <1>0, <1>6 DEF Watch!WatchInv
    <2>2. \A v \in Versions : Watch!Sent(v)' = Watch!Sent(v)
      <3> SUFFICES ASSUME NEW v \in Versions  PROVE Watch!Sent(v)' = Watch!Sent(v)
        OBVIOUS
      <3>1. Watch!Sent(v) = Watch!At(wServices, v)  BY <1>0 DEF Watch!Sent
      <3>2. CASE wHandler'.data = Watch!NoEntries \/ v \in wHandler'.todo \cup wHandler'.gone
        <4>1. Watch!Sent(v)' = Watch!At(wServices', v)
          BY <3>2 DEF Watch!Sent, Watch!At, Watch!NoEntries, Watch!Absent
        <4> QED  BY <1>0, <3>1, <4>1
      <3>3. CASE ~(wHandler'.data = Watch!NoEntries \/ v \in wHandler'.todo \cup wHandler'.gone)
        <4>1. v \notin DOMAIN new /\ v \notin DOMAIN wServices /\ wHandler'.new = new
          BY <1>3, <3>3
        <4>2. Watch!Sent(v)' = Watch!At(wHandler'.new, v)
          BY <1>3, <3>3 DEF Watch!Sent, Watch!At, Watch!NoEntries, Watch!Absent
        <4> QED  BY <3>1, <4>1, <4>2 DEF Watch!At
      <3> QED  BY <3>2, <3>3
    <2>3. IF wListing'.pc = "gone" THEN ~wPlan'
          ELSE /\ wListing'.todo = {}
               /\ \A v \in Versions : \A n \in TwoNodes : Watch!WillHave(v, n)' <=> n \in Watch!Sent(v)'
      BY <1>0, <2>1, <2>2, WatchKept DEF Watch!Following
    <2>4. /\ wPlan' /\ wSeen' # Watch!NoEntries => wServices' = Watch!ServiceMap(wSeen')
          /\ IF wHandler'.data = Watch!NoEntries
             THEN wHandler'.todo = {} /\ wHandler'.gone = {} /\ wHandler'.out = <<>>
             ELSE wHandler'.old = wServices'
      BY <1>0, <1>3, <2>1 DEF Watch!Following
    <2> QED  BY <1>0, <2>3, <2>4 DEF Watch!Following
  <1> QED  BY <1>4, <1>5, <1>6 DEF Watch!WatchInv

\* What was sent is what is known now.
LEMMA WatchHandled ==
  ASSUME Watch!WatchInv, Watch!HandlerEnd
  PROVE  Watch!WatchInv'
  <1>0. /\ UNCHANGED <<wEntries, wPlan, wListing, wNext, wView, wStopped, wOvertaken>>
        /\ Watch!WatchTypeOK /\ Watch!WorkOK /\ wHandler.pc = "send" /\ wHandler.out = <<>>
        /\ wHandler.todo = {} /\ wHandler.gone = {}
        /\ wServices' = IF wHandler.data = Watch!NoEntries THEN wServices ELSE wHandler.new
        /\ wSeen' = wHandler.data /\ wHandler' = Watch!IdleHandler
        /\ wServices \in Watch!Maps /\ wHandler \in WatchHandlers
    BY WatchType DEF Watch!WatchInv, Watch!HandlerEnd
  <1>1. wHandler.new \in Watch!Maps /\ wHandler.data \in WatchEntries  BY <1>0 DEF WatchHandlers
  <1>2. Watch!WatchTypeOK'  BY <1>0, <1>1, WatchIdle, WatchType, WatchTypeNext
  <1>3. Watch!WorkOK'
    <2>1. wListing'.todo \subseteq DOMAIN wListing'.old  BY <1>0 DEF Watch!WorkOK
    <2> QED  BY <1>0, <2>1, WatchIdle DEF Watch!WorkOK
  <1>4. ASSUME ~wStopped', ~wOvertaken'  PROVE Watch!Following'
    <2>1. Watch!Following  BY <1>0, <1>4 DEF Watch!WatchInv
    <2>2. wPlan  BY <1>0, <2>1 DEF Watch!Following
    <2>3. \A v \in Versions : Watch!Sent(v)' = Watch!Sent(v)
      <3> SUFFICES ASSUME NEW v \in Versions  PROVE Watch!Sent(v)' = Watch!Sent(v)
        OBVIOUS
      <3>1. wHandler'.pc = "idle"  BY <1>0, WatchIdle
      <3>2. Watch!Sent(v)' = Watch!At(wServices', v)  BY <3>1 DEF Watch!Sent, Watch!At
      <3>3. Watch!Sent(v) = IF wHandler.data = Watch!NoEntries THEN Watch!At(wServices, v)
                            ELSE Watch!At(wHandler.new, v)
        BY <1>0 DEF Watch!Sent
      <3> QED  BY <1>0, <3>2, <3>3
    <2>4. IF wListing'.pc = "gone" THEN ~wPlan'
          ELSE /\ wListing'.todo = {}
               /\ \A v \in Versions : \A n \in TwoNodes : Watch!WillHave(v, n)' <=> n \in Watch!Sent(v)'
      BY <1>0, <2>1, <2>3, WatchKept DEF Watch!Following
    <2>5. wSeen' # Watch!NoEntries => wServices' = Watch!ServiceMap(wSeen')
      BY <1>0 DEF Watch!WorkOK
    <2> QED  BY <1>0, <2>2, <2>4, <2>5, WatchIdle DEF Watch!Following
  <1> QED  BY <1>2, <1>3, <1>4 DEF Watch!WatchInv

LEMMA WatchListed ==
  ASSUME Watch!WatchInv, Watch!HandleNew
  PROVE  Watch!WatchInv'
  <1>0. /\ UNCHANGED <<wEntries, wServices, wHandler, wNext, wView, wStopped, wOvertaken>>
        /\ Watch!WatchTypeOK /\ Watch!WorkOK /\ wListing.pc = "idle" /\ ~wPlan /\ wPlan' = TRUE
        /\ wSeen' = Watch!NoEntries
    BY DEF Watch!WatchInv, Watch!HandleNew
  <1>1. /\ wListing' \in WatchListings /\ wListing'.pc = "new" /\ wListing'.todo = {}
    <2>1. PICK i \in WatchListings : i = Watch!IdleListing /\ i.todo = {}  BY WatchIdle
    <2>2. wListing' = [i EXCEPT !.pc = "new"]  BY <2>1 DEF Watch!HandleNew
    <2> QED  BY <2>1, <2>2 DEF WatchListings
  <1>2. Watch!WatchTypeOK'  BY <1>0, <1>1, WatchNone, WatchType, WatchTypeNext
  <1>3. Watch!WorkOK'  BY <1>0, <1>1 DEF Watch!WorkOK
  <1>4. ASSUME ~wStopped', ~wOvertaken'  PROVE Watch!Following'
    <2>1. Watch!Following  BY <1>0, <1>4 DEF Watch!WatchInv
    <2>2. wHandler'.pc = "idle" /\ wHandler.pc = "idle"  BY <1>0, <2>1 DEF Watch!Following
    <2>3. \A v \in Versions : Watch!Sent(v)' = Watch!Sent(v)
      BY <1>0, <2>2 DEF Watch!Sent, Watch!At
    <2>4. \A v \in Versions : \A n \in TwoNodes : Watch!WillHave(v, n)' <=> n \in Watch!Sent(v)'
      BY <1>0, <2>1, <2>3, WatchKept DEF Watch!Following
    <2> QED  BY <1>0, <1>1, <2>2, <2>4 DEF Watch!Following
  <1> QED  BY <1>2, <1>3, <1>4 DEF Watch!WatchInv

LEMMA WatchDropped ==
  ASSUME Watch!WatchInv, Watch!HandleGone
  PROVE  Watch!WatchInv'
  <1>0. /\ UNCHANGED <<wEntries, wHandler, wNext, wView, wSeen, wStopped>>
        /\ Watch!WatchTypeOK /\ Watch!WorkOK /\ wPlan' = FALSE /\ wServices' = Watch!NoServices
        /\ wListing' = [pc |-> "gone", todo |-> DOMAIN wServices, old |-> wServices]
        /\ wOvertaken' = (wOvertaken \/ wHandler.pc # "idle")
        /\ wServices \in Watch!Maps
    BY WatchType DEF Watch!WatchInv, Watch!HandleGone
  <1>1. DOMAIN wServices \subseteq Versions  BY <1>0, WatchMap
  <1>2. /\ wListing' \in WatchListings /\ wListing'.pc = "gone"
        /\ wListing'.todo \subseteq DOMAIN wListing'.old
    BY <1>0, <1>1 DEF WatchListings
  <1>3. Watch!WatchTypeOK'  BY <1>0, <1>2, WatchNone, WatchType, WatchTypeNext
  <1>4. Watch!WorkOK'  BY <1>0, <1>2 DEF Watch!WorkOK
  <1>5. ASSUME ~wStopped', ~wOvertaken'  PROVE Watch!Following'
    <2>1. wHandler'.pc = "idle"  BY <1>0, <1>5
    <2> QED  BY <1>0, <1>2, <2>1 DEF Watch!Following, Watch!NoServices
  <1> QED  BY <1>3, <1>4, <1>5 DEF Watch!WatchInv

\* The events of a version: the first one, and an update that follows when nodes
\* have gone and others stay.  They are about that version and no other.
LEMMA WatchDiff ==
  ASSUME NEW old \in Watch!Maps, NEW new \in Watch!Maps, NEW v \in DOMAIN old \cup DOMAIN new
  PROVE  \E e \in Watch!Events : \E o \in Seq(Watch!Events) :
           /\ Head(Watch!Diff(old, new, v)) = e /\ Tail(Watch!Diff(old, new, v)) = o
           /\ e.version = v
           /\ \/ /\ o = <<>>
                 /\ \A n \in TwoNodes : n \in Watch!At(new, v)
                      <=> Watch!Adds(e, v, n) \/ (n \in Watch!At(old, v) /\ ~Watch!Removes(e, v, n))
              \/ /\ v \in DOMAIN old \cap DOMAIN new
                 /\ o = <<Watch!Event("update", v, new[v])>>
                 /\ \A n \in TwoNodes : n \in Watch!At(old, v) \cap Watch!At(new, v)
                      <=> Watch!Adds(e, v, n) \/ (n \in Watch!At(old, v) /\ ~Watch!Removes(e, v, n))
  <1>1. /\ v \in Versions
        /\ v \in DOMAIN old => old[v] \in SUBSET TwoNodes
        /\ v \in DOMAIN new => new[v] \in SUBSET TwoNodes
    BY WatchMap
  <1>2. v # 0  BY <1>1, WatchAssumption
  <1>3. \A e : e.version = v => e # Watch!WholeService
    BY <1>2 DEF Watch!WholeService, Watch!Event
  <1>4. CASE v \notin DOMAIN new
    <2>1. PICK e : e = Watch!Event("delete", v, old[v])  OBVIOUS
    <2>2. e \in Watch!Events /\ e.action = "delete" /\ e.version = v /\ e.nodes = old[v]
      BY <1>1, <1>4, <2>1, WatchEvent
    <2>3. Watch!Diff(old, new, v) = <<e>>  BY <1>4, <2>1 DEF Watch!Diff
    <2>4. \A n \in TwoNodes : n \in Watch!At(new, v)
            <=> Watch!Adds(e, v, n) \/ (n \in Watch!At(old, v) /\ ~Watch!Removes(e, v, n))
      BY <1>4, <2>2 DEF Watch!At, Watch!Adds, Watch!Removes
    <2>5. <<>> \in Seq(Watch!Events) /\ Head(<<e>>) = e /\ Tail(<<e>>) = <<>>  BY EmptyIsSeq
    <2> QED  BY <2>2, <2>3, <2>4, <2>5
  <1>5. CASE v \in DOMAIN new /\ v \notin DOMAIN old
    <2>1. PICK e : e = Watch!Event("create", v, new[v])  OBVIOUS
    <2>2. e \in Watch!Events /\ e.action = "create" /\ e.version = v /\ e.nodes = new[v]
      BY <1>1, <1>5, <2>1, WatchEvent
    <2>3. Watch!Diff(old, new, v) = <<e>>  BY <1>5, <2>1 DEF Watch!Diff
    <2>4. \A n \in TwoNodes : n \in Watch!At(new, v)
            <=> Watch!Adds(e, v, n) \/ (n \in Watch!At(old, v) /\ ~Watch!Removes(e, v, n))
      BY <1>5, <2>2 DEF Watch!At, Watch!Adds, Watch!Removes
    <2>5. <<>> \in Seq(Watch!Events) /\ Head(<<e>>) = e /\ Tail(<<e>>) = <<>>  BY EmptyIsSeq
    <2> QED  BY <2>2, <2>3, <2>4, <2>5
  <1>6. CASE v \in DOMAIN new /\ v \in DOMAIN old /\ old[v] \ new[v] = {}
    <2>1. PICK e : e = Watch!Event("update", v, new[v])  OBVIOUS
    <2>2. e \in Watch!Events /\ e.action = "update" /\ e.version = v /\ e.nodes = new[v]
      BY <1>1, <1>6, <2>1, WatchEvent
    <2>3. Watch!Diff(old, new, v) = <<>> \o <<e>>  BY <1>6, <2>1 DEF Watch!Diff
    <2>4. \A n \in TwoNodes : n \in Watch!At(new, v)
            <=> Watch!Adds(e, v, n) \/ (n \in Watch!At(old, v) /\ ~Watch!Removes(e, v, n))
      BY <1>6, <2>2 DEF Watch!At, Watch!Adds, Watch!Removes
    <2>5. /\ <<>> \in Seq(Watch!Events) /\ Head(<<e>>) = e /\ Tail(<<e>>) = <<>>
          /\ <<>> \o <<e>> = <<e>>
      BY EmptyIsSeq
    <2> QED  BY <2>2, <2>3, <2>4, <2>5
  <1>7. CASE v \in DOMAIN new /\ v \in DOMAIN old /\ old[v] \ new[v] # {}
    <2>1. PICK e : e = Watch!Event("delete", v, old[v] \ new[v])  OBVIOUS
    <2>2. e \in Watch!Events /\ e.action = "delete" /\ e.version = v /\ e.nodes = old[v] \ new[v]
      <3>1. old[v] \ new[v] \in SUBSET TwoNodes  BY <1>1, <1>7
      <3> QED  BY <1>1, <2>1, <3>1, WatchEvent
    <2>3. PICK f \in Watch!Events : f = Watch!Event("update", v, new[v])
      BY <1>1, <1>7, WatchEvent
    <2>4. Watch!Diff(old, new, v) = <<e>> \o <<f>>  BY <1>7, <2>1, <2>3 DEF Watch!Diff
    <2>5. \A n \in TwoNodes : n \in Watch!At(old, v) \cap Watch!At(new, v)
            <=> Watch!Adds(e, v, n) \/ (n \in Watch!At(old, v) /\ ~Watch!Removes(e, v, n))
      BY <1>3, <1>7, <2>2 DEF Watch!At, Watch!Adds, Watch!Removes
    <2>6. /\ <<f>> \in Seq(Watch!Events)
          /\ Head(<<e>> \o <<f>>) = e /\ Tail(<<e>> \o <<f>>) = <<f>>
      <3>1. <<e>> \in Seq(Watch!Events)
        <4>1. e \in Watch!Events  BY <2>2
        <4> QED  BY <4>1
      <3>2. PICK s \in Seq(Watch!Events) : s = <<e>>  BY <3>1
      <3>3. s # <<>> /\ Head(s) = e /\ Tail(s) = <<>>  BY <3>2
      <3>4. Append(s, f) = <<e>> \o <<f>>  BY <3>2, AppendIsConcat
      <3>5. Head(Append(s, f)) = e /\ Tail(Append(s, f)) = Append(<<>>, f)
        <4>1. Head(Append(s, f)) = IF s = <<>> THEN f ELSE Head(s)  BY HeadTailAppend
        <4>2. Tail(Append(s, f)) = IF s = <<>> THEN <<>> ELSE Append(Tail(s), f)  BY HeadTailAppend
        <4> QED  BY <3>3, <4>1, <4>2
      <3>6. Append(<<>>, f) = <<f>> /\ <<f>> \in Seq(Watch!Events)  OBVIOUS
      <3> QED  BY <3>4, <3>5, <3>6
    <2> QED  BY <1>7, <2>2, <2>3, <2>4, <2>5, <2>6
  <1> QED  BY <1>4, <1>5, <1>6, <1>7

\* An event about one version: the others are as they were for the reader.
LEMMA WatchTells ==
  ASSUME Watch!Following, wNext \in Seq(Watch!Events),
         UNCHANGED <<wPlan, wServices, wListing, wView, wSeen>>,
         NEW e \in Watch!Events, wNext' = Append(wNext, e), NEW v \in Versions, e.version = v,
         wHandler.pc = "send", wHandler'.pc = "send", wHandler.data # Watch!NoEntries,
         wHandler'.data = wHandler.data, wHandler'.old = wHandler.old,
         \A w \in Versions \ {v} : Watch!Sent(w)' = Watch!Sent(w),
         \A n \in TwoNodes : n \in Watch!Sent(v)'
           <=> Watch!Adds(e, v, n) \/ (n \in Watch!Sent(v) /\ ~Watch!Removes(e, v, n))
  PROVE  Watch!Following'
  <1>1. v # 0  BY WatchAssumption
  <1>2. e # Watch!WholeService  BY <1>1 DEF Watch!WholeService, Watch!Event
  <1>3. wPlan  BY DEF Watch!Following
  <1>4. wListing.pc # "gone" /\ wListing.todo = {}  BY <1>3 DEF Watch!Following
  <1>5. ASSUME NEW w \in Versions, NEW n \in TwoNodes
        PROVE  Watch!WillHave(w, n)' <=> n \in Watch!Sent(w)'
    <2>1. Watch!WillHave(w, n) <=> n \in Watch!Sent(w)  BY <1>4 DEF Watch!Following
    <2>2. Watch!WillHave(w, n)'
            <=> Watch!Adds(e, w, n) \/ (Watch!WillHave(w, n) /\ ~Watch!Removes(e, w, n))
      BY WatchSends
    <2>3. CASE w = v  BY <2>1, <2>2, <2>3
    <2>4. CASE w # v
      <3>1. ~Watch!Adds(e, w, n) /\ ~Watch!Removes(e, w, n)
        BY <1>2, <2>4 DEF Watch!Adds, Watch!Removes
      <3> QED  BY <2>1, <2>2, <2>4, <3>1
    <2> QED  BY <2>3, <2>4
  <1>6. /\ wPlan' /\ wSeen' # Watch!NoEntries => wServices' = Watch!ServiceMap(wSeen')
        /\ wHandler'.data # Watch!NoEntries /\ wHandler'.old = wServices'
    BY DEF Watch!Following
  <1> QED  BY <1>3, <1>4, <1>5, <1>6 DEF Watch!Following

\* The rest of a version's events, or the first of another's.
LEMMA WatchSender ==
  ASSUME Watch!WatchInv, Watch!HandlerSend
  PROVE  Watch!WatchInv'
  <1>0. /\ UNCHANGED <<wEntries, wPlan, wServices, wListing, wView, wSeen, wStopped, wOvertaken>>
        /\ Watch!WatchTypeOK /\ Watch!WorkOK /\ wHandler.pc = "send"
        /\ wServices \in Watch!Maps /\ wHandler \in WatchHandlers /\ wNext \in Seq(Watch!Events)
    BY WatchType DEF Watch!WatchInv, Watch!HandlerSend
  <1>1. /\ wHandler.old \in Watch!Maps /\ wHandler.new \in Watch!Maps
        /\ wHandler.out \in Seq(Watch!Events)
        /\ wHandler.todo \subseteq DOMAIN wHandler.new
        /\ wHandler.gone \subseteq DOMAIN wHandler.old \ DOMAIN wHandler.new
        /\ wHandler.data # Watch!NoEntries => wHandler.new = Watch!ServiceMap(wHandler.data)
        /\ wListing.todo \subseteq DOMAIN wListing.old
    BY <1>0 DEF WatchHandlers, Watch!WorkOK
  <1>2. CASE wHandler.out # <<>>
    <2>1. PICK v \in (DOMAIN wHandler.old \cap DOMAIN wHandler.new) \ wHandler.todo :
            wHandler.out = <<Watch!Event("update", v, wHandler.new[v])>>
      BY <1>0, <1>2 DEF Watch!WorkOK
    <2>2. PICK e : e = Watch!Event("update", v, wHandler.new[v])  OBVIOUS
    <2>3. /\ v \in Versions /\ e \in Watch!Events /\ e.action = "update" /\ e.version = v
          /\ e.nodes = wHandler.new[v]
      BY <1>1, <2>2, WatchMap, WatchEvent
    <2>4. wHandler.out = <<e>> /\ Head(wHandler.out) = e /\ Tail(wHandler.out) = <<>>
      BY <2>1, <2>2
    <2>5. wNext' = Append(wNext, e) /\ wHandler' = [wHandler EXCEPT !.out = <<>>]
      BY <1>2, <2>4 DEF Watch!HandlerSend
    <2>6. <<>> \in Seq(Watch!Events)  BY EmptyIsSeq
    <2>7. /\ wHandler' \in WatchHandlers /\ wHandler'.pc = "send" /\ wHandler'.todo = wHandler.todo
          /\ wHandler'.gone = wHandler.gone /\ wHandler'.out = <<>> /\ wHandler'.old = wHandler.old
          /\ wHandler'.new = wHandler.new /\ wHandler'.data = wHandler.data
      BY <1>0, <2>5, <2>6 DEF WatchHandlers
    <2>8. Watch!WatchTypeOK'
      <3>1. wNext' \in Seq(Watch!Events)  BY <1>0, <2>3, <2>5
      <3> QED  BY <1>0, <2>7, <3>1, WatchType, WatchTypeNext
    <2>9. Watch!WorkOK'  BY <1>0, <1>1, <2>7 DEF Watch!WorkOK
    <2>10. ASSUME ~wStopped', ~wOvertaken'  PROVE Watch!Following'
      <3>1. Watch!Following  BY <1>0, <2>10 DEF Watch!WatchInv
      <3>2. wHandler.data # Watch!NoEntries /\ wHandler.old = wServices
        BY <1>0, <1>2, <3>1 DEF Watch!Following
      <3>3. \A w \in Versions :
              Watch!Sent(w) = IF w \in wHandler.todo \cup wHandler.gone THEN Watch!At(wServices, w)
                              ELSE IF w = v THEN Watch!At(wServices, w) \cap Watch!At(wHandler.new, w)
                              ELSE Watch!At(wHandler.new, w)
        BY <1>0, <1>2, <2>3, <2>4, <3>2 DEF Watch!Sent
      <3>4. \A w \in Versions :
              Watch!Sent(w)' = IF w \in wHandler.todo \cup wHandler.gone THEN Watch!At(wServices, w)
                               ELSE Watch!At(wHandler.new, w)
        BY <1>0, <2>7, <3>2 DEF Watch!Sent, Watch!At, Watch!NoEntries, Watch!Absent
      <3>5. v \notin wHandler.todo \cup wHandler.gone  BY <1>1, <2>1
      <3>6. \A w \in Versions \ {v} : Watch!Sent(w)' = Watch!Sent(w)  BY <3>3, <3>4
      <3>7. \A n \in TwoNodes : n \in Watch!Sent(v)'
              <=> Watch!Adds(e, v, n) \/ (n \in Watch!Sent(v) /\ ~Watch!Removes(e, v, n))
        <4>1. Watch!At(wHandler.new, v) = e.nodes  BY <2>1, <2>3 DEF Watch!At
        <4> QED  BY <2>3, <3>3, <3>4, <3>5, <4>1 DEF Watch!Adds, Watch!Removes
      <3> QED  BY <1>0, <2>3, <2>5, <2>7, <3>1, <3>2, <3>6, <3>7, WatchTells
    <2> QED  BY <2>8, <2>9, <2>10 DEF Watch!WatchInv
  <1>3. CASE wHandler.out = <<>>
    <2>1. PICK v \in wHandler.todo \cup wHandler.gone :
            /\ wNext' = Append(wNext, Head(Watch!Diff(wHandler.old, wHandler.new, v)))
            /\ wHandler' = [wHandler EXCEPT !.todo = @ \ {v}, !.gone = @ \ {v},
                              !.out = Tail(Watch!Diff(wHandler.old, wHandler.new, v))]
      BY <1>3 DEF Watch!HandlerSend
    <2>2. v \in Versions /\ v \in DOMAIN wHandler.old \cup DOMAIN wHandler.new
      BY <1>1, <2>1, WatchMap
    <2>3. PICK e \in Watch!Events, o \in Seq(Watch!Events) :
           /\ Head(Watch!Diff(wHandler.old, wHandler.new, v)) = e
           /\ Tail(Watch!Diff(wHandler.old, wHandler.new, v)) = o
           /\ e.version = v
           /\ \/ /\ o = <<>>
                 /\ \A n \in TwoNodes : n \in Watch!At(wHandler.new, v)
                      <=> Watch!Adds(e, v, n)
                            \/ (n \in Watch!At(wHandler.old, v) /\ ~Watch!Removes(e, v, n))
              \/ /\ v \in DOMAIN wHandler.old \cap DOMAIN wHandler.new
                 /\ o = <<Watch!Event("update", v, wHandler.new[v])>>
                 /\ \A n \in TwoNodes : n \in Watch!At(wHandler.old, v) \cap Watch!At(wHandler.new, v)
                      <=> Watch!Adds(e, v, n)
                            \/ (n \in Watch!At(wHandler.old, v) /\ ~Watch!Removes(e, v, n))
      <3>1. PICK old \in Watch!Maps, new \in Watch!Maps : old = wHandler.old /\ new = wHandler.new
        BY <1>1
      <3>2. v \in DOMAIN old \cup DOMAIN new  BY <2>2, <3>1
      <3>3. \E e \in Watch!Events : \E o \in Seq(Watch!Events) :
              /\ Head(Watch!Diff(old, new, v)) = e /\ Tail(Watch!Diff(old, new, v)) = o
              /\ e.version = v
              /\ \/ /\ o = <<>>
                    /\ \A n \in TwoNodes : n \in Watch!At(new, v)
                         <=> Watch!Adds(e, v, n) \/ (n \in Watch!At(old, v) /\ ~Watch!Removes(e, v, n))
                 \/ /\ v \in DOMAIN old \cap DOMAIN new
                    /\ o = <<Watch!Event("update", v, new[v])>>
                    /\ \A n \in TwoNodes : n \in Watch!At(old, v) \cap Watch!At(new, v)
                         <=> Watch!Adds(e, v, n) \/ (n \in Watch!At(old, v) /\ ~Watch!Removes(e, v, n))
        BY <3>2, WatchDiff, Zenon
      <3> QED  BY <3>1, <3>3
    <2>4. /\ wNext' = Append(wNext, e)
          /\ wHandler' = [wHandler EXCEPT !.todo = @ \ {v}, !.gone = @ \ {v}, !.out = o]
      BY <2>1, <2>3
    <2>5. /\ wHandler' \in WatchHandlers /\ wHandler'.pc = "send"
          /\ wHandler'.todo = wHandler.todo \ {v} /\ wHandler'.gone = wHandler.gone \ {v}
          /\ wHandler'.out = o /\ wHandler'.old = wHandler.old
          /\ wHandler'.new = wHandler.new /\ wHandler'.data = wHandler.data
      BY <1>0, <2>4 DEF WatchHandlers
    <2>6. Watch!WatchTypeOK'
      <3>1. wNext' \in Seq(Watch!Events)  BY <1>0, <2>4
      <3> QED  BY <1>0, <2>5, <3>1, WatchType, WatchTypeNext
    <2>7. Watch!WorkOK'
      <3>1. \/ wHandler'.out = <<>>
            \/ /\ v \in (DOMAIN wHandler'.old \cap DOMAIN wHandler'.new) \ wHandler'.todo
               /\ wHandler'.out = <<Watch!Event("update", v, wHandler'.new[v])>>
        BY <2>3, <2>5
      <3>2. \/ wHandler'.out = <<>>
            \/ \E w \in (DOMAIN wHandler'.old \cap DOMAIN wHandler'.new) \ wHandler'.todo :
                  wHandler'.out = <<Watch!Event("update", w, wHandler'.new[w])>>
        BY <3>1
      <3>3. /\ wHandler'.todo \subseteq DOMAIN wHandler'.new
            /\ wHandler'.gone \subseteq DOMAIN wHandler'.old \ DOMAIN wHandler'.new
            /\ wHandler'.data # Watch!NoEntries => wHandler'.new = Watch!ServiceMap(wHandler'.data)
            /\ wListing'.todo \subseteq DOMAIN wListing'.old
        BY <1>0, <1>1, <2>5
      <3> QED  BY <3>2, <3>3 DEF Watch!WorkOK, Watch!Event
    <2>8. ASSUME ~wStopped', ~wOvertaken'  PROVE Watch!Following'
      <3>1. Watch!Following  BY <1>0, <2>8 DEF Watch!WatchInv
      <3>2. wHandler.data # Watch!NoEntries /\ wHandler.old = wServices
        BY <1>0, <2>1, <3>1 DEF Watch!Following
      <3>3. \A w \in Versions :
              Watch!Sent(w) = IF w \in wHandler.todo \cup wHandler.gone THEN Watch!At(wServices, w)
                              ELSE Watch!At(wHandler.new, w)
        BY <1>0, <1>3, <3>2 DEF Watch!Sent
      <3>4. \A w \in Versions :
              Watch!Sent(w)' = IF w \in (wHandler.todo \cup wHandler.gone) \ {v}
                               THEN Watch!At(wServices, w)
                               ELSE IF o # <<>> /\ Head(o).version = w
                                    THEN Watch!At(wServices, w) \cap Watch!At(wHandler.new, w)
                                    ELSE Watch!At(wHandler.new, w)
        BY <1>0, <2>5, <3>2 DEF Watch!Sent, Watch!At, Watch!NoEntries, Watch!Absent
      <3>5. o # <<>> => Head(o).version = v
        <4>1. Watch!Event("update", v, wHandler.new[v]).version = v  BY DEF Watch!Event
        <4> QED  BY <2>3, <4>1
      <3>6. \A w \in Versions \ {v} : Watch!Sent(w)' = Watch!Sent(w)  BY <3>3, <3>4, <3>5
      <3>7. \A n \in TwoNodes : n \in Watch!Sent(v)'
              <=> Watch!Adds(e, v, n) \/ (n \in Watch!Sent(v) /\ ~Watch!Removes(e, v, n))
        <4>1. Watch!Sent(v) = Watch!At(wHandler.old, v)  BY <2>1, <2>2, <3>2, <3>3
        <4>2. CASE o = <<>>
          <5>1. Watch!Sent(v)' = Watch!At(wHandler.new, v)  BY <2>2, <3>4, <4>2
          <5>2. o # <<Watch!Event("update", v, wHandler.new[v])>>  BY <4>2
          <5> QED  BY <2>3, <4>1, <5>1, <5>2
        <4>3. CASE o # <<>>
          <5>1. Watch!Sent(v)' = Watch!At(wHandler.old, v) \cap Watch!At(wHandler.new, v)
            BY <2>2, <3>2, <3>4, <3>5, <4>3
          <5> QED  BY <2>3, <4>1, <4>3, <5>1
        <4> QED  BY <4>2, <4>3
      <3> QED  BY <1>0, <2>2, <2>3, <2>4, <2>5, <3>1, <3>2, <3>6, <3>7, WatchTells
    <2> QED  BY <2>6, <2>7, <2>8 DEF Watch!WatchInv
  <1> QED  BY <1>2, <1>3

\* handle tells that there is a service, or takes back what it knew of it.
LEMMA WatchLister ==
  ASSUME Watch!WatchInv, Watch!ListingSend
  PROVE  Watch!WatchInv'
  <1>0. /\ UNCHANGED <<wEntries, wPlan, wServices, wHandler, wView, wSeen, wStopped, wOvertaken>>
        /\ Watch!WatchTypeOK /\ Watch!WorkOK /\ wListing.pc # "idle"
        /\ wListing \in WatchListings /\ wNext \in Seq(Watch!Events)
    BY WatchType DEF Watch!WatchInv, Watch!ListingSend
  <1>1. wListing.old \in Watch!Maps /\ wListing.todo \subseteq DOMAIN wListing.old
    BY <1>0 DEF WatchListings, Watch!WorkOK
  <1>2. \A v \in Versions : Watch!Sent(v)' = Watch!Sent(v)
    BY <1>0 DEF Watch!Sent, Watch!At, Watch!NoEntries, Watch!Absent
  <1>3. ASSUME Watch!Following
        PROVE  /\ ~wPlan' => wServices' = Watch!NoServices /\ wHandler'.pc = "idle"
               /\ wPlan' /\ wSeen' # Watch!NoEntries => wServices' = Watch!ServiceMap(wSeen')
               /\ wHandler'.pc = "send" =>
                    IF wHandler'.data = Watch!NoEntries
                    THEN wHandler'.todo = {} /\ wHandler'.gone = {} /\ wHandler'.out = <<>>
                    ELSE wHandler'.old = wServices'
    BY <1>0, <1>3 DEF Watch!Following
  <1>4. ASSUME NEW v \in wListing.todo, wNext' = Append(wNext, Watch!Event("delete", v, wListing.old[v])),
               wListing' = [wListing EXCEPT !.todo = @ \ {v}]
        PROVE  Watch!WatchInv'
    <2>1. Watch!Event("delete", v, wListing.old[v]) \in Watch!Events
      BY <1>1, WatchMap, WatchEvent
    <2>2. /\ wListing' \in WatchListings /\ wListing'.todo \subseteq DOMAIN wListing'.old
          /\ wListing'.pc = wListing.pc
      BY <1>0, <1>1, <1>4 DEF WatchListings
    <2>3. Watch!WatchTypeOK'
      <3>1. wNext' \in Seq(Watch!Events)  BY <1>0, <1>4, <2>1
      <3> QED  BY <1>0, <2>2, <3>1, WatchType, WatchTypeNext
    <2>4. Watch!WorkOK'  BY <1>0, <2>2 DEF Watch!WorkOK
    <2>5. ASSUME ~wStopped', ~wOvertaken'  PROVE Watch!Following'
      <3>1. Watch!Following  BY <1>0, <2>5 DEF Watch!WatchInv
      <3>2. wListing.pc = "gone" /\ ~wPlan  BY <1>4, <3>1 DEF Watch!Following
      <3> QED  BY <1>0, <1>3, <2>2, <3>1, <3>2 DEF Watch!Following
    <2> QED  BY <2>3, <2>4, <2>5 DEF Watch!WatchInv
  <1>5. ASSUME wListing' = Watch!IdleListing,
               wNext' = Append(wNext, IF wListing.pc = "new" THEN Watch!NewService ELSE Watch!WholeService)
        PROVE  Watch!WatchInv'
    <2>1. PICK e : /\ e = IF wListing.pc = "new" THEN Watch!NewService ELSE Watch!WholeService
                   /\ wNext' = Append(wNext, e)
      BY <1>5
    <2>2. /\ e \in Watch!Events /\ e.version = 0
          /\ e.action = IF wListing.pc = "new" THEN "create" ELSE "delete"
      <3>1. {} \in SUBSET TwoNodes /\ 0 \in Versions \cup {0}  OBVIOUS
      <3>2. /\ Watch!NewService \in Watch!Events /\ Watch!NewService.version = 0
            /\ Watch!NewService.action = "create"
        BY <3>1, WatchEvent DEF Watch!NewService
      <3>3. /\ Watch!WholeService \in Watch!Events /\ Watch!WholeService.version = 0
            /\ Watch!WholeService.action = "delete"
        BY <3>1, WatchEvent DEF Watch!WholeService
      <3> QED  BY <2>1, <3>2, <3>3
    <2>3. wListing' \in WatchListings /\ wListing'.pc = "idle" /\ wListing'.todo = {}
      BY <1>5, WatchIdle
    <2>4. Watch!WatchTypeOK'
      <3>1. wNext' \in Seq(Watch!Events)  BY <1>0, <2>1, <2>2
      <3> QED  BY <1>0, <2>3, <3>1, WatchType, WatchTypeNext
    <2>5. Watch!WorkOK'  BY <1>0, <2>3 DEF Watch!WorkOK
    <2>6. ASSUME ~wStopped', ~wOvertaken'  PROVE Watch!Following'
      <3>1. Watch!Following  BY <1>0, <2>6 DEF Watch!WatchInv
      <3>2. ASSUME NEW v \in Versions, NEW n \in TwoNodes
            PROVE  Watch!WillHave(v, n)' <=> n \in Watch!Sent(v)'
        <4>1. Watch!WillHave(v, n)'
                <=> Watch!Adds(e, v, n) \/ (Watch!WillHave(v, n) /\ ~Watch!Removes(e, v, n))
          BY <1>0, <2>1, WatchSends
        <4>2. ~Watch!Adds(e, v, n)
          <5>1. v # 0  BY WatchAssumption
          <5> QED  BY <2>2, <5>1 DEF Watch!Adds
        <4>3. CASE wListing.pc = "new"
          <5>1. ~Watch!Removes(e, v, n)  BY <2>2, <4>3 DEF Watch!Removes
          <5>2. Watch!WillHave(v, n) <=> n \in Watch!Sent(v)  BY <3>1, <4>3 DEF Watch!Following
          <5> QED  BY <1>2, <4>1, <4>2, <5>1, <5>2
        <4>4. CASE wListing.pc = "gone"
          <5>1. Watch!Removes(e, v, n)  BY <2>1, <2>2, <4>4 DEF Watch!Removes
          <5>2. ~wPlan /\ wHandler.pc = "idle" /\ wServices = Watch!NoServices
            BY <3>1, <4>4 DEF Watch!Following
          <5>3. Watch!Sent(v) = {}  BY <5>2, WatchNone DEF Watch!Sent
          <5> QED  BY <1>2, <4>1, <4>2, <5>1, <5>3
        <4> QED  BY <1>0, <4>3, <4>4 DEF WatchListings
      <3> QED  BY <1>3, <2>3, <3>1, <3>2 DEF Watch!Following
    <2> QED  BY <2>4, <2>5, <2>6 DEF Watch!WatchInv
  <1> QED  BY <1>4, <1>5 DEF Watch!ListingSend

LEMMA WatchInitInv == Watch!WatchInit => Watch!WatchInv
  <1> SUFFICES ASSUME Watch!WatchInit  PROVE Watch!WatchInv
    OBVIOUS
  <1>1. /\ wEntries = Watch!NoEntries /\ wPlan = FALSE /\ wServices = Watch!NoServices
        /\ wHandler = Watch!IdleHandler /\ wListing = Watch!IdleListing /\ wNext = <<>>
        /\ wView = [v \in Versions |-> {}] /\ wSeen = Watch!NoEntries
    BY DEF Watch!WatchInit
  <1>2. Watch!WatchTypeOK  BY <1>1, EmptyIsSeq, WatchNone, WatchIdle, WatchType
  <1>3. Watch!WorkOK  BY <1>1, WatchIdle DEF Watch!WorkOK
  <1>4. \A v \in Versions : \A n \in TwoNodes : Watch!WillHave(v, n) <=> n \in Watch!Sent(v)
    <2>1. \A v \in Versions : Watch!Sent(v) = {}  BY <1>1, WatchIdle, WatchNone DEF Watch!Sent
    <2>2. \A v \in Versions : \A n \in TwoNodes : ~Watch!WillHave(v, n)
      BY <1>1 DEF Watch!WillHave
    <2> QED  BY <2>1, <2>2
  <1>5. Watch!Following  BY <1>1, <1>4, WatchIdle DEF Watch!Following
  <1> QED  BY <1>2, <1>3, <1>5 DEF Watch!WatchInv

LEMMA WatchNextInv == Watch!WatchInv /\ [Watch!WatchNext]_watchVars => Watch!WatchInv'
  <1> SUFFICES ASSUME Watch!WatchInv, [Watch!WatchNext]_watchVars  PROVE Watch!WatchInv'
    OBVIOUS
  <1>1. CASE UNCHANGED watchVars
    <2>1. UNCHANGED <<wEntries, wPlan, wServices, wHandler, wListing, wNext, wView, wSeen,
                      wStopped, wOvertaken>>
      BY <1>1 DEF watchVars
    <2>2. Watch!WatchTypeOK'  BY <2>1, WatchType, WatchTypeNext DEF Watch!WatchInv
    <2>3. Watch!WorkOK'  BY <2>1, WatchWorks DEF Watch!WatchInv
    <2>4. ~wStopped' /\ ~wOvertaken' => Watch!Following'
      BY <2>1, WatchKept, WatchFollows DEF Watch!WatchInv
    <2> QED  BY <2>2, <2>3, <2>4 DEF Watch!WatchInv
  <1> QED  BY <1>1, WatchChanges, WatchHandles, WatchSender, WatchHandled, WatchListed,
              WatchDropped, WatchLister, WatchReader, WatchStop
           DEF Watch!WatchNext

\* With every event read, what the reader has is what was sent; with the answer
\* handled, that is the catalog.
LEMMA WatchIsExact == Watch!WatchInv => Watch!WatchExact
  <1> SUFFICES ASSUME Watch!WatchInv, Watch!CaughtUp, ~wOvertaken, NEW v \in Versions
               PROVE  wView[v] = Watch!Healthy(v)
    BY DEF Watch!WatchExact
  <1>1. /\ ~wStopped /\ wHandler.pc = "idle" /\ wListing.pc = "idle" /\ wNext = <<>>
        /\ wPlan = (wEntries # Watch!NoEntries) /\ (wPlan => wSeen = wEntries)
    BY DEF Watch!CaughtUp
  <1>2. Watch!Following /\ Watch!WatchTypeOK  BY <1>1 DEF Watch!WatchInv
  <1>3. wEntries \in WatchEntries /\ wView \in [Versions -> SUBSET TwoNodes]  BY <1>2, WatchType
  <1>4. Watch!Sent(v) = Watch!At(wServices, v)  BY <1>1 DEF Watch!Sent
  <1>5. \A n \in TwoNodes : n \in wView[v] <=> n \in Watch!At(wServices, v)
    <2>1. \A n \in TwoNodes : Watch!WillHave(v, n) <=> n \in wView[v]
      BY <1>1 DEF Watch!WillHave
    <2> QED  BY <1>1, <1>2, <1>4, <2>1 DEF Watch!Following
  <1>6. Watch!Healthy(v) = Watch!At(wServices, v)
    <2>1. CASE wPlan
      <3>1. wServices = Watch!ServiceMap(wEntries)  BY <1>1, <1>2, <2>1 DEF Watch!Following
      <3> QED  BY <1>3, <3>1, WatchServiceMap DEF Watch!Healthy
    <2>2. CASE ~wPlan
      <3>1. Watch!At(wServices, v) = {}  BY <1>2, <2>2, WatchNone DEF Watch!Following
      <3>2. v # 0 /\ wEntries = Watch!NoEntries  BY <1>1, <2>2, WatchAssumption
      <3>3. \A n \in TwoNodes : wEntries[n].version = 0
        BY <3>2 DEF Watch!NoEntries, Watch!Absent
      <3> QED  BY <3>1, <3>2, <3>3 DEF Watch!Healthy
    <2> QED  BY <2>1, <2>2
  <1>7. Watch!Healthy(v) \subseteq TwoNodes  BY DEF Watch!Healthy
  <1> QED  BY <1>3, <1>5, <1>6, <1>7

---------------------------------------------------------------------------
(* What is cached of others.                                               *)

LEMMA StaticStarts == Static!StaticIdle => Static!StaticInit
  BY DEF Static!StaticIdle, Static!StaticInit

\* Lookup, Query and messageToEntry of the mdns registry, the consul watcher's
\* serviceHandler and handle, and the static file store: a finished lookup has
\* just the nodes whose answer arrived, a reader of the watcher's events has the
\* catalog's nodes, and a file that is served is the one on disk, however
\* datagrams, answers and writes fall between their steps.
THEOREM ViewsAreExact == Spec => []ViewsExact
  <1> DEFINE I == Lookup!LookupInv /\ Watch!WatchInv /\ Static!StaticInv
  <1>1. Init => I
    <2>1. Init => Static!StaticInit  BY StaticStarts DEF Init
    <2>2. Init => Lookup!LookupInit /\ Watch!WatchInit  BY DEF Init
    <2> QED  BY <2>1, <2>2, LookupInitInv, WatchInitInv, StaticInitInv
  <1>2. I /\ [Next]_vars => I'
    BY LookupMoves, LookupNextInv, WatchMoves, WatchNextInv, StaticMoves, StaticNextInv
  <1>3. I => ViewsExact
    BY WatchIsExact DEF ViewsExact, Lookup!LookupInv, Static!StaticInv
  <1> QED  BY <1>1, <1>2, <1>3, PTL DEF Spec

---------------------------------------------------------------------------
(* The mdns registry keeps the promise of every registry.                  *)

LEMMA MdnsAllows ==
  ASSUME NEW a, NEW b
  PROVE  Mdns!MdnsBackend!Allowed(a, b) <=> EtcdBackend!Allowed(a, b)
  BY DEF Mdns!MdnsBackend!Allowed, Mdns!MdnsBackend!Ask, Mdns!MdnsBackend!Publish,
         Mdns!MdnsBackend!Confirm, Mdns!MdnsBackend!Reask, Mdns!MdnsBackend!Depart,
         Mdns!MdnsBackend!Vanish, Mdns!MdnsBackend!FallDue, Mdns!MdnsBackend!Lapse,
         EtcdBackend!Allowed, EtcdBackend!Ask, EtcdBackend!Publish,
         EtcdBackend!Confirm, EtcdBackend!Reask, EtcdBackend!Depart,
         EtcdBackend!Vanish, EtcdBackend!FallDue, EtcdBackend!Lapse

LEMMA MdnsMoves == [Next]_vars => [Mdns!MdnsNext]_mdnsVars
  BY DEF Next, vars, MdnsRuns, LookupRuns, WatchRuns, PublishRuns, FanRuns,
         SocketRuns, LogRuns, HttpRuns, ProxyRuns, StaticRuns, FacadeRuns

MdnsCalls == [pc : {"free", "start", "stop"}, todo : SUBSET TwoNodes,
              base : SUBSET (TwoNodes \cup {"*", "absent"}), err : BOOLEAN]

LEMMA MdnsType ==
  Mdns!MdnsTypeOK <=> /\ dLive \in [TwoNodes -> Nat] /\ dWanted \subseteq TwoNodes
                      /\ dCall \in MdnsCalls
                      /\ dServices \subseteq TwoNodes \cup {"*", "absent"}
  BY DEF Mdns!MdnsTypeOK, MdnsCalls

LEMMA MdnsTypeNext ==
  Mdns!MdnsTypeOK' <=> /\ dLive' \in [TwoNodes -> Nat] /\ dWanted' \subseteq TwoNodes
                       /\ dCall' \in MdnsCalls
                       /\ dServices' \subseteq TwoNodes \cup {"*", "absent"}
  BY DEF Mdns!MdnsTypeOK, MdnsCalls

LEMMA MdnsFree ==
  /\ Mdns!Free \in MdnsCalls /\ Mdns!Free.pc = "free"
  /\ \A n \in TwoNodes : n \notin Mdns!Absent /\ n # "*"
  BY MdnsAssumption DEF Mdns!Free, MdnsCalls, Mdns!Absent

\* What the abstract specification sees of a node, and what a step does to it.
MdnsAge(n)  == IF n \in dWanted /\ n \in dServices THEN "fresh" ELSE "out"
MdnsGoes(n) == Moves(n \in dWanted, dLive[n] > 0, MdnsAge(n),
                     n \in dWanted', dLive'[n] > 0, MdnsAge(n)')

LEMMA MdnsStays ==
  ASSUME NEW n \in TwoNodes, dLive'[n] = dLive[n], n \in dWanted' <=> n \in dWanted,
         n \in dWanted => (n \in dServices' <=> n \in dServices)
  PROVE  MdnsGoes(n)
  BY DEF MdnsGoes, Moves, MdnsAge

LEMMA MdnsRegisters ==
  ASSUME Mdns!MdnsInv, NEW S \in Mdns!NodeLists, Mdns!Register(S)
  PROVE  Mdns!MdnsInv' /\ \A n \in TwoNodes : MdnsGoes(n)
  <1>0. /\ dLive \in [TwoNodes -> Nat] /\ dWanted \subseteq TwoNodes /\ dCall \in MdnsCalls
        /\ dServices \subseteq TwoNodes \cup {"*", "absent"} /\ S \subseteq TwoNodes
        /\ dCall.pc = "free" /\ dWanted' = dWanted \cup S
        /\ UNCHANGED <<dServices, dLive, dClosing>>
    BY MdnsType DEF Mdns!MdnsInv, Mdns!Register, Mdns!NodeLists
  <1>1. \/ dCall' = dCall
        \/ /\ dCall' \in MdnsCalls /\ dCall'.pc = "start" /\ dCall'.todo \subseteq S
           /\ \/ dServices = Mdns!Absent /\ dCall'.base = {"*"}
              \/ dServices # Mdns!Absent /\ dCall'.base = dServices
    <2>1. CASE dCall' = [pc |-> "start", todo |-> S, base |-> {"*"}, err |-> FALSE]
               /\ dServices = Mdns!Absent
      BY <1>0, <2>1 DEF MdnsCalls
    <2>2. CASE dCall' = [pc |-> "start", todo |-> S \ dServices, base |-> dServices, err |-> FALSE]
               /\ dServices # Mdns!Absent
      BY <1>0, <2>2 DEF MdnsCalls
    <2> QED  BY <2>1, <2>2 DEF Mdns!Register
  <1>2. \A n \in TwoNodes : n \in dServices => dLive[n] > 0
    BY <1>0 DEF Mdns!MdnsInv, Mdns!Answered, Mdns!Up
  <1>3. ASSUME NEW n \in TwoNodes  PROVE Mdns!Answered(n)' /\ MdnsGoes(n)
    <2>1. n \notin Mdns!Absent /\ n # "*"  BY MdnsFree
    <2>2. Mdns!Answered(n)'
      BY <1>0, <1>1, <1>2, <2>1 DEF Mdns!Answered, Mdns!Up
    <2>3. MdnsGoes(n)  BY <1>0, <1>2 DEF MdnsGoes, Moves, MdnsAge
    <2> QED  BY <2>2, <2>3
  <1>4. Mdns!MdnsTypeOK'  BY <1>0, <1>1, MdnsTypeNext
  <1> QED  BY <1>3, <1>4 DEF Mdns!MdnsInv

LEMMA MdnsStarts ==
  ASSUME Mdns!MdnsInv, NEW m \in TwoNodes, Mdns!StartNode(m)
  PROVE  Mdns!MdnsInv' /\ \A n \in TwoNodes : MdnsGoes(n)
  <1>0. /\ dLive \in [TwoNodes -> Nat] /\ dWanted \subseteq TwoNodes /\ dCall \in MdnsCalls
        /\ dServices \subseteq TwoNodes \cup {"*", "absent"}
        /\ dCall.pc = "start" /\ m \in dCall.todo
        /\ UNCHANGED <<dServices, dWanted, dClosing>>
    BY MdnsType DEF Mdns!MdnsInv, Mdns!StartNode
  <1>1. /\ dCall' \in MdnsCalls /\ dCall'.pc = "start" /\ dCall'.todo = dCall.todo \ {m}
        /\ \/ dCall'.base = dCall.base \cup {m} /\ dLive' = [dLive EXCEPT ![m] = @ + 1]
           \/ dCall'.base = dCall.base /\ dLive' = dLive
    <2>1. CASE dCall' = [dCall EXCEPT !.todo = @ \ {m}, !.base = @ \cup {m}]
               /\ dLive' = [dLive EXCEPT ![m] = @ + 1]
      BY <1>0, <2>1 DEF MdnsCalls
    <2>2. CASE dCall' = [dCall EXCEPT !.todo = @ \ {m}, !.err = TRUE] /\ dLive' = dLive
      BY <1>0, <2>2 DEF MdnsCalls
    <2> QED  BY <2>1, <2>2 DEF Mdns!StartNode
  <1>2. dLive' \in [TwoNodes -> Nat] /\ \A n \in TwoNodes : dLive[n] > 0 => dLive'[n] > 0
    BY <1>0, <1>1
  <1>3. m \in dWanted  BY <1>0 DEF Mdns!MdnsInv, Mdns!Answered
  <1>4. ASSUME NEW n \in TwoNodes  PROVE Mdns!Answered(n)' /\ MdnsGoes(n)
    <2>1. Mdns!Answered(n)  BY DEF Mdns!MdnsInv
    <2>2. n \in dCall'.base => dLive'[n] > 0
      BY <1>0, <1>1, <1>2, <2>1 DEF Mdns!Answered, Mdns!Up
    <2>3. Mdns!Answered(n)'
      BY <1>0, <1>1, <1>2, <2>1, <2>2 DEF Mdns!Answered, Mdns!Up
    <2>4. MdnsGoes(n)
      <3>1. CASE n = m  BY <1>0, <1>2, <1>3, <3>1 DEF MdnsGoes, Moves, MdnsAge
      <3>2. CASE n # m
        <4>1. dLive'[n] = dLive[n]  BY <1>0, <1>1, <3>2
        <4> QED  BY <1>0, <4>1, MdnsStays
      <3> QED  BY <3>1, <3>2
    <2> QED  BY <2>3, <2>4
  <1>5. Mdns!MdnsTypeOK'  BY <1>0, <1>1, <1>2, MdnsTypeNext
  <1> QED  BY <1>4, <1>5 DEF Mdns!MdnsInv

LEMMA MdnsRegistered ==
  ASSUME Mdns!MdnsInv, Mdns!RegisterEnds
  PROVE  Mdns!MdnsInv' /\ \A n \in TwoNodes : MdnsGoes(n)
  <1>0. /\ dLive \in [TwoNodes -> Nat] /\ dWanted \subseteq TwoNodes /\ dCall \in MdnsCalls
        /\ dServices \subseteq TwoNodes \cup {"*", "absent"}
        /\ dCall.pc = "start" /\ dCall' = Mdns!Free
        /\ dServices' = dServices \/ dServices' = dCall.base
        /\ UNCHANGED <<dLive, dWanted, dClosing>>
    BY MdnsType DEF Mdns!MdnsInv, Mdns!RegisterEnds
  <1>1. dCall.base \subseteq TwoNodes \cup {"*", "absent"}  BY <1>0 DEF MdnsCalls
  <1>2. ASSUME NEW n \in TwoNodes  PROVE Mdns!Answered(n)' /\ MdnsGoes(n)
    <2>1. /\ n \in dServices => n \in dCall.base
          /\ n \in dCall.base => dLive[n] > 0
      BY <1>0 DEF Mdns!MdnsInv, Mdns!Answered, Mdns!Up
    <2>2. Mdns!Answered(n)'  BY <1>0, <2>1, MdnsFree DEF Mdns!Answered, Mdns!Up
    <2>3. MdnsGoes(n)  BY <1>0, <2>1 DEF MdnsGoes, Moves, MdnsAge
    <2> QED  BY <2>2, <2>3
  <1>3. Mdns!MdnsTypeOK'  BY <1>0, <1>1, MdnsFree, MdnsTypeNext
  <1> QED  BY <1>2, <1>3 DEF Mdns!MdnsInv

LEMMA MdnsDeregisters ==
  ASSUME Mdns!MdnsInv, NEW S \in Mdns!NodeLists, Mdns!Deregister(S)
  PROVE  Mdns!MdnsInv' /\ \A n \in TwoNodes : MdnsGoes(n)
  <1>0. /\ dLive \in [TwoNodes -> Nat] /\ dWanted \subseteq TwoNodes /\ dCall \in MdnsCalls
        /\ dServices \subseteq TwoNodes \cup {"*", "absent"} /\ S \subseteq TwoNodes
        /\ dCall.pc = "free" /\ dWanted' = dWanted \ S
        /\ dCall' = [pc |-> "stop", todo |-> dServices \cap S,
                     base |-> dServices \ (S \cup Mdns!Absent), err |-> FALSE]
        /\ UNCHANGED <<dServices, dLive, dClosing>>
    BY MdnsType DEF Mdns!MdnsInv, Mdns!Deregister, Mdns!NodeLists
  <1>1. /\ dCall' \in MdnsCalls /\ dCall'.pc = "stop" /\ dCall'.todo = dServices \cap S
        /\ dCall'.base = dServices \ (S \cup Mdns!Absent)
    BY <1>0 DEF MdnsCalls
  <1>2. \A n \in TwoNodes : n \in dServices => dLive[n] > 0
    BY <1>0 DEF Mdns!MdnsInv, Mdns!Answered, Mdns!Up
  <1>3. ASSUME NEW n \in TwoNodes  PROVE Mdns!Answered(n)' /\ MdnsGoes(n)
    <2>1. n \notin Mdns!Absent  BY MdnsFree
    <2>2. Mdns!Answered(n)'  BY <1>0, <1>1, <1>2, <2>1 DEF Mdns!Answered, Mdns!Up
    <2>3. MdnsGoes(n)  BY <1>0 DEF MdnsGoes, Moves, MdnsAge
    <2> QED  BY <2>2, <2>3
  <1>4. Mdns!MdnsTypeOK'  BY <1>0, <1>1, MdnsTypeNext
  <1> QED  BY <1>3, <1>4 DEF Mdns!MdnsInv

LEMMA MdnsUnregisters ==
  ASSUME Mdns!MdnsInv, NEW m \in TwoNodes, Mdns!Unregister(m)
  PROVE  Mdns!MdnsInv' /\ \A n \in TwoNodes : MdnsGoes(n)
  <1>0. /\ dLive \in [TwoNodes -> Nat] /\ dWanted \subseteq TwoNodes /\ dCall \in MdnsCalls
        /\ dServices \subseteq TwoNodes \cup {"*", "absent"}
        /\ dCall.pc = "stop" /\ m \in dCall.todo /\ m \notin dClosing
        /\ dLive' = [dLive EXCEPT ![m] = @ - 1] /\ dClosing' = dClosing \cup {m}
        /\ UNCHANGED <<dServices, dWanted, dCall>>
    BY MdnsType DEF Mdns!MdnsInv, Mdns!Unregister
  <1>1. dLive[m] > 0 /\ m \notin dWanted /\ m \notin dCall.base
    BY <1>0 DEF Mdns!MdnsInv, Mdns!Answered, Mdns!Up
  <1>2. dLive' \in [TwoNodes -> Nat] /\ \A n \in TwoNodes \ {m} : dLive'[n] = dLive[n]
    BY <1>0, <1>1
  <1>3. ASSUME NEW n \in TwoNodes  PROVE Mdns!Answered(n)' /\ MdnsGoes(n)
    <2>1. Mdns!Answered(n)  BY DEF Mdns!MdnsInv
    <2>2. CASE n = m
      <3>1. Mdns!Answered(n)'  BY <1>0, <1>1, <2>1, <2>2 DEF Mdns!Answered, Mdns!Up
      <3>2. MdnsGoes(n)  BY <1>0, <1>1, <1>2, <2>2 DEF MdnsGoes, Moves, MdnsAge
      <3> QED  BY <3>1, <3>2
    <2>3. CASE n # m
      <3>1. dLive'[n] = dLive[n]  BY <1>2, <2>3
      <3>2. Mdns!Answered(n)'  BY <1>0, <2>1, <2>3, <3>1 DEF Mdns!Answered, Mdns!Up
      <3> QED  BY <1>0, <3>1, <3>2, MdnsStays
    <2> QED  BY <2>2, <2>3
  <1>4. Mdns!MdnsTypeOK'  BY <1>0, <1>2, MdnsTypeNext
  <1> QED  BY <1>3, <1>4 DEF Mdns!MdnsInv

LEMMA MdnsCloses ==
  ASSUME Mdns!MdnsInv, NEW m \in TwoNodes, Mdns!Closed(m)
  PROVE  Mdns!MdnsInv' /\ \A n \in TwoNodes : MdnsGoes(n)
  <1>0. /\ dLive \in [TwoNodes -> Nat] /\ dWanted \subseteq TwoNodes /\ dCall \in MdnsCalls
        /\ dServices \subseteq TwoNodes \cup {"*", "absent"}
        /\ dCall.pc = "stop" /\ dClosing' = dClosing \ {m}
        /\ dCall' = [dCall EXCEPT !.todo = @ \ {m}]
        /\ UNCHANGED <<dServices, dLive, dWanted>>
    BY MdnsType DEF Mdns!MdnsInv, Mdns!Closed
  <1>1. /\ dCall' \in MdnsCalls /\ dCall'.pc = "stop" /\ dCall'.todo = dCall.todo \ {m}
        /\ dCall'.base = dCall.base
    BY <1>0 DEF MdnsCalls
  <1>2. ASSUME NEW n \in TwoNodes  PROVE Mdns!Answered(n)' /\ MdnsGoes(n)
    <2>1. Mdns!Answered(n)  BY DEF Mdns!MdnsInv
    <2>2. Mdns!Answered(n)'  BY <1>0, <1>1, <2>1 DEF Mdns!Answered, Mdns!Up
    <2> QED  BY <1>0, <2>2, MdnsStays
  <1>3. Mdns!MdnsTypeOK'  BY <1>0, <1>1, MdnsTypeNext
  <1> QED  BY <1>2, <1>3 DEF Mdns!MdnsInv

LEMMA MdnsDeregistered ==
  ASSUME Mdns!MdnsInv, Mdns!DeregisterEnds
  PROVE  Mdns!MdnsInv' /\ \A n \in TwoNodes : MdnsGoes(n)
  <1>0. /\ dLive \in [TwoNodes -> Nat] /\ dWanted \subseteq TwoNodes /\ dCall \in MdnsCalls
        /\ dServices \subseteq TwoNodes \cup {"*", "absent"}
        /\ dCall.pc = "stop" /\ dCall' = Mdns!Free
        /\ \/ dCall.base = {"*"} /\ dServices' = Mdns!Absent
           \/ dServices' = dCall.base
        /\ UNCHANGED <<dLive, dWanted, dClosing>>
    BY MdnsType DEF Mdns!MdnsInv, Mdns!DeregisterEnds
  <1>1. dServices' \subseteq TwoNodes \cup {"*", "absent"}
    BY <1>0 DEF MdnsCalls, Mdns!Absent
  <1>2. ASSUME NEW n \in TwoNodes  PROVE Mdns!Answered(n)' /\ MdnsGoes(n)
    <2>1. Mdns!Answered(n)  BY DEF Mdns!MdnsInv
    <2>2. n \notin Mdns!Absent /\ n # "*"  BY MdnsFree
    <2>3. n \in dServices' <=> n \in dCall.base  BY <1>0, <2>2
    <2>4. /\ n \in dCall.base => n \in dServices /\ dLive[n] > 0
          /\ n \in dServices /\ n \in dWanted => n \in dCall.base
      BY <1>0, <2>1 DEF Mdns!Answered, Mdns!Up
    <2>5. Mdns!Answered(n)'  BY <1>0, <2>3, <2>4, MdnsFree DEF Mdns!Answered, Mdns!Up
    <2> QED  BY <1>0, <2>3, <2>4, <2>5, MdnsStays
  <1>3. Mdns!MdnsTypeOK'  BY <1>0, <1>1, MdnsFree, MdnsTypeNext
  <1> QED  BY <1>2, <1>3 DEF Mdns!MdnsInv

\* Announcements, watchers, and steps of other components.
LEMMA MdnsIdles ==
  ASSUME Mdns!MdnsInv, UNCHANGED <<dServices, dLive, dClosing, dWanted, dCall>>
  PROVE  Mdns!MdnsInv' /\ \A n \in TwoNodes : MdnsGoes(n)
  <1>1. Mdns!MdnsInv'
    BY DEF Mdns!MdnsInv, Mdns!MdnsTypeOK, Mdns!Answered, Mdns!Up
  <1> QED  BY <1>1, MdnsStays

LEMMA MdnsSteps ==
  ASSUME Mdns!MdnsInv, [Mdns!MdnsNext]_mdnsVars
  PROVE  Mdns!MdnsInv' /\ \A n \in TwoNodes : MdnsGoes(n)
  <1>1. CASE \/ UNCHANGED mdnsVars \/ Mdns!Watch \/ Mdns!StopWatcher
             \/ \E n \in TwoNodes : Mdns!Announce(n)
    <2>1. UNCHANGED <<dServices, dLive, dClosing, dWanted, dCall>>
      BY <1>1 DEF mdnsVars, Mdns!Watch, Mdns!StopWatcher, Mdns!Announce
    <2> QED  BY <2>1, MdnsIdles
  <1> QED  BY <1>1, MdnsRegisters, MdnsStarts, MdnsRegistered, MdnsDeregisters, MdnsUnregisters,
              MdnsCloses, MdnsDeregistered
           DEF Mdns!MdnsNext

LEMMA MdnsInitInv == Mdns!MdnsInit => Mdns!MdnsInv
  <1> SUFFICES ASSUME Mdns!MdnsInit  PROVE Mdns!MdnsInv
    OBVIOUS
  <1>1. /\ dServices = Mdns!Absent /\ dLive = [n \in TwoNodes |-> 0] /\ dWanted = {}
        /\ dCall = Mdns!Free
    BY DEF Mdns!MdnsInit
  <1>2. dServices \subseteq TwoNodes \cup {"*", "absent"}  BY <1>1 DEF Mdns!Absent
  <1>3. Mdns!MdnsTypeOK  BY <1>1, <1>2, MdnsFree, MdnsType
  <1>4. \A n \in TwoNodes : Mdns!Answered(n)  BY <1>1, MdnsFree DEF Mdns!Answered
  <1> QED  BY <1>3, <1>4 DEF Mdns!MdnsInv

\* The refinement mapping of MdnsBackend.
MdnsAbs == [n \in TwoNodes |-> State(n \in dWanted, Mdns!Up(n), MdnsAge(n))]

LEMMA MdnsInitRefines == Mdns!MdnsInit => Mdns!MdnsBackend!PInit
  <1> SUFFICES ASSUME Mdns!MdnsInit  PROVE Mdns!MdnsBackend!PInit
    OBVIOUS
  <1>1. ASSUME NEW n \in TwoNodes
        PROVE  /\ (n \in dWanted) = FALSE /\ Mdns!Up(n) = FALSE
               /\ (IF n \in dWanted /\ n \in dServices THEN "fresh" ELSE "out") = "out"
    BY DEF Mdns!MdnsInit, Mdns!Up
  <1> QED  BY <1>1, Zenon DEF Mdns!MdnsBackend!PInit

LEMMA MdnsNextRefines ==
  ASSUME Mdns!MdnsInv, [Mdns!MdnsNext]_mdnsVars
  PROVE  Mdns!MdnsBackend!PNext
  <1>1. ASSUME NEW m \in TwoNodes
        PROVE  Mdns!MdnsBackend!Allowed(MdnsAbs[m], MdnsAbs'[m])
    <2>1. MdnsGoes(m)  BY MdnsSteps
    <2>2. PICK w \in BOOLEAN, v \in BOOLEAN, x \in BOOLEAN, u \in BOOLEAN :
            /\ (w <=> m \in dWanted) /\ (v <=> dLive[m] > 0)
            /\ (x <=> m \in dWanted') /\ (u <=> dLive'[m] > 0)
      OBVIOUS
    <2>3. /\ w = (m \in dWanted) /\ v = Mdns!Up(m)
          /\ x = (m \in dWanted') /\ u = Mdns!Up(m)'
      BY <2>2 DEF Mdns!Up
    <2>4. Moves(w, v, MdnsAge(m), x, u, MdnsAge(m)')
      BY <2>1, <2>2 DEF MdnsGoes, Moves
    <2>5. EtcdBackend!Allowed(State(w, v, MdnsAge(m)), State(x, u, MdnsAge(m)'))
      BY <2>4, MovesAreAllowed
    <2>6. MdnsAbs[m] = State(w, v, MdnsAge(m)) /\ MdnsAbs'[m] = State(x, u, MdnsAge(m)')
      BY <2>3 DEF MdnsAbs
    <2> QED  BY <2>5, <2>6, MdnsAllows
  <1> QED  BY <1>1 DEF Mdns!MdnsBackend!PNext, MdnsAbs, State, MdnsAge, Mdns!Up

\* Register and Deregister of the mdns registry keep the promise of every registry:
\* a node with an entry is answered for until its owner leaves, whatever is
\* registered, fails and is removed beside it.
THEOREM MdnsKeepsPromise == Spec => MdnsPromise
  <1>1. Init => Mdns!MdnsInv /\ Mdns!MdnsBackend!PInit
    BY MdnsInitInv, MdnsInitRefines DEF Init
  <1>2. Mdns!MdnsInv /\ [Next]_vars => Mdns!MdnsInv'  BY MdnsMoves, MdnsSteps
  <1>3. Mdns!MdnsInv /\ [Next]_vars =>
          [Mdns!MdnsBackend!PNext]_[n \in TwoNodes |->
             [want |-> n \in dWanted, visible |-> Mdns!Up(n),
              age |-> IF n \in dWanted /\ n \in dServices THEN "fresh" ELSE "out"]]
    BY MdnsMoves, MdnsNextRefines
  <1> QED  BY <1>1, <1>2, <1>3, PTL
           DEF Spec, MdnsPromise, Mdns!MdnsPromise, Mdns!MdnsBackend!PSpec

---------------------------------------------------------------------------
(* The memory registry keeps the promise of every registry.                *)

CONSTANTS VersionOf, MemoryWatchers, MaxSends
VARIABLES mKnown, mRec, mWanted, mWatcher, mWatchers, mInNext, mSends

Memory == INSTANCE MemoryRegistry WITH
    known <- mKnown, rec <- mRec, wanted <- mWanted, watcher <- mWatcher,
    watchers <- mWatchers, inNext <- mInNext, sends <- mSends,
    Watchers <- MemoryWatchers

LEMMA MemoryAllows ==
  ASSUME NEW a, NEW b
  PROVE  Memory!MemoryBackend!Allowed(a, b) <=> EtcdBackend!Allowed(a, b)
  BY DEF Memory!MemoryBackend!Allowed, Memory!MemoryBackend!Ask, Memory!MemoryBackend!Publish,
         Memory!MemoryBackend!Confirm, Memory!MemoryBackend!Reask, Memory!MemoryBackend!Depart,
         Memory!MemoryBackend!Vanish, Memory!MemoryBackend!FallDue, Memory!MemoryBackend!Lapse,
         EtcdBackend!Allowed, EtcdBackend!Ask, EtcdBackend!Publish,
         EtcdBackend!Confirm, EtcdBackend!Reask, EtcdBackend!Depart,
         EtcdBackend!Vanish, EtcdBackend!FallDue, EtcdBackend!Lapse

\* What a lookup returns, and the age the abstract specification gives a node.
MemoryFinds(n)  == VersionOf[n] \in mKnown /\ mRec[n] # "none"
MemoryAgeOf(n)  == IF n \in mWanted /\ mRec[n] # "none"
                   THEN IF mRec[n] = "due" THEN "due" ELSE "fresh"
                   ELSE "out"
MemoryGoes(n) == Moves(n \in mWanted, MemoryFinds(n), MemoryAgeOf(n),
                       n \in mWanted', MemoryFinds(n)', MemoryAgeOf(n)')

\* The nodes of a list are of one version.
LEMMA MemoryList ==
  ASSUME NEW S \in Memory!NodeLists
  PROVE  S \subseteq Nodes /\ \A n \in S : VersionOf[n] = Memory!VersionOfList(S)
  <1>1. S \subseteq Nodes /\ S # {} /\ \A m, n \in S : VersionOf[m] = VersionOf[n]
    BY DEF Memory!NodeLists
  <1>2. PICK c : c = CHOOSE n \in S : TRUE  OBVIOUS
  <1>3. c \in S  BY <1>1, <1>2
  <1>4. Memory!VersionOfList(S) = VersionOf[c]  BY <1>2 DEF Memory!VersionOfList
  <1> QED  BY <1>1, <1>3, <1>4

LEMMA MemoryRegisters ==
  ASSUME Memory!MemoryInv, NEW S \in Memory!NodeLists, Memory!Register(S) \/ Memory!Seed(S)
  PROVE  Memory!MemoryInv' /\ \A n \in Nodes : MemoryGoes(n)
  <1>0. /\ mRec \in [Nodes -> {"none", "fresh", "due", "kept"}]
        /\ \A n \in Nodes : mRec[n] # "none" => VersionOf[n] \in mKnown
        /\ S \subseteq Nodes /\ \A n \in S : VersionOf[n] = Memory!VersionOfList(S)
    BY MemoryList DEF Memory!MemoryInv
  <1>1. PICK v : v = Memory!VersionOfList(S)  OBVIOUS
  <1>2. PICK T \in SUBSET S, age \in {"fresh", "kept"} :
          /\ mRec' = [n \in Nodes |-> IF n \in T THEN age ELSE mRec[n]]
          /\ \A n \in S \ T : mRec[n] # "none"
    <2>1. CASE Memory!Seed(S)  BY <2>1 DEF Memory!Seed, Memory!Put
    <2>2. CASE Memory!Register(S)
      <3>1. PICK new \in SUBSET S : new = {n \in S : mRec[n] = "none"}  OBVIOUS
      <3>2. \/ mRec' = [n \in Nodes |-> IF n \in new THEN "fresh" ELSE mRec[n]]
            \/ mRec' = [n \in Nodes |-> IF n \in S THEN "fresh" ELSE mRec[n]]
        BY <2>2, <3>1 DEF Memory!Register, Memory!Put
      <3> QED  BY <3>1, <3>2
    <2> QED  BY <2>1, <2>2
  <1>3. mKnown' = mKnown \cup {v} /\ mWanted' = mWanted \cup S
    BY <1>1 DEF Memory!Register, Memory!Seed
  <1>4. mRec' \in [Nodes -> {"none", "fresh", "due", "kept"}]  BY <1>0, <1>2
  <1>5. ASSUME NEW n \in Nodes
        PROVE  (mRec'[n] # "none" => VersionOf[n] \in mKnown') /\ MemoryGoes(n)
    <2>1. CASE n \in S
      <3>1. mRec'[n] # "none" /\ VersionOf[n] \in mKnown' /\ n \in mWanted'
        BY <1>0, <1>1, <1>2, <1>3, <2>1
      <3> QED  BY <3>1 DEF MemoryGoes, Moves, MemoryFinds, MemoryAgeOf
    <2>2. CASE n \notin S
      <3>1. mRec'[n] = mRec[n] /\ (n \in mWanted' <=> n \in mWanted)  BY <1>2, <1>3, <2>2
      <3>2. mRec[n] # "none" => VersionOf[n] \in mKnown /\ VersionOf[n] \in mKnown'
        BY <1>0, <1>3
      <3> QED  BY <3>1, <3>2 DEF MemoryGoes, Moves, MemoryFinds, MemoryAgeOf
    <2> QED  BY <2>1, <2>2
  <1> QED  BY <1>4, <1>5 DEF Memory!MemoryInv

LEMMA MemoryDeregisters ==
  ASSUME Memory!MemoryInv, NEW S \in Memory!NodeLists, Memory!Deregister(S)
  PROVE  Memory!MemoryInv' /\ \A n \in Nodes : MemoryGoes(n)
  <1>0. /\ mRec \in [Nodes -> {"none", "fresh", "due", "kept"}]
        /\ \A n \in Nodes : mRec[n] # "none" => VersionOf[n] \in mKnown
        /\ S \subseteq Nodes
    BY MemoryList DEF Memory!MemoryInv
  <1>1. PICK v : v = Memory!VersionOfList(S)  OBVIOUS
  <1>2. /\ mWanted' = mWanted \ S
        /\ mRec' = [n \in Nodes |-> IF n \in S THEN "none" ELSE mRec[n]]
        /\ mKnown' = IF \E n \in Nodes : VersionOf[n] = v /\ mRec'[n] # "none"
                     THEN mKnown ELSE mKnown \ {v}
    BY <1>1 DEF Memory!Deregister, Memory!Put
  <1>3. mRec' \in [Nodes -> {"none", "fresh", "due", "kept"}]  BY <1>0, <1>2
  <1>4. ASSUME NEW n \in Nodes
        PROVE  (mRec'[n] # "none" => VersionOf[n] \in mKnown') /\ MemoryGoes(n)
    <2>1. CASE n \in S
      <3>1. mRec'[n] = "none" /\ n \notin mWanted'  BY <1>2, <2>1
      <3> QED  BY <3>1 DEF MemoryGoes, Moves, MemoryFinds, MemoryAgeOf
    <2>2. CASE n \notin S
      <3>1. mRec'[n] = mRec[n] /\ (n \in mWanted' <=> n \in mWanted)  BY <1>2, <2>2
      <3>2. mRec[n] # "none" => VersionOf[n] \in mKnown /\ VersionOf[n] \in mKnown'
        BY <1>0, <1>2, <3>1
      <3> QED  BY <3>1, <3>2 DEF MemoryGoes, Moves, MemoryFinds, MemoryAgeOf
    <2> QED  BY <2>1, <2>2
  <1> QED  BY <1>3, <1>4 DEF Memory!MemoryInv

\* Time passes for some nodes, and the pruner takes those it is over for.
LEMMA MemoryAges ==
  ASSUME Memory!MemoryInv, Memory!Prune \/ \E m \in Nodes : Memory!FallDue(m)
  PROVE  Memory!MemoryInv' /\ \A n \in Nodes : MemoryGoes(n)
  <1>0. /\ mRec \in [Nodes -> {"none", "fresh", "due", "kept"}]
        /\ \A n \in Nodes : mRec[n] # "none" => VersionOf[n] \in mKnown
        /\ UNCHANGED <<mKnown, mWanted>>
    BY DEF Memory!MemoryInv, Memory!Prune, Memory!FallDue
  <1>1. /\ mRec' \in [Nodes -> {"none", "fresh", "due", "kept"}]
        /\ \A n \in Nodes : \/ mRec'[n] = mRec[n]
                            \/ mRec[n] = "fresh" /\ mRec'[n] = "due"
                            \/ mRec[n] = "due" /\ mRec'[n] = "none"
    BY <1>0 DEF Memory!Prune, Memory!FallDue
  <1>2. ASSUME NEW n \in Nodes
        PROVE  (mRec'[n] # "none" => VersionOf[n] \in mKnown') /\ MemoryGoes(n)
    BY <1>0, <1>1 DEF MemoryGoes, Moves, MemoryFinds, MemoryAgeOf
  <1> QED  BY <1>1, <1>2 DEF Memory!MemoryInv

LEMMA MemoryIdles ==
  ASSUME Memory!MemoryInv, UNCHANGED <<mKnown, mRec, mWanted>>
  PROVE  Memory!MemoryInv' /\ \A n \in Nodes : MemoryGoes(n)
  BY DEF Memory!MemoryInv, MemoryGoes, Moves, MemoryFinds, MemoryAgeOf

LEMMA MemorySteps ==
  ASSUME Memory!MemoryInv, [Memory!MemoryNext]_(Memory!memoryVars)
  PROVE  Memory!MemoryInv' /\ \A n \in Nodes : MemoryGoes(n)
  <1>1. CASE \/ UNCHANGED Memory!memoryVars
             \/ \E w \in MemoryWatchers : \/ Memory!Watch(w) \/ Memory!CallNext(w)
                                          \/ Memory!NextStopped(w) \/ Memory!StopWatcher(w)
             \/ \E i \in 1..MaxSends : Memory!SendStep(i)
    <2>1. UNCHANGED <<mKnown, mRec, mWanted>>
      BY <1>1 DEF Memory!memoryVars, Memory!Watch, Memory!CallNext, Memory!NextStopped,
                  Memory!StopWatcher, Memory!SendStep, Memory!SendStart, Memory!SendEnd,
                  Memory!SendOne, Memory!Drop
    <2> QED  BY <2>1, MemoryIdles
  <1> QED  BY <1>1, MemoryRegisters, MemoryDeregisters, MemoryAges DEF Memory!MemoryNext

\* The refinement mapping of MemoryBackend.
MemoryAbs == [n \in Nodes |-> State(n \in mWanted, n \in Memory!MemoryVisible, Memory!MemoryAge[n])]

LEMMA MemoryInitRefines == Memory!MemoryInit => Memory!MemoryInv /\ Memory!MemoryBackend!PInit
  <1> SUFFICES ASSUME Memory!MemoryInit  PROVE Memory!MemoryInv /\ Memory!MemoryBackend!PInit
    OBVIOUS
  <1>1. ASSUME NEW n \in Nodes
        PROVE  /\ (n \in mWanted) = FALSE /\ (n \in Memory!MemoryVisible) = FALSE
               /\ Memory!MemoryAge[n] = "out"
    BY DEF Memory!MemoryInit, Memory!MemoryVisible, Memory!MemoryAge
  <1>2. Memory!MemoryBackend!PInit  BY <1>1, Zenon DEF Memory!MemoryBackend!PInit
  <1> QED  BY <1>2 DEF Memory!MemoryInit, Memory!MemoryInv

LEMMA MemoryNextRefines ==
  ASSUME Memory!MemoryInv, [Memory!MemoryNext]_(Memory!memoryVars)
  PROVE  Memory!MemoryBackend!PNext
  <1>1. ASSUME NEW m \in Nodes
        PROVE  Memory!MemoryBackend!Allowed(MemoryAbs[m], MemoryAbs'[m])
    <2>1. MemoryGoes(m)  BY MemorySteps
    <2>2. PICK w \in BOOLEAN, v \in BOOLEAN, x \in BOOLEAN, u \in BOOLEAN :
            /\ (w <=> m \in mWanted) /\ (v <=> MemoryFinds(m))
            /\ (x <=> m \in mWanted') /\ (u <=> MemoryFinds(m)')
      OBVIOUS
    <2>3. /\ w = (m \in mWanted) /\ v = (m \in Memory!MemoryVisible)
          /\ x = (m \in mWanted') /\ u = (m \in Memory!MemoryVisible')
      BY <2>2 DEF MemoryFinds, Memory!MemoryVisible
    <2>4. Moves(w, v, MemoryAgeOf(m), x, u, MemoryAgeOf(m)')
      BY <2>1, <2>2 DEF MemoryGoes, Moves
    <2>5. EtcdBackend!Allowed(State(w, v, MemoryAgeOf(m)), State(x, u, MemoryAgeOf(m)'))
      BY <2>4, MovesAreAllowed
    <2>6. Memory!MemoryAge[m] = MemoryAgeOf(m) /\ Memory!MemoryAge'[m] = MemoryAgeOf(m)'
      BY DEF Memory!MemoryAge, MemoryAgeOf
    <2>7. MemoryAbs[m] = State(w, v, MemoryAgeOf(m)) /\ MemoryAbs'[m] = State(x, u, MemoryAgeOf(m)')
      BY <2>3, <2>6 DEF MemoryAbs
    <2> QED  BY <2>5, <2>7, MemoryAllows
  <1> QED  BY <1>1 DEF Memory!MemoryBackend!PNext, MemoryAbs, State

\* Register, Deregister and ttlPrune of the memory registry keep the promise of
\* every registry: a node registered in time is found by every lookup, whatever
\* nodes of its version come, go and run out beside it.
THEOREM MemoryKeepsPromise == Memory!MemorySpec => Memory!MemoryPromise
  <1>1. Memory!MemoryInit => Memory!MemoryInv /\ Memory!MemoryBackend!PInit
    BY MemoryInitRefines
  <1>2. Memory!MemoryInv /\ [Memory!MemoryNext]_(Memory!memoryVars) => Memory!MemoryInv'
    BY MemorySteps
  <1>3. Memory!MemoryInv /\ [Memory!MemoryNext]_(Memory!memoryVars) =>
          [Memory!MemoryBackend!PNext]_[n \in Nodes |->
             [want |-> n \in mWanted, visible |-> n \in Memory!MemoryVisible,
              age |-> Memory!MemoryAge[n]]]
    BY MemoryNextRefines
  <1> QED  BY <1>1, <1>2, <1>3, PTL
           DEF Memory!MemorySpec, Memory!MemoryPromise, Memory!MemoryBackend!PSpec

---------------------------------------------------------------------------
(* The consul registry: what the hash of a service says of the agent.      *)

CONSTANT MaxContents
VARIABLES cAgent, cRegister, cRecent, cContent, cTtl, cWanted, cPc, cFaults

Consul == INSTANCE ConsulRegistry WITH
    agent <- cAgent, register <- cRegister, recent <- cRecent,
    content <- cContent, ttl <- cTtl, wanted <- cWanted, pc <- cPc,
    faults <- cFaults, MaxContent <- MaxContents

ConsulServices == [content : Nat, check : {"none", "fresh", "due", "critical"}]

LEMMA ConsulNone ==
  Consul!NoService \in ConsulServices /\ Consul!NoService.check = "none"
  BY DEF Consul!NoService, ConsulServices

\* What the agent has after a request, or a tick of its own, is of the content
\* it had or of the present one, or nothing.
LEMMA ConsulAgent ==
  ASSUME Consul!ConsulInv,
         cAgent' \in {cAgent, Consul!NoService, Consul!Passed,
                      [cAgent EXCEPT !.check = "due"], [cAgent EXCEPT !.check = "critical"]}
                     \cup Consul!Written
  PROVE  /\ cAgent' \in ConsulServices
         /\ \/ cAgent' = Consul!NoService \/ cAgent'.content = cContent
            \/ cAgent # Consul!NoService /\ cAgent'.content = cAgent.content
            \/ cAgent = Consul!NoService /\ cAgent'.content = 0 /\ cAgent' # cAgent
  <1>1. cAgent \in ConsulServices /\ cContent \in Nat
    BY DEF Consul!ConsulInv, ConsulServices
  <1>2. CASE cAgent' \in {cAgent, Consul!NoService}  BY <1>1, <1>2, ConsulNone
  <1>3. CASE cAgent' \in {Consul!Passed, [cAgent EXCEPT !.check = "due"],
                          [cAgent EXCEPT !.check = "critical"]}
    <2>1. PICK c \in {"fresh", "due", "critical"} : cAgent' = [cAgent EXCEPT !.check = c]
      BY <1>3 DEF Consul!Passed
    <2>2. cAgent' \in ConsulServices /\ cAgent'.content = cAgent.content /\ cAgent'.check # "none"
      BY <1>1, <2>1 DEF ConsulServices
    <2>3. cAgent = Consul!NoService => cAgent.content = 0  BY DEF Consul!NoService
    <2> QED  BY <2>2, <2>3, ConsulNone
  <1>4. CASE cAgent' \in Consul!Written
    <2>1. PICK c \in {"none", "fresh", "due", "critical"} :
            cAgent' = [content |-> cContent, check |-> c]
      BY <1>1, <1>4 DEF Consul!Written, ConsulServices
    <2> QED  BY <1>1, <2>1 DEF ConsulServices
  <1> QED  BY <1>2, <1>3, <1>4

\* Steps that leave the content alone: the hash is what it was, none, or that of
\* the content the agent has been given.
LEMMA ConsulKeeps ==
  ASSUME Consul!ConsulInv, cContent' = cContent, cAgent' \in ConsulServices,
         \/ cRegister' = 0
         \/ cRegister' = cContent /\ cAgent'.content = cContent
         \/ /\ cRegister' = cRegister
            /\ \/ cAgent' = Consul!NoService \/ cAgent'.content = cContent
               \/ cAgent # Consul!NoService /\ cAgent'.content = cAgent.content
  PROVE  Consul!ConsulInv'
  <1>1. /\ cContent \in Nat \ {0} /\ cRegister \in Nat /\ cRegister <= cContent
        /\ cRegister = cContent /\ cAgent # Consul!NoService => cAgent.content = cContent
    BY DEF Consul!ConsulInv, Consul!ConsulCurrent
  <1>2. cContent' \in Nat \ {0} /\ cRegister' \in Nat /\ cRegister' <= cContent'
    BY <1>1
  <1>3. cRegister' = cContent' /\ cAgent' # Consul!NoService => cAgent'.content = cContent'
    BY <1>1
  <1> QED  BY <1>2, <1>3 DEF Consul!ConsulInv, Consul!ConsulCurrent, ConsulServices, Consul!NoService

LEMMA ConsulNextInv ==
  Consul!ConsulInv /\ [Consul!ConsulNext]_(Consul!consulVars) => Consul!ConsulInv'
  <1> SUFFICES ASSUME Consul!ConsulInv, [Consul!ConsulNext]_(Consul!consulVars)
               PROVE  Consul!ConsulInv'
    OBVIOUS
  <1>0. cAgent \in ConsulServices /\ cContent \in Nat \ {0}
    BY DEF Consul!ConsulInv, ConsulServices
  <1>1. CASE UNCHANGED Consul!consulVars \/ Consul!Register \/ Consul!Look \/ Consul!TimePasses
    <2>1. cContent' = cContent /\ cAgent' = cAgent /\ cRegister' = cRegister
      BY <1>1 DEF Consul!consulVars, Consul!Register, Consul!Look, Consul!TimePasses
    <2> QED  BY <1>0, <2>1, ConsulKeeps
  <1>2. CASE Consul!RegisterChanged
    <2>1. cContent' = cContent + 1 /\ cAgent' = cAgent /\ cRegister' = cRegister
      BY <1>2 DEF Consul!RegisterChanged
    <2> QED  BY <2>1 DEF Consul!ConsulInv, Consul!ConsulCurrent
  <1>3. CASE Consul!Pass \/ Consul!FirstPass \/ Consul!ServiceDeregister \/ Consul!CheckTick \/ Consul!Lose
    <2>1. cContent' = cContent /\ cRegister' = cRegister
      BY <1>3 DEF Consul!Pass, Consul!FirstPass, Consul!ServiceDeregister, Consul!CheckTick, Consul!Lose
    <2>2. /\ cAgent' \in {cAgent, Consul!NoService, Consul!Passed,
                          [cAgent EXCEPT !.check = "due"], [cAgent EXCEPT !.check = "critical"]}
          /\ cAgent = Consul!NoService => cAgent' = Consul!NoService
      <3>1. cAgent.check # "none" => cAgent # Consul!NoService  BY ConsulNone
      <3> QED  BY <1>3, <3>1 DEF Consul!Pass, Consul!FirstPass, Consul!ServiceDeregister,
                                 Consul!CheckTick, Consul!Lose
    <2>3. /\ cAgent' \in ConsulServices
          /\ \/ cAgent' = Consul!NoService \/ cAgent'.content = cContent
             \/ cAgent # Consul!NoService /\ cAgent'.content = cAgent.content
      BY <2>2, ConsulAgent
    <2> QED  BY <2>1, <2>3, ConsulKeeps
  <1>4. CASE Consul!ServiceRegister
    <2>1. /\ cContent' = cContent /\ cAgent' \in {cAgent} \cup Consul!Written
          /\ \/ cRegister' = cRegister
             \/ cRegister' = cContent /\ cAgent' \in Consul!Written
      BY <1>4 DEF Consul!ServiceRegister
    <2>2. cAgent' \in ConsulServices  BY <2>1, ConsulAgent
    <2>3. cAgent' \in Consul!Written => cAgent'.content = cContent  BY DEF Consul!Written
    <2> QED  BY <2>1, <2>2, <2>3, ConsulKeeps
  <1>5. CASE Consul!Deregister \/ Consul!Crash
    <2>1. cContent' = cContent /\ cAgent' = cAgent /\ cRegister' = 0
      BY <1>5 DEF Consul!Deregister, Consul!Crash
    <2> QED  BY <1>0, <2>1, ConsulKeeps
  <1> QED  BY <1>1, <1>2, <1>3, <1>4, <1>5 DEF Consul!ConsulNext, Consul!ConsulStep

\* Register of the consul registry: while the hash of the service is the one that
\* was saved, so that Register only passes the check, the agent has nothing older,
\* whichever requests failed, were applied all the same, or were forgotten.
THEOREM ConsulIsCurrent == Consul!ConsulSpec => []Consul!ConsulCurrent
  <1>1. Consul!ConsulInit => Consul!ConsulInv
    <2> SUFFICES ASSUME Consul!ConsulInit  PROVE Consul!ConsulInv
      OBVIOUS
    <2>1. cAgent = Consul!NoService /\ cRegister = 0 /\ cContent = 1  BY DEF Consul!ConsulInit
    <2> QED  BY <2>1, ConsulNone DEF Consul!ConsulInv, Consul!ConsulCurrent, ConsulServices
  <1>2. Consul!ConsulInv => Consul!ConsulCurrent  BY DEF Consul!ConsulInv
  <1> QED  BY <1>1, <1>2, ConsulNextInv, PTL DEF Consul!ConsulSpec

---------------------------------------------------------------------------
(* The life of the HTTP broker.                                            *)

CONSTANTS BrokerCallers, Topics
VARIABLES bStarted, bRunning, bAddress, bLock, bCaller, bListening, bLoop, bLeaving,
          bSubs, bRegistered, bOverlap

Broker == INSTANCE HttpBroker WITH
    started <- bStarted, running <- bRunning, address <- bAddress,
    lock <- bLock, caller <- bCaller, listening <- bListening,
    loop <- bLoop, leaving <- bLeaving, subs <- bSubs,
    registered <- bRegistered, overlap <- bOverlap, Callers <- BrokerCallers

BrokerLoops == [pc : {"leave", "close", "answer", "write"}, for : BrokerCallers,
                addr : {"any", "bound"}]

\* A step of a caller that neither begins nor ends a handshake.
LEMMA BrokerCalls ==
  ASSUME Broker!BrokerInv, NEW c \in BrokerCallers, bCaller[c] # "shake",
         NEW pc \in {"idle", "start", "close"}, bCaller' = [bCaller EXCEPT ![c] = pc],
         UNCHANGED <<bRunning, bAddress, bListening, bLoop, bLeaving, bOverlap>>
  PROVE  Broker!BrokerInv'
  <1>1. /\ bCaller' \in [BrokerCallers -> {"idle", "start", "close", "shake", "wait"}]
        /\ \A d \in BrokerCallers : bCaller'[d] = "shake" => bCaller[d] = "shake"
    BY DEF Broker!BrokerInv, Broker!BrokerTypeOK
  <1> QED  BY <1>1 DEF Broker!BrokerInv, Broker!BrokerTypeOK, Broker!MayClose

LEMMA BrokerRuns ==
  ASSUME Broker!BrokerInv, NEW c \in BrokerCallers, Broker!StartRuns(c)
  PROVE  Broker!BrokerInv'
  <1>0. /\ bCaller[c] = "start" /\ ~bListening /\ bListening' = TRUE /\ bAddress' = "bound"
        /\ bRunning' = TRUE /\ bLoop' = bAddress /\ bLeaving' = bLeaving
        /\ bOverlap' = (bOverlap \/ bLeaving # {})
        /\ bCaller' = [bCaller EXCEPT ![c] = "idle"]
        /\ bCaller \in [BrokerCallers -> {"idle", "start", "close", "shake", "wait"}]
        /\ bAddress \in {"any", "bound"} /\ bOverlap \in BOOLEAN
    BY DEF Broker!StartRuns, Broker!Goto, Broker!BrokerInv, Broker!BrokerTypeOK
  <1>1. \A d \in BrokerCallers : bCaller[d] # "shake" /\ bCaller'[d] # "shake"
    BY <1>0 DEF Broker!BrokerInv
  <1>2. \A l \in bLeaving : ~Broker!MayClose(l)  BY <1>0 DEF Broker!BrokerInv
  <1>3. \A l \in bLeaving' : ~Broker!MayClose(l)'  BY <1>0, <1>2 DEF Broker!MayClose
  <1>4. Broker!BrokerTypeOK'  BY <1>0 DEF Broker!BrokerInv, Broker!BrokerTypeOK
  <1>5. bRunning' /\ ~bOverlap' => bLeaving' = {} /\ bAddress' = "bound"  BY <1>0
  <1> QED  BY <1>0, <1>1, <1>3, <1>4, <1>5 DEF Broker!BrokerInv

LEMMA BrokerMarks ==
  ASSUME Broker!BrokerInv, NEW c \in BrokerCallers, Broker!CloseMarks(c)
  PROVE  Broker!BrokerInv'
  <1>0. /\ bCaller[c] = "close"
        /\ UNCHANGED <<bAddress, bListening, bLoop, bLeaving, bOverlap>>
        /\ \/ bRunning /\ bRunning' = FALSE /\ bCaller' = [bCaller EXCEPT ![c] = "shake"]
           \/ bRunning' = bRunning /\ bCaller' = [bCaller EXCEPT ![c] = "idle"]
        /\ bCaller \in [BrokerCallers -> {"idle", "start", "close", "shake", "wait"}]
    BY DEF Broker!CloseMarks, Broker!Goto, Broker!BrokerInv, Broker!BrokerTypeOK
  <1>1. CASE bRunning' = bRunning /\ bCaller' = [bCaller EXCEPT ![c] = "idle"]
    BY <1>0, <1>1, BrokerCalls
  <1>2. CASE bRunning /\ bRunning' = FALSE /\ bCaller' = [bCaller EXCEPT ![c] = "shake"]
    <2>1. /\ bCaller' \in [BrokerCallers -> {"idle", "start", "close", "shake", "wait"}]
          /\ \A d \in BrokerCallers : bCaller'[d] = "shake" => d = c
      BY <1>0, <1>2 DEF Broker!BrokerInv
    <2>2. bLoop' # "none"  BY <1>0, <1>2 DEF Broker!BrokerInv
    <2> QED  BY <1>0, <1>2, <2>1, <2>2 DEF Broker!BrokerInv, Broker!BrokerTypeOK, Broker!MayClose
  <1> QED  BY <1>0, <1>1, <1>2

LEMMA BrokerShakes ==
  ASSUME Broker!BrokerInv, NEW c \in BrokerCallers, Broker!CloseShakes(c)
  PROVE  Broker!BrokerInv'
  <1>0. /\ bCaller[c] = "shake" /\ bLoop # "none" /\ bLoop' = "none"
        /\ bCaller' = [bCaller EXCEPT ![c] = "wait"]
        /\ UNCHANGED <<bRunning, bAddress, bListening, bOverlap>>
        /\ bCaller \in [BrokerCallers -> {"idle", "start", "close", "shake", "wait"}]
        /\ bLeaving \subseteq BrokerLoops /\ bLoop \in {"none", "any", "bound"}
    BY DEF Broker!CloseShakes, Broker!Goto, Broker!BrokerInv, Broker!BrokerTypeOK, BrokerLoops
  <1>1. PICK x \in BrokerLoops : bLeaving' = bLeaving \cup {x}
    <2>1. [pc |-> "leave", for |-> c, addr |-> bLoop] \in BrokerLoops  BY <1>0 DEF BrokerLoops
    <2> QED  BY <2>1 DEF Broker!CloseShakes
  <1>2. ~bRunning /\ bListening  BY <1>0 DEF Broker!BrokerInv
  <1>3. /\ bCaller' \in [BrokerCallers -> {"idle", "start", "close", "shake", "wait"}]
        /\ \A d \in BrokerCallers : bCaller'[d] # "shake"
    BY <1>0 DEF Broker!BrokerInv
  <1>4. \A l \in bLeaving : ~Broker!MayClose(l)  BY <1>0 DEF Broker!BrokerInv
  <1>5. \A l \in bLeaving' : Broker!MayClose(l)' => l = x
    BY <1>1, <1>4 DEF Broker!MayClose
  <1>6. Broker!BrokerTypeOK'
    BY <1>0, <1>1, <1>3 DEF Broker!BrokerInv, Broker!BrokerTypeOK, BrokerLoops
  <1> QED  BY <1>0, <1>2, <1>3, <1>5, <1>6 DEF Broker!BrokerInv

\* A loop that is leaving takes a step.
LEMMA BrokerMoves ==
  ASSUME Broker!BrokerInv, NEW l \in bLeaving, NEW pc \in {"close", "answer", "write"},
         Broker!MovesOn(l, pc), pc = "close" => l.pc = "leave"
  PROVE  /\ bLeaving' \subseteq BrokerLoops
         /\ \A k \in bLeaving' : Broker!MayClose(k)' =>
              \/ k \in bLeaving /\ k # l /\ Broker!MayClose(k)
              \/ pc = "close" /\ k = [l EXCEPT !.pc = pc]
  <1>1. l \in BrokerLoops /\ bLeaving \subseteq BrokerLoops
    BY DEF Broker!BrokerInv, Broker!BrokerTypeOK, BrokerLoops
  <1>2. PICK x \in BrokerLoops : /\ x = [l EXCEPT !.pc = pc] /\ x.pc = pc
                                 /\ bLeaving' = (bLeaving \ {l}) \cup {x}
    <2>1. PICK x : x = [l EXCEPT !.pc = pc]  OBVIOUS
    <2>2. x \in BrokerLoops /\ x.pc = pc  BY <1>1, <2>1 DEF BrokerLoops
    <2> QED  BY <2>1, <2>2 DEF Broker!MovesOn
  <1> QED  BY <1>1, <1>2 DEF Broker!MayClose

LEMMA BrokerLeaves ==
  ASSUME Broker!BrokerInv, NEW l \in bLeaving, Broker!LoopLeaves(l)
  PROVE  Broker!BrokerInv'
  <1>0. /\ l.pc = "leave" /\ Broker!MovesOn(l, "close")
        /\ UNCHANGED <<bRunning, bAddress, bCaller, bListening, bLoop, bOverlap>>
    BY DEF Broker!LoopLeaves
  <1>1. Broker!MayClose(l)  BY <1>0 DEF Broker!MayClose
  <1>2. /\ bLeaving' \subseteq BrokerLoops
        /\ \A k \in bLeaving' : Broker!MayClose(k)' => k = [l EXCEPT !.pc = "close"]
    BY <1>0, <1>1, BrokerMoves DEF Broker!BrokerInv
  <1>3. bListening /\ bLoop = "none" /\ ~bRunning  BY <1>1 DEF Broker!BrokerInv
  <1>4. Broker!BrokerTypeOK'  BY <1>0, <1>2 DEF Broker!BrokerInv, Broker!BrokerTypeOK, BrokerLoops
  <1> QED  BY <1>0, <1>2, <1>3, <1>4 DEF Broker!BrokerInv

LEMMA BrokerCloses ==
  ASSUME Broker!BrokerInv, NEW l \in bLeaving, Broker!LoopCloses(l)
  PROVE  Broker!BrokerInv'
  <1>0. /\ l.pc = "close" /\ Broker!MovesOn(l, "answer") /\ bListening' = FALSE
        /\ UNCHANGED <<bRunning, bAddress, bCaller, bLoop, bOverlap>>
    BY DEF Broker!LoopCloses
  <1>1. Broker!MayClose(l)  BY <1>0 DEF Broker!MayClose
  <1>2. bLeaving' \subseteq BrokerLoops /\ \A k \in bLeaving' : ~Broker!MayClose(k)'
    BY <1>0, <1>1, BrokerMoves DEF Broker!BrokerInv
  <1>3. bLoop = "none" /\ ~bRunning  BY <1>1 DEF Broker!BrokerInv
  <1>4. Broker!BrokerTypeOK'  BY <1>0, <1>2 DEF Broker!BrokerInv, Broker!BrokerTypeOK, BrokerLoops
  <1> QED  BY <1>0, <1>2, <1>3, <1>4 DEF Broker!BrokerInv

LEMMA BrokerAnswers ==
  ASSUME Broker!BrokerInv, NEW l \in bLeaving, Broker!LoopAnswers(l) \/ Broker!WriteBack(l)
  PROVE  Broker!BrokerInv'
  <1>0. /\ l \in BrokerLoops /\ bLeaving \subseteq BrokerLoops
        /\ bCaller \in [BrokerCallers -> {"idle", "start", "close", "shake", "wait"}]
        /\ UNCHANGED <<bRunning, bListening, bLoop, bOverlap>>
    BY DEF Broker!LoopAnswers, Broker!WriteBack, Broker!BrokerInv, Broker!BrokerTypeOK, BrokerLoops
  <1>1. l.for \in BrokerCallers /\ l.addr \in {"any", "bound"}  BY <1>0 DEF BrokerLoops
  <1>2. bCaller' = [bCaller EXCEPT ![l.for] = "idle"] \/ bCaller' = bCaller
    BY DEF Broker!LoopAnswers, Broker!WriteBack, Broker!Goto
  <1>3. /\ bCaller' \in [BrokerCallers -> {"idle", "start", "close", "shake", "wait"}]
        /\ \A d \in BrokerCallers : bCaller'[d] = "shake" => bCaller[d] = "shake"
    BY <1>0, <1>1, <1>2
  <1>4. /\ bLeaving' \subseteq BrokerLoops
        /\ \A k \in bLeaving' : Broker!MayClose(k)' => k \in bLeaving /\ Broker!MayClose(k)
    <2>1. CASE Broker!LoopAnswers(l)  BY <2>1, BrokerMoves DEF Broker!LoopAnswers
    <2>2. CASE Broker!WriteBack(l)  BY <1>0, <2>2 DEF Broker!WriteBack, Broker!MayClose
    <2> QED  BY <2>1, <2>2
  <1>5. bAddress' \in {"any", "bound"}
    BY <1>1 DEF Broker!LoopAnswers, Broker!WriteBack, Broker!BrokerInv, Broker!BrokerTypeOK
  <1>6. Broker!BrokerTypeOK'
    BY <1>0, <1>3, <1>4, <1>5 DEF Broker!BrokerInv, Broker!BrokerTypeOK, BrokerLoops
  <1>7. ~(bRunning' /\ ~bOverlap')  BY <1>0 DEF Broker!BrokerInv
  <1>8. /\ \A k \in bLeaving' : Broker!MayClose(k)' => bListening' /\ bLoop' = "none"
        /\ \A j, k \in bLeaving' : Broker!MayClose(j)' /\ Broker!MayClose(k)' => j = k
    BY <1>0, <1>4 DEF Broker!BrokerInv
  <1> QED  BY <1>0, <1>3, <1>6, <1>7, <1>8 DEF Broker!BrokerInv

LEMMA BrokerIdles ==
  ASSUME Broker!BrokerInv,
         UNCHANGED <<bRunning, bAddress, bCaller, bListening, bLoop, bLeaving, bOverlap>>
  PROVE  Broker!BrokerInv'
  BY DEF Broker!BrokerInv, Broker!BrokerTypeOK, Broker!MayClose

LEMMA BrokerNextInv ==
  Broker!BrokerInv /\ [Broker!BrokerNext]_(Broker!brokerVars) => Broker!BrokerInv'
  <1> SUFFICES ASSUME Broker!BrokerInv, [Broker!BrokerNext]_(Broker!brokerVars)
               PROVE  Broker!BrokerInv'
    OBVIOUS
  <1>1. CASE UNCHANGED Broker!brokerVars \/ Broker!Tick \/ \E t \in Topics : Broker!Subscribe(t)
    <2>1. UNCHANGED <<bRunning, bAddress, bCaller, bListening, bLoop, bLeaving, bOverlap>>
      BY <1>1 DEF Broker!brokerVars, Broker!Tick, Broker!Subscribe
    <2> QED  BY <2>1, BrokerIdles
  <1>2. ASSUME NEW c \in BrokerCallers,
               Broker!Start(c) \/ Broker!StartFails(c) \/ Broker!CloseLocks(c)
        PROVE  Broker!BrokerInv'
    <2>1. /\ UNCHANGED <<bRunning, bAddress, bListening, bLoop, bLeaving, bOverlap>>
          /\ bCaller[c] # "shake"
          /\ \E pc \in {"idle", "start", "close"} : bCaller' = [bCaller EXCEPT ![c] = pc]
      BY <1>2 DEF Broker!Start, Broker!StartFails, Broker!CloseLocks, Broker!Goto
    <2> QED  BY <2>1, BrokerCalls
  <1>3. ASSUME NEW c \in BrokerCallers, Broker!CallerStep(c)  PROVE Broker!BrokerInv'
    BY <1>2, <1>3, BrokerRuns, BrokerMarks, BrokerShakes DEF Broker!CallerStep
  <1>4. ASSUME NEW l \in bLeaving, Broker!LoopStep(l)  PROVE Broker!BrokerInv'
    BY <1>4, BrokerLeaves, BrokerCloses, BrokerAnswers DEF Broker!LoopStep
  <1> QED  BY <1>1, <1>2, <1>3, <1>4 DEF Broker!BrokerNext

\* Start, Close and the exit loop of the HTTP broker: while the broker runs its
\* listener is open and a loop is there to close it, Close never waits for a loop
\* that is gone, and the address is the listener's, except when Start came between
\* the closing of the listener and the loop's last assignment.
THEOREM LoopKeepsListener == Broker!BrokerSpec => []Broker!LoopOwnsListener
  <1>1. Broker!BrokerInit => Broker!BrokerInv
    BY DEF Broker!BrokerInit, Broker!BrokerInv, Broker!BrokerTypeOK
  <1>2. Broker!BrokerInv => Broker!LoopOwnsListener
    BY DEF Broker!BrokerInv, Broker!LoopOwnsListener
  <1> QED  BY <1>1, <1>2, BrokerNextInv, PTL DEF Broker!BrokerSpec

---------------------------------------------------------------------------
(* A websocket connection: what is returned, and who says close.           *)

LEMMA SocketMoves == [Next]_vars => [Socket!WsNext]_socketVars
  BY DEF Next, vars, MdnsRuns, LookupRuns, WatchRuns, PublishRuns, FanRuns,
         SocketRuns, LogRuns, HttpRuns, ProxyRuns, StaticRuns, FacadeRuns

WsFrames  == [op : {"text", "bin", "cont", "ping", "pong", "close"}, fin : BOOLEAN,
              ok : BOOLEAN, data : Socket!Payload, code : Nat]
WsFrags   == [op : {"none", "text", "bin"}, buf : Socket!Payload]
WsGot     == [op : {"text", "bin"}, data : Socket!Payload]
WsOut     == [op : {"bin", "pong", "close"}, code : Nat, data : Socket!Payload]
WsPending == [code : Nat, text : Socket!Payload]

LEMMA WsType ==
  Socket!WsTypeOK <=>
    /\ sWire \in Seq(PeerFrames) /\ sClosed \in BOOLEAN /\ sBroken \in BOOLEAN
    /\ sCloseSent \in BOOLEAN /\ sRefused \in BOOLEAN
    /\ sFrag \in WsFrags /\ Len(sFrag.buf) <= ReadLimit
    /\ sFrag # Socket!NoFrag => sFrag.op # "none"
    /\ sGot \in Seq(WsGot) /\ sOut \in Seq(WsOut) /\ sPending \in [Socket!Callers -> WsPending]
  BY DEF Socket!WsTypeOK, WsFrags, WsGot, WsOut, WsPending

LEMMA WsTypeNext ==
  Socket!WsTypeOK' <=>
    /\ sWire' \in Seq(PeerFrames) /\ sClosed' \in BOOLEAN /\ sBroken' \in BOOLEAN
    /\ sCloseSent' \in BOOLEAN /\ sRefused' \in BOOLEAN
    /\ sFrag' \in WsFrags /\ Len(sFrag'.buf) <= ReadLimit
    /\ sFrag' # Socket!NoFrag => sFrag'.op # "none"
    /\ sGot' \in Seq(WsGot) /\ sOut' \in Seq(WsOut) /\ sPending' \in [Socket!Callers -> WsPending]
  BY DEF Socket!WsTypeOK, WsFrags, WsGot, WsOut, WsPending, Socket!Payload, Socket!Callers,
         Socket!Reader, Socket!NoFrag

LEMMA WsPayloads ==
  /\ <<>> \in Socket!Payload /\ <<"a">> \in Socket!Payload /\ <<"h1">> \in Socket!Payload
  /\ <<"h2">> \in Socket!Payload /\ <<"h1", "h2">> \in Socket!Payload
  /\ <<"a", "h1">> \in Socket!Payload /\ <<"a", "a", "a", "a">> \in Socket!Payload
  BY DEF Socket!Payload

LEMMA WsFrame ==
  ASSUME NEW op \in {"text", "bin", "cont", "ping", "pong", "close"}, NEW fin \in BOOLEAN,
         NEW data \in Socket!Payload, NEW code \in Nat
  PROVE  Frame(op, fin, data, code) \in WsFrames
  BY DEF Frame, WsFrames

\* What the peer may send is frames.
LEMMA WsPeer == PeerFrames \subseteq WsFrames
  <1>1. TRUE \in BOOLEAN /\ FALSE \in BOOLEAN /\ 0 \in Nat /\ 1 \in Nat /\ 1005 \in Nat /\ 3000 \in Nat
    OBVIOUS
  <1>2. PICK f1 \in WsFrames : f1 = Frame("text", TRUE, <<"h1", "h2">>, 0)
    <2>1. Frame("text", TRUE, <<"h1", "h2">>, 0) \in WsFrames  BY <1>1, WsPayloads DEF Frame, WsFrames
    <2> QED  BY <2>1
  <1>3. PICK f2 \in WsFrames : f2 = Frame("text", FALSE, <<"a", "h1">>, 0)
    <2>1. Frame("text", FALSE, <<"a", "h1">>, 0) \in WsFrames  BY <1>1, WsPayloads DEF Frame, WsFrames
    <2> QED  BY <2>1
  <1>4. PICK f3 \in WsFrames : f3 = Frame("bin", FALSE, <<"h1">>, 0)
    <2>1. Frame("bin", FALSE, <<"h1">>, 0) \in WsFrames  BY <1>1, WsPayloads DEF Frame, WsFrames
    <2> QED  BY <2>1
  <1>5. PICK f4 \in WsFrames : f4 = Frame("cont", FALSE, <<"h2">>, 0)
    <2>1. Frame("cont", FALSE, <<"h2">>, 0) \in WsFrames  BY <1>1, WsPayloads DEF Frame, WsFrames
    <2> QED  BY <2>1
  <1>6. PICK f5 \in WsFrames : f5 = Frame("cont", TRUE, <<"h2">>, 0)
    <2>1. Frame("cont", TRUE, <<"h2">>, 0) \in WsFrames  BY <1>1, WsPayloads DEF Frame, WsFrames
    <2> QED  BY <2>1
  <1>7. PICK f6 \in WsFrames : f6 = Frame("ping", TRUE, <<"a">>, 0)
    <2>1. Frame("ping", TRUE, <<"a">>, 0) \in WsFrames  BY <1>1, WsPayloads DEF Frame, WsFrames
    <2> QED  BY <2>1
  <1>8. PICK f7 \in WsFrames : f7 = Frame("pong", FALSE, <<>>, 0)
    <2>1. Frame("pong", FALSE, <<>>, 0) \in WsFrames  BY <1>1, WsPayloads DEF Frame, WsFrames
    <2> QED  BY <2>1
  <1>9. PICK f8 \in WsFrames : f8 = Frame("close", TRUE, <<>>, 1005)
    <2>1. Frame("close", TRUE, <<>>, 1005) \in WsFrames  BY <1>1, WsPayloads DEF Frame, WsFrames
    <2> QED  BY <2>1
  <1>10. PICK f9 \in WsFrames : f9 = Frame("close", TRUE, <<>>, 1)
    <2>1. Frame("close", TRUE, <<>>, 1) \in WsFrames  BY <1>1, WsPayloads DEF Frame, WsFrames
    <2> QED  BY <2>1
  <1>0. PICK k \in Nat : k = 3000  OBVIOUS
  <1>11. PICK f10 \in WsFrames : f10 = Frame("close", TRUE, <<"h1">>, k)
    <2>1. Frame("close", TRUE, <<"h1">>, k) \in WsFrames  BY <1>1, WsPayloads DEF Frame, WsFrames
    <2> QED  BY <2>1
  <1>12. PICK f11 \in WsFrames : f11 = Frame("bin", TRUE, <<"a", "a", "a", "a">>, 0)
    <2>1. Frame("bin", TRUE, <<"a", "a", "a", "a">>, 0) \in WsFrames  BY <1>1, WsPayloads DEF Frame, WsFrames
    <2> QED  BY <2>1
  <1>13. PeerFrames = {f1, f2, f3, f4, f5, f6, f7, f8, f9, f10, f11}
    BY <1>0, <1>2, <1>3, <1>4, <1>5, <1>6, <1>7, <1>8, <1>9, <1>10, <1>11, <1>12 DEF PeerFrames
  <1> QED  BY <1>13

LEMMA WsIdle ==
  Socket!Idle \in WsPending /\ Socket!Idle.code = 0
  BY WsPayloads DEF Socket!Idle, WsPending

\* Steps that touch neither a pending close nor what was written.
LEMMA WsQuiet ==
  ASSUME Socket!CloseOwned, UNCHANGED <<sPending, sOut, sCloseSent>>,
         sClosed => sClosed', sBroken => sBroken', sRefused => sRefused'
  PROVE  Socket!CloseOwned'
  BY DEF Socket!CloseOwned, Socket!Pends, Socket!ClosesAt, Socket!Idle, Socket!Callers, Socket!Reader

\* A frame that is no close is written, or lost.
LEMMA WsWrites ==
  ASSUME Socket!CloseOwned, sOut \in Seq(WsOut), NEW e \in WsOut, e.op # "close",
         Socket!Write(e), UNCHANGED <<sPending, sCloseSent, sClosed, sBroken, sRefused>>
  PROVE  Socket!CloseOwned' /\ sOut' \in Seq(WsOut)
  <1>1. sOut' = sOut \/ sOut' = Append(sOut, e)  BY DEF Socket!Write
  <1>2. CASE sOut' = sOut  BY <1>2, WsQuiet
  <1>3. CASE sOut' = Append(sOut, e)
    <2>1. PICK L \in Nat : L = Len(sOut)  OBVIOUS
    <2>2. /\ Len(sOut') = L + 1 /\ sOut'[L + 1] = e /\ \A i \in 1..L : sOut'[i] = sOut[i]
          /\ sOut' \in Seq(WsOut)
      BY <1>3, <2>1
    <2>3. \A i : Socket!ClosesAt(i)' <=> Socket!ClosesAt(i)
      BY <2>1, <2>2 DEF Socket!ClosesAt
    <2>4. \A c : Socket!Pends(c)' <=> Socket!Pends(c)
      BY DEF Socket!Pends, Socket!Idle, Socket!Callers, Socket!Reader
    <2>5. (\E i \in 1..Len(sOut') : Socket!ClosesAt(i)') <=> (\E i \in 1..Len(sOut) : Socket!ClosesAt(i))
      BY <2>3 DEF Socket!ClosesAt
    <2>6. (\E c \in Socket!Callers : Socket!Pends(c)') <=> (\E c \in Socket!Callers : Socket!Pends(c))
      BY <2>4
    <2>7. \A i, j \in 1..Len(sOut') : Socket!ClosesAt(i)' /\ Socket!ClosesAt(j)' => i = j
      BY <2>3 DEF Socket!CloseOwned, Socket!ClosesAt
    <2>8. \A c \in Socket!Callers : \A i \in 1..Len(sOut') : ~(Socket!Pends(c)' /\ Socket!ClosesAt(i)')
      BY <2>3, <2>4 DEF Socket!CloseOwned, Socket!ClosesAt
    <2>9. \A c, d \in Socket!Callers : Socket!Pends(c)' /\ Socket!Pends(d)' => c = d
      BY <2>4 DEF Socket!CloseOwned
    <2> QED  BY <2>2, <2>5, <2>6, <2>7, <2>8, <2>9 DEF Socket!CloseOwned, Socket!Callers, Socket!Reader
  <1> QED  BY <1>1, <1>2, <1>3

\* A caller marks the close as said: the first one owns it.
LEMMA WsMarks ==
  ASSUME Socket!CloseOwned, sPending \in [Socket!Callers -> WsPending],
         NEW c \in Socket!Callers, NEW code \in Nat \ {0}, NEW text \in Socket!Payload,
         Socket!WriteClose(c, code, text), UNCHANGED <<sOut, sClosed, sBroken, sRefused>>,
         sCloseSent \in BOOLEAN
  PROVE  /\ Socket!CloseOwned' /\ sCloseSent' = TRUE
         /\ sPending' \in [Socket!Callers -> WsPending]
  <1>1. CASE sCloseSent
    <2>1. UNCHANGED <<sPending, sOut, sCloseSent>>  BY <1>1 DEF Socket!WriteClose
    <2> QED  BY <1>1, <2>1, WsQuiet
  <1>2. CASE ~sCloseSent
    <2>1. PICK p \in WsPending : p.code = code /\ p = [code |-> code, text |-> text]
      BY DEF WsPending
    <2>2. sCloseSent' = TRUE /\ sPending' = [sPending EXCEPT ![c] = p]
      BY <1>2, <2>1 DEF Socket!WriteClose
    <2>3. p # Socket!Idle  BY <2>1, WsIdle
    <2>4. sPending' \in [Socket!Callers -> WsPending]  BY <2>2
    <2>5. \A d \in Socket!Callers : ~Socket!Pends(d)  BY <1>2 DEF Socket!CloseOwned
    <2>6. \A d \in Socket!Callers : Socket!Pends(d)' <=> d = c
      <3>1. \A d \in Socket!Callers : Socket!Pends(d)' <=> sPending'[d] # Socket!Idle
        BY DEF Socket!Pends, Socket!Idle, Socket!Callers, Socket!Reader
      <3>2. \A d \in Socket!Callers : sPending[d] = Socket!Idle  BY <2>5 DEF Socket!Pends
      <3> QED  BY <2>2, <2>3, <3>1, <3>2
    <2>7. \A i \in 1..Len(sOut) : ~Socket!ClosesAt(i)  BY <1>2 DEF Socket!CloseOwned
    <2>8. \A i \in 1..Len(sOut') : ~Socket!ClosesAt(i)'  BY <2>7 DEF Socket!ClosesAt
    <2>9. Socket!CloseOwned'
      BY <2>2, <2>6, <2>8 DEF Socket!CloseOwned, Socket!Callers, Socket!Reader
    <2> QED  BY <2>2, <2>4, <2>9
  <1> QED  BY <1>1, <1>2

\* The close frame is written, refused or lost: nobody owns it any more.
LEMMA WsControls ==
  ASSUME Socket!CloseOwned, sPending \in [Socket!Callers -> WsPending], sOut \in Seq(WsOut),
         sClosed \in BOOLEAN, sBroken \in BOOLEAN, sRefused \in BOOLEAN,
         NEW c \in Socket!Callers, Socket!WriteControl(c)
  PROVE  /\ Socket!CloseOwned' /\ sPending' \in [Socket!Callers -> WsPending]
         /\ sOut' \in Seq(WsOut) /\ sRefused' \in BOOLEAN
  <1>0. /\ UNCHANGED <<sWire, sSent, sFrag, sGot, sReader, sClosed, sCloseSent, sBroken>>
        /\ sPending' = [sPending EXCEPT ![c] = Socket!Idle] /\ Socket!Pends(c)
    BY DEF Socket!WriteControl, Socket!Pends
  <1>1. sPending' \in [Socket!Callers -> WsPending]  BY <1>0, WsIdle
  <1>2. \A d \in Socket!Callers : ~Socket!Pends(d)'
    <2>1. \A d \in Socket!Callers : Socket!Pends(d)' <=> sPending'[d] # Socket!Idle
      BY DEF Socket!Pends, Socket!Idle, Socket!Callers, Socket!Reader
    <2>2. \A d \in Socket!Callers : d # c => sPending[d] = Socket!Idle
      BY <1>0 DEF Socket!CloseOwned, Socket!Pends
    <2> QED  BY <1>0, <2>1, <2>2
  <1>3. sCloseSent  BY <1>0 DEF Socket!CloseOwned
  <1>4. \A i \in 1..Len(sOut) : ~Socket!ClosesAt(i)  BY <1>0 DEF Socket!CloseOwned
  <1>5. CASE sRefused' = TRUE /\ sOut' = sOut
    <2>1. \A i \in 1..Len(sOut') : ~Socket!ClosesAt(i)'  BY <1>4, <1>5 DEF Socket!ClosesAt
    <2>2. Socket!CloseOwned'
      BY <1>0, <1>2, <1>3, <1>5, <2>1 DEF Socket!CloseOwned, Socket!Callers, Socket!Reader
    <2> QED  BY <1>1, <1>5, <2>2
  <1>6. CASE (sClosed \/ sBroken) /\ sOut' = sOut /\ sRefused' = sRefused
    <2>1. \A i \in 1..Len(sOut') : ~Socket!ClosesAt(i)'  BY <1>4, <1>6 DEF Socket!ClosesAt
    <2>2. Socket!CloseOwned'
      BY <1>0, <1>2, <1>3, <1>6, <2>1 DEF Socket!CloseOwned, Socket!Callers, Socket!Reader
    <2> QED  BY <1>1, <1>6, <2>2
  <1>7. ASSUME NEW e \in WsOut, e.op = "close", sOut' = Append(sOut, e), sRefused' = sRefused
        PROVE  /\ Socket!CloseOwned' /\ sPending' \in [Socket!Callers -> WsPending]
               /\ sOut' \in Seq(WsOut) /\ sRefused' \in BOOLEAN
    <2>1. PICK L \in Nat : L = Len(sOut)  OBVIOUS
    <2>2. /\ Len(sOut') = L + 1 /\ sOut'[L + 1] = e /\ \A i \in 1..L : sOut'[i] = sOut[i]
          /\ sOut' \in Seq(WsOut)
      BY <1>7, <2>1
    <2>3. \A i \in 1..Len(sOut') : Socket!ClosesAt(i)' <=> i = L + 1
      <3>1. \A i \in 1..L : sOut[i].op # "close"  BY <1>4, <2>1 DEF Socket!ClosesAt
      <3>2. \A i \in 1..Len(sOut') : Socket!ClosesAt(i)' <=> sOut'[i].op = "close"
        BY DEF Socket!ClosesAt
      <3> QED  BY <1>7, <2>2, <3>1, <3>2
    <2>4. Socket!CloseOwned'
      BY <1>0, <1>2, <1>3, <2>2, <2>3 DEF Socket!CloseOwned, Socket!Callers, Socket!Reader
    <2> QED  BY <1>1, <1>7, <2>2, <2>4
  <1>8. PICK e \in WsOut : /\ e.op = "close"
                           /\ e = [op |-> "close", code |-> sPending[c].code, data |-> <<>>]
    <2>1. sPending[c].code \in Nat  BY DEF WsPending
    <2> QED  BY <2>1, WsPayloads DEF WsOut
  <1>9. \/ sRefused' = TRUE /\ sOut' = sOut
        \/ (sClosed \/ sBroken) /\ sOut' = sOut /\ sRefused' = sRefused
        \/ sOut' = Append(sOut, e) /\ sRefused' = sRefused
    BY <1>8 DEF Socket!WriteControl, Socket!Write
  <1> QED  BY <1>5, <1>6, <1>7, <1>8, <1>9

\* What a step of the reader leaves true besides the frames it keeps.
WsRest ==
  /\ Socket!CloseOwned /\ Socket!WithinLimit /\ sCloseSent \in BOOLEAN
  /\ sReader \notin {0, 1006} => sCloseSent
  /\ sPending \in [Socket!Callers -> WsPending] /\ sOut \in Seq(WsOut) /\ sGot \in Seq(WsGot)

\* What was returned before is still within the limit.
LEMMA WsKept ==
  ASSUME Socket!WithinLimit, UNCHANGED sGot
  PROVE  Socket!WithinLimit'
  BY DEF Socket!WithinLimit, Socket!ValidText

LEMMA WsReader == Socket!Reader \in Socket!Callers
  BY DEF Socket!Callers

\* Giving up with a code.
LEMMA WsFails ==
  ASSUME WsRest, NEW code \in Nat \ {0}, Socket!Fail(code), UNCHANGED <<sClosed, sBroken, sRefused>>
  PROVE  WsRest'
  <1>1. <<>> \in Socket!Payload  BY WsPayloads
  <1>2. Socket!WriteClose(Socket!Reader, code, <<>>) /\ UNCHANGED <<sGot, sOut>>  BY DEF Socket!Fail
  <1>3. /\ Socket!CloseOwned' /\ sCloseSent' = TRUE
        /\ sPending' \in [Socket!Callers -> WsPending]
    <2>1. /\ Socket!CloseOwned /\ sPending \in [Socket!Callers -> WsPending]
          /\ sCloseSent \in BOOLEAN
      BY DEF WsRest
    <2> QED  BY <1>1, <1>2, <2>1, WsReader, WsMarks
  <1>4. Socket!WithinLimit'  BY <1>2, WsKept DEF WsRest
  <1> QED  BY <1>2, <1>3, <1>4 DEF WsRest, WsPending, WsOut, WsGot, Socket!Payload, Socket!Callers, Socket!Reader

\* A frame that changes nothing but what is kept of the message.
LEMMA WsKeeps ==
  ASSUME WsRest, UNCHANGED <<sGot, sReader, sOut, sCloseSent, sPending, sClosed, sBroken, sRefused>>
  PROVE  WsRest'
  <1>1. Socket!CloseOwned'  BY WsQuiet DEF WsRest
  <1>2. Socket!WithinLimit'  BY WsKept DEF WsRest
  <1> QED  BY <1>1, <1>2 DEF WsRest, WsPending, WsOut, WsGot, Socket!Payload, Socket!Callers, Socket!Reader

\* A message is returned or refused.
LEMMA WsDelivers ==
  ASSUME WsRest, NEW op \in {"text", "bin"}, NEW buf \in Socket!Payload, Len(buf) <= ReadLimit,
         Socket!Deliver(op, buf), UNCHANGED <<sClosed, sBroken, sRefused>>
  PROVE  WsRest'
  <1>1. CASE op = "text" /\ ~Socket!ValidText(buf)
    <2>1. Socket!Fail(1007) /\ 1007 \in Nat \ {0}
      BY <1>1 DEF Socket!Deliver, Socket!InvalidPayload
    <2> QED  BY <2>1, WsFails
  <1>2. CASE ~(op = "text" /\ ~Socket!ValidText(buf))
    <2>1. PICK m \in WsGot : m.op = op /\ m.data = buf /\ m = [op |-> op, data |-> buf]
      BY DEF WsGot
    <2>2. sGot' = Append(sGot, m) /\ UNCHANGED <<sReader, sOut, sCloseSent, sPending>>
      BY <1>2, <2>1 DEF Socket!Deliver
    <2>3. PICK L \in Nat : L = Len(sGot)  BY DEF WsRest
    <2>4. /\ Len(sGot') = L + 1 /\ sGot'[L + 1] = m /\ \A i \in 1..L : sGot'[i] = sGot[i]
          /\ sGot' \in Seq(WsGot)
      BY <2>2, <2>3 DEF WsRest
    <2>5. Socket!WithinLimit'
      <3>1. \A i \in 1..L : /\ Len(sGot[i].data) <= ReadLimit /\ sGot[i].op \in {"text", "bin"}
                            /\ sGot[i].op = "text" => Socket!ValidText(sGot[i].data)
        BY <2>3 DEF WsRest, Socket!WithinLimit
      <3>2. \A i \in 1..Len(sGot') : /\ Len(sGot'[i].data) <= ReadLimit /\ sGot'[i].op \in {"text", "bin"}
                                     /\ sGot'[i].op = "text" => Socket!ValidText(sGot'[i].data)
        <4> SUFFICES ASSUME NEW i \in 1..Len(sGot')
                     PROVE  /\ Len(sGot'[i].data) <= ReadLimit /\ sGot'[i].op \in {"text", "bin"}
                            /\ sGot'[i].op = "text" => Socket!ValidText(sGot'[i].data)
          OBVIOUS
        <4>1. CASE i = L + 1  BY <1>2, <2>1, <2>4, <4>1
        <4>2. CASE i \in 1..L  BY <2>4, <3>1, <4>2
        <4> QED  BY <2>4, <4>1, <4>2
      <3> QED  BY <3>2 DEF Socket!WithinLimit, Socket!ValidText
    <2>6. Socket!CloseOwned'  BY <2>2, WsQuiet DEF WsRest
    <2> QED  BY <2>2, <2>4, <2>5, <2>6
             DEF WsRest, WsPending, WsOut, WsGot, Socket!Payload, Socket!Callers, Socket!Reader
  <1> QED  BY <1>1, <1>2

\* Zero is no status.
LEMMA WsCodes == ~Socket!wsValidCloseCode(0)
  <1>1. 0 \notin 3000..4999  OBVIOUS
  <1>2. 0 \notin 1000..1014  OBVIOUS
  <1>3. 0 \notin (1000..1014) \ {1004, 1005, 1006}  BY <1>2
  <1> QED  BY <1>1, <1>3, SMT DEF Socket!wsValidCloseCode

\* A control frame: a ping answered, a pong dropped, a close answered or refused.
LEMMA WsControlFrame ==
  ASSUME WsRest, NEW f \in WsFrames, Socket!handleControl(f),
         UNCHANGED <<sClosed, sBroken, sRefused>>
  PROVE  WsRest'
  <1>1. CASE f.op = "ping"
    <2>1. f.data \in Socket!Payload /\ 0 \in Nat  BY DEF WsFrames
    <2>2. PICK e \in WsOut : e.op = "pong" /\ e = [op |-> "pong", code |-> 0, data |-> f.data]
      BY <2>1 DEF WsOut
    <2>3. /\ Socket!Write(e) /\ UNCHANGED <<sGot, sCloseSent, sPending>>
          /\ sReader' = sReader \/ sReader' = 1006
      BY <1>1, <2>2 DEF Socket!handleControl, Socket!Down
    <2>4. Socket!CloseOwned' /\ sOut' \in Seq(WsOut)
      BY <2>2, <2>3, WsWrites DEF WsRest
    <2>5. Socket!WithinLimit'  BY <2>3, WsKept DEF WsRest
    <2> QED  BY <2>3, <2>4, <2>5
             DEF WsRest, WsPending, WsOut, WsGot, Socket!Payload, Socket!Callers, Socket!Reader
  <1>2. CASE f.op = "pong"
    <2>1. UNCHANGED <<sGot, sReader, sOut, sCloseSent, sPending>>
      BY <1>2 DEF Socket!handleControl
    <2> QED  BY <2>1, WsKeeps
  <1>3. CASE f.op = "close"
    <2>1. CASE Socket!Fail(1002) \/ Socket!Fail(1007)
      BY <2>1, WsFails
    <2>2. CASE /\ f.code = 1005 \/ Socket!wsValidCloseCode(f.code)
               /\ sReader' = f.code /\ UNCHANGED <<sGot, sOut>>
               /\ Socket!WriteClose(Socket!Reader, IF f.code = 1005 THEN 1000 ELSE f.code, <<>>)
      <3>1. PICK n \in Nat \ {0} : n = IF f.code = 1005 THEN 1000 ELSE f.code
        <4>1. f.code \in Nat  BY DEF WsFrames
        <4>2. f.code # 0  BY <2>2, WsCodes
        <4> QED  BY <4>1, <4>2
      <3>2. <<>> \in Socket!Payload  BY WsPayloads
      <3>3. /\ Socket!CloseOwned' /\ sCloseSent' = TRUE
            /\ sPending' \in [Socket!Callers -> WsPending]
        <4>1. Socket!WriteClose(Socket!Reader, n, <<>>)  BY <2>2, <3>1
        <4>2. UNCHANGED <<sOut, sClosed, sBroken, sRefused>>  BY <2>2
        <4>3. /\ Socket!CloseOwned /\ sPending \in [Socket!Callers -> WsPending]
              /\ sCloseSent \in BOOLEAN
          BY DEF WsRest
        <4> QED  BY <3>2, <4>1, <4>2, <4>3, WsReader, WsMarks
      <3>4. Socket!WithinLimit'  BY <2>2, WsKept DEF WsRest
      <3> QED  BY <2>2, <3>3, <3>4
               DEF WsRest, WsPending, WsOut, WsGot, Socket!Payload, Socket!Callers, Socket!Reader
    <2> QED  BY <1>3, <2>1, <2>2
             DEF Socket!handleControl, Socket!None, Socket!Normal, Socket!ProtocolErr, Socket!InvalidPayload
  <1> QED  BY <1>1, <1>2, <1>3 DEF Socket!handleControl

\* What is kept of a message whose frames are not all there yet.
WsKeptFrag ==
  /\ sFrag \in WsFrags /\ Len(sFrag.buf) <= ReadLimit
  /\ sFrag # Socket!NoFrag => sFrag.op # "none"

LEMMA WsNoFrag ==
  Socket!NoFrag \in WsFrags /\ Socket!NoFrag.buf = <<>> /\ Len(Socket!NoFrag.buf) <= ReadLimit
  BY WsPayloads, SocketAssumption DEF Socket!NoFrag, WsFrags

\* The first frame of a message.
LEMMA WsFirst ==
  ASSUME WsRest, WsKeptFrag, NEW f \in WsFrames, f.op \in {"text", "bin"}, Len(f.data) <= ReadLimit,
         Socket!readFirst(f), UNCHANGED <<sClosed, sBroken, sRefused>>
  PROVE  WsRest' /\ WsKeptFrag'
  <1>0. f.data \in Socket!Payload  BY DEF WsFrames
  <1>1. CASE sFrag # Socket!NoFrag
    <2>1. Socket!Fail(1002) /\ sFrag' = sFrag
      BY <1>1 DEF Socket!readFirst, Socket!ProtocolErr
    <2> QED  BY <2>1, WsFails DEF WsKeptFrag, WsFrags, Socket!Payload, Socket!NoFrag
  <1>2. CASE sFrag = Socket!NoFrag /\ f.fin
    <2>1. Socket!Deliver(f.op, f.data) /\ sFrag' = sFrag
      BY <1>2 DEF Socket!readFirst
    <2> QED  BY <1>0, <2>1, WsDelivers DEF WsKeptFrag, WsFrags, Socket!Payload, Socket!NoFrag
  <1>3. CASE sFrag = Socket!NoFrag /\ ~f.fin
    <2>1. PICK g \in WsFrags : g.op = f.op /\ g.buf = f.data /\ g = [op |-> f.op, buf |-> f.data]
      BY <1>0 DEF WsFrags
    <2>2. sFrag' = g /\ UNCHANGED <<sGot, sReader, sOut, sCloseSent, sPending>>
      BY <1>3, <2>1 DEF Socket!readFirst
    <2>3. WsKeptFrag'
      <3>1. sFrag' \in WsFrags /\ Len(sFrag'.buf) <= ReadLimit /\ sFrag'.op # "none"  BY <2>1, <2>2
      <3> QED  BY <3>1 DEF WsKeptFrag, WsFrags, Socket!Payload
    <2> QED  BY <2>2, <2>3, WsKeeps
  <1> QED  BY <1>1, <1>2, <1>3

\* A later one.
LEMMA WsMore ==
  ASSUME WsRest, WsKeptFrag, NEW f \in WsFrames,
         Socket!readMore(f), UNCHANGED <<sClosed, sBroken, sRefused>>
  PROVE  WsRest' /\ WsKeptFrag'
  <1>0. f.data \in Socket!Payload /\ sFrag.buf \in Socket!Payload /\ sFrag.op \in {"none", "text", "bin"}
    BY DEF WsFrames, WsKeptFrag, WsFrags
  <1>b. ASSUME sFrag' = Socket!NoFrag  PROVE WsKeptFrag'
    <2>1. sFrag' \in WsFrags /\ Len(sFrag'.buf) <= ReadLimit  BY <1>b, WsNoFrag
    <2> QED  BY <1>b, <2>1 DEF WsKeptFrag, WsFrags, Socket!Payload, Socket!NoFrag
  <1>1. CASE sFrag = Socket!NoFrag
    <2>1. Socket!Fail(1002) /\ sFrag' = Socket!NoFrag
      BY <1>1 DEF Socket!readMore, Socket!ProtocolErr
    <2> QED  BY <1>b, <2>1, WsFails
  <1>2. CASE sFrag # Socket!NoFrag /\ Len(sFrag.buf) + Len(f.data) > ReadLimit
    <2>1. Socket!Fail(1009) /\ sFrag' = Socket!NoFrag
      BY <1>2 DEF Socket!readMore, Socket!TooBig
    <2> QED  BY <1>b, <2>1, WsFails
  <1>3. CASE sFrag # Socket!NoFrag /\ Len(sFrag.buf) + Len(f.data) <= ReadLimit
    <2>1. PICK whole \in Socket!Payload : whole = sFrag.buf \o f.data /\ Len(whole) <= ReadLimit
      <3>1. /\ sFrag.buf \o f.data \in Socket!Payload
            /\ Len(sFrag.buf \o f.data) = Len(sFrag.buf) + Len(f.data)
        BY <1>0, ConcatProperties DEF Socket!Payload
      <3> QED  BY <1>3, <3>1
    <2>2. sFrag.op \in {"text", "bin"}  BY <1>0, <1>3 DEF WsKeptFrag
    <2>3. ~(Len(sFrag.buf) + Len(f.data) > ReadLimit)
      <3>1. Len(sFrag.buf) \in Nat /\ Len(f.data) \in Nat  BY <1>0 DEF Socket!Payload
      <3>2. PICK a \in Nat, b \in Nat : a = Len(sFrag.buf) /\ b = Len(f.data)  BY <3>1
      <3>3. a + b <= ReadLimit  BY <1>3, <3>2
      <3>4. ~(a + b > ReadLimit)  BY <3>3, SocketAssumption
      <3> QED  BY <3>2, <3>4
    <2>4. CASE f.fin
      <3>1. Socket!Deliver(sFrag.op, whole) /\ sFrag' = Socket!NoFrag
        BY <1>3, <2>1, <2>3, <2>4 DEF Socket!readMore
      <3>2. PICK op \in {"text", "bin"} : op = sFrag.op  BY <2>2
      <3>3. WsRest'  BY <2>1, <3>1, <3>2, WsDelivers
      <3> QED  BY <1>b, <3>1, <3>3
    <2>5. CASE ~f.fin
      <3>1. PICK g \in WsFrags : g.op = sFrag.op /\ g.buf = whole /\ g = [sFrag EXCEPT !.buf = whole]
        BY <1>0 DEF WsKeptFrag, WsFrags
      <3>2. sFrag' = g /\ UNCHANGED <<sGot, sReader, sOut, sCloseSent, sPending>>
        BY <1>3, <2>1, <2>3, <2>5, <3>1 DEF Socket!readMore
      <3>3. sFrag' \in WsFrags /\ Len(sFrag'.buf) <= ReadLimit /\ sFrag'.op # "none"
        BY <2>1, <2>2, <3>1, <3>2
      <3>4. WsKeptFrag'  BY <3>3 DEF WsKeptFrag, WsFrags, Socket!Payload
      <3> QED  BY <3>2, <3>4, WsKeeps
    <2> QED  BY <2>4, <2>5
  <1> QED
    <2>1. Len(sFrag.buf) \in Nat /\ Len(f.data) \in Nat  BY <1>0 DEF Socket!Payload
    <2>2. PICK a \in Nat, b \in Nat : a = Len(sFrag.buf) /\ b = Len(f.data)  BY <2>1
    <2>3. a + b > ReadLimit \/ a + b <= ReadLimit  BY SocketAssumption
    <2> QED  BY <2>2, <2>3, <1>1, <1>2, <1>3

\* The invariant in the parts the lemmas speak of.
LEMMA WsParts ==
  Socket!WsInv <=>
    /\ WsRest /\ WsKeptFrag /\ sWire \in Seq(PeerFrames)
    /\ sClosed \in BOOLEAN /\ sBroken \in BOOLEAN /\ sRefused \in BOOLEAN
  BY WsType DEF Socket!WsInv, WsRest, WsKeptFrag, Socket!Reads, Socket!Down

LEMMA WsPartsNext ==
  Socket!WsInv' <=>
    /\ WsRest' /\ WsKeptFrag' /\ sWire' \in Seq(PeerFrames)
    /\ sClosed' \in BOOLEAN /\ sBroken' \in BOOLEAN /\ sRefused' \in BOOLEAN
  BY WsTypeNext DEF Socket!WsInv, WsRest, WsKeptFrag, Socket!Reads, Socket!Down, WsFrags, WsGot,
     WsOut, WsPending, Socket!Payload, Socket!Callers, Socket!Reader, Socket!NoFrag

\* What is kept of a message stays when no frame is read.
LEMMA WsFragStays ==
  ASSUME WsKeptFrag, UNCHANGED sFrag
  PROVE  WsKeptFrag'
  BY DEF WsKeptFrag, WsFrags, Socket!Payload, Socket!NoFrag

LEMMA WsReadInv ==
  ASSUME Socket!WsInv, Socket!ReadMessage
  PROVE  Socket!WsInv'
  <1>0. /\ UNCHANGED <<sSent, sClosed, sBroken, sRefused>> /\ sWire # <<>> /\ sWire' = Tail(sWire)
        /\ WsRest /\ WsKeptFrag /\ sWire \in Seq(PeerFrames)
        /\ sClosed \in BOOLEAN /\ sBroken \in BOOLEAN /\ sRefused \in BOOLEAN
    BY WsParts DEF Socket!ReadMessage
  <1>1. PICK f \in WsFrames : f = Head(sWire)
    <2>1. Head(sWire) \in PeerFrames  BY <1>0, HeadFirst
    <2> QED  BY <2>1, WsPeer
  <1>2. sWire' \in Seq(PeerFrames)  BY <1>0
  <1>3. ASSUME WsRest', WsKeptFrag'  PROVE Socket!WsInv'
    BY <1>0, <1>2, <1>3, WsPartsNext
  <1>4. CASE Socket!readFrame(f) # 0
    <2>1. Socket!Fail(Socket!readFrame(f)) /\ sFrag' = sFrag
      BY <1>1, <1>4 DEF Socket!ReadMessage
    <2>2. Socket!readFrame(f) \in Nat \ {0}
      BY <1>4 DEF Socket!readFrame, Socket!ProtocolErr, Socket!TooBig
    <2>3. WsRest'  BY <1>0, <2>1, <2>2, WsFails
    <2>4. WsKeptFrag'  BY <1>0, <2>1, WsFragStays
    <2> QED  BY <1>3, <2>3, <2>4
  <1>5. CASE Socket!readFrame(f) = 0
    <2>1. \/ Socket!handleControl(f)
          \/ f.op \in {"text", "bin"} /\ Socket!readFirst(f)
          \/ f.op = "cont" /\ Socket!readMore(f)
      BY <1>1, <1>5 DEF Socket!ReadMessage
    <2>2. CASE Socket!handleControl(f)
      <3>1. sFrag' = sFrag  BY <2>2 DEF Socket!handleControl
      <3>2. WsRest'  BY <1>0, <2>2, WsControlFrame
      <3> QED  BY <1>0, <1>3, <3>1, <3>2, WsFragStays
    <2>3. CASE f.op \in {"text", "bin"} /\ Socket!readFirst(f)
      <3>1. Len(f.data) <= ReadLimit
        <4>1. f.data \in Socket!Payload  BY DEF WsFrames
        <4>2. PICK n \in Nat : n = Len(f.data)  BY <4>1 DEF Socket!Payload
        <4>3. Socket!length(f) = n
          <5>1. f.op # "close"  BY <2>3
          <5>2. Socket!length(f) = Len(f.data) + 0  BY <5>1 DEF Socket!length
          <5> QED  BY <4>2, <5>2
        <4>4. ~(Socket!length(f) > ReadLimit)
          BY <1>5 DEF Socket!readFrame, Socket!ProtocolErr, Socket!TooBig
        <4> QED  BY <4>2, <4>3, <4>4, SocketAssumption
      <3> QED  BY <1>0, <1>3, <2>3, <3>1, WsFirst
    <2>4. CASE f.op = "cont" /\ Socket!readMore(f)
      BY <1>0, <1>3, <2>4, WsMore
    <2> QED  BY <2>1, <2>2, <2>3, <2>4
  <1> QED  BY <1>4, <1>5

\* The other goroutines write, say close or close; the peer sends or is gone.
LEMMA WsOtherInv ==
  ASSUME Socket!WsInv,
         \/ Socket!WriteMessage \/ Socket!Close \/ Socket!ReadError
         \/ Socket!PeerSends \/ Socket!PeerGone
  PROVE  Socket!WsInv'
  <1>0. /\ WsRest /\ WsKeptFrag /\ sWire \in Seq(PeerFrames)
        /\ sClosed \in BOOLEAN /\ sBroken \in BOOLEAN /\ sRefused \in BOOLEAN
    BY WsParts
  <1>1. UNCHANGED <<sFrag, sGot, sPending, sCloseSent, sRefused>>
    BY DEF Socket!WriteMessage, Socket!Close, Socket!ReadError, Socket!PeerSends, Socket!PeerGone
  <1>2. WsKeptFrag'  BY <1>0, <1>1, WsFragStays
  <1>3. Socket!WithinLimit'  BY <1>0, <1>1, WsKept DEF WsRest
  <1>4. ASSUME Socket!CloseOwned', sOut' \in Seq(WsOut), sReader' = sReader \/ sReader' = 1006
        PROVE  WsRest'
    BY <1>0, <1>1, <1>3, <1>4
       DEF WsRest, WsPending, WsOut, WsGot, Socket!Payload, Socket!Callers, Socket!Reader
  <1>5. CASE Socket!WriteMessage
    <2>1. PICK e \in WsOut : e.op = "bin" /\ e = [op |-> "bin", code |-> 0, data |-> <<>>]
      <3>1. <<>> \in Socket!Payload /\ 0 \in Nat  BY WsPayloads
      <3> QED  BY <3>1 DEF WsOut
    <2>2. /\ Socket!Write(e)
          /\ UNCHANGED <<sWire, sReader, sPending, sCloseSent, sClosed, sBroken, sRefused>>
      BY <1>5, <2>1 DEF Socket!WriteMessage
    <2>3. Socket!CloseOwned' /\ sOut' \in Seq(WsOut)  BY <1>0, <2>1, <2>2, WsWrites DEF WsRest
    <2> QED  BY <1>0, <1>2, <1>4, <2>2, <2>3, WsPartsNext
  <1>6. CASE Socket!Close \/ Socket!ReadError \/ Socket!PeerSends \/ Socket!PeerGone
    <2>1. /\ UNCHANGED sOut /\ (sClosed => sClosed') /\ (sBroken => sBroken')
          /\ sClosed' \in BOOLEAN /\ sBroken' \in BOOLEAN
          /\ sReader' = sReader \/ sReader' = 1006
      <3>1. CASE Socket!Close  BY <1>0, <3>1 DEF Socket!Close
      <3>2. CASE Socket!ReadError  BY <1>0, <3>2 DEF Socket!ReadError, Socket!Down
      <3>3. CASE Socket!PeerSends  BY <1>0, <3>3 DEF Socket!PeerSends
      <3>4. CASE Socket!PeerGone  BY <1>0, <3>4 DEF Socket!PeerGone
      <3> QED  BY <1>6, <3>1, <3>2, <3>3, <3>4
    <2>2. sWire' \in Seq(PeerFrames)
      <3>1. CASE Socket!PeerSends  BY <1>0, <3>1 DEF Socket!PeerSends
      <3>2. CASE Socket!Close \/ Socket!ReadError \/ Socket!PeerGone
        BY <1>0, <3>2 DEF Socket!Close, Socket!ReadError, Socket!PeerGone
      <3> QED  BY <1>6, <3>1, <3>2
    <2>3. Socket!CloseOwned'  BY <1>0, <1>1, <2>1, WsQuiet DEF WsRest
    <2>4. sOut' \in Seq(WsOut)  BY <1>0, <2>1 DEF WsRest
    <2> QED  BY <1>0, <1>1, <1>2, <1>4, <2>1, <2>2, <2>3, <2>4, WsPartsNext
  <1> QED  BY <1>5, <1>6

\* A goroutine says close, and writes the frame later.
LEMMA WsClosersInv ==
  ASSUME Socket!WsInv,
         \/ \E c \in Socket!Callers : Socket!WriteControl(c)
         \/ \E c \in Closers : Socket!SayClose(c)
  PROVE  Socket!WsInv'
  <1>0. /\ WsRest /\ WsKeptFrag /\ sWire \in Seq(PeerFrames)
        /\ sClosed \in BOOLEAN /\ sBroken \in BOOLEAN /\ sRefused \in BOOLEAN
    BY WsParts
  <1>1. ASSUME NEW c \in Socket!Callers, Socket!WriteControl(c)  PROVE Socket!WsInv'
    <2>1. UNCHANGED <<sWire, sFrag, sGot, sReader, sClosed, sCloseSent, sBroken>>
      BY <1>1 DEF Socket!WriteControl
    <2>2. /\ Socket!CloseOwned' /\ sPending' \in [Socket!Callers -> WsPending]
          /\ sOut' \in Seq(WsOut) /\ sRefused' \in BOOLEAN
      BY <1>0, <1>1, WsControls DEF WsRest
    <2>3. WsKeptFrag'  BY <1>0, <2>1, WsFragStays
    <2>4. Socket!WithinLimit'  BY <1>0, <2>1, WsKept DEF WsRest
    <2>5. WsRest'
      BY <1>0, <2>1, <2>2, <2>4
         DEF WsRest, WsPending, WsOut, WsGot, Socket!Payload, Socket!Callers, Socket!Reader
    <2> QED  BY <1>0, <2>1, <2>2, <2>3, <2>5, WsPartsNext
  <1>2. ASSUME NEW c \in Closers, Socket!SayClose(c)  PROVE Socket!WsInv'
    <2>1. UNCHANGED <<sWire, sFrag, sGot, sReader, sClosed, sBroken, sOut, sRefused>>
      BY <1>2 DEF Socket!SayClose
    <2>2. PICK text \in {<<>>, [i \in 1..ControlLimit |-> "a"]} : Socket!WriteClose(c, 1000, text)
      BY <1>2 DEF Socket!SayClose, Socket!Normal
    <2>3. text \in Socket!Payload
      <3>1. [i \in 1..ControlLimit |-> "a"] \in Socket!Payload
        BY SocketAssumption DEF Socket!Payload
      <3> QED  BY <2>2, <3>1, WsPayloads
    <2>4. c \in Socket!Callers  BY DEF Socket!Callers
    <2>5. PICK n \in Nat \ {0} : n = 1000  OBVIOUS
    <2>6. /\ Socket!CloseOwned /\ sPending \in [Socket!Callers -> WsPending] /\ sCloseSent \in BOOLEAN
      BY <1>0 DEF WsRest
    <2>7. /\ Socket!CloseOwned' /\ sCloseSent' = TRUE
          /\ sPending' \in [Socket!Callers -> WsPending]
      <3>1. Socket!WriteClose(c, n, text)  BY <2>2, <2>5
      <3> QED  BY <2>1, <2>3, <2>4, <2>6, <3>1, WsMarks
    <2>8. WsKeptFrag'  BY <1>0, <2>1, WsFragStays
    <2>9. Socket!WithinLimit'  BY <1>0, <2>1, WsKept DEF WsRest
    <2>10. WsRest'
      BY <1>0, <2>1, <2>7, <2>9
         DEF WsRest, WsPending, WsOut, WsGot, Socket!Payload, Socket!Callers, Socket!Reader
    <2> QED  BY <1>0, <2>1, <2>8, <2>10, WsPartsNext
  <1> QED  BY <1>1, <1>2

LEMMA WsNextInv ==
  Socket!WsInv /\ [Socket!WsNext]_socketVars => Socket!WsInv'
  <1> SUFFICES ASSUME Socket!WsInv, [Socket!WsNext]_socketVars  PROVE Socket!WsInv'
    OBVIOUS
  <1>1. CASE UNCHANGED socketVars
    <2>0. /\ WsRest /\ WsKeptFrag /\ sWire \in Seq(PeerFrames)
          /\ sClosed \in BOOLEAN /\ sBroken \in BOOLEAN /\ sRefused \in BOOLEAN
      BY WsParts
    <2>1. UNCHANGED <<sWire, sFrag, sGot, sReader, sPending, sClosed, sCloseSent, sBroken, sOut, sRefused>>
      BY <1>1 DEF socketVars
    <2>2. WsRest'  BY <2>0, <2>1, WsKeeps
    <2>3. WsKeptFrag'  BY <2>0, <2>1, WsFragStays
    <2> QED  BY <2>0, <2>1, <2>2, <2>3, WsPartsNext
  <1>2. CASE Socket!WsNext
    BY <1>2, WsReadInv, WsOtherInv, WsClosersInv DEF Socket!WsNext
  <1> QED  BY <1>1, <1>2

\* One owner of the close means one close, said unless the socket is down.
LEMMA WsCloseSaid == Socket!WsInv => Socket!CloseSaid
  <1> SUFFICES ASSUME Socket!WsInv  PROVE Socket!CloseSaid
    OBVIOUS
  <1> DEFINE said == {i \in 1..Len(sOut) : sOut[i].op = "close"}
  <1>2. \A i : i \in said <=> i \in 1..Len(sOut) /\ Socket!ClosesAt(i)  BY DEF Socket!ClosesAt
  <1> HIDE DEF said
  <1>3. \A i, j \in said : i = j  BY <1>2 DEF Socket!WsInv, Socket!CloseOwned
  <1>4. (sReader \notin {Socket!Reads, Socket!Down} /\ \A c \in Socket!Callers : sPending[c] = Socket!Idle) =>
           said # {} \/ sClosed \/ sBroken \/ sRefused
    BY <1>2 DEF Socket!WsInv, Socket!CloseOwned, Socket!Pends
  <1> QED  BY <1>3, <1>4 DEF Socket!CloseSaid, said

\* A websocket connection: ReadMessage returns no message longer than the limit and
\* no text that is not one; the close is said at most once however many goroutines
\* say it, and a reader that stopped for what the peer sent has said it, unless the
\* socket is down or a caller's reason was too long.
THEOREM ConnectionClosesOnce ==
  Spec => [](Socket!CloseSaid /\ Socket!WithinLimit)
  <1>1. Init => Socket!WsInv
    <2> SUFFICES ASSUME Init  PROVE Socket!WsInv
      OBVIOUS
    <2>0. Socket!WsInit  BY DEF Init
    <2>1. /\ sWire = <<>> /\ sFrag = Socket!NoFrag /\ sGot = <<>> /\ sReader = 0 /\ sOut = <<>>
          /\ sPending = [c \in Socket!Callers |-> Socket!Idle]
          /\ sClosed = FALSE /\ sCloseSent = FALSE /\ sBroken = FALSE /\ sRefused = FALSE
      BY <2>0 DEF Socket!WsInit, Socket!Reads
    <2>2. sWire \in Seq(PeerFrames) /\ sGot \in Seq(WsGot) /\ sOut \in Seq(WsOut)
          /\ Len(sGot) = 0 /\ Len(sOut) = 0
      BY <2>1, EmptyIsSeq
    <2>3. sPending \in [Socket!Callers -> WsPending]  BY <2>1, WsIdle
    <2>4. WsKeptFrag  BY <2>1, WsNoFrag DEF WsKeptFrag
    <2>5. Socket!CloseOwned  BY <2>1, <2>2 DEF Socket!CloseOwned, Socket!Pends
    <2>6. Socket!WithinLimit  BY <2>2 DEF Socket!WithinLimit
    <2> QED  BY <2>1, <2>2, <2>3, <2>4, <2>5, <2>6, WsParts DEF WsRest
  <1>2. Socket!WsInv /\ [Next]_vars => Socket!WsInv'  BY SocketMoves, WsNextInv
  <1>3. Socket!WsInv => Socket!CloseSaid /\ Socket!WithinLimit
    BY WsCloseSaid DEF Socket!WsInv
  <1> QED  BY <1>1, <1>2, <1>3, PTL DEF Spec

============================================================================
