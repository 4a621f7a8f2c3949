--------------------------- MODULE SelectorProofs ---------------------------
(***************************************************************************)
(* What Selector guarantees for any number of services, nodes and client   *)
(* goroutines and any configuration of the breaker.  The argument: a Mark  *)
(* that is in progress works on an entry that was last marked no earlier   *)
(* than it read the clock (MarkInv), so that openUntil never reaches       *)
(* further than the cap from the last Mark, and the Mark that counts the   *)
(* failure that trips a breaker is the one that will put the node out.     *)
(***************************************************************************)
EXTENDS Selector, TLAPS

---------------------------------------------------------------------------
(* The constants                                                           *)

LEMMA Config ==
  /\ BreakerFailures \in Nat /\ PurgeInterval \in Nat /\ EntryTTL \in Nat
  /\ Retries \in Nat /\ Old \in Nat /\ Wrap \in Nat \ {0} /\ MaxTrips \in Nat \ {0}
  /\ Base \in Nat /\ Cap \in Nat
  BY ConfigAssumption DEF Old, Base, Cap

LEMMA NoHealthIsNone == NoHealth \notin HealthType
  <1>1. HealthType \subseteq [failures : Nat, trips : Nat, open : Nat, seen : Nat]
    BY Config DEF HealthType
  <1> QED  BY <1>1, ConfigAssumption

LEMMA IdleType == Idle \in ClientType /\ Idle.pc = "idle"
  <1>1. (CHOOSE s \in Services : TRUE) \in Services  BY ProvidersAssumption
  <1> QED  BY <1>1, Config DEF Idle, ClientType, ClientPcs

\* A goroutine that has nodes to try, at first and again.
Selected(s, q)  == [Idle EXCEPT !.pc = "next", !.service = s, !.nodes = q]
Again(s, q, t)  == [Idle EXCEPT !.pc = "next", !.service = s, !.nodes = q, !.tries = t]

LEMMA TryingType ==
  ASSUME NEW s \in Services, NEW q \in Seq(Nodes), NEW t \in Nat
  PROVE  /\ Selected(s, q) \in ClientType /\ Selected(s, q).pc = "next"
         /\ Selected(s, q).nodes = q
         /\ Again(s, q, t) \in ClientType /\ Again(s, q, t).pc = "next"
         /\ Again(s, q, t).nodes = q
  <1>1. PICK pc \in ClientPcs : pc = "next"  BY DEF ClientPcs
  <1>2. Idle \in ClientType  BY IdleType
  <1>3. PICK new : new = Selected(s, q)  OBVIOUS
  <1>4. new = [Idle EXCEPT !.pc = pc, !.service = s, !.nodes = q]
    BY <1>1, <1>3 DEF Selected
  <1>5. new \in ClientType /\ new.pc = "next" /\ new.nodes = q
    BY <1>1, <1>2, <1>4 DEF ClientType
  <1>6. PICK re : re = Again(s, q, t)  OBVIOUS
  <1>7. re = [Idle EXCEPT !.pc = pc, !.service = s, !.nodes = q, !.tries = t]
    BY <1>1, <1>6 DEF Again
  <1>8. re \in ClientType /\ re.pc = "next" /\ re.nodes = q
    BY <1>1, <1>2, <1>7 DEF ClientType
  <1> QED  BY <1>3, <1>5, <1>6, <1>8

\* The cooldown is within the cap.
LEMMA CooldownType ==
  ASSUME NEW trips
  PROVE  Cooldown(trips) \in 0 .. Cap
  BY Config DEF Cooldown

\* filterHealthy leaves some node.
LEMMA FilterLeavesSome ==
  ASSUME NEW s \in Services, NEW h
  PROVE  /\ filterHealthy(h, s) \in Seq(Nodes) /\ filterHealthy(h, s) # <<>>
         /\ Providers[s] \in Seq(Nodes) /\ Providers[s] # <<>>
  <1>1. Healthy(h, s) \in SUBSET Nodes  BY DEF Healthy
  <1>2. Only(s, Healthy(h, s)) \in Seq(Nodes)  BY <1>1, OnlyAssumption
  <1> QED  BY <1>2, ProvidersAssumption DEF filterHealthy

---------------------------------------------------------------------------
(* Steps of one goroutine                                                  *)

\* After the step goroutine c is at pc; of what the invariant speaks of it keeps
\* its service, its nodes, its node and its Mark.
ClientIs(c, pc) ==
  /\ client' \in [Clients -> ClientType]
  /\ client'[c].pc = pc
  /\ client'[c].service = client[c].service /\ client'[c].nodes = client[c].nodes
  /\ client'[c].node = client[c].node /\ client'[c].ago = client[c].ago
  /\ client'[c].orphan = client[c].orphan
  /\ \A d \in Clients \ {c} : client'[d] = client[d]

LEMMA ClientGoes ==
  ASSUME TypeOK, NEW c \in Clients, NEW pc \in ClientPcs,
         client' = [client EXCEPT ![c].pc = pc]
  PROVE  ClientIs(c, pc)
  BY DEF ClientIs, TypeOK, ClientType

LEMMA ClientTrips ==
  ASSUME TypeOK, NEW c \in Clients, NEW t \in 0 .. MaxTrips,
         client' = [client EXCEPT ![c].pc = "open", ![c].trips = t]
  PROVE  ClientIs(c, "open")
  <1>1. PICK mid : mid = [client EXCEPT ![c].trips = t]  OBVIOUS
  <1>2. mid \in [Clients -> ClientType]  BY <1>1 DEF TypeOK, ClientType
  <1>3. \A pc \in ClientPcs : [mid EXCEPT ![c].pc = pc] \in [Clients -> ClientType]
    BY <1>2 DEF ClientType
  <1>4. client' \in [Clients -> ClientType]
    <2>1. client' = [mid EXCEPT ![c].pc = "open"]  BY <1>1 DEF TypeOK
    <2>2. "open" \in ClientPcs  BY DEF ClientPcs
    <2> QED  BY <1>3, <2>1, <2>2, Zenon
  <1>5. /\ client'[c].pc = "open" /\ client'[c].service = client[c].service
        /\ client'[c].nodes = client[c].nodes /\ client'[c].node = client[c].node
        /\ client'[c].ago = client[c].ago /\ client'[c].orphan = client[c].orphan
    BY DEF TypeOK, ClientType
  <1>6. \A d \in Clients \ {c} : client'[d] = client[d]  BY DEF TypeOK
  <1> QED  BY <1>4, <1>5, <1>6 DEF ClientIs

\* The Next of RoundRobin names a node.
LEMMA ClientCalls ==
  ASSUME TypeOK, NEW c \in Clients, NEW n \in Nodes,
         client' = [client EXCEPT ![c].pc = "call", ![c].node = n]
  PROVE  /\ client' \in [Clients -> ClientType] /\ client'[c].pc = "call"
         /\ client'[c].node = n /\ client'[c].nodes = client[c].nodes
         /\ \A d \in Clients \ {c} : client'[d] = client[d]
  <1>1. PICK mid : mid = [client EXCEPT ![c].node = n]  OBVIOUS
  <1>2. mid \in [Clients -> ClientType]  BY <1>1 DEF TypeOK, ClientType
  <1>3. \A pc \in ClientPcs : [mid EXCEPT ![c].pc = pc] \in [Clients -> ClientType]
    BY <1>2 DEF ClientType
  <1>4. client' \in [Clients -> ClientType]
    <2>1. client' = [mid EXCEPT ![c].pc = "call"]  BY <1>1 DEF TypeOK
    <2>2. "call" \in ClientPcs  BY DEF ClientPcs
    <2> QED  BY <1>3, <2>1, <2>2, Zenon
  <1>5. client'[c].pc = "call" /\ client'[c].node = n /\ client'[c].nodes = client[c].nodes
    BY DEF TypeOK, ClientType
  <1>6. \A d \in Clients \ {c} : client'[d] = client[d]  BY DEF TypeOK
  <1> QED  BY <1>4, <1>5, <1>6

\* Mark finds its entry and reads the clock.
LEMMA ClientMarks ==
  ASSUME TypeOK, NEW c \in Clients, NEW pc \in ClientPcs, NEW probe \in BOOLEAN,
         client' = [client EXCEPT ![c].pc = pc, ![c].ago = 0, ![c].orphan = FALSE,
                                  ![c].probe = probe]
  PROVE  /\ client' \in [Clients -> ClientType] /\ client'[c].pc = pc
         /\ client'[c].ago = 0 /\ client'[c].orphan = FALSE
         /\ client'[c].nodes = client[c].nodes /\ client'[c].node = client[c].node
         /\ client'[c].service = client[c].service
         /\ \A d \in Clients \ {c} : client'[d] = client[d]
  <1>1. PICK mid : mid = [client EXCEPT ![c].pc = pc, ![c].ago = 0]  OBVIOUS
  <1>2. 0 \in 0 .. Old  BY Config
  <1>3. mid \in [Clients -> ClientType]  BY <1>1, <1>2 DEF TypeOK, ClientType
  <1>4. PICK no \in BOOLEAN : no = FALSE  OBVIOUS
  <1>8. PICK late : late = [mid EXCEPT ![c].orphan = no]  OBVIOUS
  <1>9. late \in [Clients -> ClientType]  BY <1>3, <1>8 DEF ClientType
  <1>10. client' = [late EXCEPT ![c].probe = probe]  BY <1>1, <1>4, <1>8 DEF TypeOK
  <1>11. \A p \in BOOLEAN : [late EXCEPT ![c].probe = p] \in [Clients -> ClientType]
    BY <1>9 DEF ClientType
  <1>5. client' \in [Clients -> ClientType]  BY <1>10, <1>11, Zenon
  <1>6. /\ client'[c].pc = pc /\ client'[c].ago = 0 /\ client'[c].orphan = FALSE
        /\ client'[c].nodes = client[c].nodes /\ client'[c].node = client[c].node
        /\ client'[c].service = client[c].service
    BY DEF TypeOK, ClientType
  <1>7. \A d \in Clients \ {c} : client'[d] = client[d]  BY DEF TypeOK
  <1> QED  BY <1>5, <1>6, <1>7

LEMMA KeyType ==
  ASSUME TypeOK, MarkInv, NEW c \in Clients, client[c].pc \notin {"idle", "next"}
  PROVE  key(c) \in Keys
  BY DEF TypeOK, ClientType, MarkInv, key, Keys

\* A step of goroutine c outside Mark, before and after, that leaves every entry
\* alone.
LEMMA QuietStep ==
  ASSUME SelectorInv, TypeOK', NEW c \in Clients, UNCHANGED health,
         ~Marking(c), ~Marking(c)',
         client'[c].pc # "idle" => client'[c].nodes # <<>>,
         client'[c].pc \notin {"idle", "next"} => client'[c].node \in Nodes,
         \A d \in Clients \ {c} : client'[d] = client[d]
  PROVE  SelectorInv'
  <1> USE DEF SelectorInv
  <1>1. MarkInv'  BY DEF MarkInv, Marking, key
  <1>2. OpenIsFresh'  BY DEF OpenIsFresh
  <1>3. TripNotLost'
    <2>1. \A d \in Clients : Tripping(d) => d # c /\ Tripping(d)' /\ key(d)' = key(d)
      BY DEF Tripping, Marking, key
    <2> QED  BY <2>1 DEF TripNotLost
  <1> QED  BY <1>1, <1>2, <1>3

\* A store of the Mark of c to its entry k.
LEMMA MarkWrites ==
  ASSUME SelectorInv, TypeOK', NEW c \in Clients, NEW pc \in ClientPcs, ClientIs(c, pc),
         Marking(c), ~client[c].orphan, pc # "idle", pc # "next",
         NEW k \in Keys, k = key(c), NEW h \in HealthType,
         health' = [health EXCEPT ![k] = h], h.seen = health[k].seen,
         h.open > 0 => h.open + h.seen <= Cap,
         h.failures >= BreakerFailures /\ BreakerFailures > 0 =>
           \/ pc \in {"trip", "open", "clear"}
           \/ ~Tripping(c) /\ h.failures = health[k].failures
  PROVE  SelectorInv'
  <1> USE DEF SelectorInv
  <1>1. \A d \in Clients : key(d)' = key(d)  BY DEF ClientIs, key
  <1>2. health'[k] = h /\ h # NoHealth /\ \A j \in Keys \ {k} : health'[j] = health[j]
    BY NoHealthIsNone DEF TypeOK
  <1>3. MarkInv'
    <2> SUFFICES ASSUME NEW d \in Clients  PROVE MarkInv!(d)'
      BY DEF MarkInv
    <2>1. MarkInv!(d)  BY DEF MarkInv
    <2>2. client[c].pc \notin {"idle", "next"}  BY DEF Marking
    <2>3. Marking(d)' => Marking(d) /\ key(d) \in Keys
      BY <2>2, KeyType DEF Marking, ClientIs
    <2>4. Marking(d)' /\ ~client'[d].orphan =>
            health'[key(d)] # NoHealth /\ health'[key(d)].seen <= client'[d].ago
      BY <1>2, <2>1, <2>3 DEF ClientIs
    <2> QED  BY <1>1, <2>1, <2>2, <2>4 DEF ClientIs
  <1>4. OpenIsFresh'  BY <1>2 DEF OpenIsFresh
  <1>5. TripNotLost'
    <2> SUFFICES ASSUME NEW j \in Keys, health'[j] # NoHealth,
                        health'[j].failures >= BreakerFailures, BreakerFailures > 0
                 PROVE  \E d \in Clients : key(d)' = j /\ Tripping(d)'
      BY DEF TripNotLost
    <2>1. CASE j = k /\ pc \in {"trip", "open", "clear"}
      BY <1>1, <2>1 DEF ClientIs, Tripping
    <2>2. CASE j # k \/ (~Tripping(c) /\ h.failures = health[k].failures)
      <3>1. health[j] # NoHealth /\ health[j].failures >= BreakerFailures
        BY <1>2, <2>2 DEF MarkInv
      <3>2. PICK d \in Clients : key(d) = j /\ Tripping(d)  BY <3>1 DEF TripNotLost
      <3>3. d # c  BY <2>2, <3>2
      <3> QED  BY <1>1, <3>2, <3>3 DEF ClientIs, Tripping
    <2> QED  BY <1>2, <2>1, <2>2
  <1> QED  BY <1>3, <1>4, <1>5

\* A store to an entry that was deleted from states.
LEMMA MarkLost ==
  ASSUME SelectorInv, TypeOK', NEW c \in Clients, NEW pc \in ClientPcs, ClientIs(c, pc),
         Marking(c), client[c].orphan, pc # "idle", pc # "next", UNCHANGED health
  PROVE  SelectorInv'
  <1> USE DEF SelectorInv
  <1>1. \A d \in Clients : key(d)' = key(d)  BY DEF ClientIs, key
  <1>2. MarkInv'  BY <1>1 DEF MarkInv, Marking, ClientIs
  <1>3. OpenIsFresh'  BY DEF OpenIsFresh
  <1>4. TripNotLost'
    <2>1. \A d \in Clients : Tripping(d) => Tripping(d)'  BY DEF Tripping, ClientIs
    <2> QED  BY <1>1, <2>1 DEF TripNotLost
  <1> QED  BY <1>2, <1>3, <1>4

\* The same for a step that is one store.
LEMMA WriteStep ==
  ASSUME SelectorInv, NEW c \in Clients, NEW from \in ClientPcs, NEW to \in ClientPcs,
         MarkStep(c, from, to), Marking(c), to # "idle", to # "next",
         NEW h, Write(c, h),
         ~client[c].orphan =>
           /\ h \in HealthType /\ h.seen = health[key(c)].seen
           /\ h.open > 0 => h.open + h.seen <= Cap
           /\ h.failures >= BreakerFailures /\ BreakerFailures > 0 =>
                \/ to \in {"trip", "open", "clear"}
                \/ ~Tripping(c) /\ h.failures = health[key(c)].failures
  PROVE  SelectorInv'
  <1>1. TypeOK /\ MarkInv  BY DEF SelectorInv
  <1>2. ClientIs(c, to)  BY <1>1, ClientGoes DEF MarkStep
  <1>3. PICK k \in Keys : k = key(c)  BY <1>1, KeyType DEF Marking
  <1>4. CASE client[c].orphan
    <2>1. UNCHANGED health  BY <1>4 DEF Write
    <2>2. TypeOK'  BY <1>1, <1>2, <2>1 DEF MarkStep, TypeOK, ClientIs, counters
    <2> QED  BY <1>2, <1>4, <2>1, <2>2, MarkLost
  <1>5. CASE ~client[c].orphan
    <2>1. health' = [health EXCEPT ![k] = h]  BY <1>3, <1>5 DEF Write
    <2>2. health' \in [Keys -> HealthType \cup {NoHealth}]
      BY <1>1, <1>5, <2>1 DEF TypeOK
    <2>3. TypeOK'  BY <1>1, <1>2, <2>2 DEF MarkStep, TypeOK, ClientIs, counters
    <2> QED  BY <1>2, <1>3, <1>5, <2>1, <2>3, MarkWrites
  <1> QED  BY <1>4, <1>5

\* The entry of a Mark in progress.
LEMMA EntryOf ==
  ASSUME SelectorInv, NEW c \in Clients, Marking(c), ~client[c].orphan
  PROVE  /\ key(c) \in Keys /\ health[key(c)] \in HealthType
         /\ health[key(c)].seen <= client[c].ago /\ client[c].ago \in Nat
         /\ health[key(c)].open > 0 => health[key(c)].open + health[key(c)].seen <= Cap
  <1>1. key(c) \in Keys  BY KeyType DEF SelectorInv, Marking
  <1>2. health[key(c)] # NoHealth /\ health[key(c)].seen <= client[c].ago
    BY DEF SelectorInv, MarkInv
  <1>3. client[c].ago \in Nat  BY Config DEF SelectorInv, TypeOK, ClientType
  <1> QED  BY <1>1, <1>2, <1>3 DEF SelectorInv, TypeOK, OpenIsFresh

LEMMA MarkOkStep ==
  ASSUME SelectorInv, NEW c \in Clients, MarkOk(c)
  PROVE  SelectorInv'
  <1> DEFINE e == health[key(c)]
  <1>0. Marking(c) /\ ~Tripping(c)  BY DEF MarkOk, MarkStep, Marking, Tripping
  <1>1. ~client[c].orphan => /\ e \in HealthType
                             /\ e.open > 0 => e.open + e.seen <= Cap
    BY <1>0, EntryOf
  <1> HIDE DEF e
  <1>2. CASE MarkStep(c, "ok1", "ok2") /\ Write(c, [e EXCEPT !.failures = 0])
    <2>1. ~client[c].orphan =>
            /\ [e EXCEPT !.failures = 0] \in HealthType
            /\ [e EXCEPT !.failures = 0].seen = e.seen
            /\ [e EXCEPT !.failures = 0].open = e.open
            /\ [e EXCEPT !.failures = 0].failures = 0
      BY <1>1 DEF HealthType
    <2>2. 0 >= BreakerFailures /\ BreakerFailures > 0 => FALSE  BY Config
    <2> QED  BY <1>0, <1>1, <1>2, <2>1, <2>2, WriteStep DEF ClientPcs, e
  <1>3. CASE MarkStep(c, "ok2", "ok3") /\ Write(c, [e EXCEPT !.trips = 0])
    <2>1. ~client[c].orphan =>
            /\ [e EXCEPT !.trips = 0] \in HealthType
            /\ [e EXCEPT !.trips = 0].seen = e.seen
            /\ [e EXCEPT !.trips = 0].open = e.open
            /\ [e EXCEPT !.trips = 0].failures = e.failures
      BY <1>1, Config DEF HealthType
    <2> QED  BY <1>0, <1>1, <1>3, <2>1, WriteStep DEF ClientPcs, e
  <1>4. CASE MarkStep(c, "ok3", "done") /\ Write(c, [e EXCEPT !.open = 0])
    <2>1. ~client[c].orphan =>
            /\ [e EXCEPT !.open = 0] \in HealthType
            /\ [e EXCEPT !.open = 0].seen = e.seen
            /\ [e EXCEPT !.open = 0].open = 0
            /\ [e EXCEPT !.open = 0].failures = e.failures
      BY <1>1, Config DEF HealthType
    <2>2. ~(0 > 0)  OBVIOUS
    <2> QED  BY <1>0, <1>4, <2>1, <2>2, WriteStep DEF ClientPcs, e
  <1> QED  BY <1>2, <1>3, <1>4 DEF MarkOk, e

LEMMA AddFailureStep ==
  ASSUME SelectorInv, NEW c \in Clients, AddFailure(c)
  PROVE  SelectorInv'
  <1> DEFINE e == health[key(c)]
             f == [e EXCEPT !.failures = @ + 1]
             trips == ~client[c].orphan /\ e.failures + 1 >= BreakerFailures
             to == IF trips THEN "trip" ELSE "failed"
  <1>0. Marking(c) /\ MarkStep(c, "add", to) /\ Write(c, f)
    BY DEF AddFailure, MarkStep, Marking
  <1>1. ~client[c].orphan => /\ e \in HealthType
                             /\ e.open > 0 => e.open + e.seen <= Cap
    BY <1>0, EntryOf
  <1>2. ~client[c].orphan => /\ f \in HealthType /\ f.seen = e.seen /\ f.open = e.open
                             /\ f.failures >= BreakerFailures => to = "trip"
    BY <1>1 DEF HealthType
  <1>3. to \in ClientPcs /\ to # "idle" /\ to # "next"  BY DEF ClientPcs
  <1> HIDE DEF f, to
  <1> QED  BY <1>0, <1>1, <1>2, <1>3, WriteStep DEF ClientPcs

LEMMA AddTripStep ==
  ASSUME SelectorInv, NEW c \in Clients, AddTrip(c)
  PROVE  SelectorInv'
  <1>0. TypeOK /\ MarkInv /\ Marking(c)  BY DEF SelectorInv, AddTrip, Marking
  <1>1. PICK k \in Keys : k = key(c)  BY <1>0, KeyType DEF Marking
  <1>3. CASE client[c].orphan
    <2>1. client' = [client EXCEPT ![c].pc = "open", ![c].trips = 1] /\ UNCHANGED health
      BY <1>3 DEF AddTrip
    <2>2. 1 \in 0 .. MaxTrips  BY Config
    <2>5. ClientIs(c, "open")  BY <1>0, <2>1, <2>2, ClientTrips
    <2>3. TypeOK'  BY <1>0, <2>1, <2>5 DEF AddTrip, TypeOK, ClientIs, counters
    <2> QED  BY <1>0, <1>3, <2>1, <2>3, <2>5, MarkLost DEF ClientPcs
  <1>4. CASE ~client[c].orphan
    <2> DEFINE e == health[k]
               t == IF e.trips < MaxTrips THEN e.trips + 1 ELSE MaxTrips
               h == [e EXCEPT !.trips = t]
    <2>1. e \in HealthType /\ (e.open > 0 => e.open + e.seen <= Cap)
      BY <1>0, <1>1, <1>4, EntryOf
    <2>2. t \in 0 .. MaxTrips  BY <2>1, Config DEF HealthType
    <2>3. client' = [client EXCEPT ![c].pc = "open", ![c].trips = t]
      BY <1>1, <1>4 DEF AddTrip
    <2>4. health' = [health EXCEPT ![k].trips = t]  BY <1>1, <1>4 DEF AddTrip
    <2>5. ClientIs(c, "open")  BY <1>0, <2>2, <2>3, ClientTrips
    <2> HIDE DEF t
    <2>6. /\ h \in HealthType /\ h.seen = e.seen /\ h.open = e.open
          /\ health' = [health EXCEPT ![k] = h]
      BY <2>1, <2>2, <2>4 DEF HealthType
    <2> HIDE DEF h
    <2>7. health' \in [Keys -> HealthType \cup {NoHealth}]  BY <1>0, <2>6 DEF TypeOK
    <2>8. TypeOK'  BY <1>0, <2>5, <2>7 DEF AddTrip, TypeOK, ClientIs, counters
    <2> QED  BY <1>0, <1>1, <1>4, <2>1, <2>5, <2>6, <2>8, MarkWrites DEF ClientPcs
  <1> QED  BY <1>3, <1>4

\* openUntil is counted from the time the Mark read the clock, and nobody marked
\* the entry before that.
LEMMA StoreOpenStep ==
  ASSUME SelectorInv, NEW c \in Clients, StoreOpen(c)
  PROVE  SelectorInv'
  <1> DEFINE e == health[key(c)]
             d == Cooldown(client[c].trips)
             o == IF d > client[c].ago THEN d - client[c].ago ELSE 0
             h == [e EXCEPT !.open = o]
  <1>0. Marking(c) /\ MarkStep(c, "open", "clear") /\ Write(c, h)
    BY DEF StoreOpen, MarkStep, Marking
  <1>1. ~client[c].orphan => e \in HealthType /\ e.seen <= client[c].ago /\ client[c].ago \in Nat
    BY <1>0, EntryOf
  <1>2. d \in 0 .. Cap  BY CooldownType
  <1> HIDE DEF d
  <1>3. ~client[c].orphan => o \in 0 .. Cap /\ (o > 0 => o + e.seen <= Cap)
    BY <1>1, <1>2, Config DEF HealthType
  <1> HIDE DEF o
  <1>4. ~client[c].orphan => h \in HealthType /\ h.seen = e.seen /\ h.open = o
    BY <1>1, <1>3 DEF HealthType
  <1> HIDE DEF h
  <1> QED  BY <1>0, <1>3, <1>4, WriteStep DEF ClientPcs

LEMMA ClearFailuresStep ==
  ASSUME SelectorInv, NEW c \in Clients, ClearFailures(c)
  PROVE  SelectorInv'
  <1> DEFINE e == health[key(c)]
             h == [e EXCEPT !.failures = 0]
  <1>0. Marking(c) /\ MarkStep(c, "clear", "failed") /\ Write(c, h)
    BY DEF ClearFailures, MarkStep, Marking
  <1>1. ~client[c].orphan => /\ e \in HealthType
                             /\ e.open > 0 => e.open + e.seen <= Cap
    BY <1>0, EntryOf
  <1>2. ~client[c].orphan => h \in HealthType /\ h.seen = e.seen /\ h.open = e.open
                             /\ h.failures = 0
    BY <1>1 DEF HealthType
  <1>3. 0 >= BreakerFailures /\ BreakerFailures > 0 => FALSE  BY Config
  <1> HIDE DEF h
  <1> QED  BY <1>0, <1>1, <1>2, <1>3, WriteStep DEF ClientPcs

LEMMA ModType ==
  ASSUME NEW k \in Nat, NEW n \in Nat, n > 0
  PROVE  k % n \in 0 .. n - 1
  OBVIOUS

LEMMA RoundRobinStep ==
  ASSUME SelectorInv, NEW c \in Clients, RoundRobin(c)
  PROVE  SelectorInv'
  <1>0. TypeOK /\ MarkInv  BY DEF SelectorInv
  <1>1. seq' \in 0 .. Wrap - 1
    BY <1>0, Config DEF RoundRobin, TypeOK
  <1>2. client[c].nodes \in Seq(Nodes) /\ client[c].nodes # <<>> /\ seq \in Nat
    BY <1>0, Config DEF RoundRobin, TypeOK, ClientType, MarkInv
  <1>3. PICK l \in Nat : l = Len(client[c].nodes) /\ l > 0  BY <1>2
  <1>4. PICK n \in Nodes : n = client[c].nodes[(seq % l) + 1]
    <2>1. seq % l \in 0 .. l - 1  BY <1>2, <1>3, ModType
    <2>3. (seq % l) + 1 \in 1 .. l  BY <1>3, <2>1
    <2> QED  BY <1>2, <1>3, <2>3
  <1>5. client' = [client EXCEPT ![c].pc = "call", ![c].node = n]
    BY <1>3, <1>4 DEF RoundRobin
  <1>6. /\ client' \in [Clients -> ClientType] /\ client'[c].pc = "call" /\ client'[c].node = n
        /\ client'[c].nodes = client[c].nodes
        /\ \A d \in Clients \ {c} : client'[d] = client[d]
    BY <1>0, <1>5, ClientCalls
  <1>7. TypeOK'  BY <1>0, <1>1, <1>6 DEF RoundRobin, TypeOK, counters
  <1>8. client[c].nodes # <<>> /\ ~Marking(c) /\ ~Marking(c)'
    BY <1>0, <1>6 DEF RoundRobin, MarkInv, Marking
  <1> QED  BY <1>6, <1>7, <1>8, QuietStep DEF RoundRobin

LEMMA CallReturnsStep ==
  ASSUME SelectorInv, NEW c \in Clients, CallReturns(c)
  PROVE  SelectorInv'
  <1>0. TypeOK /\ MarkInv  BY DEF SelectorInv
  <1>1. CASE client' = [client EXCEPT ![c] = Idle] /\ client[c].pc \in {"done", "failed"}
    <2>1. /\ client' \in [Clients -> ClientType] /\ client'[c].pc = "idle"
          /\ \A d \in Clients \ {c} : client'[d] = client[d]
      BY <1>0, <1>1, IdleType DEF TypeOK
    <2>2. TypeOK'  BY <1>0, <2>1 DEF CallReturns, TypeOK, counters
    <2>3. ~Marking(c) /\ ~Marking(c)'  BY <1>1, <2>1 DEF Marking
    <2> QED  BY <2>1, <2>2, <2>3, QuietStep DEF CallReturns
  <1>2. CASE /\ client[c].pc = "failed" /\ client[c].tries + 1 < Retries
             /\ client' = [client EXCEPT ![c] =
                             [Idle EXCEPT !.pc = "next", !.service = client[c].service,
                                !.nodes = client[c].nodes, !.tries = client[c].tries + 1]]
    <2>0. PICK new : new = Again(client[c].service, client[c].nodes, client[c].tries + 1)
      OBVIOUS
    <2>1. new \in ClientType /\ new.pc = "next" /\ new.nodes = client[c].nodes
      <3>1. /\ client[c].service \in Services /\ client[c].nodes \in Seq(Nodes)
            /\ client[c].tries + 1 \in Nat
        BY <1>0 DEF TypeOK, ClientType
      <3> QED  BY <2>0, <3>1, TryingType
    <2>2. client' = [client EXCEPT ![c] = new]  BY <1>2, <2>0 DEF Again
    <2>3. /\ client' \in [Clients -> ClientType] /\ client'[c] = new
          /\ \A d \in Clients \ {c} : client'[d] = client[d]
      BY <1>0, <2>1, <2>2 DEF TypeOK
    <2>4. TypeOK'  BY <1>0, <2>3 DEF CallReturns, TypeOK, counters
    <2>5. client[c].nodes # <<>> /\ ~Marking(c) /\ ~Marking(c)'
      BY <1>0, <1>2, <2>1, <2>3 DEF Marking, MarkInv
    <2> QED  BY <2>1, <2>3, <2>4, <2>5, QuietStep DEF CallReturns
  <1> QED  BY <1>1, <1>2 DEF CallReturns

\* The call ends: no breaker, or Mark finds or makes its entry.
LEMMA CallEndsStep ==
  ASSUME SelectorInv, NEW c \in Clients, CallEnds(c)
  PROVE  SelectorInv'
  <1>0. TypeOK /\ MarkInv  BY DEF SelectorInv
  <1>1. PICK k \in Keys : k = key(c)  BY <1>0, KeyType DEF CallEnds
  <1>2. client[c].nodes # <<>> /\ client[c].node \in Nodes /\ ~Marking(c)
    BY <1>0 DEF CallEnds, MarkInv, Marking
  <1>3. CASE UNCHANGED health /\ BreakerFailures = 0
    <2>1. PICK pc \in {"done", "failed"} : client' = [client EXCEPT ![c].pc = pc]
      BY <1>3 DEF CallEnds
    <2>2. ClientIs(c, pc)  BY <1>0, <2>1, ClientGoes DEF ClientPcs
    <2>3. TypeOK'  BY <1>0, <1>3, <2>2 DEF CallEnds, TypeOK, ClientIs, counters
    <2>4. ~Marking(c)'  BY <2>2 DEF ClientIs, Marking
    <2> QED  BY <1>2, <1>3, <2>2, <2>3, <2>4, QuietStep DEF ClientIs
  <1>4. CASE BreakerFailures > 0
    <2> DEFINE h == health[key(c)]
               new == IF h = NoHealth
                      THEN [failures |-> 0, trips |-> 0, open |-> 0, seen |-> 0]
                      ELSE [h EXCEPT !.seen = 0]
               probe == h # NoHealth /\ h.trips > 0 /\ h.open = 0 /\ h.failures = 0
    <2>0. BreakerFailures # 0  BY <1>4
    <2>1. PICK pc \in {"ok1", "add"} :
            client' = [client EXCEPT ![c].pc = pc, ![c].ago = 0, ![c].orphan = FALSE,
                                     ![c].probe = probe]
      <3>1. PICK pc \in {"ok1", "add"} : pc = IF client[c].node \in up THEN "ok1" ELSE "add"
        OBVIOUS
      <3>2. client' = [client EXCEPT ![c].pc = pc, ![c].ago = 0, ![c].orphan = FALSE,
                                     ![c].probe = probe]
        BY <2>0, <3>1 DEF CallEnds
      <3> QED  BY <3>2
    <2>2. health' = [health EXCEPT ![k] = new]  BY <1>1, <2>0 DEF CallEnds
    <2>3. /\ client' \in [Clients -> ClientType] /\ client'[c].pc = pc
          /\ client'[c].ago = 0 /\ client'[c].orphan = FALSE
          /\ client'[c].nodes = client[c].nodes /\ client'[c].node = client[c].node
          /\ client'[c].service = client[c].service
          /\ \A d \in Clients \ {c} : client'[d] = client[d]
      BY <1>0, <2>1, ClientMarks DEF ClientPcs
    <2>4. /\ new \in HealthType /\ new.seen = 0
          /\ h = NoHealth => new.open = 0 /\ new.failures = 0
          /\ h # NoHealth => new.open = h.open /\ new.failures = h.failures
      BY <1>0, <1>1, Config DEF TypeOK, HealthType
    <2> HIDE DEF new, probe
    <2>5. /\ health' \in [Keys -> HealthType \cup {NoHealth}] /\ health'[k] = new
          /\ \A j \in Keys \ {k} : health'[j] = health[j]
      BY <1>0, <2>2, <2>4 DEF TypeOK
    <2>6. TypeOK'  BY <1>0, <2>3, <2>5 DEF CallEnds, TypeOK, counters
    <2>7. new # NoHealth /\ \A d \in Clients : key(d)' = key(d)
      BY <2>3, <2>4, NoHealthIsNone DEF key
    <2>8. MarkInv'
      <3> SUFFICES ASSUME NEW d \in Clients  PROVE MarkInv!(d)'
        BY DEF MarkInv
      <3>1. MarkInv!(d)  BY <1>0 DEF MarkInv
      <3>2. CASE d = c
        BY <1>1, <1>2, <2>3, <2>4, <2>5, <2>7, <3>2 DEF Marking
      <3>3. CASE d # c
        <4>1. client'[d] = client[d] /\ (Marking(d)' => Marking(d) /\ key(d) \in Keys)
          BY <1>0, <2>3, <3>3, KeyType DEF Marking
        <4>2. client[d].ago >= 0  BY <1>0, Config DEF TypeOK, ClientType
        <4>3. Marking(d)' /\ ~client'[d].orphan =>
                health'[key(d)] # NoHealth /\ health'[key(d)].seen <= client'[d].ago
          BY <2>4, <2>5, <2>7, <3>1, <4>1, <4>2
        <4> QED  BY <2>7, <3>1, <4>1, <4>3
      <3> QED  BY <3>2, <3>3
    <2>9. OpenIsFresh'
      <3>1. h # NoHealth => h \in HealthType  BY <1>0, <1>1 DEF TypeOK
      <3>2. new.open > 0 => new.open + new.seen <= Cap
        BY <1>1, <2>4, <3>1, Config DEF SelectorInv, OpenIsFresh, HealthType
      <3> QED  BY <2>5, <3>2 DEF SelectorInv, OpenIsFresh
    <2>10. TripNotLost'
      <3>1. \A d \in Clients : Tripping(d) => Tripping(d)'
        BY <1>2, <2>3 DEF Tripping, Marking
      <3>2. \A j \in Keys : health'[j] # NoHealth /\ health'[j].failures >= BreakerFailures
              => health[j] # NoHealth /\ health[j].failures >= BreakerFailures
        BY <1>1, <1>4, <2>4, <2>5, Config
      <3> QED  BY <2>7, <3>1, <3>2 DEF SelectorInv, TripNotLost
    <2> QED  BY <2>6, <2>8, <2>9, <2>10 DEF SelectorInv
  <1> QED  BY <1>3, <1>4 DEF CallEnds

---------------------------------------------------------------------------
(* Entries go, and time passes                                             *)

\* Entries are deleted, and the Marks in progress on them are orphaned; c, if it
\* does not mark, may get nodes to try.
LEMMA DeleteStep ==
  ASSUME SelectorInv, TypeOK', NEW gone \in SUBSET Keys,
         \A k \in Keys : IF k \in gone THEN health'[k] = NoHealth ELSE health'[k] = health[k],
         \A d \in Clients :
           \/ /\ client'[d].pc = client[d].pc /\ client'[d].service = client[d].service
              /\ client'[d].node = client[d].node /\ client'[d].nodes = client[d].nodes
              /\ client'[d].ago = client[d].ago
              /\ client'[d].orphan <=> client[d].orphan \/ (Marking(d) /\ key(d) \in gone)
           \/ ~Marking(d) /\ client'[d].pc = "next" /\ client'[d].nodes # <<>>
  PROVE  SelectorInv'
  <1> USE DEF SelectorInv
  <1>1. MarkInv'
    <2> SUFFICES ASSUME NEW d \in Clients  PROVE MarkInv!(d)'
      BY DEF MarkInv
    <2>1. MarkInv!(d)  BY DEF MarkInv
    <2>2. CASE client'[d].pc = "next" /\ client'[d].nodes # <<>>
      BY <2>2 DEF Marking
    <2>3. CASE /\ client'[d].pc = client[d].pc /\ client'[d].service = client[d].service
               /\ client'[d].node = client[d].node /\ client'[d].nodes = client[d].nodes
               /\ client'[d].ago = client[d].ago
               /\ client'[d].orphan <=> client[d].orphan \/ (Marking(d) /\ key(d) \in gone)
      <3>1. key(d)' = key(d) /\ (Marking(d)' <=> Marking(d)) /\ (Marking(d) => key(d) \in Keys)
        BY <2>3, KeyType DEF key, Marking
      <3>2. Marking(d)' /\ ~client'[d].orphan => health'[key(d)] = health[key(d)]
        BY <2>3, <3>1
      <3> QED  BY <2>1, <2>3, <3>1, <3>2
    <2> QED  BY <2>2, <2>3
  <1>2. OpenIsFresh'  BY DEF OpenIsFresh
  <1>3. TripNotLost'
    <2> SUFFICES ASSUME NEW j \in Keys, health'[j] # NoHealth,
                        health'[j].failures >= BreakerFailures, BreakerFailures > 0
                 PROVE  \E d \in Clients : key(d)' = j /\ Tripping(d)'
      BY DEF TripNotLost
    <2>1. j \notin gone /\ health'[j] = health[j]  OBVIOUS
    <2>2. PICK d \in Clients : key(d) = j /\ Tripping(d)  BY <2>1 DEF TripNotLost
    <2>3. Marking(d)  BY <2>2 DEF Tripping, Marking
    <2>4. key(d)' = j /\ Tripping(d)'  BY <2>1, <2>2, <2>3 DEF Tripping, key
    <2> QED  BY <2>4
  <1> QED  BY <1>1, <1>2, <1>3

\* Orphaned marks the Marks in progress on deleted entries.
LEMMA OrphanedIs ==
  ASSUME TypeOK, NEW gone
  PROVE  /\ Orphaned(gone) \in [Clients -> ClientType]
         /\ \A d \in Clients :
              /\ Orphaned(gone)[d].pc = client[d].pc
              /\ Orphaned(gone)[d].service = client[d].service
              /\ Orphaned(gone)[d].node = client[d].node
              /\ Orphaned(gone)[d].nodes = client[d].nodes
              /\ Orphaned(gone)[d].ago = client[d].ago
              /\ Orphaned(gone)[d].orphan <=> client[d].orphan \/ (Marking(d) /\ key(d) \in gone)
  <1> SUFFICES ASSUME NEW d \in Clients, NEW o, o = Orphaned(gone)[d]
               PROVE  /\ o \in ClientType
                      /\ o.pc = client[d].pc /\ o.service = client[d].service
                      /\ o.node = client[d].node /\ o.nodes = client[d].nodes
                      /\ o.ago = client[d].ago
                      /\ o.orphan <=> client[d].orphan \/ (Marking(d) /\ key(d) \in gone)
    BY DEF Orphaned
  <1>1. client[d] \in ClientType  BY DEF TypeOK
  <1>2. CASE Marking(d) /\ key(d) \in gone
    <2>1. PICK yes \in BOOLEAN : yes = TRUE  OBVIOUS
    <2>2. o = [client[d] EXCEPT !.orphan = yes]  BY <1>2, <2>1 DEF Orphaned, key
    <2>3. o \in ClientType  BY <1>1, <2>2 DEF ClientType
    <2> QED  BY <1>1, <1>2, <2>1, <2>2, <2>3 DEF ClientType
  <1>3. CASE ~(Marking(d) /\ key(d) \in gone)
    <2>1. o = client[d]  BY <1>3 DEF Orphaned, key
    <2> QED  BY <1>1, <1>3, <2>1
  <1> QED  BY <1>2, <1>3

LEMMA ResetStep ==
  ASSUME SelectorInv, NEW s \in Services, Reset(s)
  PROVE  SelectorInv'
  <1>0. TypeOK  BY DEF SelectorInv
  <1>1. PICK gone \in SUBSET Keys : gone = {s} \X Nodes  BY DEF Keys
  <1>2. \A k \in Keys : k[1] = s <=> k \in gone  BY <1>1 DEF Keys
  <1>3. /\ health' \in [Keys -> HealthType \cup {NoHealth}]
        /\ \A k \in Keys : IF k \in gone THEN health'[k] = NoHealth ELSE health'[k] = health[k]
    BY <1>0, <1>2 DEF Reset, TypeOK
  <1>4. client' = Orphaned(gone)  BY <1>1 DEF Reset
  <1>5. resets' \in Nat  BY <1>0 DEF Reset, TypeOK
  <1>6. TypeOK'  BY <1>0, <1>3, <1>4, <1>5, OrphanedIs DEF Reset, TypeOK
  <1>7. \A d \in Clients :
          /\ client'[d].pc = client[d].pc /\ client'[d].service = client[d].service
          /\ client'[d].node = client[d].node /\ client'[d].nodes = client[d].nodes
          /\ client'[d].ago = client[d].ago
          /\ client'[d].orphan <=> client[d].orphan \/ (Marking(d) /\ key(d) \in gone)
    BY <1>0, <1>4, OrphanedIs
  <1> QED  BY <1>3, <1>6, <1>7, DeleteStep

\* Select: purge, then the nodes that are left.
LEMMA SelectStep ==
  ASSUME SelectorInv, NEW c \in Clients, NEW s \in Services, Select(c, s)
  PROVE  SelectorInv'
  <1>0. TypeOK  BY DEF SelectorInv
  <1> DEFINE h == IF BreakerFailures > 0 THEN Purged ELSE health
             q == IF BreakerFailures > 0 THEN filterHealthy(h, s) ELSE Providers[s]
  <1>1. /\ h \in [Keys -> HealthType \cup {NoHealth}]
        /\ \A k \in Keys : h[k] = NoHealth \/ h[k] = health[k]
    BY <1>0 DEF TypeOK, Purged
  <1>2. q \in Seq(Nodes) /\ q # <<>>  BY FilterLeavesSome
  <1>3. PICK new : new = Selected(s, q)  OBVIOUS
  <1>4. health' = h /\ client[c].pc = "idle"  BY DEF Select
  <1>5. PICK gone \in SUBSET Keys : gone = {k \in Keys : health[k] # h[k]}  OBVIOUS
  <1>6. client' = [Orphaned(gone) EXCEPT ![c] = new]  BY <1>3, <1>5 DEF Select, Selected
  <1>7. new \in ClientType /\ new.pc = "next" /\ new.nodes # <<>>
    <2> HIDE DEF q
    <2>1. new \in ClientType /\ new.pc = "next" /\ new.nodes = q
      BY <1>2, <1>3, TryingType
    <2> QED  BY <1>2, <2>1
  <1> HIDE DEF h, q
  <1>8. /\ client' \in [Clients -> ClientType] /\ client'[c] = new
        /\ \A d \in Clients \ {c} : client'[d] = Orphaned(gone)[d]
    BY <1>0, <1>6, <1>7, OrphanedIs
  <1>9. sincePurge' \in 0 .. PurgeInterval  BY <1>0, Config DEF Select, TypeOK
  <1>10. TypeOK'  BY <1>0, <1>1, <1>4, <1>8, <1>9 DEF Select, TypeOK, counters
  <1>11. \A k \in Keys : IF k \in gone THEN health'[k] = NoHealth ELSE health'[k] = health[k]
    BY <1>1, <1>4, <1>5
  <1>12. ~Marking(c)  BY <1>4 DEF Marking
  <1>13. \A d \in Clients \ {c} :
           /\ client'[d].pc = client[d].pc /\ client'[d].service = client[d].service
           /\ client'[d].node = client[d].node /\ client'[d].nodes = client[d].nodes
           /\ client'[d].ago = client[d].ago
           /\ client'[d].orphan <=> client[d].orphan \/ (Marking(d) /\ key(d) \in gone)
    BY <1>0, <1>8, OrphanedIs
  <1>14. \A d \in Clients :
           \/ /\ client'[d].pc = client[d].pc /\ client'[d].service = client[d].service
              /\ client'[d].node = client[d].node /\ client'[d].nodes = client[d].nodes
              /\ client'[d].ago = client[d].ago
              /\ client'[d].orphan <=> client[d].orphan \/ (Marking(d) /\ key(d) \in gone)
           \/ ~Marking(d) /\ client'[d].pc = "next" /\ client'[d].nodes # <<>>
    BY <1>7, <1>8, <1>12, <1>13
  <1> QED  BY <1>10, <1>11, <1>14, DeleteStep

\* Time passes for the entries and for the Marks in progress alike.
LEMMA TickStep ==
  ASSUME SelectorInv, Tick
  PROVE  SelectorInv'
  <1> USE DEF SelectorInv
  <1> DEFINE Older(age, limit) == IF age < limit THEN age + 1 ELSE limit
  <1>1. ASSUME NEW k \in Keys
        PROVE  /\ health[k] = NoHealth => health'[k] = NoHealth
               /\ health[k] # NoHealth =>
                    /\ health'[k] \in HealthType
                    /\ health'[k].failures = health[k].failures
                    /\ health'[k].open = IF health[k].open > 0 THEN health[k].open - 1 ELSE 0
                    /\ health'[k].seen = Older(health[k].seen, Old)
    <2>1. CASE health[k] = NoHealth  BY <2>1 DEF Tick
    <2>2. CASE health[k] # NoHealth
      <3>1. health[k] \in HealthType  BY <2>2 DEF TypeOK
      <3>2. PICK o \in 0 .. Cap : o = IF health[k].open > 0 THEN health[k].open - 1 ELSE 0
        BY <3>1, Config DEF HealthType
      <3>3. PICK a \in 0 .. Old : a = Older(health[k].seen, Old)
        BY <3>1, Config DEF HealthType
      <3>4. health'[k] = [health[k] EXCEPT !.open = o, !.seen = a]
        BY <2>2, <3>2, <3>3 DEF Tick
      <3>5. /\ health'[k] \in HealthType /\ health'[k].failures = health[k].failures
            /\ health'[k].open = o /\ health'[k].seen = a
        BY <3>1, <3>4 DEF HealthType
      <3> QED  BY <2>2, <3>2, <3>3, <3>5
    <2> QED  BY <2>1, <2>2
  <1>2. ASSUME NEW d \in Clients
        PROVE  /\ client'[d] \in ClientType
               /\ client'[d].pc = client[d].pc /\ client'[d].service = client[d].service
               /\ client'[d].node = client[d].node /\ client'[d].nodes = client[d].nodes
               /\ client'[d].orphan = client[d].orphan
               /\ Marking(d) => client'[d].ago = Older(client[d].ago, Old)
    <2>1. client[d] \in ClientType  BY DEF TypeOK
    <2>2. CASE Marking(d)
      <3>1. PICK a \in 0 .. Old : a = Older(client[d].ago, Old)
        BY <2>1, Config DEF ClientType
      <3>2. client'[d] = [client[d] EXCEPT !.ago = a]  BY <2>2, <3>1 DEF Tick
      <3> QED  BY <2>1, <3>1, <3>2 DEF ClientType
    <2>3. CASE ~Marking(d)  BY <2>1, <2>3 DEF Tick
    <2> QED  BY <2>2, <2>3
  <1>3. health' \in [Keys -> HealthType \cup {NoHealth}]
    <2>1. health' = [k \in Keys |-> health'[k]]  BY DEF Tick
    <2>2. \A k \in Keys : health'[k] \in HealthType \cup {NoHealth}  BY <1>1
    <2> QED  BY <2>1, <2>2
  <1>4. client' \in [Clients -> ClientType]
    <2>1. client' = [d \in Clients |-> client'[d]]  BY DEF Tick
    <2> QED  BY <1>2, <2>1
  <1>5. sincePurge' \in 0 .. PurgeInterval
    <2>1. sincePurge' = Older(sincePurge, PurgeInterval)  BY DEF Tick
    <2>2. sincePurge \in 0 .. PurgeInterval  BY DEF TypeOK
    <2> QED  BY <2>1, <2>2, Config
  <1>6. TypeOK'  BY <1>3, <1>4, <1>5 DEF Tick, TypeOK, counters
  <1>7. \A d \in Clients : key(d)' = key(d) /\ (Marking(d)' <=> Marking(d))
    BY <1>2 DEF key, Marking
  <1>8. MarkInv'
    <2> SUFFICES ASSUME NEW d \in Clients  PROVE MarkInv!(d)'
      BY DEF MarkInv
    <2>1. MarkInv!(d)  BY DEF MarkInv
    <2>2. Marking(d) /\ ~client[d].orphan =>
            health'[key(d)] # NoHealth /\ health'[key(d)].seen <= client'[d].ago
      <3> SUFFICES ASSUME Marking(d), ~client[d].orphan
                   PROVE  health'[key(d)] # NoHealth /\ health'[key(d)].seen <= client'[d].ago
        OBVIOUS
      <3>1. key(d) \in Keys /\ health[key(d)] \in HealthType /\ health[key(d)] # NoHealth
            /\ health[key(d)].seen <= client[d].ago
        BY EntryOf, NoHealthIsNone
      <3>2. health'[key(d)] \in HealthType
            /\ health'[key(d)].seen = Older(health[key(d)].seen, Old)
        BY <1>1, <3>1
      <3>3. client'[d].ago = Older(client[d].ago, Old)  BY <1>2
      <3>4. client[d].ago \in 0 .. Old /\ health[key(d)].seen \in 0 .. Old
        BY <3>1 DEF TypeOK, ClientType, HealthType
      <3>5. Older(health[key(d)].seen, Old) <= Older(client[d].ago, Old)
        BY <3>1, <3>4, Config
      <3> QED  BY <3>2, <3>3, <3>5, NoHealthIsNone
    <2> QED  BY <1>2, <1>7, <2>1, <2>2
  <1>9. OpenIsFresh'
    <2> SUFFICES ASSUME NEW k \in Keys, health'[k] # NoHealth, health'[k].open > 0
                 PROVE  health'[k].open + health'[k].seen <= Cap
      BY DEF OpenIsFresh
    <2>1. health[k] # NoHealth /\ health[k] \in HealthType  BY <1>1 DEF TypeOK
    <2>2. health[k].open \in Nat /\ health[k].seen \in 0 .. Old
      BY <2>1, Config DEF HealthType
    <2>3. health[k].open > 0  BY <1>1, <2>1, <2>2
    <2>4. health[k].open + health[k].seen <= Cap  BY <2>1, <2>3 DEF OpenIsFresh
    <2>5. health'[k].open = health[k].open - 1 /\ health'[k].seen <= health[k].seen + 1
          /\ health'[k].seen \in Nat
      BY <1>1, <2>1, <2>2, <2>3, Config
    <2> QED  BY <2>2, <2>4, <2>5, Config
  <1>10. TripNotLost'
    <2>1. \A d \in Clients : Tripping(d)' <=> Tripping(d)  BY <1>2 DEF Tripping
    <2>2. \A k \in Keys : /\ health'[k] # NoHealth => health[k] # NoHealth
                          /\ health[k] # NoHealth => health'[k].failures = health[k].failures
      BY <1>1
    <2> QED  BY <1>7, <2>1, <2>2 DEF TripNotLost
  <1> QED  BY <1>6, <1>8, <1>9, <1>10

\* Init, Close and outages concern neither the entries nor the calls.
LEMMA AsideStep ==
  ASSUME SelectorInv, TypeOK', UNCHANGED <<health, client>>
  PROVE  SelectorInv'
  BY DEF SelectorInv, MarkInv, OpenIsFresh, TripNotLost, Tripping, Marking, key

---------------------------------------------------------------------------
(* The theorems                                                            *)

LEMMA InitInv == Init => SelectorInv
  <1> SUFFICES ASSUME Init  PROVE SelectorInv
    OBVIOUS
  <1>1. TypeOK  BY Config, IdleType DEF Init, TypeOK
  <1>2. \A c \in Clients : client[c].pc = "idle"  BY IdleType DEF Init
  <1>3. \A k \in Keys : health[k] = NoHealth  BY DEF Init
  <1>4. MarkInv  BY <1>2 DEF MarkInv, Marking
  <1>5. OpenIsFresh /\ TripNotLost  BY <1>3 DEF OpenIsFresh, TripNotLost
  <1> QED  BY <1>1, <1>4, <1>5 DEF SelectorInv

LEMMA NextInv == SelectorInv /\ [Next]_vars => SelectorInv'
  <1> SUFFICES ASSUME SelectorInv, [Next]_vars  PROVE SelectorInv'
    OBVIOUS
  <1>0. TypeOK  BY DEF SelectorInv
  <1>1. ASSUME NEW c \in Clients, Work(c)  PROVE SelectorInv'
    BY <1>1, RoundRobinStep, CallEndsStep, MarkOkStep, AddFailureStep, AddTripStep,
       StoreOpenStep, ClearFailuresStep, CallReturnsStep DEF Work
  <1>2. ASSUME NEW c \in Clients, NEW s \in Services, Select(c, s)  PROVE SelectorInv'
    BY <1>2, SelectStep
  <1>3. ASSUME NEW s \in Services, Reset(s)  PROVE SelectorInv'
    BY <1>3, ResetStep
  <1>4. CASE Selector_Init \/ Selector_Close
    <2>1. inits' \in Nat
      BY <1>0, <1>4 DEF Selector_Init, Selector_Close, Swap, TypeOK
    <2>3. rc' = TRUE \/ rc' = FALSE
      BY <1>4, Zenon DEF Selector_Init, Selector_Close, Swap
    <2>2. TypeOK'  BY <1>0, <1>4, <2>1, <2>3 DEF Selector_Init, Selector_Close, Swap, TypeOK
    <2> QED  BY <1>4, <2>2, AsideStep DEF Selector_Init, Selector_Close, Swap
  <1>5. ASSUME NEW n \in Nodes, Outage(n)  PROVE SelectorInv'
    <2>1. up' \subseteq Nodes /\ outages' \in Nat  BY <1>0, <1>5 DEF Outage, TypeOK
    <2>2. TypeOK'  BY <1>0, <1>5, <2>1 DEF Outage, TypeOK
    <2> QED  BY <1>5, <2>2, AsideStep DEF Outage
  <1>6. CASE Tick  BY <1>6, TickStep
  <1>7. CASE UNCHANGED vars
    <2>1. TypeOK'  BY <1>0, <1>7 DEF vars, TypeOK
    <2> QED  BY <1>7, <2>1, AsideStep DEF vars
  <1> QED  BY <1>1, <1>2, <1>3, <1>4, <1>5, <1>6, <1>7 DEF Next

\* The inductive invariant of the selector: whatever the order in which Marks,
\* Selects, Resets and the clock take their steps.
THEOREM SelectorInvariant == Spec => []SelectorInv
  <1>1. SelectorInv /\ [Next]_vars => SelectorInv'  BY NextInv
  <1> QED  BY <1>1, InitInv, PTL DEF Spec

\* The variables keep their types; no breaker is open for longer than the cap.
THEOREM TypeCorrect == Spec => []TypeOK
  <1>1. SelectorInv => TypeOK  BY DEF SelectorInv
  <1> QED  BY <1>1, SelectorInvariant, PTL

\* How long a node stays out is counted from its last Mark at the latest, however
\* long a concurrent Mark is delayed between reading the clock and its store.
THEOREM OpenStaysFresh == Spec => []OpenIsFresh
  <1>1. SelectorInv => OpenIsFresh  BY DEF SelectorInv
  <1> QED  BY <1>1, SelectorInvariant, PTL

\* A node that has reached the number of failures is being put out by a Mark that
\* has not returned.
THEOREM TripsAreNotLost == Spec => []TripNotLost
  <1>1. SelectorInv => TripNotLost  BY DEF SelectorInv
  <1> QED  BY <1>1, SelectorInvariant, PTL

\* A call always has a node to try, whatever the breakers say.
THEOREM AlwaysANode == Spec => []SomeNodeToTry
  <1>1. SelectorInv => SomeNodeToTry  BY DEF SelectorInv, MarkInv, SomeNodeToTry
  <1> QED  BY <1>1, SelectorInvariant, PTL

\* purge never makes an open node available, if the cap is not longer than the
\* time an entry is kept: what is purged was open no longer.
THEOREM PurgeIsHarmless == Spec => PurgeKeepsOpen
  <1>1. ASSUME SelectorInv, NEW c \in Clients, \E s \in Services : Select(c, s),
               Cap <= EntryTTL, NEW s \in Services, NEW n \in Nodes,
               ~available(health, s, n)
        PROVE  ~available(health', s, n)
    <2>1. PICK k \in Keys : k = <<s, n>>  BY DEF Keys
    <2>2. health[k] # NoHealth /\ health[k] \in HealthType /\ health[k].open # 0
      BY <1>1, <2>1 DEF available, SelectorInv, TypeOK
    <2>3. health[k].open \in Nat /\ health[k].open > 0 /\ health[k].seen \in Nat
      BY <2>2, Config DEF HealthType
    <2>4. health[k].open + health[k].seen <= Cap
      BY <1>1, <2>2, <2>3 DEF SelectorInv, OpenIsFresh
    <2>5. ~(health[k].seen > EntryTTL)  BY <1>1, <2>3, <2>4, Config
    <2>6. health' = Purged \/ UNCHANGED health  BY <1>1 DEF Select
    <2>7. health'[k] = health[k]  BY <2>5, <2>6 DEF Purged
    <2> QED  BY <2>1, <2>2, <2>7 DEF available
  <1>2. SelectorInv /\ [Next]_vars =>
          [\A c \in Clients : (\E s \in Services : Select(c, s)) /\ Cap <= EntryTTL =>
             \A s \in Services, n \in Nodes :
               ~available(health, s, n) => ~available(health', s, n)]_vars
    BY <1>1
  <1> QED  BY <1>2, SelectorInvariant, PTL DEF Spec, PurgeKeepsOpen
=============================================================================
