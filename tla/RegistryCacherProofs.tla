----------------------- MODULE RegistryCacherProofs -----------------------
(***************************************************************************)
(* What RegistryCacher guarantees for any number of services, versions,    *)
(* nodes, callers and watch loops: its variables keep their types, and no  *)
(* interleaving of lookups and events mixes up two services.               *)
(***************************************************************************)
EXTENDS RegistryCacher, TLAPS

\* A lookup of the registry returns service records.
LEMMA LookupType == \A n \in Names : Lookup(n) \subseteq Service
  <1> SUFFICES ASSUME NEW n \in Names, NEW s \in Lookup(n)
               PROVE  s \in Service
    OBVIOUS
  <1>1. PICK v \in Versions :
          s = [name |-> n, version |-> v,
               nodes |-> {x \in Nodes : <<n, v, x>> \in reg}]
    BY DEF Lookup
  <1> QED  BY <1>1 DEF Service

LEMMA AnswerType == \A k \in Keys : Answer(k) \subseteq Service
  BY LookupType DEF Answer, Listing, Keys

\* Sending events to the watchers keeps the type of the loops.
LEMMA NotifyType ==
  ASSUME NEW evs \in Seq(Event), TypeOK, Notify(evs)
  PROVE  /\ loop' \in [Loops -> LoopType]
         /\ missed' \in BOOLEAN
         /\ \A l \in Loops : loop[l].pc = loop'[l].pc
         /\ \A l \in Loops : loop[l].feed # <<>> => loop'[l].feed # <<>>
  <1>1. ASSUME NEW l \in Loops
        PROVE  loop'[l] \in LoopType /\ loop'[l].pc = loop[l].pc
               /\ (loop[l].feed # <<>> => loop'[l].feed # <<>>)
    <2>1. loop[l] \in LoopType  BY DEF TypeOK
    <2>2. CASE Watching(l)
      <3>1. loop'[l] = [loop[l] EXCEPT !.feed = @ \o evs]  BY <2>2 DEF Notify
      <3>2. loop[l].feed \o evs \in Seq(Event)  BY <2>1 DEF LoopType
      <3>3. loop[l].feed # <<>> => loop[l].feed \o evs # <<>>
        BY <2>1 DEF LoopType
      <3> QED  BY <2>1, <3>1, <3>2, <3>3 DEF LoopType
    <2>3. CASE ~Watching(l)  BY <2>1, <2>3 DEF Notify
    <2> QED  BY <2>2, <2>3
  <1>2. DOMAIN loop' = Loops /\ loop' = [l \in Loops |-> loop'[l]]
    BY DEF Notify
  <1> QED  BY <1>1, <1>2 DEF Notify, TypeOK

LEMMA IdleCallType == IdleCall \in CallType
  BY DEF IdleCall, CallType, Keys

\* set and del keep the types of the two maps.
LEMMA SetType ==
  ASSUME TypeOK, NEW n \in Names, NEW services \in SUBSET Service,
         set(n, services)
  PROVE  /\ cache' \in [Names -> (SUBSET Service) \cup {NoEntry}]
         /\ ttls' \in [Names -> Ttl]
  <1>1. /\ cache \in [Names -> (SUBSET Service) \cup {NoEntry}]
        /\ ttls \in [Names -> Ttl]
    BY DEF TypeOK
  <1>2. services \in (SUBSET Service) \cup {NoEntry}  OBVIOUS
  <1>3. "live" \in Ttl  BY DEF Ttl
  <1> QED  BY <1>1, <1>2, <1>3 DEF set

LEMMA DelType ==
  ASSUME TypeOK, NEW n \in Names, del(n)
  PROVE  /\ cache' \in [Names -> (SUBSET Service) \cup {NoEntry}]
         /\ ttls' \in [Names -> Ttl]
  <1>1. /\ cache \in [Names -> (SUBSET Service) \cup {NoEntry}]
        /\ ttls \in [Names -> Ttl]
    BY DEF TypeOK
  <1>2. "zero" \in Ttl  BY DEF Ttl
  <1> QED  BY <1>1, <1>2 DEF del

LEMMA CachedType == ASSUME TypeOK, NEW n \in Names
                    PROVE  Cached(n) \subseteq Service
  BY DEF TypeOK, Cached

\* Applying an event keeps the types of the cache's maps.
LEMMA UpdateType ==
  ASSUME TypeOK, NEW ev \in Event, update(ev)
  PROVE  /\ cache' \in [Names -> (SUBSET Service) \cup {NoEntry}]
         /\ ttls' \in [Names -> Ttl]
         /\ listCache' = listCache /\ listTTL' \in Ttl
  <1>1. ev.name \in Names /\ ev.version \in Versions /\ ev.nodes \subseteq Nodes
    BY DEF Event
  <1>2. listCache' = listCache /\ listTTL' \in Ttl  BY DEF update, Ttl
  <1>3. /\ OtherVersions(ev.name, ev.version) \subseteq Service
        /\ SameVersion(ev.name, ev.version) \subseteq Service
    BY <1>1, CachedType DEF OtherVersions, SameVersion
  <1>4. CachedNodes(ev.name, ev.version) \subseteq Nodes
    BY <1>3 DEF CachedNodes, Service
  <1>5. CASE UNCHANGED <<cache, ttls>>  BY <1>2, <1>5 DEF TypeOK
  <1>6. CASE del(ev.name)  BY <1>1, <1>2, <1>6, DelType
  <1>7. CASE UpdateCreate(ev)
    <2>1. Merged(ev) \in Service  BY <1>1, <1>4 DEF Merged, Service
    <2> QED  BY <1>1, <1>2, <1>3, <1>7, <2>1, SetType DEF UpdateCreate
  <1>8. CASE UpdateDelete(ev)
    <2> DEFINE left == CachedNodes(ev.name, ev.version) \ ev.nodes
               rest == OtherVersions(ev.name, ev.version)
               kept == [name |-> ev.name, version |-> ev.version, nodes |-> left]
    <2>1. kept \in Service  BY <1>1, <1>4 DEF Service
    <2>2. CASE set(ev.name, rest \cup {kept})
      BY <1>1, <1>2, <1>3, <2>1, <2>2, SetType
    <2>3. CASE set(ev.name, rest)  BY <1>1, <1>2, <1>3, <2>3, SetType
    <2> QED  BY <1>5, <1>6, <1>8, <2>2, <2>3 DEF UpdateDelete
  <1> QED  BY <1>5, <1>6, <1>7, <1>8 DEF update, UpdateNoNodes

\* What TypeOK says of the loops.
LoopsOK ==
    /\ loop \in [Loops -> LoopType]
    /\ \A l \in Loops : loop[l].pc \in {"got", "apply"} => loop[l].feed # <<>>

\* Moving one loop to another control point keeps that.
LEMMA LoopStepType ==
  ASSUME LoopsOK, NEW l \in Loops, NEW from, NEW to,
         to \in {"none", "spawned", "top", "open", "next", "got", "apply", "leave"},
         to \in {"got", "apply"} => loop[l].feed # <<>>,
         LoopStep(l, from, to)
  PROVE  LoopsOK'
  <1>1. loop[l] \in LoopType  BY DEF LoopsOK
  <1>2. [loop[l] EXCEPT !.pc = to] \in LoopType  BY <1>1 DEF LoopType
  <1>3. loop' = [loop EXCEPT ![l] = [loop[l] EXCEPT !.pc = to]]
    BY DEF LoopStep, LoopsOK
  <1>4. loop' \in [Loops -> LoopType]  BY <1>2, <1>3 DEF LoopsOK
  <1>5. loop'[l].pc = to /\ loop'[l].feed = loop[l].feed
    BY <1>1, <1>3 DEF LoopsOK, LoopType
  <1>6. \A m \in Loops : m # l => loop'[m] = loop[m]  BY <1>3 DEF LoopsOK
  <1> QED  BY <1>4, <1>5, <1>6 DEF LoopsOK

\* So does giving one loop a new record.
LEMMA LoopSetType ==
  ASSUME LoopsOK, NEW l \in Loops, NEW r \in LoopType,
         r.pc \in {"got", "apply"} => r.feed # <<>>,
         loop' = [loop EXCEPT ![l] = r]
  PROVE  LoopsOK'
  <1>1. loop' \in [Loops -> LoopType]  BY DEF LoopsOK
  <1>2. loop'[l] = r /\ \A m \in Loops : m # l => loop'[m] = loop[m]
    BY DEF LoopsOK
  <1> QED  BY <1>1, <1>2 DEF LoopsOK

\* What TypeOK says of the callers.
CallsOK ==
    /\ call \in [Callers -> CallType]
    /\ \A c \in Callers : /\ call[c].pc = "kick" => call[c].key # ListKey
                          /\ call[c].pc = "store" => call[c].res # Failed

LEMMA CallSetType ==
  ASSUME CallsOK, NEW c \in Callers, NEW r \in CallType,
         r.pc = "kick" => r.key # ListKey,
         r.pc = "store" => r.res # Failed,
         call' = [call EXCEPT ![c] = r]
  PROVE  CallsOK'
  <1>1. call' \in [Callers -> CallType]  BY DEF CallsOK
  <1>2. call'[c] = r /\ \A d \in Callers : d # c => call'[d] = call[d]
    BY DEF CallsOK
  <1> QED  BY <1>1, <1>2 DEF CallsOK

LEMMA CallStepType ==
  ASSUME CallsOK, NEW c \in Callers, NEW to \in {"fetch", "wait", "store"},
         to = "store" => call[c].res # Failed,
         call' = [call EXCEPT ![c].pc = to]
  PROVE  CallsOK'
  <1>1. call[c] \in CallType  BY DEF CallsOK
  <1>2. [call[c] EXCEPT !.pc = to] \in CallType  BY <1>1 DEF CallType
  <1>3. call' = [call EXCEPT ![c] = [call[c] EXCEPT !.pc = to]]  BY DEF CallsOK
  <1>4. /\ [call[c] EXCEPT !.pc = to].pc = to /\ to # "kick"
        /\ [call[c] EXCEPT !.pc = to].res = call[c].res
    BY <1>1 DEF CallType
  <1> QED  BY <1>2, <1>3, <1>4, CallSetType

LEMMA TypeParts == TypeOK => LoopsOK /\ CallsOK
  BY DEF TypeOK, LoopsOK, CallsOK

---------------------------------------------------------------------------
(* Type correctness.  Two groups of steps share what they leave alone.     *)

\* The variables no step of a caller or a loop types anew.
RestOK ==
    /\ reg \subseteq Instances /\ ever \subseteq Instances
    /\ missed \in BOOLEAN /\ changes \in Nat /\ faults \in Nat
    /\ watched \subseteq Names
    /\ running \in BOOLEAN /\ status \in BOOLEAN /\ exit \in BOOLEAN
    /\ stop \in {"idle", "waiting", "returned"}

CacheOK ==
    /\ cache \in [Names -> (SUBSET Service) \cup {NoEntry}]
    /\ ttls \in [Names -> Ttl]
    /\ listCache \subseteq Service /\ listTTL \in Ttl

FlightOK == flight \in [Keys -> (SUBSET Service) \cup {NoFlight, Pending, Failed}]

LEMMA TypeSplit == TypeOK <=> RestOK /\ CacheOK /\ FlightOK /\ LoopsOK /\ CallsOK
  BY DEF TypeOK, RestOK, CacheOK, FlightOK, LoopsOK, CallsOK

LEMMA TypeSplitNext ==
  RestOK' /\ CacheOK' /\ FlightOK' /\ LoopsOK' /\ CallsOK' => TypeOK'
  BY DEF TypeOK, RestOK, CacheOK, FlightOK, LoopsOK, CallsOK

\* The steps of the registry.
LEMMA RegistryStepType ==
  ASSUME TypeOK, NEW i \in Instances, Join(i) \/ Leave(i)
  PROVE  TypeOK'
  <1> DEFINE ev(a) == [action |-> a, name |-> i[1], version |-> i[2],
                       nodes |-> {i[3]}]
             bare(a) == [ev(a) EXCEPT !.nodes = {}]
  <1>1. \A a \in {"create", "delete"} : ev(a) \in Event /\ bare(a) \in Event
    BY DEF Event, Instances
  <1>2. PICK evs \in Seq(Event) : Notify(evs)
    <2>1. CASE Join(i)
      <3>1. <<ev("create")>> \in Seq(Event)
            /\ <<bare("create"), ev("create")>> \in Seq(Event)
        BY <1>1
      <3> QED  BY <2>1, <3>1 DEF Join
    <2>2. CASE Leave(i)
      <3>1. <<ev("delete")>> \in Seq(Event)
            /\ <<ev("delete"), bare("delete")>> \in Seq(Event)
        BY <1>1
      <3> QED  BY <2>2, <3>1 DEF Leave
    <2> QED  BY <2>1, <2>2
  <1>3. LoopsOK' /\ missed' \in BOOLEAN
    BY <1>2, NotifyType DEF TypeOK, LoopsOK
  <1>4. RestOK'  BY <1>3 DEF Join, Leave, TypeOK, RestOK
  <1>5. CacheOK' /\ FlightOK' /\ CallsOK'
    BY DEF Join, Leave, TypeOK, CacheOK, FlightOK, CallsOK, cached
  <1> QED  BY <1>3, <1>4, <1>5, TypeSplitNext

\* The steps of a caller.
LEMMA CallerStepType ==
  ASSUME TypeOK, NEW c \in Callers,
         (\E k \in Asked : Miss(c, k)) \/ CallStep(c)
  PROVE  TypeOK'
  <1> USE TypeSplit
  <1>1. call[c] \in CallType /\ CallsOK /\ LoopsOK
    BY TypeParts DEF CallsOK
  <1>2. CASE \E k \in Asked : Miss(c, k)
    <2>1. PICK k \in Asked : Miss(c, k)  BY <1>2
    <2>2. k \in Keys  BY BoundAssumption
    <2>3. CopyOf(k) \subseteq Service
      BY <2>2, CachedType DEF CopyOf, Keys, TypeOK
    <2> DEFINE r == [pc |-> IF k = ListKey \/ k \in watched
                            THEN "fetch" ELSE "kick",
                     key |-> k, copy |-> CopyOf(k), res |-> {}]
    <2>4. r \in CallType /\ (r.pc = "kick" => r.key # ListKey)
          /\ r.pc # "store"
      BY <2>2, <2>3 DEF CallType
    <2>5. call' = [call EXCEPT ![c] = r]  BY <2>1 DEF Miss
    <2>6. CallsOK'
      <3> HIDE DEF r
      <3> QED  BY <1>1, <2>4, <2>5, CallSetType
    <2>7. RestOK' /\ CacheOK' /\ FlightOK' /\ LoopsOK'
      BY <2>1 DEF Miss, RestOK, CacheOK, FlightOK, LoopsOK, external, cached
    <2> QED  BY <2>6, <2>7, TypeSplitNext
  <1>3. CASE Kick(c)
    <2>1. CallsOK'  BY <1>1, <1>3, CallStepType DEF Kick
    <2>2. call[c].key \in Names
      BY <1>1, <1>3 DEF Kick, CallsOK, CallType, Keys
    <2>3. LoopsOK'
      <3>1. CASE UNCHANGED loop  BY <1>1, <3>1 DEF LoopsOK
      <3>2. CASE \E l \in Loops : loop[l].pc = "none"
                      /\ loop' = [loop EXCEPT ![l].pc = "spawned"]
        BY <1>1, <3>2, LoopStepType DEF LoopStep
      <3> QED  BY <1>3, <3>1, <3>2 DEF Kick
    <2>4. RestOK' /\ CacheOK' /\ FlightOK'
      BY <1>3, <2>2 DEF Kick, RestOK, CacheOK, FlightOK, external, cached
    <2> QED  BY <2>1, <2>3, <2>4, TypeSplitNext
  <1>4. CASE Fetch(c)
    <2>1. CallsOK'  BY <1>1, <1>4, CallStepType DEF Fetch
    <2>2. FlightOK'  BY <1>1, <1>4 DEF Fetch, FlightOK, CallType
    <2>3. RestOK' /\ CacheOK' /\ LoopsOK'
      BY <1>4 DEF Fetch, RestOK, CacheOK, LoopsOK, external, cached
    <2> QED  BY <2>1, <2>2, <2>3, TypeSplitNext
  <1>5. CASE FallBack(c)
    <2>1. CallsOK'
      <3>1. IdleCall.pc \notin {"kick", "store"}  BY DEF IdleCall
      <3> QED  BY <1>1, <1>5, <3>1, IdleCallType, CallSetType DEF FallBack, Return
    <2>2. RestOK' /\ CacheOK' /\ FlightOK' /\ LoopsOK'
      BY <1>5 DEF FallBack, RestOK, CacheOK, FlightOK, LoopsOK, external, cached
    <2> QED  BY <2>1, <2>2, TypeSplitNext
  <1>6. CASE ClearStatus(c)
    <2>1. CallsOK'  BY <1>1, <1>6, CallStepType DEF ClearStatus
    <2>2. RestOK' /\ CacheOK' /\ FlightOK' /\ LoopsOK'
      BY <1>6 DEF ClearStatus, RestOK, CacheOK, FlightOK, LoopsOK, external, cached
    <2> QED  BY <2>1, <2>2, TypeSplitNext
  <1>7. CASE Store(c)
    <2>1. CallsOK'
      <3>1. IdleCall.pc \notin {"kick", "store"}  BY DEF IdleCall
      <3> QED  BY <1>1, <1>7, <3>1, IdleCallType, CallSetType DEF Store, Return
    <2>2. RestOK' /\ FlightOK' /\ LoopsOK'
      BY <1>7 DEF Store, RestOK, FlightOK, LoopsOK, external
    <2>3. call[c].res \subseteq Service
      BY <1>1, <1>7 DEF Store, CallsOK, CallType
    <2>4. CacheOK'
      <3>1. CASE call[c].key = ListKey
        BY <1>7, <2>3, <3>1 DEF Store, CacheOK, Ttl
      <3>2. CASE call[c].key # ListKey
        <4>1. call[c].key \in Names  BY <1>1, <3>2 DEF CallType, Keys
        <4> QED  BY <1>7, <2>3, <3>2, <4>1, SetType DEF Store, CacheOK
      <3> QED  BY <3>1, <3>2
    <2> QED  BY <2>1, <2>2, <2>4, TypeSplitNext
  <1> QED  BY <1>2, <1>3, <1>4, <1>5, <1>6, <1>7 DEF CallStep

\* The singleflight calls, the clock and the registry's answers.
LEMMA FlightStepType ==
  ASSUME TypeOK, NEW k \in Keys,
         RegistryAnswers(k) \/ RegistryFails(k) \/ FlightReturns(k) \/ Expire(k)
  PROVE  TypeOK'
  <1> USE TypeSplit
  <1>1. CASE RegistryAnswers(k)
    <2>1. FlightOK'  BY <1>1, AnswerType DEF RegistryAnswers, FlightOK
    <2>2. RestOK' /\ CacheOK' /\ LoopsOK' /\ CallsOK'
      BY <1>1 DEF RegistryAnswers, RestOK, CacheOK, LoopsOK, CallsOK, external, cached
    <2> QED  BY <2>1, <2>2, TypeSplitNext
  <1>2. CASE RegistryFails(k)
    <2>1. FlightOK'  BY <1>2 DEF RegistryFails, FlightOK
    <2>2. RestOK' /\ CacheOK' /\ LoopsOK' /\ CallsOK'
      BY <1>2 DEF RegistryFails, RestOK, CacheOK, LoopsOK, CallsOK, external, cached
    <2> QED  BY <2>1, <2>2, TypeSplitNext
  <1>3. CASE FlightReturns(k)
    <2>1. FlightOK'  BY <1>3 DEF FlightReturns, FlightOK
    <2>2. flight[k] \in (SUBSET Service) \cup {Failed}
      BY <1>3 DEF FlightReturns, FlightOK
    <2>3. ASSUME NEW c \in Callers
          PROVE  /\ call'[c] \in CallType
                 /\ call'[c].pc = "kick" => call'[c].key # ListKey
                 /\ call'[c].pc = "store" => call'[c].res # Failed
      <3>1. call[c] \in CallType  BY DEF CallsOK
      <3>2. CASE Waiting(c, k)
        <4>1. call'[c] = [call[c] EXCEPT !.pc = "answered", !.res = flight[k]]
          BY <1>3, <3>2 DEF FlightReturns
        <4> QED  BY <2>2, <3>1, <4>1 DEF CallType
      <3>3. CASE ~Waiting(c, k)
        <4>1. call'[c] = call[c]  BY <1>3, <3>3 DEF FlightReturns
        <4> QED  BY <3>1, <4>1 DEF CallsOK
      <3> QED  BY <3>2, <3>3
    <2>4. call' = [c \in Callers |-> call'[c]]  BY <1>3 DEF FlightReturns
    <2>5. CallsOK'  BY <2>3, <2>4 DEF CallsOK
    <2>6. RestOK' /\ CacheOK' /\ LoopsOK'
      BY <1>3 DEF FlightReturns, RestOK, CacheOK, LoopsOK, external, cached
    <2> QED  BY <2>1, <2>5, <2>6, TypeSplitNext
  <1>4. CASE Expire(k)
    <2>1. "old" \in Ttl  BY DEF Ttl
    <2>2. CacheOK'  BY <1>4, <2>1 DEF Expire, CacheOK, Keys
    <2>3. RestOK' /\ FlightOK' /\ LoopsOK' /\ CallsOK'
      BY <1>4 DEF Expire, RestOK, FlightOK, LoopsOK, CallsOK, external
    <2> QED  BY <2>2, <2>3, TypeSplitNext
  <1> QED  BY <1>1, <1>2, <1>3, <1>4

\* The steps of run, of its helper and of a watcher.
LEMMA LoopStepsType ==
  ASSUME TypeOK, NEW l \in Loops,
         RunStep(l) \/ OpenFails(l) \/ DropEvent(l) \/ HelperStops(l)
  PROVE  TypeOK'
  <1> USE TypeSplit
  <1>1. loop[l] \in LoopType  BY DEF LoopsOK
  <1>2. CASE RunStart(l) \/ RunTop(l) \/ NoWatcher(l) \/ RunEnds(l)
             \/ Next_Event(l) \/ EventClearsStatus(l)
    <2>1. LoopsOK'
      <3>1. loop[l].pc = "got" => loop[l].feed # <<>>  BY DEF LoopsOK
      <3> QED  BY <1>2, <3>1, LoopStepType
               DEF RunStart, RunTop, NoWatcher, RunEnds, Next_Event,
                   EventClearsStatus, LoopStep
    <2>2. RestOK' /\ CacheOK' /\ FlightOK' /\ CallsOK'
      BY <1>2 DEF RunStart, RunTop, NoWatcher, RunEnds, Next_Event,
                  EventClearsStatus, RestOK, CacheOK, FlightOK, CallsOK,
                  external, cached
    <2> QED  BY <2>1, <2>2, TypeSplitNext
  <1>3. ASSUME Retry(l) PROVE LoopsOK' /\ status' \in BOOLEAN
    <2> DEFINE r == [pc |-> IF exit THEN "leave" ELSE "top", feed |-> <<>>,
                     helper |-> FALSE, stopped |-> FALSE]
    <2>1. r \in LoopType /\ r.pc \notin {"got", "apply"}  BY DEF LoopType
    <2>2. loop' = [loop EXCEPT ![l] = r]  BY <1>3 DEF Retry
    <2>3. LoopsOK'
      <3> HIDE DEF r
      <3> QED  BY <2>1, <2>2, LoopSetType
    <2> QED  BY <1>3, <2>3 DEF Retry, RestOK
  <1>4. CASE OpenWatcher(l)
    <2> DEFINE r == [pc |-> "next", feed |-> <<>>, helper |-> TRUE,
                     stopped |-> FALSE]
    <2>1. r \in LoopType /\ r.pc \notin {"got", "apply"}  BY DEF LoopType
    <2>2. loop' = [loop EXCEPT ![l] = r]  BY <1>4 DEF OpenWatcher
    <2>3. LoopsOK'
      <3> HIDE DEF r
      <3> QED  BY <2>1, <2>2, LoopSetType
    <2>4. RestOK' /\ CacheOK' /\ FlightOK' /\ CallsOK'
      BY <1>4 DEF OpenWatcher, RestOK, CacheOK, FlightOK, CallsOK, external, cached
    <2> QED  BY <2>3, <2>4, TypeSplitNext
  <1>5. CASE OpenFails(l)
    <2>1. LoopsOK' /\ status' \in BOOLEAN  BY <1>3, <1>5 DEF OpenFails
    <2>2. RestOK' /\ CacheOK' /\ FlightOK' /\ CallsOK'
      BY <1>5, <2>1 DEF OpenFails, RestOK, CacheOK, FlightOK, CallsOK, external, cached
    <2> QED  BY <2>1, <2>2, TypeSplitNext
  <1>6. CASE Next_Fails(l)
    <2>1. LoopsOK' /\ status' \in BOOLEAN  BY <1>3, <1>6 DEF Next_Fails
    <2>2. missed' \in BOOLEAN /\ faults' \in Nat
      <3>1. CASE UNCHANGED <<faults, missed>>  BY <3>1 DEF RestOK
      <3>2. CASE faults' = faults + 1 /\ missed' = (missed \/ loop[l].feed # <<>>)
        BY <3>2 DEF RestOK
      <3> QED  BY <1>6, <3>1, <3>2 DEF Next_Fails
    <2>3. RestOK'  BY <1>6, <2>1, <2>2 DEF Next_Fails, RestOK
    <2>4. CacheOK' /\ FlightOK' /\ CallsOK'
      BY <1>6 DEF Next_Fails, CacheOK, FlightOK, CallsOK, cached
    <2> QED  BY <2>1, <2>3, <2>4, TypeSplitNext
  <1>7. CASE ApplyEvent(l)
    <2> DEFINE r == [loop[l] EXCEPT !.pc = "next", !.feed = Tail(@)]
    <2>1. loop[l].feed # <<>> /\ loop[l].feed \in Seq(Event)
      BY <1>1, <1>7 DEF ApplyEvent, LoopsOK, LoopType
    <2>2. Head(loop[l].feed) \in Event /\ Tail(loop[l].feed) \in Seq(Event)
      BY <2>1
    <2>3. r \in LoopType /\ r.pc \notin {"got", "apply"}
      BY <1>1, <2>2 DEF LoopType
    <2>4. loop' = [loop EXCEPT ![l] = r]  BY <1>7 DEF ApplyEvent, LoopsOK
    <2>5. LoopsOK'
      <3> HIDE DEF r
      <3> QED  BY <2>3, <2>4, LoopSetType
    <2>6. CacheOK'  BY <1>7, <2>2, UpdateType DEF ApplyEvent, CacheOK
    <2>7. RestOK' /\ FlightOK' /\ CallsOK'
      BY <1>7 DEF ApplyEvent, RestOK, FlightOK, CallsOK, external
    <2> QED  BY <2>5, <2>6, <2>7, TypeSplitNext
  <1>8. CASE HelperStops(l)
    <2> DEFINE r == [loop[l] EXCEPT !.helper = FALSE, !.stopped = TRUE]
    <2>1. r \in LoopType /\ r.pc = loop[l].pc /\ r.feed = loop[l].feed
      BY <1>1 DEF LoopType
    <2>2. loop' = [loop EXCEPT ![l] = r]  BY <1>8 DEF HelperStops, LoopsOK
    <2>3. LoopsOK'
      <3>1. r.pc \in {"got", "apply"} => r.feed # <<>>  BY <2>1 DEF LoopsOK
      <3> HIDE DEF r
      <3> QED  BY <2>1, <2>2, <3>1, LoopSetType
    <2>4. RestOK' /\ CacheOK' /\ FlightOK' /\ CallsOK'
      BY <1>8 DEF HelperStops, RestOK, CacheOK, FlightOK, CallsOK, external, cached
    <2> QED  BY <2>3, <2>4, TypeSplitNext
  <1>9. CASE DropEvent(l)
    <2> DEFINE r == [loop[l] EXCEPT !.feed = Tail(@)]
    <2>1. Tail(loop[l].feed) \in Seq(Event)  BY <1>1, <1>9 DEF DropEvent, LoopType
    <2>2. r \in LoopType /\ r.pc = "next"  BY <1>1, <1>9, <2>1 DEF LoopType, DropEvent
    <2>3. loop' = [loop EXCEPT ![l] = r]  BY <1>9 DEF DropEvent, LoopsOK
    <2>4. LoopsOK'
      <3> HIDE DEF r
      <3> QED  BY <2>2, <2>3, LoopSetType
    <2>5. RestOK' /\ CacheOK' /\ FlightOK' /\ CallsOK'
      BY <1>9 DEF DropEvent, RestOK, CacheOK, FlightOK, CallsOK, cached
    <2> QED  BY <2>4, <2>5, TypeSplitNext
  <1> QED  BY <1>2, <1>4, <1>5, <1>6, <1>7, <1>8, <1>9 DEF RunStep

\* Every variable keeps its type; run has an event in hand when it applies one
\* and get a successful answer when it stores one.
THEOREM TypeCorrect == Spec => []TypeOK
  <1>1. Init => TypeOK
    <2> SUFFICES ASSUME Init PROVE TypeOK  OBVIOUS
    <2>1. RestOK  BY DEF Init, RestOK
    <2>2. CacheOK /\ FlightOK  BY DEF Init, CacheOK, FlightOK, Ttl
    <2>3. LoopsOK  BY DEF Init, LoopsOK, LoopType
    <2>4. CallsOK
      <3>1. IdleCall.pc \notin {"kick", "store"}  BY DEF IdleCall
      <3> QED  BY <3>1, IdleCallType DEF Init, CallsOK
    <2> QED  BY <2>1, <2>2, <2>3, <2>4, TypeSplit
  <1>2. TypeOK /\ [Next]_vars => TypeOK'
    <2> SUFFICES ASSUME TypeOK, [Next]_vars PROVE TypeOK'  OBVIOUS
    <2>1. CASE Stop \/ StopReturns
      BY <2>1, TypeSplit, TypeSplitNext
         DEF Stop, StopReturns, RestOK, CacheOK, FlightOK, LoopsOK, CallsOK,
             external, cached
    <2>2. CASE UNCHANGED vars
      BY <2>2, TypeSplit, TypeSplitNext
         DEF vars, RestOK, CacheOK, FlightOK, LoopsOK, CallsOK
    <2> QED  BY <2>1, <2>2, RegistryStepType, CallerStepType, FlightStepType,
                LoopStepsType DEF Next
  <1> QED  BY <1>1, <1>2, PTL DEF Spec

---------------------------------------------------------------------------
(* No phantom nodes, one record per version                                *)

CacheGenuine ==
    /\ \A n \in Names : Genuine(n, Cached(n)) /\ Distinct(Cached(n))
    /\ Genuine(ListKey, listCache)

FlightGenuine ==
    \A k \in Keys : flight[k] \notin {NoFlight, Pending, Failed} =>
                     Genuine(k, flight[k]) /\ Distinct(flight[k])

\* What is said of one caller's record r.
GenuineCall(r) ==
    /\ Genuine(r.key, r.copy)
    /\ r.res # Failed => Genuine(r.key, r.res) /\ Distinct(r.res)

CallGenuine == \A c \in Callers : GenuineCall(call[c])

GenuineFeed(feed) == \A i \in DOMAIN feed : GenuineEvent(feed[i])

FeedGenuine == \A l \in Loops : GenuineFeed(loop[l].feed)

LEMMA SafetySplit ==
  SafetyInv <=> /\ reg \subseteq ever
                /\ CacheGenuine /\ FlightGenuine /\ CallGenuine /\ FeedGenuine
  BY DEF SafetyInv, CacheGenuine, FlightGenuine, CallGenuine, GenuineCall,
         FeedGenuine, GenuineFeed

LEMMA SafetySplitNext ==
  reg' \subseteq ever' /\ CacheGenuine' /\ FlightGenuine' /\ CallGenuine'
    /\ FeedGenuine' => SafetyInv'
  BY DEF SafetyInv, CacheGenuine, FlightGenuine, CallGenuine, GenuineCall,
         FeedGenuine, GenuineFeed

\* What the registry answers is genuine and has one record per version.
LEMMA LookupGenuine ==
  ASSUME reg \subseteq ever, NEW n \in Names
  PROVE  Genuine(n, Lookup(n)) /\ Distinct(Lookup(n))
  <1> DEFINE record(v) == [name |-> n, version |-> v,
                           nodes |-> {x \in Nodes : <<n, v, x>> \in reg}]
  <1>1. \A s \in Lookup(n) : \E v \in Versions : s = record(v)  BY DEF Lookup
  <1>2. \A v \in Versions : record(v).name = n /\ record(v).version = v
    OBVIOUS
  <1>3. \A v \in Versions : \A x \in record(v).nodes : <<n, v, x>> \in ever
    OBVIOUS
  <1>4. Distinct(Lookup(n))
    <2> HIDE DEF record
    <2> QED  BY <1>1, <1>2 DEF Distinct
  <1>5. Genuine(n, Lookup(n))
    <2> HIDE DEF record
    <2> QED  BY <1>1, <1>2, <1>3 DEF Genuine
  <1> QED  BY <1>4, <1>5

LEMMA AnswerGenuine ==
  ASSUME reg \subseteq ever, NEW k \in Keys
  PROVE  Genuine(k, Answer(k)) /\ Distinct(Answer(k))
  <1>1. CASE k # ListKey  BY <1>1, LookupGenuine DEF Answer, Keys
  <1>2. CASE k = ListKey
    <2>1. Answer(k) = Listing  BY <1>2 DEF Answer
    <2>2. \A s \in Listing : s.name \in Names /\ s \in Lookup(s.name)
      BY DEF Listing, Lookup
    <2>3. Genuine(k, Listing)  BY <1>2, <2>2, LookupGenuine DEF Genuine
    <2>4. Distinct(Listing)  BY <2>2, LookupGenuine DEF Distinct
    <2> QED  BY <2>1, <2>3, <2>4
  <1> QED  BY <1>1, <1>2

\* A registration adds to the history, and what was genuine stays so.
LEMMA GenuineGrows ==
  ASSUME ever \subseteq ever',
         UNCHANGED <<cache, listCache, flight, call>>,
         CacheGenuine, FlightGenuine, CallGenuine
  PROVE  CacheGenuine' /\ FlightGenuine' /\ CallGenuine'
  <1>1. CacheGenuine'  BY DEF CacheGenuine, Genuine, Distinct, Cached
  <1>2. FlightGenuine'  BY DEF FlightGenuine, Genuine, Distinct
  <1>3. CallGenuine'  BY DEF CallGenuine, GenuineCall, Genuine, Distinct
  <1> QED  BY <1>1, <1>2, <1>3

\* The events of a change are about an instance in the history.
LEMMA NotifyGenuine ==
  ASSUME TypeOK, FeedGenuine, ever \subseteq ever', NEW evs \in Seq(Event),
         Notify(evs), \A i \in DOMAIN evs : GenuineEvent(evs[i])'
  PROVE  FeedGenuine'
  <1> SUFFICES ASSUME NEW l \in Loops PROVE GenuineFeed(loop[l].feed)'
    BY DEF FeedGenuine
  <1>1. loop[l] \in LoopType /\ GenuineFeed(loop[l].feed)
    BY DEF TypeOK, FeedGenuine
  <1>2. \A i \in DOMAIN loop[l].feed : \A x \in loop[l].feed[i].nodes :
          <<loop[l].feed[i].name, loop[l].feed[i].version, x>> \in ever'
    BY <1>1 DEF GenuineFeed, GenuineEvent
  <1>3. CASE Watching(l)
    <2>1. loop'[l].feed = loop[l].feed \o evs
      BY <1>1, <1>3 DEF Notify, LoopType
    <2>2. \A i \in DOMAIN loop'[l].feed :
            (\E j \in DOMAIN loop[l].feed : loop'[l].feed[i] = loop[l].feed[j])
            \/ (\E j \in DOMAIN evs : loop'[l].feed[i] = evs[j])
      BY <1>1, <2>1 DEF LoopType
    <2> QED  BY <1>2, <2>2 DEF GenuineFeed, GenuineEvent
  <1>4. CASE ~Watching(l)
    <2>1. loop'[l].feed = loop[l].feed  BY <1>4 DEF Notify
    <2> QED  BY <1>2, <2>1 DEF GenuineFeed, GenuineEvent
  <1> QED  BY <1>3, <1>4

LEMMA RegistryStepSafe ==
  ASSUME TypeOK, SafetyInv, NEW i \in Instances, Join(i) \/ Leave(i)
  PROVE  SafetyInv'
  <1> DEFINE ev(a) == [action |-> a, name |-> i[1], version |-> i[2],
                       nodes |-> {i[3]}]
             bare(a) == [ev(a) EXCEPT !.nodes = {}]
  <1>1. \A a \in {"create", "delete"} : ev(a) \in Event /\ bare(a) \in Event
    BY DEF Event, Instances
  <1>2. reg' \subseteq ever' /\ ever \subseteq ever' /\ i \in ever'
    BY SafetySplit DEF Join, Leave
  <1>3. i = <<i[1], i[2], i[3]>>  BY DEF Instances
  <1>4. \A a \in {"create", "delete"} : GenuineEvent(ev(a))' /\ GenuineEvent(bare(a))'
    BY <1>2, <1>3 DEF GenuineEvent
  <1>5. PICK evs \in Seq(Event) :
          Notify(evs) /\ \A j \in DOMAIN evs : GenuineEvent(evs[j])'
    <2>1. CASE Join(i)
      <3>1. <<ev("create")>> \in Seq(Event)
            /\ <<bare("create"), ev("create")>> \in Seq(Event)
        BY <1>1
      <3> HIDE DEF ev, bare
      <3>2. Notify(<<ev("create")>>) \/ Notify(<<bare("create"), ev("create")>>)
        BY <2>1 DEF Join, ev, bare
      <3>3. \A j \in DOMAIN <<ev("create")>> : GenuineEvent(<<ev("create")>>[j])'
        BY <1>4
      <3>4. \A j \in DOMAIN <<bare("create"), ev("create")>> :
              GenuineEvent(<<bare("create"), ev("create")>>[j])'
        BY <1>4
      <3> QED  BY <3>1, <3>2, <3>3, <3>4
    <2>2. CASE Leave(i)
      <3>1. <<ev("delete")>> \in Seq(Event)
            /\ <<ev("delete"), bare("delete")>> \in Seq(Event)
        BY <1>1
      <3> HIDE DEF ev, bare
      <3>2. Notify(<<ev("delete")>>) \/ Notify(<<ev("delete"), bare("delete")>>)
        BY <2>2 DEF Leave, ev, bare
      <3>3. \A j \in DOMAIN <<ev("delete")>> : GenuineEvent(<<ev("delete")>>[j])'
        BY <1>4
      <3>4. \A j \in DOMAIN <<ev("delete"), bare("delete")>> :
              GenuineEvent(<<ev("delete"), bare("delete")>>[j])'
        BY <1>4
      <3> QED  BY <3>1, <3>2, <3>3, <3>4
    <2> QED  BY <2>1, <2>2
  <1>6. FeedGenuine'  BY <1>2, <1>5, NotifyGenuine, SafetySplit
  <1>7. CacheGenuine' /\ FlightGenuine' /\ CallGenuine'
    BY <1>2, GenuineGrows, SafetySplit DEF Join, Leave, cached
  <1> QED  BY <1>2, <1>6, <1>7, SafetySplitNext

\* A new record for one caller.
LEMMA CallSetGenuine ==
  ASSUME TypeOK, CallGenuine, UNCHANGED ever, NEW c \in Callers, NEW r,
         GenuineCall(r), call' = [call EXCEPT ![c] = r]
  PROVE  CallGenuine'
  <1>1. call'[c] = r /\ \A d \in Callers : d # c => call'[d] = call[d]
    BY DEF TypeOK
  <1>2. \A d \in Callers : GenuineCall(call'[d])  BY <1>1 DEF CallGenuine
  <1> QED  BY <1>2 DEF CallGenuine, GenuineCall, Genuine, Distinct

LEMMA CallStepGenuine ==
  ASSUME TypeOK, CallGenuine, UNCHANGED ever, NEW c \in Callers, NEW to,
         call' = [call EXCEPT ![c].pc = to]
  PROVE  CallGenuine'
  <1>1. call[c] \in CallType /\ GenuineCall(call[c])  BY DEF TypeOK, CallGenuine
  <1>2. GenuineCall([call[c] EXCEPT !.pc = to])
    BY <1>1 DEF CallType, GenuineCall
  <1>3. call' = [call EXCEPT ![c] = [call[c] EXCEPT !.pc = to]]  BY DEF TypeOK
  <1> QED  BY <1>2, <1>3, CallSetGenuine

\* set stores genuine records.
LEMMA SetGenuine ==
  ASSUME TypeOK, CacheGenuine, UNCHANGED <<ever, listCache>>, NEW n \in Names,
         NEW services \in SUBSET Service, Genuine(n, services),
         Distinct(services), set(n, services)
  PROVE  CacheGenuine'
  <1>1. cache'[n] = services /\ \A m \in Names : m # n => cache'[m] = cache[m]
    BY DEF TypeOK, set
  <1>2. services # NoEntry  BY SentinelAssumption
  <1>3. Cached(n)' = services /\ \A m \in Names : m # n => Cached(m)' = Cached(m)
    BY <1>1, <1>2 DEF Cached
  <1> QED  BY <1>3 DEF CacheGenuine, Genuine, Distinct

\* del takes records away.
LEMMA DelGenuine ==
  ASSUME TypeOK, CacheGenuine, UNCHANGED <<ever, listCache>>, NEW n \in Names,
         del(n)
  PROVE  CacheGenuine'
  <1>1. \A m \in Names : Cached(m)' = Cached(m) \/ Cached(m)' = {}
    BY DEF TypeOK, del, Cached
  <1> QED  BY <1>1 DEF CacheGenuine, Genuine, Distinct

\* update applies a genuine event to genuine records.
LEMMA UpdateGenuine ==
  ASSUME TypeOK, CacheGenuine, UNCHANGED ever, NEW ev \in Event,
         GenuineEvent(ev), update(ev)
  PROVE  CacheGenuine'
  <1> DEFINE n == ev.name
             v == ev.version
             rest == OtherVersions(n, v)
             left == CachedNodes(n, v) \ ev.nodes
             kept == [name |-> n, version |-> v, nodes |-> left]
  <1>1. n \in Names /\ v \in Versions /\ ev.nodes \subseteq Nodes  BY DEF Event
  <1>2. listCache' = listCache  BY DEF update
  <1>3. Genuine(n, Cached(n)) /\ Distinct(Cached(n)) /\ Cached(n) \subseteq Service
    BY <1>1, CachedType DEF CacheGenuine
  <1>4. /\ rest \subseteq Service /\ Genuine(n, rest) /\ Distinct(rest)
        /\ \A s \in rest : s.version # v
    BY <1>3 DEF OtherVersions, Genuine, Distinct
  <1>5. n # ListKey  BY <1>1, SentinelAssumption
  <1>6. /\ CachedNodes(n, v) \subseteq Nodes
        /\ \A x \in CachedNodes(n, v) : <<n, v, x>> \in ever
    BY <1>3, <1>5 DEF CachedNodes, SameVersion, Genuine, Service
  <1>7. ASSUME NEW X \in SUBSET Nodes, \A x \in X : <<n, v, x>> \in ever,
               set(n, rest \cup {[name |-> n, version |-> v, nodes |-> X]})
        PROVE  CacheGenuine'
    <2> DEFINE r == [name |-> n, version |-> v, nodes |-> X]
    <2>1. r \in Service /\ r.name = n /\ r.version = v /\ r.nodes = X
      BY <1>1 DEF Service
    <2>2. set(n, rest \cup {r})  BY <1>7
    <2>3. /\ rest \cup {r} \in SUBSET Service
          /\ Genuine(n, rest \cup {r}) /\ Distinct(rest \cup {r})
      <3> HIDE DEF r, rest, n, v
      <3> QED  BY <1>4, <1>7, <2>1 DEF Genuine, Distinct
    <2> HIDE DEF r, rest, n, v
    <2> QED  BY <1>1, <1>2, <2>2, <2>3, SetGenuine
  <1>8. CASE UNCHANGED <<cache, ttls>>
    BY <1>2, <1>8 DEF CacheGenuine, Cached, Genuine, Distinct
  <1>9. CASE del(n)  BY <1>1, <1>2, <1>9, DelGenuine
  <1>10. CASE UpdateCreate(ev)
    <2>1. set(n, rest \cup {[name |-> n, version |-> v,
                             nodes |-> ev.nodes \cup CachedNodes(n, v)]})
      BY <1>10 DEF UpdateCreate, Merged
    <2>2. \A x \in ev.nodes \cup CachedNodes(n, v) : <<n, v, x>> \in ever
      BY <1>6 DEF GenuineEvent
    <2>3. ev.nodes \cup CachedNodes(n, v) \in SUBSET Nodes  BY <1>1, <1>6
    <2> QED  BY <1>7, <2>1, <2>2, <2>3
  <1>11. CASE UpdateDelete(ev)
    <2>1. CASE set(n, rest \cup {kept})
      <3>1. left \in SUBSET Nodes /\ \A x \in left : <<n, v, x>> \in ever
        BY <1>6
      <3> QED  BY <1>7, <2>1, <3>1
    <2>2. CASE set(n, rest)
      <3> HIDE DEF rest, n, v
      <3> QED  BY <1>1, <1>2, <1>4, <2>2, SetGenuine
    <2> QED  BY <1>8, <1>9, <1>11, <2>1, <2>2 DEF UpdateDelete
  <1> QED  BY <1>8, <1>9, <1>10, <1>11 DEF update, UpdateNoNodes

LEMMA CallerStepSafe ==
  ASSUME TypeOK, SafetyInv, NEW c \in Callers,
         (\E k \in Asked : Miss(c, k)) \/ CallStep(c)
  PROVE  SafetyInv'
  <1>1. /\ reg \subseteq ever /\ CacheGenuine /\ FlightGenuine
        /\ CallGenuine /\ FeedGenuine
    BY SafetySplit
  <1>2. call[c] \in CallType /\ GenuineCall(call[c])
    BY <1>1 DEF TypeOK, CallGenuine
  <1>3. CASE \E k \in Asked : Miss(c, k)
    <2>1. PICK k \in Asked : Miss(c, k)  BY <1>3
    <2>2. k \in Keys  BY BoundAssumption
    <2>3. Genuine(k, CopyOf(k))  BY <1>1, <2>2 DEF CopyOf, CacheGenuine, Keys
    <2> DEFINE r == [pc |-> IF k = ListKey \/ k \in watched
                            THEN "fetch" ELSE "kick",
                     key |-> k, copy |-> CopyOf(k), res |-> {}]
    <2>4. GenuineCall(r)  BY <2>3 DEF GenuineCall, Genuine, Distinct
    <2>5. call' = [call EXCEPT ![c] = r] /\ UNCHANGED ever
      BY <2>1 DEF Miss, external
    <2>6. CallGenuine'
      <3> HIDE DEF r
      <3> QED  BY <1>1, <2>4, <2>5, CallSetGenuine
    <2>7. reg' \subseteq ever' /\ CacheGenuine' /\ FlightGenuine' /\ FeedGenuine'
      BY <1>1, <2>1 DEF Miss, external, cached, CacheGenuine, FlightGenuine,
         FeedGenuine, GenuineFeed, GenuineEvent, Genuine, Distinct, Cached
    <2> QED  BY <2>6, <2>7, SafetySplitNext
  <1>4. CASE Kick(c)
    <2>1. CallGenuine'
      BY <1>1, <1>4, CallStepGenuine DEF Kick, external
    <2>2. reg' \subseteq ever' /\ CacheGenuine' /\ FlightGenuine'
      BY <1>1, <1>4 DEF Kick, external, cached, CacheGenuine, FlightGenuine,
         Genuine, Distinct, Cached
    <2>3. \A l \in Loops : loop'[l].feed = loop[l].feed
      <3>1. CASE UNCHANGED loop  BY <3>1
      <3>2. CASE \E m \in Loops : loop' = [loop EXCEPT ![m].pc = "spawned"]
        <4>1. PICK m \in Loops : loop' = [loop EXCEPT ![m].pc = "spawned"]
          BY <3>2
        <4>2. loop[m] \in LoopType  BY DEF TypeOK
        <4>3. loop'[m] = [loop[m] EXCEPT !.pc = "spawned"]  BY <4>1 DEF TypeOK
        <4>4. loop'[m].feed = loop[m].feed  BY <4>2, <4>3 DEF LoopType
        <4> QED  BY <4>1, <4>4 DEF TypeOK
      <3> QED  BY <1>4, <3>1, <3>2 DEF Kick
    <2>4. FeedGenuine'
      BY <1>1, <1>4, <2>3 DEF Kick, external, FeedGenuine, GenuineFeed, GenuineEvent
    <2> QED  BY <2>1, <2>2, <2>4, SafetySplitNext
  <1>5. CASE Fetch(c)
    <2>1. CallGenuine'  BY <1>1, <1>5, CallStepGenuine DEF Fetch, external
    <2>2. \A k \in Keys : flight'[k] \in {flight[k], Pending}
      BY <1>5 DEF Fetch, TypeOK
    <2>3. FlightGenuine'
      BY <1>1, <1>5, <2>2 DEF Fetch, external, FlightGenuine, Genuine, Distinct
    <2>4. reg' \subseteq ever' /\ CacheGenuine' /\ FeedGenuine'
      BY <1>1, <1>5 DEF Fetch, external, cached, CacheGenuine, FeedGenuine,
         GenuineFeed, GenuineEvent, Genuine, Distinct, Cached
    <2> QED  BY <2>1, <2>3, <2>4, SafetySplitNext
  <1>6. GenuineCall(IdleCall)
    BY DEF GenuineCall, IdleCall, Genuine, Distinct
  <1>7. CASE FallBack(c)
    <2>1. CallGenuine'
      BY <1>1, <1>6, <1>7, CallSetGenuine DEF FallBack, Return, external
    <2>2. reg' \subseteq ever' /\ CacheGenuine' /\ FlightGenuine' /\ FeedGenuine'
      BY <1>1, <1>7 DEF FallBack, external, cached, CacheGenuine, FlightGenuine,
         FeedGenuine, GenuineFeed, GenuineEvent, Genuine, Distinct, Cached
    <2> QED  BY <2>1, <2>2, SafetySplitNext
  <1>8. CASE ClearStatus(c)
    <2>1. CallGenuine'  BY <1>1, <1>8, CallStepGenuine DEF ClearStatus, external
    <2>2. reg' \subseteq ever' /\ CacheGenuine' /\ FlightGenuine' /\ FeedGenuine'
      BY <1>1, <1>8 DEF ClearStatus, external, cached, CacheGenuine,
         FlightGenuine, FeedGenuine, GenuineFeed, GenuineEvent, Genuine, Distinct, Cached
    <2> QED  BY <2>1, <2>2, SafetySplitNext
  <1>9. CASE Store(c)
    <2>1. CallGenuine'
      BY <1>1, <1>6, <1>9, CallSetGenuine DEF Store, Return, external
    <2>2. reg' \subseteq ever' /\ FlightGenuine' /\ FeedGenuine' /\ UNCHANGED ever
      BY <1>1, <1>9 DEF Store, external, FlightGenuine, FeedGenuine,
         GenuineFeed, GenuineEvent, Genuine, Distinct
    <2>3. /\ call[c].res \in SUBSET Service
          /\ Genuine(call[c].key, call[c].res) /\ Distinct(call[c].res)
      BY <1>2, <1>9 DEF Store, TypeOK, CallType, GenuineCall
    <2>4. CacheGenuine'
      <3>1. CASE call[c].key = ListKey
        BY <1>1, <1>9, <2>2, <2>3, <3>1
           DEF Store, CacheGenuine, Genuine, Distinct, Cached
      <3>2. CASE call[c].key # ListKey
        <4>1. call[c].key \in Names  BY <1>2, <3>2 DEF CallType, Keys
        <4>2. set(call[c].key, call[c].res) /\ UNCHANGED listCache
          BY <1>9, <3>2 DEF Store
        <4> QED  BY <1>1, <2>2, <2>3, <4>1, <4>2, SetGenuine
      <3> QED  BY <3>1, <3>2
    <2> QED  BY <2>1, <2>2, <2>4, SafetySplitNext
  <1> QED  BY <1>3, <1>4, <1>5, <1>7, <1>8, <1>9 DEF CallStep

LEMMA FlightStepSafe ==
  ASSUME TypeOK, SafetyInv, NEW k \in Keys,
         RegistryAnswers(k) \/ RegistryFails(k) \/ FlightReturns(k) \/ Expire(k)
  PROVE  SafetyInv'
  <1>1. /\ reg \subseteq ever /\ CacheGenuine /\ FlightGenuine
        /\ CallGenuine /\ FeedGenuine
    BY SafetySplit
  <1>2. UNCHANGED <<reg, ever, cache, listCache, loop>>
    BY DEF RegistryAnswers, RegistryFails, FlightReturns, Expire, external, cached
  <1>3. reg' \subseteq ever' /\ CacheGenuine' /\ FeedGenuine'
    BY <1>1, <1>2 DEF CacheGenuine, FeedGenuine, GenuineFeed, GenuineEvent,
                      Genuine, Distinct, Cached
  <1>4. CASE RegistryAnswers(k)
    <2>1. /\ flight'[k] \in {Failed, Answer(k)}
          /\ \A m \in Keys : m # k => flight'[m] = flight[m]
      BY <1>4 DEF RegistryAnswers, TypeOK
    <2>2. FlightGenuine'
      BY <1>1, <1>2, <2>1, AnswerGenuine DEF FlightGenuine, Genuine, Distinct
    <2>3. CallGenuine'
      BY <1>1, <1>2, <1>4 DEF RegistryAnswers, CallGenuine, GenuineCall,
                              Genuine, Distinct
    <2> QED  BY <1>3, <2>2, <2>3, SafetySplitNext
  <1>5. CASE RegistryFails(k)
    <2>1. FlightGenuine'
      BY <1>1, <1>2, <1>5 DEF RegistryFails, FlightGenuine, Genuine, Distinct, TypeOK
    <2>2. CallGenuine'
      BY <1>1, <1>2, <1>5 DEF RegistryFails, CallGenuine, GenuineCall,
                              Genuine, Distinct
    <2> QED  BY <1>3, <2>1, <2>2, SafetySplitNext
  <1>6. CASE FlightReturns(k)
    <2>1. FlightGenuine'
      BY <1>1, <1>2, <1>6 DEF FlightReturns, FlightGenuine, Genuine, Distinct, TypeOK
    <2>2. ASSUME NEW c \in Callers PROVE GenuineCall(call'[c])
      <3>1. call[c] \in CallType /\ GenuineCall(call[c])
        BY <1>1 DEF TypeOK, CallGenuine
      <3>2. CASE Waiting(c, k)
        <4>1. call'[c] = [call[c] EXCEPT !.pc = "answered", !.res = flight[k]]
          BY <1>6, <3>2 DEF FlightReturns
        <4>2. /\ call'[c].key = call[c].key /\ call[c].key = k
              /\ call'[c].copy = call[c].copy /\ call'[c].res = flight[k]
          BY <3>1, <3>2, <4>1 DEF CallType, Waiting
        <4>3. flight[k] # Failed => Genuine(k, flight[k]) /\ Distinct(flight[k])
          BY <1>1, <1>6 DEF FlightReturns, FlightGenuine
        <4> QED  BY <3>1, <4>2, <4>3 DEF GenuineCall
      <3>3. CASE ~Waiting(c, k)
        <4>1. call'[c] = call[c]  BY <1>6, <3>3 DEF FlightReturns
        <4> QED  BY <3>1, <4>1
      <3> QED  BY <3>2, <3>3
    <2>3. CallGenuine'
      BY <1>2, <2>2 DEF CallGenuine, GenuineCall, Genuine, Distinct
    <2> QED  BY <1>3, <2>1, <2>3, SafetySplitNext
  <1>7. CASE Expire(k)
    <2>1. FlightGenuine' /\ CallGenuine'
      BY <1>1, <1>2, <1>7 DEF Expire, FlightGenuine, CallGenuine, GenuineCall,
                              Genuine, Distinct
    <2> QED  BY <1>3, <2>1, SafetySplitNext
  <1> QED  BY <1>4, <1>5, <1>6, <1>7

\* No step of a loop adds an event to its feed.
LEMMA LoopStepSafe ==
  ASSUME TypeOK, SafetyInv, NEW l \in Loops,
         RunStep(l) \/ OpenFails(l) \/ DropEvent(l) \/ HelperStops(l)
  PROVE  SafetyInv'
  <1>1. /\ reg \subseteq ever /\ CacheGenuine /\ FlightGenuine
        /\ CallGenuine /\ FeedGenuine
    BY SafetySplit
  <1>2. UNCHANGED <<reg, ever, flight, call>>
    BY DEF RunStep, RunStart, RunTop, OpenWatcher, NoWatcher, Next_Event,
           Next_Fails, EventClearsStatus, ApplyEvent, RunEnds, OpenFails,
           DropEvent, HelperStops, external
  <1>3. reg' \subseteq ever' /\ FlightGenuine' /\ CallGenuine'
    BY <1>1, <1>2 DEF FlightGenuine, CallGenuine, GenuineCall, Genuine, Distinct
  <1>4. loop[l] \in LoopType /\ loop \in [Loops -> LoopType]
        /\ loop[l].feed \in Seq(Event) /\ GenuineFeed(loop[l].feed)
    BY <1>1 DEF TypeOK, LoopType, FeedGenuine
  <1>5. ASSUME NEW r, loop' = [loop EXCEPT ![l] = r], GenuineFeed(r.feed)
        PROVE  FeedGenuine'
    <2>1. loop'[l] = r /\ \A m \in Loops : m # l => loop'[m] = loop[m]
      BY <1>4, <1>5
    <2>2. \A m \in Loops : GenuineFeed(loop'[m].feed)
      BY <1>1, <1>5, <2>1 DEF FeedGenuine
    <2> QED  BY <1>2, <2>2 DEF FeedGenuine, GenuineFeed, GenuineEvent
  <1>6. GenuineFeed(<<>>)  BY DEF GenuineFeed
  <1>7. loop[l].feed # <<>> => GenuineFeed(Tail(loop[l].feed))
    <2> SUFFICES ASSUME loop[l].feed # <<>>, NEW i \in DOMAIN Tail(loop[l].feed)
                 PROVE  GenuineEvent(Tail(loop[l].feed)[i])
      BY DEF GenuineFeed
    <2>1. i + 1 \in DOMAIN loop[l].feed
          /\ Tail(loop[l].feed)[i] = loop[l].feed[i + 1]
      BY <1>4
    <2> QED  BY <1>4, <2>1 DEF GenuineFeed
  <1>8. CASE RunStart(l) \/ RunTop(l) \/ NoWatcher(l) \/ RunEnds(l)
             \/ Next_Event(l) \/ EventClearsStatus(l)
    <2>1. PICK to : loop' = [loop EXCEPT ![l].pc = to]
      BY <1>8 DEF RunStart, RunTop, NoWatcher, RunEnds, Next_Event,
                  EventClearsStatus, LoopStep
    <2>2. loop' = [loop EXCEPT ![l] = [loop[l] EXCEPT !.pc = to]]  BY <1>4, <2>1
    <2>3. [loop[l] EXCEPT !.pc = to].feed = loop[l].feed  BY <1>4 DEF LoopType
    <2>4. FeedGenuine'  BY <1>4, <1>5, <2>2, <2>3
    <2>5. UNCHANGED <<cache, listCache>>
      BY <1>8 DEF RunStart, RunTop, NoWatcher, RunEnds, Next_Event,
                  EventClearsStatus, cached
    <2>6. CacheGenuine'
      BY <1>1, <1>2, <2>5 DEF CacheGenuine, Genuine, Distinct, Cached
    <2> QED  BY <1>3, <2>4, <2>6, SafetySplitNext
  <1>9. CASE OpenWatcher(l) \/ OpenFails(l) \/ Next_Fails(l)
    <2>1. PICK r : loop' = [loop EXCEPT ![l] = r] /\ r.feed = <<>>
      <3> DEFINE opened == [pc |-> "next", feed |-> <<>>, helper |-> TRUE,
                            stopped |-> FALSE]
                 again == [pc |-> IF exit THEN "leave" ELSE "top",
                           feed |-> <<>>, helper |-> FALSE, stopped |-> FALSE]
      <3>1. loop' = [loop EXCEPT ![l] = opened] \/ loop' = [loop EXCEPT ![l] = again]
        BY <1>9 DEF OpenWatcher, OpenFails, Next_Fails, Retry
      <3>2. opened.feed = <<>> /\ again.feed = <<>>  OBVIOUS
      <3> HIDE DEF opened, again
      <3> QED  BY <3>1, <3>2
    <2>2. FeedGenuine'  BY <1>5, <1>6, <2>1
    <2>3. UNCHANGED <<cache, listCache>>
      BY <1>9 DEF OpenWatcher, OpenFails, Next_Fails, cached
    <2>4. CacheGenuine'
      BY <1>1, <1>2, <2>3 DEF CacheGenuine, Genuine, Distinct, Cached
    <2> QED  BY <1>3, <2>2, <2>4, SafetySplitNext
  <1>10. CASE HelperStops(l)
    <2>1. loop' = [loop EXCEPT ![l] =
                     [loop[l] EXCEPT !.helper = FALSE, !.stopped = TRUE]]
      BY <1>4, <1>10 DEF HelperStops
    <2>2. [loop[l] EXCEPT !.helper = FALSE, !.stopped = TRUE].feed = loop[l].feed
      BY <1>4 DEF LoopType
    <2>3. FeedGenuine'  BY <1>4, <1>5, <2>1, <2>2
    <2>4. CacheGenuine'
      BY <1>1, <1>2, <1>10 DEF HelperStops, cached, CacheGenuine, Genuine,
                               Distinct, Cached
    <2> QED  BY <1>3, <2>3, <2>4, SafetySplitNext
  <1>11. CASE DropEvent(l)
    <2>1. loop' = [loop EXCEPT ![l] = [loop[l] EXCEPT !.feed = Tail(@)]]
      BY <1>4, <1>11 DEF DropEvent
    <2>2. [loop[l] EXCEPT !.feed = Tail(@)].feed = Tail(loop[l].feed)
      BY <1>4 DEF LoopType
    <2>3. FeedGenuine'  BY <1>5, <1>7, <1>11, <2>1, <2>2 DEF DropEvent
    <2>4. CacheGenuine'
      BY <1>1, <1>2, <1>11 DEF DropEvent, cached, CacheGenuine, Genuine,
                               Distinct, Cached
    <2> QED  BY <1>3, <2>3, <2>4, SafetySplitNext
  <1>12. CASE ApplyEvent(l)
    <2>1. loop[l].feed # <<>>  BY <1>12 DEF ApplyEvent, TypeOK
    <2>2. Head(loop[l].feed) \in Event /\ GenuineEvent(Head(loop[l].feed))
      BY <1>4, <2>1 DEF GenuineFeed
    <2>3. CacheGenuine'
      BY <1>1, <1>2, <1>12, <2>2, UpdateGenuine DEF ApplyEvent
    <2>4. loop' = [loop EXCEPT ![l] =
                     [loop[l] EXCEPT !.pc = "next", !.feed = Tail(@)]]
      BY <1>4, <1>12 DEF ApplyEvent
    <2>5. [loop[l] EXCEPT !.pc = "next", !.feed = Tail(@)].feed = Tail(loop[l].feed)
      BY <1>4 DEF LoopType
    <2>6. FeedGenuine'  BY <1>5, <1>7, <2>1, <2>4, <2>5
    <2> QED  BY <1>3, <2>3, <2>6, SafetySplitNext
  <1> QED  BY <1>8, <1>9, <1>10, <1>11, <1>12 DEF RunStep

\* The strengthening is inductive relative to the types.
THEOREM SafetyInvariant == Spec => []SafetyInv
  <1>1. Init => SafetyInv
    <2> SUFFICES ASSUME Init PROVE SafetyInv  OBVIOUS
    <2>1. \A n \in Names : Cached(n) = {}  BY DEF Init, Cached
    <2>2. CacheGenuine  BY <2>1 DEF Init, CacheGenuine, Genuine, Distinct
    <2>3. FlightGenuine  BY DEF Init, FlightGenuine
    <2>4. CallGenuine
      BY DEF Init, CallGenuine, GenuineCall, IdleCall, Genuine, Distinct
    <2>5. FeedGenuine  BY DEF Init, FeedGenuine, GenuineFeed
    <2> QED  BY <2>2, <2>3, <2>4, <2>5, SafetySplit DEF Init
  <1>2. TypeOK /\ SafetyInv /\ [Next]_vars => SafetyInv'
    <2> SUFFICES ASSUME TypeOK, SafetyInv, [Next]_vars PROVE SafetyInv'
      OBVIOUS
    <2>1. CASE UNCHANGED vars \/ Stop \/ StopReturns
      <3>1. UNCHANGED <<reg, ever, cache, listCache, flight, call, loop>>
        BY <2>1 DEF vars, Stop, StopReturns, external, cached
      <3>2. reg' \subseteq ever' /\ CacheGenuine' /\ FlightGenuine'
            /\ CallGenuine' /\ FeedGenuine'
        BY <3>1, SafetySplit DEF CacheGenuine, FlightGenuine, CallGenuine,
           GenuineCall, FeedGenuine, GenuineFeed, GenuineEvent, Genuine,
           Distinct, Cached
      <3> QED  BY <3>2, SafetySplitNext
    <2> QED  BY <2>1, RegistryStepSafe, CallerStepSafe, FlightStepSafe,
                LoopStepSafe DEF Next
  <1> QED  BY <1>1, <1>2, TypeCorrect, PTL DEF Spec

\* Whatever lookups, shared answers, lost events, fallbacks and concurrent
\* watch loops do, get and ListServices never cache or hold for a service a
\* node that never registered under its name.
THEOREM NoPhantomNodes == Spec => []NoPhantom
  <1>1. SafetyInv => NoPhantom  BY DEF SafetyInv, NoPhantom
  <1> QED  BY <1>1, SafetyInvariant, PTL

\* A cached service never has two records for one version: update merges the
\* event's nodes into the record there is.
THEOREM VersionsStayMerged == Spec => []OneRecordPerVersion
  <1>1. TypeOK /\ SafetyInv => OneRecordPerVersion
    <2> SUFFICES ASSUME TypeOK, SafetyInv, NEW n \in Names,
                        NEW s \in Cached(n), NEW t \in Cached(n),
                        s.version = t.version
                 PROVE  s = t
      BY DEF OneRecordPerVersion
    <2>1. n # ListKey  BY SentinelAssumption
    <2>2. s.name = n /\ t.name = n  BY <2>1 DEF SafetyInv, Genuine
    <2> QED  BY <2>2 DEF SafetyInv, Distinct
  <1> QED  BY <1>1, TypeCorrect, SafetyInvariant, PTL
===========================================================================
