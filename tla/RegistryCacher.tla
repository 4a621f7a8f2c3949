-------------------------- MODULE RegistryCacher --------------------------
(***************************************************************************)
(* The client-side cache in front of a service registry                    *)
(* (registry/registry_cacher.go): lookups of one service and of the whole  *)
(* list, merged by singleflight, a TTL per entry, the background loop that *)
(* applies watch events to the entries, and Stop.                          *)
(*                                                                         *)
(* The registry behind it (etcd, consul, memory, mdns) is external: a set  *)
(* of registered instances, a stream of events per open watcher, and calls *)
(* that may fail.  A TTL is "zero" (never set or reset by an event),       *)
(* "live" or "old" (the wall clock passed it).                             *)
(***************************************************************************)
EXTENDS Naturals, Sequences, FiniteSets

CONSTANTS
    Names,          \* service names
    Versions,       \* service versions
    Nodes,          \* node ids
    Callers,        \* goroutines calling GetService / ListServices
    Loops,          \* slots for run() goroutines: bounds how many may coexist
    NoEntry,        \* a name that is not a key of the cache map
    Failed,         \* the error outcome of a call
    NoFlight,       \* no singleflight call in progress for a key
    Pending,        \* a singleflight call the registry has not answered yet
    ListKey,        \* the singleflight key "*list*"
    NotFoundIsError,\* etcd and memory: GetService of nothing is ErrNotFound;
                    \* consul: an empty list and no error
    NilWatcher,     \* Watcher() may return nil, nil (the nop registry)
    Asked,          \* bound: the keys the callers ask for
    Stoppable,      \* bound: whether Stop is called
    MaxChanges,     \* bound: registrations and deregistrations in the registry
    MaxFaults       \* bound: failed calls, broken watchers and lost events

Instances == Names \X Versions \X Nodes
Service   == [name : Names, version : Versions, nodes : SUBSET Nodes]
Event     == [action : {"create", "delete"}, name : Names,
              version : Versions, nodes : SUBSET Nodes]
Keys      == Names \cup {ListKey}
Ttl       == {"zero", "live", "old"}

ASSUME SentinelAssumption ==
    /\ ListKey \notin Names
    /\ \A S \in SUBSET Service :
         S # NoEntry /\ S # Failed /\ S # NoFlight /\ S # Pending
    /\ Failed # NoFlight /\ Failed # Pending /\ NoFlight # Pending

ASSUME BoundAssumption ==
    /\ Asked \subseteq Keys
    /\ {NotFoundIsError, NilWatcher, Stoppable} \subseteq BOOLEAN
    /\ MaxChanges \in Nat /\ MaxFaults \in Nat

VARIABLES
    reg,        \* external: instances registered now
    ever,       \* history: instances registered at some time
    missed,     \* history: a change happened that no open watcher will report
    changes, faults,            \* counters for the bounds
    cache, ttls, watched,       \* the maps of the same names
    listCache, listTTL,
    running, status,            \* status: an error is recorded
    exit,                       \* the exit channel is closed
    flight,                     \* singleflight: key -> state of the call
    call,                       \* per caller: pc, key, copy of the cache, result
    loop,                       \* per run(): pc, events not applied yet, helper
                                \* goroutine alive, watcher stopped
    stop                        \* the goroutine that called Stop

vars == <<reg, ever, missed, changes, faults, cache, ttls, watched, listCache,
          listTTL, running, status, exit, flight, call, loop, stop>>

external == <<reg, ever, missed, changes>>
cached   == <<cache, ttls, listCache, listTTL>>

\* A goroutine that is not in a call.
IdleCall == [pc |-> "idle", key |-> ListKey, copy |-> {}, res |-> {}]

Init ==
    /\ reg \in {{}} \cup {{i} : i \in Instances}
    /\ ever = reg
    /\ missed = FALSE
    /\ changes = 0 /\ faults = 0
    /\ cache = [n \in Names |-> NoEntry]
    /\ ttls = [n \in Names |-> "zero"]
    /\ watched = {}
    /\ listCache = {} /\ listTTL = "zero"
    /\ running = FALSE /\ status = FALSE /\ exit = FALSE
    /\ flight = [k \in Keys |-> NoFlight]
    /\ call = [c \in Callers |-> IdleCall]
    /\ loop = [l \in Loops |->
                 [pc |-> "none", feed |-> <<>>,
                  helper |-> FALSE, stopped |-> FALSE]]
    /\ stop = "idle"

---------------------------------------------------------------------------
(* The registry (external)                                                 *)

\* GetService(n): one record per version that has nodes.
Lookup(n) ==
    {[name |-> n, version |-> v,
      nodes |-> {x \in Nodes : <<n, v, x>> \in reg}] :
        v \in {u \in Versions : \E x \in Nodes : <<n, u, x>> \in reg}}

\* ListServices: the records of every name.
Listing == UNION {Lookup(n) : n \in Names}

Answer(k) == IF k = ListKey THEN Listing ELSE Lookup(k)

\* A watcher is open in loop l: its events queue up.
Watching(l) == loop[l].pc \in {"next", "got", "apply"} /\ ~loop[l].stopped

\* Every open watcher is sent the events of one change.
Notify(evs) ==
    /\ loop' = [l \in Loops |-> IF Watching(l)
                  THEN [loop[l] EXCEPT !.feed = @ \o evs] ELSE loop[l]]
    /\ missed' = (missed \/ ~\E l \in Loops : Watching(l))

\* A node registers.  consul announces a new name with an event without nodes.
Join(i) ==
    /\ changes < MaxChanges /\ i \notin reg
    /\ reg' = reg \cup {i}
    /\ ever' = ever \cup {i}
    /\ changes' = changes + 1
    /\ LET ev == [action |-> "create", name |-> i[1], version |-> i[2],
                  nodes |-> {i[3]}]
       IN  \/ Notify(<<ev>>)
           \/ /\ Lookup(i[1]) = {}
              /\ Notify(<<[ev EXCEPT !.nodes = {}], ev>>)
    /\ UNCHANGED <<faults, cached, watched, running, status, exit, flight,
                   call, stop>>

\* A node deregisters or its lease ends.  consul ends a name that is gone with
\* an event without nodes.
Leave(i) ==
    /\ changes < MaxChanges /\ i \in reg
    /\ reg' = reg \ {i}
    /\ changes' = changes + 1
    /\ LET ev == [action |-> "delete", name |-> i[1], version |-> i[2],
                  nodes |-> {i[3]}]
       IN  \/ Notify(<<ev>>)
           \/ /\ \A j \in reg : j[1] = i[1] => j = i
              /\ Notify(<<ev, [ev EXCEPT !.nodes = {}]>>)
    /\ UNCHANGED <<ever, faults, cached, watched, running, status, exit, flight,
                   call, stop>>

\* A queued event is lost: etcd's Next returns the first event of a batch only,
\* memory gives a slow watcher 10 ms, consul's Stop drains.
DropEvent(l) ==
    /\ faults < MaxFaults /\ loop[l].pc = "next" /\ loop[l].feed # <<>>
    /\ faults' = faults + 1
    /\ missed' = TRUE
    /\ loop' = [loop EXCEPT ![l].feed = Tail(@)]
    /\ UNCHANGED <<reg, ever, changes, cached, watched, running, status, exit,
                   flight, call, stop>>

---------------------------------------------------------------------------
(* GetService and ListServices                                             *)

\* Mutated form: a TTL, once set, is not compared with the clock.
isValidIgnoresClock(services, ttl) == services # {} /\ ttl # "zero"

\* isValid: something is cached and its TTL has not passed.
isValid(services, ttl) == services # {} /\ ttl = "live"

\* c.cache[n]; a missing key reads as an empty slice.
Cached(n) == IF cache[n] = NoEntry THEN {} ELSE cache[n]

CopyOf(k) == IF k = ListKey THEN listCache ELSE Cached(k)
TtlOf(k)  == IF k = ListKey THEN listTTL ELSE ttls[k]

\* The call returns; the caller's answer (the copy, the stored answer or an
\* error, an empty answer of GetService being ErrNotFound) is not kept.
Return(c) == call' = [call EXCEPT ![c] = IdleCall]

\* The copy taken under the read lock is the answer if it is valid, and then
\* nothing changes.  Otherwise the lookup begins; whether the name is watched
\* is read under the same read lock.
Miss(c, k) ==
    /\ call[c].pc = "idle"
    /\ ~isValid(CopyOf(k), TtlOf(k))
    /\ call' = [call EXCEPT ![c] =
                  [pc |-> IF k = ListKey \/ k \in watched THEN "fetch" ELSE "kick",
                   key |-> k, copy |-> CopyOf(k), res |-> {}]]
    /\ UNCHANGED <<external, faults, cached, watched, running, status, exit,
                   flight, loop, stop>>

\* The write-locked section of get: mark the name, start run() if not running.
Kick(c) ==
    /\ call[c].pc = "kick"
    /\ watched' = watched \cup {call[c].key}
    /\ \/ running /\ UNCHANGED loop
       \/ /\ ~running
          /\ \E l \in Loops : /\ loop[l].pc = "none" /\ ~loop[l].helper
                              /\ loop' = [loop EXCEPT ![l].pc = "spawned"]
    /\ call' = [call EXCEPT ![c].pc = "fetch"]
    /\ UNCHANGED <<external, faults, cached, running, status, exit, flight, stop>>

\* sg.Do: start the call for the key, or join the one in progress.
Fetch(c) ==
    /\ call[c].pc = "fetch"
    /\ call' = [call EXCEPT ![c].pc = "wait"]
    /\ flight' = [flight EXCEPT ![call[c].key] =
                    IF @ = NoFlight THEN Pending ELSE @]
    /\ UNCHANGED <<external, faults, cached, watched, running, status, exit,
                   loop, stop>>

\* The registry evaluates the call (external).
RegistryAnswers(k) ==
    /\ flight[k] = Pending
    /\ flight' = [flight EXCEPT ![k] =
                    IF k # ListKey /\ Answer(k) = {} /\ NotFoundIsError
                    THEN Failed ELSE Answer(k)]
    /\ UNCHANGED <<external, faults, cached, watched, running, status, exit,
                   call, loop, stop>>

\* The registry cannot be reached (external).
RegistryFails(k) ==
    /\ flight[k] = Pending /\ faults < MaxFaults
    /\ faults' = faults + 1
    /\ flight' = [flight EXCEPT ![k] = Failed]
    /\ UNCHANGED <<external, cached, watched, running, status, exit, call, loop,
                   stop>>

\* Mutated form: one singleflight key for every service.
WaitingAnyKey(c, k) == call[c].pc = "wait"

\* sg.Do returns the one answer to every caller waiting on the key.
Waiting(c, k) == call[c].pc = "wait" /\ call[c].key = k

FlightReturns(k) ==
    /\ flight[k] \notin {NoFlight, Pending}
    /\ call' = [c \in Callers |-> IF Waiting(c, k)
                  THEN [call[c] EXCEPT !.pc = "answered", !.res = flight[k]]
                  ELSE call[c]]
    /\ flight' = [flight EXCEPT ![k] = NoFlight]
    /\ UNCHANGED <<external, faults, cached, watched, running, status, exit,
                   loop, stop>>

\* Mutated form: an error without a copy to fall back to is not returned.
FallBackNeedsCopy(c) ==
    /\ call[c].pc = "answered" /\ call[c].res = Failed
    /\ call[c].copy # {}
    /\ status' = TRUE
    /\ Return(c)
    /\ UNCHANGED <<external, faults, cached, watched, running, exit, flight,
                   loop, stop>>

\* Error: record it and fall back to the copy taken at the start, if any.
FallBack(c) ==
    /\ call[c].pc = "answered" /\ call[c].res = Failed
    /\ \/ /\ call[c].copy # {}
          /\ status' = TRUE
       \/ /\ call[c].copy = {}
          /\ UNCHANGED status
    /\ Return(c)
    /\ UNCHANGED <<external, faults, cached, watched, running, exit, flight,
                   loop, stop>>

\* Mutated form: the error of the lookup is not looked at.
ClearStatusOnError(c) ==
    /\ call[c].pc = "answered"
    /\ status' = FALSE
    /\ call' = [call EXCEPT ![c].pc = "store"]
    /\ UNCHANGED <<external, faults, cached, watched, running, exit, flight,
                   loop, stop>>

\* Success: clear the recorded error, a critical section of its own.
ClearStatus(c) ==
    /\ call[c].pc = "answered" /\ call[c].res # Failed
    /\ status' = FALSE
    /\ call' = [call EXCEPT ![c].pc = "store"]
    /\ UNCHANGED <<external, faults, cached, watched, running, exit, flight,
                   loop, stop>>

\* set: the entry and a full TTL from now.
set(n, services) ==
    /\ cache' = [cache EXCEPT ![n] = services]
    /\ ttls' = [ttls EXCEPT ![n] = "live"]

\* Cache the answer and return it.
Store(c) ==
    /\ call[c].pc = "store"
    /\ Return(c)
    /\ \/ /\ call[c].key = ListKey
          /\ listCache' = call[c].res
          /\ listTTL' = "live"
          /\ UNCHANGED <<cache, ttls>>
       \/ /\ call[c].key # ListKey
          /\ set(call[c].key, call[c].res)
          /\ UNCHANGED <<listCache, listTTL>>
    /\ UNCHANGED <<external, faults, watched, running, status, exit, flight,
                   loop, stop>>

\* Wall-clock time passes a TTL.
Expire(k) ==
    /\ TtlOf(k) = "live"
    /\ \/ k = ListKey /\ listTTL' = "old" /\ UNCHANGED ttls
       \/ k # ListKey /\ ttls' = [ttls EXCEPT ![k] = "old"] /\ UNCHANGED listTTL
    /\ UNCHANGED <<external, faults, cache, listCache, watched, running, status,
                   exit, flight, call, loop, stop>>

---------------------------------------------------------------------------
(* Watch events: update                                                    *)

\* del: an entry is not thrown away while an error is recorded.
del(n) ==
    \/ status /\ UNCHANGED <<cache, ttls>>
    \/ /\ ~status
       /\ cache' = [cache EXCEPT ![n] = NoEntry]
       /\ ttls' = [ttls EXCEPT ![n] = "zero"]

SameVersion(n, v) == {s \in Cached(n) : s.version = v}
OtherVersions(n, v) == {s \in Cached(n) : s.version # v}
CachedNodes(n, v) == UNION {s.nodes : s \in SameVersion(n, v)}

\* "create" and "update": the nodes known for this version join the event's.
Merged(ev) ==
    [name |-> ev.name, version |-> ev.version,
     nodes |-> ev.nodes \cup CachedNodes(ev.name, ev.version)]

\* Mutated form: the event's record is appended beside the known one.
UpdateCreateAppends(ev) ==
    /\ ev.action = "create"
    /\ set(ev.name, Cached(ev.name) \cup
                      {[name |-> ev.name, version |-> ev.version,
                        nodes |-> ev.nodes]})

UpdateCreate(ev) ==
    /\ ev.action = "create"
    /\ set(ev.name, OtherVersions(ev.name, ev.version) \cup {Merged(ev)})

\* "delete": drop the event's nodes; a version without nodes goes, and the
\* entry goes with its last version.
UpdateDelete(ev) ==
    LET n    == ev.name
        left == CachedNodes(n, ev.version) \ ev.nodes
        rest == OtherVersions(n, ev.version)
    IN  /\ ev.action = "delete"
        /\ \/ SameVersion(n, ev.version) = {} /\ UNCHANGED <<cache, ttls>>
           \/ /\ SameVersion(n, ev.version) # {} /\ left # {}
              /\ set(n, rest \cup {[name |-> n, version |-> ev.version,
                                    nodes |-> left]})
           \/ /\ SameVersion(n, ev.version) # {} /\ left = {} /\ rest = {}
              /\ del(n)
           \/ /\ SameVersion(n, ev.version) # {} /\ left = {} /\ rest # {}
              /\ set(n, rest)

\* An event without nodes only ends a whole service.
UpdateNoNodes(ev) ==
    \/ ev.action = "delete" /\ del(ev.name)
    \/ ev.action # "delete" /\ UNCHANGED <<cache, ttls>>

\* update: every event invalidates the list; an entry changes only if its
\* name is watched and was looked up before.
update(ev) ==
    /\ listTTL' = "zero"
    /\ UNCHANGED listCache
    /\ \/ /\ ev.name \notin watched \/ cache[ev.name] = NoEntry
          /\ UNCHANGED <<cache, ttls>>
       \/ /\ ev.name \in watched /\ cache[ev.name] # NoEntry
          /\ \/ ev.nodes = {} /\ UpdateNoNodes(ev)
             \/ ev.nodes # {} /\ (UpdateCreate(ev) \/ UpdateDelete(ev))

---------------------------------------------------------------------------
(* run, watch and Stop                                                     *)

LoopStep(l, from, to) ==
    /\ loop[l].pc = from
    /\ loop' = [loop EXCEPT ![l].pc = to]

\* The goroutine starts: only here does running become true.
RunStart(l) ==
    /\ LoopStep(l, "spawned", "top")
    /\ running' = TRUE
    /\ UNCHANGED <<external, faults, cached, watched, status, exit, flight, call,
                   stop>>

\* Top of the loop: leave when exit is closed.
RunTop(l) ==
    /\ LoopStep(l, "top", IF exit THEN "leave" ELSE "open")
    /\ UNCHANGED <<external, faults, cached, watched, running, status, exit,
                   flight, call, stop>>

\* Watcher() succeeds: watch starts its helper and blocks in Next.
OpenWatcher(l) ==
    /\ loop[l].pc = "open"
    /\ loop' = [loop EXCEPT ![l] = [pc |-> "next", feed |-> <<>>,
                                    helper |-> TRUE, stopped |-> FALSE]]
    /\ UNCHANGED <<external, faults, cached, watched, running, status, exit,
                   flight, call, stop>>

\* Watcher() returns nil: the loop breaks.
NoWatcher(l) ==
    /\ NilWatcher /\ LoopStep(l, "open", "leave")
    /\ UNCHANGED <<external, faults, cached, watched, running, status, exit,
                   flight, call, stop>>

\* After an error of Watcher() or watch(): leave when exit is closed, else
\* record the error and, after the backoff, go round again.
Retry(l) ==
    /\ loop' = [loop EXCEPT ![l] =
                  [pc |-> IF exit THEN "leave" ELSE "top", feed |-> <<>>,
                   helper |-> FALSE, stopped |-> FALSE]]
    /\ status' = IF exit THEN status ELSE TRUE

OpenFails(l) ==
    /\ loop[l].pc = "open" /\ faults < MaxFaults
    /\ faults' = faults + 1
    /\ Retry(l)
    /\ UNCHANGED <<external, cached, watched, running, exit, flight, call, stop>>

\* Next returns an event.
Next_Event(l) ==
    /\ loop[l].feed # <<>>
    /\ LoopStep(l, "next", "got")
    /\ UNCHANGED <<external, faults, cached, watched, running, status, exit,
                   flight, call, stop>>

\* Next fails because the helper stopped the watcher, or because the
\* connection broke: watch closes stop, so its helper returns too.  The events
\* still queued are lost.
Next_Fails(l) ==
    /\ loop[l].pc = "next"
    /\ \/ loop[l].stopped /\ UNCHANGED <<faults, missed>>
       \/ /\ ~loop[l].stopped /\ faults < MaxFaults
          /\ faults' = faults + 1
          /\ missed' = (missed \/ loop[l].feed # <<>>)
    /\ Retry(l)
    /\ UNCHANGED <<reg, ever, changes, cached, watched, running, exit, flight,
                   call, stop>>

\* The event is in hand: clear the recorded error first ...
EventClearsStatus(l) ==
    /\ LoopStep(l, "got", "apply")
    /\ status' = FALSE
    /\ UNCHANGED <<external, faults, cached, watched, running, exit, flight,
                   call, stop>>

\* ... then apply it.
ApplyEvent(l) ==
    /\ loop[l].pc = "apply"
    /\ update(Head(loop[l].feed))
    /\ loop' = [loop EXCEPT ![l].pc = "next", ![l].feed = Tail(@)]
    /\ UNCHANGED <<external, faults, watched, running, status, exit, flight,
                   call, stop>>

\* Mutated form: the helper waits for watch to return and not for exit.
HelperIgnoresExit(l) ==
    /\ loop[l].helper /\ loop[l].pc = "leave"
    /\ loop' = [loop EXCEPT ![l].helper = FALSE, ![l].stopped = TRUE]
    /\ UNCHANGED <<external, faults, cached, watched, running, status, exit,
                   flight, call, stop>>

\* The helper goroutine of watch stops the watcher when exit closes.
HelperStops(l) ==
    /\ loop[l].helper /\ exit
    /\ loop' = [loop EXCEPT ![l].helper = FALSE, ![l].stopped = TRUE]
    /\ UNCHANGED <<external, faults, cached, watched, running, status, exit,
                   flight, call, stop>>

\* The deferred section of run.
RunEnds(l) ==
    /\ LoopStep(l, "leave", "none")
    /\ watched' = {}
    /\ running' = FALSE
    /\ UNCHANGED <<external, faults, cached, status, exit, flight, call, stop>>

\* Stop closes exit under the lock, then waits for the goroutines outside it.
Stop ==
    /\ Stoppable /\ stop = "idle"
    /\ stop' = "waiting"
    /\ exit' = TRUE
    /\ UNCHANGED <<external, faults, cached, watched, running, status, flight,
                   call, loop>>

StopReturns ==
    /\ stop = "waiting"
    /\ \A l \in Loops : loop[l].pc = "none" /\ ~loop[l].helper
    /\ stop' = "returned"
    /\ UNCHANGED <<external, faults, cached, watched, running, status, exit,
                   flight, call, loop>>

---------------------------------------------------------------------------
CallStep(c) == Kick(c) \/ Fetch(c) \/ FallBack(c) \/ ClearStatus(c) \/ Store(c)

RunStep(l) ==
    \/ RunStart(l) \/ RunTop(l) \/ OpenWatcher(l) \/ NoWatcher(l)
    \/ Next_Event(l) \/ Next_Fails(l) \/ EventClearsStatus(l) \/ ApplyEvent(l)
    \/ RunEnds(l)

Next ==
    \/ \E i \in Instances : Join(i) \/ Leave(i)
    \/ \E c \in Callers, k \in Asked : Miss(c, k)
    \/ \E c \in Callers : CallStep(c)
    \/ \E k \in Keys :
         RegistryAnswers(k) \/ RegistryFails(k) \/ FlightReturns(k) \/ Expire(k)
    \/ \E l \in Loops :
         RunStep(l) \/ OpenFails(l) \/ DropEvent(l) \/ HelperStops(l)
    \/ Stop \/ StopReturns

\* Goroutines that can run do, the registry answers each call one way or
\* the other, and the clock passes every TTL.  Nothing makes the registry
\* change, a caller call, or anyone Stop.  A WaitGroup releases its waiters
\* whenever its counter is zero, even if later calls start new goroutines:
\* StopReturns is strongly fair.
Fairness ==
    /\ \A c \in Callers : WF_vars(CallStep(c))
    /\ \A k \in Keys : /\ WF_vars(RegistryAnswers(k))
                       /\ WF_vars(FlightReturns(k))
                       /\ WF_vars(Expire(k))
    /\ \A l \in Loops : WF_vars(RunStep(l)) /\ WF_vars(HelperStops(l))
    /\ SF_vars(StopReturns)

Spec == Init /\ [][Next]_vars

FairSpec == Spec /\ Fairness

---------------------------------------------------------------------------
(* Properties                                                              *)

CallType ==
    [pc : {"idle", "kick", "fetch", "wait", "answered", "store"}, key : Keys,
     copy : SUBSET Service, res : (SUBSET Service) \cup {Failed}]

LoopType ==
    [pc : {"none", "spawned", "top", "open", "next", "got", "apply", "leave"},
     feed : Seq(Event), helper : BOOLEAN, stopped : BOOLEAN]

\* Every variable keeps its type, an event is in hand when run applies one and
\* a successful answer when a caller stores one.
TypeOK ==
    /\ reg \subseteq Instances /\ ever \subseteq Instances
    /\ missed \in BOOLEAN /\ changes \in Nat /\ faults \in Nat
    /\ cache \in [Names -> (SUBSET Service) \cup {NoEntry}]
    /\ ttls \in [Names -> Ttl]
    /\ watched \subseteq Names
    /\ listCache \subseteq Service /\ listTTL \in Ttl
    /\ running \in BOOLEAN /\ status \in BOOLEAN /\ exit \in BOOLEAN
    /\ flight \in [Keys -> (SUBSET Service) \cup {NoFlight, Pending, Failed}]
    /\ call \in [Callers -> CallType]
    /\ loop \in [Loops -> LoopType]
    /\ stop \in {"idle", "waiting", "returned"}
    /\ \A l \in Loops : loop[l].pc \in {"got", "apply"} => loop[l].feed # <<>>
    /\ \A c \in Callers : /\ call[c].pc = "kick" => call[c].key # ListKey
                          /\ call[c].pc = "store" => call[c].res # Failed

\* The records a lookup of k may deal in: of that name, naming only nodes that
\* registered under it at some time.
Genuine(k, services) ==
    \A s \in services : /\ k = ListKey \/ s.name = k
                        /\ \A x \in s.nodes : <<s.name, s.version, x>> \in ever

\* A node the registry never held under a name is never cached for that name
\* or handed to a caller: whatever the order in which lookups, shared answers,
\* events and fallbacks are applied, get and update mix up no two services.
NoPhantom ==
    /\ \A n \in Names : Genuine(n, Cached(n))
    /\ Genuine(ListKey, listCache)
    /\ \A c \in Callers :
         /\ Genuine(call[c].key, call[c].copy)
         /\ call[c].res # Failed => Genuine(call[c].key, call[c].res)

\* A cached service has one record per version, so that the node set a caller
\* sees for a version is the whole of it: update merges where it could append.
OneRecordPerVersion ==
    \A n \in Names : \A s, t \in Cached(n) : s.version = t.version => s = t

\* No two records of a set describe the same version of a service.
Distinct(services) == \A s, t \in services :
    s.name = t.name /\ s.version = t.version => s = t

GenuineEvent(ev) == \A x \in ev.nodes : <<ev.name, ev.version, x>> \in ever

\* The inductive strengthening of NoPhantom and OneRecordPerVersion: whatever
\* is on its way into the cache is genuine too - the answers in flight, the
\* answers at hand and the events not applied yet.
SafetyInv ==
    /\ reg \subseteq ever
    /\ \A n \in Names : Genuine(n, Cached(n)) /\ Distinct(Cached(n))
    /\ Genuine(ListKey, listCache)
    /\ \A k \in Keys : flight[k] \notin {NoFlight, Pending, Failed} =>
                         Genuine(k, flight[k]) /\ Distinct(flight[k])
    /\ \A c \in Callers :
         /\ Genuine(call[c].key, call[c].copy)
         /\ call[c].res # Failed => /\ Genuine(call[c].key, call[c].res)
                                    /\ Distinct(call[c].res)
    /\ \A l \in Loops : \A i \in DOMAIN loop[l].feed : GenuineEvent(loop[l].feed[i])

\* Nothing is on its way: no lookup of the list, no event to apply.
Quiet ==
    /\ flight[ListKey] = NoFlight
    /\ \A c \in Callers : call[c].key = ListKey => call[c].pc = "idle"
    /\ \A l \in Loops : loop[l].feed = <<>>

\* Once every change has been reported and its event applied, a list that
\* ListServices would serve from its cache shows the registry as it is: watch
\* events make the list invalid at once, so that the delay with which a
\* change is seen does not depend on the TTL.
ListSeesEvents ==
    ~missed /\ Quiet /\ isValid(listCache, listTTL) => listCache = Listing

\* What ListServices and GetService serve from the cache is eventually what
\* the registry holds, once the registry stops changing and the faults end:
\* events may be lost and lookups may store an answer older than the event
\* they raced with, but the TTL ends every stale entry.
CacheConverges ==
    <>[](\A k \in Keys : isValid(CopyOf(k), TtlOf(k)) => CopyOf(k) = Answer(k))

\* Every call ends, whatever fails and whoever stops the cacher.
CallsReturn == \A c \in Callers : call[c].pc # "idle" ~> call[c].pc = "idle"

\* Stop returns: the loop and the helper of every watcher notice exit, even
\* when they are blocked in Next or waiting to retry.
StopCompletes == stop = "waiting" ~> stop = "returned"

\* The lookup of n is about to answer with the nodes it cached earlier.
FallsBackTo(c, n) ==
    /\ call[c].pc = "answered" /\ call[c].key = n
    /\ call[c].res = Failed /\ call[c].copy # {}

\* A service that is gone from the registry is eventually not found: from some
\* time on, no lookup of GetService answers with nodes of it.
GoneIsNotFound ==
    \A n \in Names : <>[](Lookup(n) = {}) =>
                       <>[](\A c \in Callers : ~FallsBackTo(c, n))
===========================================================================
