----------------------------- MODULE Selector -----------------------------
(***************************************************************************)
(* The selector (selector/registry.go, breaker.go, strategy.go) as client  *)
(* calls use it (client/rpc_client.go Call): look the service up in the    *)
(* selector's cacher, leave out the nodes whose breaker is open, take the  *)
(* next node round robin, call it, Mark the outcome, retry.                *)
(*                                                                         *)
(* Mark's loads and stores of the atomic fields of a nodeHealth are steps  *)
(* of their own.  Times are relative: open is how long the node stays out, *)
(* seen how long ago it was last marked, ago how long ago a Mark in        *)
(* progress read the clock.                                                *)
(***************************************************************************)
EXTENDS Naturals, Sequences

CONSTANTS
    Services, Nodes,
    Clients,            \* goroutines in Call
    Providers,          \* external: service -> sequence of its nodes
    NoHealth,           \* a key that is not in states
    NoNode,
    BreakerFailures,    \* 0: no breaker
    BreakerCooldown, BreakerMaxCooldown,    \* 0: not configured
    DefaultCooldown,    \* DefaultBreakerCooldown
    PurgeInterval, EntryTTL,    \* healthPurgeInterval, healthEntryTTL
    Retries,            \* CallOptions.Retries
    Wrap,               \* bound: roundRobinSeq counts modulo Wrap
    MaxTrips,           \* bound: trips counts to MaxTrips
    MaxOutages,         \* bound: nodes that go down or come back
    MaxResets,          \* bound: calls of Reset
    MaxInits            \* bound: calls of Init and Close

Keys == Services \X Nodes
Old  == EntryTTL + 1

ASSUME ProvidersAssumption ==
    /\ Providers \in [Services -> Seq(Nodes)]
    /\ \A s \in Services : Providers[s] # <<>>
    /\ NoNode \notin Nodes /\ Services # {}

ASSUME ConfigAssumption ==
    /\ {BreakerFailures, BreakerCooldown, BreakerMaxCooldown, DefaultCooldown,
        PurgeInterval, EntryTTL, Retries, MaxOutages, MaxResets,
        MaxInits} \subseteq Nat
    /\ DefaultCooldown > 0 /\ Retries > 0 /\ Wrap \in Nat \ {0}
    /\ MaxTrips \in Nat \ {0}
    /\ NoHealth \notin [failures : Nat, trips : Nat, open : Nat, seen : Nat]

VARIABLES
    health,     \* states: service, node -> nodeHealth
    sincePurge, \* time since lastPurge
    seq,        \* roundRobinSeq
    rc,         \* the selector has a cacher: FALSE after Close
    up,         \* external: the nodes that answer
    client,     \* per goroutine in Call
    outages, resets, inits      \* counters for the bounds

vars == <<health, sincePurge, seq, rc, up, client, outages, resets, inits>>
counters == <<outages, resets, inits>>

Idle == [pc |-> "idle", service |-> CHOOSE s \in Services : TRUE,
         nodes |-> <<>>, node |-> NoNode, tries |-> 0, ago |-> 0, trips |-> 0,
         orphan |-> FALSE, probe |-> FALSE]

Init ==
    /\ health = [k \in Keys |-> NoHealth]
    /\ sincePurge = PurgeInterval
    /\ seq = 0
    /\ rc = TRUE
    /\ up = Nodes
    /\ client = [c \in Clients |-> Idle]
    /\ outages = 0 /\ resets = 0 /\ inits = 0

---------------------------------------------------------------------------
(* Select                                                                  *)

\* Mutated form: a breaker that tripped is open until a call succeeds.
availableAfterSuccess(h, s, n) ==
    h[<<s, n>>] = NoHealth \/ h[<<s, n>>].trips = 0

\* available: never marked, or the cooldown is over.
available(h, s, n) == h[<<s, n>>] = NoHealth \/ h[<<s, n>>].open = 0

\* Mutated form: every entry is dropped when the interval is over.
PurgedAll ==
    [k \in Keys |-> IF sincePurge = PurgeInterval THEN NoHealth ELSE health[k]]

\* purge, at most once per interval: drop the entries not marked for long.
Purged ==
    [k \in Keys |-> IF /\ sincePurge = PurgeInterval /\ health[k] # NoHealth
                       /\ health[k].seen > EntryTTL
                    THEN NoHealth ELSE health[k]]

\* The nodes of a service that are in a set, in their order.
Only(s, set) == SelectSeq(Providers[s], LAMBDA n : n \in set)

\* What SelectSeq computes takes an induction over the sequence, which the proofs
\* cannot do: its type is taken from here.
ASSUME OnlyAssumption ==
    \A s \in Services, set \in SUBSET Nodes : Only(s, set) \in Seq(Nodes)

Healthy(h, s) == {n \in Nodes : available(h, s, n)}

\* Mutated form: no node is better than a broken one.
filterHealthyFailsClosed(h, s) == Only(s, Healthy(h, s))

\* filterHealthy: leave out the open nodes, unless that leaves none.
filterHealthy(h, s) ==
    LET left == Only(s, Healthy(h, s))
    IN  IF left = <<>> THEN Providers[s] ELSE left

Marking(c) ==
    client[c].pc \in {"ok1", "ok2", "ok3", "add", "trip", "open", "clear"}

\* A Mark in progress holds a pointer to its nodeHealth: once the entry is
\* deleted from states, what it writes is lost.
Orphaned(deleted) ==
    [c \in Clients |->
       IF Marking(c) /\ <<client[c].service, client[c].node>> \in deleted
       THEN [client[c] EXCEPT !.orphan = TRUE] ELSE client[c]]

\* Select reads rc under the read lock and calls GetService on it outside: a
\* cacher that is replaced and stopped in between still answers.  Then purge and
\* filter; the nodes are looked at one after the other, and each look concerns
\* that node alone.  Select on a nil rc panics: no step.
Select(c, s) ==
    LET h == IF BreakerFailures > 0 THEN Purged ELSE health
    IN  /\ client[c].pc = "idle" /\ rc
        /\ health' = h
        /\ sincePurge' = IF BreakerFailures > 0 /\ sincePurge = PurgeInterval
                         THEN 0 ELSE sincePurge
        /\ client' =
             [Orphaned({k \in Keys : health[k] # h[k]}) EXCEPT
                ![c] = [Idle EXCEPT
                          !.pc = "next", !.service = s,
                          !.nodes = IF BreakerFailures > 0 THEN filterHealthy(h, s)
                                    ELSE Providers[s]]]
        /\ UNCHANGED <<seq, rc, up, counters>>

\* The Next of RoundRobin: one sequence for every service.
RoundRobin(c) ==
    /\ client[c].pc = "next"
    /\ client' = [client EXCEPT ![c].pc = "call",
                    ![c].node = client[c].nodes[(seq % Len(client[c].nodes)) + 1]]
    /\ seq' = (seq + 1) % Wrap
    /\ UNCHANGED <<health, sincePurge, rc, up, counters>>

---------------------------------------------------------------------------
(* The call and Mark                                                       *)

key(c) == <<client[c].service, client[c].node>>

\* The call ends: with an answer if the node is up, else with an error.  Mark
\* finds or creates the entry, reads the clock and stores lastSeen.
CallEnds(c) ==
    LET h == health[key(c)]
        ok == client[c].node \in up
    IN  /\ client[c].pc = "call"
        /\ \/ /\ BreakerFailures = 0
              /\ client' = [client EXCEPT ![c].pc = IF ok THEN "done" ELSE "failed"]
              /\ UNCHANGED health
           \/ /\ BreakerFailures > 0
              /\ health' = [health EXCEPT ![key(c)] =
                              IF h = NoHealth
                              THEN [failures |-> 0, trips |-> 0, open |-> 0, seen |-> 0]
                              ELSE [h EXCEPT !.seen = 0]]
              /\ client' = [client EXCEPT ![c].pc = IF ok THEN "ok1" ELSE "add",
                              ![c].ago = 0, ![c].orphan = FALSE,
                              ![c].probe = /\ h # NoHealth
                                           /\ h.trips > 0 /\ h.open = 0
                                           /\ h.failures = 0]
        /\ UNCHANGED <<sincePurge, seq, rc, up, counters>>

\* One store to the entry: nothing to see if it is no longer in states.
Write(c, h) ==
    health' = IF client[c].orphan THEN health
              ELSE [health EXCEPT ![key(c)] = h]

MarkStep(c, from, to) ==
    /\ client[c].pc = from
    /\ client' = [client EXCEPT ![c].pc = to]
    /\ UNCHANGED <<sincePurge, seq, rc, up, counters>>

\* Success: failures, trips and openUntil are cleared in that order.
MarkOk(c) ==
    \/ /\ MarkStep(c, "ok1", "ok2")
       /\ Write(c, [health[key(c)] EXCEPT !.failures = 0])
    \/ /\ MarkStep(c, "ok2", "ok3")
       /\ Write(c, [health[key(c)] EXCEPT !.trips = 0])
    \/ /\ MarkStep(c, "ok3", "done")
       /\ Write(c, [health[key(c)] EXCEPT !.open = 0])

\* failures.Add: below the threshold that is all.
AddFailure(c) ==
    /\ MarkStep(c, "add", IF /\ ~client[c].orphan
                             /\ health[key(c)].failures + 1 >= BreakerFailures
                          THEN "trip" ELSE "failed")
    /\ Write(c, [health[key(c)] EXCEPT !.failures = @ + 1])

\* trips.Add.
AddTrip(c) ==
    LET trips == IF health[key(c)].trips < MaxTrips
                 THEN health[key(c)].trips + 1 ELSE MaxTrips
    IN  /\ client[c].pc = "trip"
        /\ IF client[c].orphan THEN UNCHANGED health
           ELSE health' = [health EXCEPT ![key(c)].trips = trips]
        /\ client' = [client EXCEPT ![c].pc = "open",
                        ![c].trips = IF client[c].orphan THEN 1 ELSE trips]
        /\ UNCHANGED <<sincePurge, seq, rc, up, counters>>

\* The cooldown doubles with every trip, from the base up to the cap; what is
\* not configured has a default.
Base == IF BreakerCooldown = 0 THEN DefaultCooldown ELSE BreakerCooldown
Cap  == IF BreakerMaxCooldown = 0 THEN Base ELSE BreakerMaxCooldown

\* Mutated form: doubled without looking at the cap.
CooldownUncapped(trips) == Base * 2 ^ (trips - 1)

Cooldown(trips) ==
    LET doubled == Base * 2 ^ (trips - 1)
    IN  IF doubled \in 0 .. Cap THEN doubled ELSE Cap

\* Mutated form: counted from the time of the store.
StoreOpenFromNow(c) ==
    /\ MarkStep(c, "open", "clear")
    /\ Write(c, [health[key(c)] EXCEPT !.open = Cooldown(client[c].trips)])

\* openUntil, counted from the time Mark read the clock.
StoreOpen(c) ==
    LET d == Cooldown(client[c].trips)
    IN  /\ MarkStep(c, "open", "clear")
        /\ Write(c, [health[key(c)] EXCEPT !.open =
                       IF d > client[c].ago THEN d - client[c].ago ELSE 0])

\* Mutated form: the failures that tripped the breaker stay on the count.
ClearFailuresForgotten(c) ==
    MarkStep(c, "clear", "failed") /\ UNCHANGED health

ClearFailures(c) ==
    /\ MarkStep(c, "clear", "failed")
    /\ Write(c, [health[key(c)] EXCEPT !.failures = 0])

\* Call returns, or Retry allows another attempt with the nodes selected at
\* the start.
CallReturns(c) ==
    /\ \/ client[c].pc \in {"done", "failed"}
          /\ client' = [client EXCEPT ![c] = Idle]
       \/ /\ client[c].pc = "failed" /\ client[c].tries + 1 < Retries
          /\ client' = [client EXCEPT ![c] =
                          [Idle EXCEPT !.pc = "next", !.service = client[c].service,
                             !.nodes = client[c].nodes,
                             !.tries = client[c].tries + 1]]
    /\ UNCHANGED <<health, sincePurge, seq, rc, up, counters>>

---------------------------------------------------------------------------
(* Reset, Init, Close and the environment                                  *)

\* reset: the entries of one service go.
Reset(s) ==
    /\ resets < MaxResets
    /\ resets' = resets + 1
    /\ health' = [k \in Keys |-> IF k[1] = s THEN NoHealth ELSE health[k]]
    /\ client' = Orphaned({s} \X Nodes)
    /\ UNCHANGED <<sincePurge, seq, rc, up, outages, inits>>

\* Init replaces the cacher and Close removes it, under the lock; the old one
\* is stopped outside the lock.
Swap(new) ==
    /\ inits < MaxInits
    /\ inits' = inits + 1
    /\ rc' = new
    /\ UNCHANGED <<health, sincePurge, seq, up, client, outages, resets>>

Selector_Init  == Swap(TRUE)
Selector_Close == Swap(FALSE)

\* A node stops answering or comes back (external).
Outage(n) ==
    /\ outages < MaxOutages
    /\ outages' = outages + 1
    /\ up' = IF n \in up THEN up \ {n} ELSE up \cup {n}
    /\ UNCHANGED <<health, sincePurge, seq, rc, client, resets, inits>>

\* One unit of time passes.
Tick ==
    LET Older(age, limit) == IF age < limit THEN age + 1 ELSE limit
    IN  /\ health' = [k \in Keys |-> IF health[k] = NoHealth THEN NoHealth ELSE
                        [health[k] EXCEPT !.open = IF @ > 0 THEN @ - 1 ELSE 0,
                                          !.seen = Older(@, Old)]]
        /\ client' = [c \in Clients |-> IF Marking(c)
                        THEN [client[c] EXCEPT !.ago = Older(@, Old)] ELSE client[c]]
        /\ sincePurge' = Older(sincePurge, PurgeInterval)
        /\ UNCHANGED <<seq, rc, up, counters>>

---------------------------------------------------------------------------
Work(c) ==
    \/ RoundRobin(c) \/ CallEnds(c) \/ MarkOk(c) \/ AddFailure(c) \/ AddTrip(c)
    \/ StoreOpen(c) \/ ClearFailures(c) \/ CallReturns(c)

Next ==
    \/ \E c \in Clients : Work(c) \/ \E s \in Services : Select(c, s)
    \/ \E s \in Services : Reset(s)
    \/ Selector_Init \/ Selector_Close
    \/ \E n \in Nodes : Outage(n)
    \/ Tick

\* A call under way goes on and time passes.  Nothing makes the program call.
Fairness == (\A c \in Clients : WF_vars(Work(c))) /\ WF_vars(Tick)

Spec     == Init /\ [][Next]_vars
FairSpec == Spec /\ Fairness

---------------------------------------------------------------------------
(* Properties                                                              *)

HealthType == [failures : Nat, trips : 0 .. MaxTrips, open : 0 .. Cap,
               seen : 0 .. Old]

ClientPcs == {"idle", "next", "call", "ok1", "ok2", "ok3", "add", "trip",
              "open", "clear", "done", "failed"}
ClientType ==
    [pc : ClientPcs,
     service : Services, nodes : Seq(Nodes),
     node : Nodes \cup {NoNode}, tries : Nat, ago : 0 .. Old,
     trips : 0 .. MaxTrips, orphan : BOOLEAN, probe : BOOLEAN]

\* Every variable keeps its type; no breaker stays open for longer than the
\* cap that is configured, or the base cooldown if none is.
TypeOK ==
    /\ health \in [Keys -> HealthType \cup {NoHealth}]
    /\ sincePurge \in 0 .. PurgeInterval
    /\ seq \in 0 .. Wrap - 1
    /\ rc \in BOOLEAN
    /\ up \subseteq Nodes
    /\ client \in [Clients -> ClientType]
    /\ outages \in Nat /\ resets \in Nat /\ inits \in Nat

\* A Mark that is putting its node out.
Tripping(c) == client[c].pc \in {"trip", "open", "clear"} /\ ~client[c].orphan

\* How long a node stays out is counted from its last Mark at the latest,
\* whatever the order in which concurrent Marks store their fields and however
\* long one of them is delayed between reading the clock and storing openUntil.
OpenIsFresh ==
    \A k \in Keys : health[k] # NoHealth /\ health[k].open > 0 =>
                      health[k].open + health[k].seen <= Cap

\* purge never closes a breaker: an entry that is not marked for EntryTTL is
\* open no longer, if the cap is not longer than EntryTTL.
PurgeKeepsOpen ==
    [][\A c \in Clients : (\E s \in Services : Select(c, s)) /\ Cap <= EntryTTL =>
         \A s \in Services, n \in Nodes :
           ~available(health, s, n) => ~available(health', s, n)]_vars

\* A node that has reached the number of failures is being put out: no Mark
\* returns, or is overtaken by another, and leaves such a node selectable.
TripNotLost ==
    \A k \in Keys : health[k] # NoHealth /\ health[k].failures >= BreakerFailures
                      /\ BreakerFailures > 0 =>
      \E c \in Clients : key(c) = k /\ Tripping(c)

\* A call always has a node to try: the breakers never take all of them away.
SomeNodeToTry == \A c \in Clients : client[c].pc = "next" => client[c].nodes # <<>>

\* A call that got nodes has some to try, and the one it calls is a node.  The
\* entry of a Mark in progress is in states, unless it was deleted meanwhile, and
\* was not marked before this Mark read the clock.
MarkInv == \A c \in Clients :
    /\ client[c].pc # "idle" => client[c].nodes # <<>>
    /\ client[c].pc \notin {"idle", "next"} => client[c].node \in Nodes
    /\ Marking(c) /\ ~client[c].orphan =>
         health[key(c)] # NoHealth /\ health[key(c)].seen <= client[c].ago

\* The inductive strengthening of OpenIsFresh, TripNotLost and SomeNodeToTry.
SelectorInv == TypeOK /\ MarkInv /\ OpenIsFresh /\ TripNotLost

\* A node that answers again can be selected again, for good, whatever state
\* its outage and the calls that were under way left its breaker in.
RecoveredIsSelectable ==
    \A s \in Services, n \in Nodes :
        <>[](n \in up) => <>[]available(health, s, n)

\* The first call after a cooldown is the probe: if it fails, the breaker opens
\* again.
ProbeReTrips ==
    [][\A c \in Clients : client[c].probe /\ client[c].pc = "add" /\ ~client[c].orphan
         => client'[c].pc # "failed"]_vars
===========================================================================
