-------------------------- MODULE ServerLifecycle --------------------------
(***************************************************************************)
(* A server from Start to Stop (server/server.go): its listener, its       *)
(* records in the registry, its subscriptions in the memory broker         *)
(* (broker/memory/memory.go) and the loop that renews the registration on  *)
(* every tick until Stop.                                                  *)
(*                                                                         *)
(* Start runs in one goroutine, Stop in any number of them, and each       *)
(* successful Start leaves a loop behind.  Start may be called while an    *)
(* earlier Stop is still under way.  The port is fixed: a second Listen    *)
(* fails while the listener is open.                                       *)
(***************************************************************************)
EXTENDS Naturals

CONSTANTS
    Own,        \* config.Name: the service and the topic of this server
    Groups,     \* names of the router's groups, registered as services too
    Topics,     \* topics of the router's subscribers
    Addrs,      \* addresses of the machine ...
    Home,       \* ... and the first it has
    NoAddr,
    Stoppers,   \* goroutines that call Stop
    MaxStarts,  \* bound: calls of Start that get a listener
    MaxMoves,   \* bound: changes of the machine's address
    MaxSick,    \* bound: times the register check starts to fail
    MaxFaults   \* bound: failed calls of registry and broker, lapsed records

Names == {Own} \cup Groups
Main  == 0              \* the goroutine that calls Start
Loops == 1 .. MaxStarts
Procs == {Main} \cup Loops

ASSUME ServerAssumption ==
    /\ {MaxStarts, MaxMoves, MaxSick, MaxFaults} \subseteq Nat
    /\ Own \notin Groups \cup Topics /\ Home \in Addrs /\ NoAddr \notin Addrs

VARIABLES
    started, registered,
    services,       \* the address of the cached services, or NoAddr
    subscriber,     \* config.Subscriber is set
    subscribers,    \* keys of the router's subscriber map, which the server shares
    listening,      \* the listener is open
    connected,      \* the broker is started
    subs,           \* the broker's subscriptions of this server, per topic
    records,        \* the registry: the address of our node, per service
    explicit,       \* an address was configured, not a wildcard
    ip,             \* the machine's address
    healthy,        \* what RegisterCheck says
    proc,           \* per goroutine: pc, address and names or topics to do
    stop,           \* per goroutine: in Stop, "idle", "send" or "wait"
    asked,          \* per loop: who waits for its answer
    starts, moves, sick, faults,
    left,           \* history: a Deregister succeeded
    failed,         \* history: a call of registry or broker failed
    subFailed       \* history: a Subscribe failed

server   == <<started, registered, services, subscriber, subscribers, listening>>
broker   == <<connected, subs>>
outside  == <<records, explicit, ip, healthy, moves, sick>>
history  == <<left, failed, subFailed, faults>>
vars == <<server, broker, outside, proc, stop, asked, starts, history>>

Init ==
    /\ started = FALSE /\ registered = FALSE /\ services = NoAddr
    /\ subscriber = FALSE /\ subscribers = Topics /\ listening = FALSE
    /\ connected = FALSE /\ subs = [t \in Topics \cup {Own} |-> 0]
    /\ records = [n \in Names |-> NoAddr]
    /\ explicit \in BOOLEAN /\ ip = Home /\ healthy = TRUE
    /\ proc = [p \in Procs |-> [pc |-> IF p = Main THEN "idle" ELSE "off",
                                addr |-> NoAddr, todo |-> {}]]
    /\ stop = [s \in Stoppers |-> "idle"]
    /\ asked = [l \in Loops |-> {}]
    /\ starts = 0 /\ moves = 0 /\ sick = 0 /\ faults = 0
    /\ left = FALSE /\ failed = FALSE /\ subFailed = FALSE

At(p, pc)   == proc[p].pc = pc
Goto(p, pc) == proc' = [proc EXCEPT ![p].pc = pc]

Fails == faults < MaxFaults /\ faults' = faults + 1 /\ failed' = TRUE

\* What Register and Deregister return to.
Back(p) == IF p = Main THEN "spawn" ELSE "select"

Return(p) == proc' = [proc EXCEPT ![p] = [pc |-> Back(p), addr |-> NoAddr, todo |-> {}]]

---------------------------------------------------------------------------
(* Register                                                                *)

\* The services are registered again as they are, or built anew with the
\* address the machine has now.
RegisterBegins(p) ==
    /\ At(p, "register")
    /\ proc' = [proc EXCEPT ![p] =
         IF services # NoAddr
         THEN [pc |-> "renew", addr |-> services, todo |-> Names]
         ELSE [pc |-> "announce", addr |-> ip, todo |-> Names]]
    /\ UNCHANGED <<server, broker, outside, stop, asked, starts, history>>

\* regFunc: one of three attempts succeeds.  The services come in any order.
RegisterService(p) ==
    /\ At(p, "renew") \/ At(p, "announce")
    /\ \E n \in proc[p].todo :
         /\ records' = [records EXCEPT ![n] = proc[p].addr]
         /\ proc' = [proc EXCEPT ![p].todo = @ \ {n}]
    /\ UNCHANGED <<server, broker, explicit, ip, healthy, moves, sick, stop, asked,
                   starts, history>>

\* All attempts fail: Register returns, what was registered stays.
RegisterServiceFails(p) ==
    /\ At(p, "renew") \/ At(p, "announce")
    /\ proc[p].todo # {} /\ Fails
    /\ Return(p)
    /\ UNCHANGED <<server, broker, outside, stop, asked, starts, left, subFailed>>

\* Mutated form: the wildcard address counts as an address.
cacheServiceAlways == TRUE

\* The services are kept when their address was configured.
cacheService == explicit

\* Mutated form: the server counts as registered when it has subscribed.
RegisteredLate(p) ==
    /\ At(p, "announce") \/ At(p, "renew")
    /\ proc[p].todo = {}
    /\ IF At(p, "renew") \/ registered
       THEN Return(p) /\ UNCHANGED server
       ELSE /\ services' = IF cacheService THEN proc[p].addr ELSE NoAddr
            /\ Goto(p, "subscribe")
            /\ UNCHANGED <<started, registered, subscriber, subscribers, listening>>
    /\ UNCHANGED <<broker, outside, stop, asked, starts, history>>

\* Every service is registered.  A first registration goes on to subscribe.
Registered(p) ==
    /\ At(p, "announce") \/ At(p, "renew")
    /\ proc[p].todo = {}
    /\ IF At(p, "renew") \/ registered
       THEN Return(p) /\ UNCHANGED server
       ELSE /\ registered' = TRUE
            /\ services' = IF cacheService THEN proc[p].addr ELSE NoAddr
            /\ Goto(p, "subscribe")
            /\ UNCHANGED <<started, subscriber, subscribers, listening>>
    /\ UNCHANGED <<broker, outside, stop, asked, starts, history>>

\* The memory broker's Subscribe.
Subscribe(t) == connected /\ subs' = [subs EXCEPT ![t] = @ + 1] /\ UNCHANGED connected

\* Subscribe to the topic with the server's name ...
SubscribeName(p) ==
    /\ At(p, "subscribe")
    /\ Subscribe(Own)
    /\ subscriber' = TRUE
    /\ proc' = [proc EXCEPT ![p] = [@ EXCEPT !.pc = "topics", !.todo = subscribers]]
    /\ UNCHANGED <<started, registered, services, subscribers, listening, outside,
                   stop, asked, starts, history>>

\* ... and for all of the subscribers.
SubscribeTopic(p) ==
    /\ At(p, "topics")
    /\ \/ \E t \in proc[p].todo :
            /\ Subscribe(t)
            /\ proc' = [proc EXCEPT ![p].todo = @ \ {t}]
       \/ proc[p].todo = {} /\ Return(p) /\ UNCHANGED broker
    /\ UNCHANGED <<server, outside, stop, asked, starts, history>>

\* The broker is closed, or Subscribe fails: Register returns.
SubscribeFails(p) ==
    /\ At(p, "subscribe") \/ (At(p, "topics") /\ proc[p].todo # {})
    /\ \/ ~connected /\ failed' = TRUE /\ UNCHANGED faults
       \/ Fails
    /\ subFailed' = TRUE
    /\ Return(p)
    /\ UNCHANGED <<server, broker, outside, stop, asked, starts, left>>

---------------------------------------------------------------------------
(* Deregister                                                              *)

\* The pc after Deregister: on a tick the server registers again.
Onwards(p) == IF At(p, "deregister") THEN "register" ELSE "router"

\* The subscriptions that Deregister ends: the server's own, and those of the
\* subscribers it still has.
Ended == (IF subscriber THEN {Own} ELSE {}) \cup subscribers

\* Mutated form: registered is not reset.
DeregisterStays(p) ==
    /\ At(p, "deregister") \/ At(p, "leave")
    /\ records' = [records EXCEPT ![Own] = NoAddr]
    /\ services' = NoAddr
    /\ subscriber' = FALSE /\ subscribers' = {}
    /\ subs' = [t \in DOMAIN subs |-> IF t \in Ended THEN 0 ELSE subs[t]]
    /\ left' = TRUE
    /\ Goto(p, Onwards(p))
    /\ UNCHANGED <<started, registered, listening, connected, explicit, ip, healthy,
                   moves, sick, stop, asked, starts, failed, subFailed, faults>>

\* Only the service with the server's name is removed.  Every subscription ends
\* and every subscriber is forgotten.
Deregister(p) ==
    /\ At(p, "deregister") \/ At(p, "leave")
    /\ records' = [records EXCEPT ![Own] = NoAddr]
    /\ services' = NoAddr
    /\ registered' = FALSE /\ subscriber' = FALSE /\ subscribers' = {}
    /\ subs' = [t \in DOMAIN subs |-> IF t \in Ended THEN 0 ELSE subs[t]]
    /\ left' = TRUE
    /\ Goto(p, Onwards(p))
    /\ UNCHANGED <<started, listening, connected, explicit, ip, healthy, moves, sick,
                   stop, asked, starts, failed, subFailed, faults>>

\* The registry's error returns before anything else is done.
DeregisterFails(p) ==
    /\ At(p, "deregister") \/ At(p, "leave")
    /\ Fails
    /\ Goto(p, Onwards(p))
    /\ UNCHANGED <<server, broker, outside, stop, asked, starts, left, subFailed>>

---------------------------------------------------------------------------
(* Start                                                                   *)

\* Started already: nothing.  Else the listener is opened (when that fails
\* Start returns, and nothing has changed).
Listen ==
    /\ At(Main, "idle") /\ ~started /\ ~listening /\ starts < MaxStarts
    /\ starts' = starts + 1
    /\ listening' = TRUE
    /\ Goto(Main, "broker")
    /\ UNCHANGED <<started, registered, services, subscriber, subscribers, broker,
                   outside, stop, asked, history>>

BrokerStart ==
    /\ At(Main, "broker")
    /\ connected' = TRUE
    /\ Goto(Main, IF healthy THEN "register" ELSE "spawn")
    /\ UNCHANGED <<server, subs, outside, stop, asked, starts, history>>

\* Mutated form: the listener stays open.
BrokerStartFailsOpen ==
    /\ At(Main, "broker") /\ Fails
    /\ Goto(Main, "idle")
    /\ UNCHANGED <<server, broker, outside, stop, asked, starts, left, subFailed>>

\* The broker does not start: the listener is closed again.
BrokerStartFails ==
    /\ At(Main, "broker") /\ Fails
    /\ listening' = FALSE
    /\ Goto(Main, "idle")
    /\ UNCHANGED <<started, registered, services, subscriber, subscribers, broker,
                   outside, stop, asked, starts, left, subFailed>>

\* The end of Start, also when Register failed.
Spawn ==
    /\ At(Main, "spawn")
    /\ started' = TRUE
    /\ proc' = [proc EXCEPT ![Main].pc = "idle", ![starts].pc = "select"]
    /\ UNCHANGED <<registered, services, subscriber, subscribers, listening, broker,
                   outside, stop, asked, starts, history>>

---------------------------------------------------------------------------
(* The loop, and Stop                                                      *)

\* A check that fails deregisters the server - and it registers again.
Tick(l) ==
    /\ At(l, "select")
    /\ healthy \/ registered
    /\ Goto(l, IF healthy THEN "register" ELSE "deregister")
    /\ UNCHANGED <<server, broker, outside, stop, asked, starts, history>>

\* Mutated form: started is read first and reset later.
StopUnguarded(s) ==
    /\ stop[s] = "idle"
    /\ started \/ \E d \in Stoppers : stop[d] = "send"
    /\ started' = FALSE
    /\ stop' = [stop EXCEPT ![s] = "send"]
    /\ UNCHANGED <<registered, services, subscriber, subscribers, listening, broker,
                   outside, proc, asked, starts, history>>

\* One caller resets started and asks the loop to end; for the others Stop
\* returns at once.
Stop(s) ==
    /\ stop[s] = "idle" /\ started
    /\ started' = FALSE
    /\ stop' = [stop EXCEPT ![s] = "send"]
    /\ UNCHANGED <<registered, services, subscriber, subscribers, listening, broker,
                   outside, proc, asked, starts, history>>

\* Mutated form: the loop looks at started, which Stop has reset.
ReceiveExitUnlessStarted(l, s) ==
    /\ At(l, "select") /\ stop[s] = "send"
    /\ stop' = [stop EXCEPT ![s] = "wait"]
    /\ asked' = [asked EXCEPT ![l] = {s}]
    /\ Goto(l, IF started THEN "leave" ELSE "router")
    /\ UNCHANGED <<server, broker, outside, starts, history>>

\* Mutated form: the listener is closed before the server leaves the registry.
ReceiveExitCloses(l, s) ==
    /\ At(l, "select") /\ stop[s] = "send"
    /\ stop' = [stop EXCEPT ![s] = "wait"]
    /\ asked' = [asked EXCEPT ![l] = {s}]
    /\ Goto(l, IF registered THEN "leave" ELSE "router")
    /\ listening' = FALSE
    /\ UNCHANGED <<started, registered, services, subscriber, subscribers, broker,
                   outside, starts, history>>

ReceiveExit(l, s) ==
    /\ At(l, "select") /\ stop[s] = "send"
    /\ stop' = [stop EXCEPT ![s] = "wait"]
    /\ asked' = [asked EXCEPT ![l] = {s}]
    /\ Goto(l, IF registered THEN "leave" ELSE "router")
    /\ UNCHANGED <<server, broker, outside, starts, history>>

\* The router's background goroutines are stopped, then the listener is closed.
CloseListener(l) ==
    /\ At(l, "router")
    /\ listening' = FALSE
    /\ Goto(l, "close")
    /\ UNCHANGED <<started, registered, services, subscriber, subscribers, broker,
                   outside, stop, asked, starts, history>>

\* The broker forgets no subscription when it is closed.
CloseBroker(l) ==
    /\ At(l, "close")
    /\ connected' = FALSE
    /\ Goto(l, "answer")
    /\ UNCHANGED <<server, subs, outside, stop, asked, starts, history>>

\* The loop hands over the errors, and Stop returns.
Answer(l) ==
    /\ At(l, "answer")
    /\ \E s \in asked[l] : stop' = [stop EXCEPT ![s] = "idle"]
    /\ Goto(l, "off")
    /\ asked' = [asked EXCEPT ![l] = {}]
    /\ UNCHANGED <<server, broker, outside, starts, history>>

---------------------------------------------------------------------------
(* The environment                                                         *)

\* The machine gets another address.
Move ==
    /\ moves < MaxMoves /\ moves' = moves + 1
    /\ ~explicit /\ ip' \in Addrs \ {ip}
    /\ UNCHANGED <<server, broker, records, explicit, healthy, sick, proc, stop, asked,
                   starts, history>>

\* The register check begins or ceases to fail.
Check ==
    /\ \/ healthy /\ sick < MaxSick /\ sick' = sick + 1
       \/ ~healthy /\ UNCHANGED sick
    /\ healthy' = ~healthy
    /\ UNCHANGED <<server, broker, records, explicit, ip, moves, proc, stop, asked,
                   starts, history>>

\* A record is lost: it was not renewed in time, or the registry restarted.
Lapse(n) ==
    /\ records[n] # NoAddr /\ Fails
    /\ records' = [records EXCEPT ![n] = NoAddr]
    /\ UNCHANGED <<server, broker, explicit, ip, healthy, moves, sick, proc, stop,
                   asked, starts, left, subFailed>>

---------------------------------------------------------------------------
RegisterStep(p) ==
    \/ RegisterBegins(p) \/ RegisterService(p) \/ RegisterServiceFails(p)
    \/ Registered(p) \/ SubscribeName(p) \/ SubscribeTopic(p) \/ SubscribeFails(p)

StartStep == BrokerStart \/ BrokerStartFails \/ Spawn \/ RegisterStep(Main)

LoopStep(l) ==
    \/ RegisterStep(l) \/ Deregister(l) \/ DeregisterFails(l)
    \/ CloseListener(l) \/ CloseBroker(l) \/ Answer(l)

Next ==
    \/ Listen \/ StartStep
    \/ \E l \in Loops : \/ LoopStep(l) \/ Tick(l)
                        \/ \E s \in Stoppers : ReceiveExit(l, s)
    \/ \E s \in Stoppers : Stop(s)
    \/ Move \/ Check \/ \E n \in Names : Lapse(n)

\* Goroutines that can run do, the ticker ticks, and select, which picks one of
\* the ready cases at random, does not pass over the exit channel for ever.
Fairness ==
    /\ WF_vars(StartStep)
    /\ \A l \in Loops : /\ WF_vars(LoopStep(l)) /\ WF_vars(Tick(l))
                        /\ SF_vars(\E s \in Stoppers : ReceiveExit(l, s))

Spec     == Init /\ [][Next]_vars
FairSpec == Spec /\ Fairness

---------------------------------------------------------------------------
(* Properties                                                              *)

Pcs == {"idle", "broker", "spawn", "off", "select", "register", "renew", "announce",
        "subscribe", "topics", "deregister", "leave", "router", "close", "answer"}

ProcType == [pc : Pcs, addr : Addrs \cup {NoAddr}, todo : SUBSET (Names \cup Topics)]

\* Every variable keeps its type, and a topic has one subscription at most: no
\* message is handled twice.
TypeOK ==
    /\ started \in BOOLEAN /\ registered \in BOOLEAN /\ subscriber \in BOOLEAN
    /\ listening \in BOOLEAN /\ connected \in BOOLEAN /\ healthy \in BOOLEAN
    /\ explicit \in BOOLEAN
    /\ left \in BOOLEAN /\ failed \in BOOLEAN /\ subFailed \in BOOLEAN
    /\ services \in Addrs \cup {NoAddr} /\ ip \in Addrs
    /\ subscribers \subseteq Topics
    /\ subs \in [Topics \cup {Own} -> 0 .. 1]
    /\ records \in [Names -> Addrs \cup {NoAddr}]
    /\ proc \in [Procs -> ProcType]
    /\ stop \in [Stoppers -> {"idle", "send", "wait"}]
    /\ asked \in [Loops -> SUBSET Stoppers]
    /\ moves \in Nat /\ sick \in Nat /\ faults \in Nat /\ starts \in 0 .. MaxStarts

Registering(p) == proc[p].pc \in
    {"register", "renew", "announce", "subscribe", "topics", "deregister", "leave"}

\* Register and Deregister are never under way in two goroutines, although a
\* Start may overtake a Stop: registered, services and config.Subscriber are
\* written without a lock that spans them.
OneRegistrar == \A p, q \in Procs : Registering(p) /\ Registering(q) => p = q

\* From the opening of the listener to its closing.
Active(p) == proc[p].pc \notin {"idle", "off", "close", "answer"}

\* An open listener has an owner that will close it: the Start that opened it,
\* or a loop.
ListenerOwned == listening <=> \E p \in Procs : Active(p)

Settled == \A p \in Procs : ~Registering(p)

\* A registered server that never lost a subscription has its own topic, and its
\* subscribers have theirs unless it deregistered at some time.
Subscribed == registered /\ Settled /\ ~subFailed =>
    /\ subs[Own] = 1
    /\ left \/ \A t \in Topics : subs[t] = 1

\* The subscribers of a registered server are subscribed, also after a failed
\* check made it deregister and register again.
Resubscribed == registered /\ Settled /\ ~subFailed => \A t \in Topics : subs[t] = 1

\* After Stop the service with the server's name is not registered and nothing
\* is subscribed, unless a call failed.
StoppedIsGone == ~listening /\ ~failed =>
    records[Own] = NoAddr /\ \A t \in DOMAIN subs : subs[t] = 0

\* Who has the listener: one goroutine at a time, and a Start hands it to a loop
\* that was not used before.
OwnerInv ==
    /\ \A p, q \in Procs : Active(p) /\ Active(q) => p = q
    /\ ListenerOwned
    /\ Active(Main) => starts \in Loops /\ At(starts, "off")
    /\ \A l \in Loops : l > starts => At(l, "off")
    /\ \A p \in Procs : At(p, "renew") => registered
    /\ services # NoAddr => registered

\* What is subscribed, and what Register still has to subscribe.
SubsInv ==
    /\ ~registered => \A t \in Topics \cup {Own} : subs[t] = 0
    /\ subs[Own] # 0 => subscriber
    /\ \A t \in Topics : subs[t] # 0 => t \in subscribers
    /\ ~left => subscribers = Topics
    /\ \A p \in Procs :
         /\ At(p, "subscribe") => registered /\ \A t \in Topics \cup {Own} : subs[t] = 0
         /\ At(p, "topics") => /\ registered /\ proc[p].todo \subseteq subscribers
                               /\ \A t \in proc[p].todo : subs[t] = 0
    /\ registered /\ ~subFailed /\ (\A p \in Procs : ~At(p, "subscribe")) =>
         /\ subs[Own] = 1
         /\ left \/ \A t \in Topics : subs[t] = 1
                       \/ \E p \in Procs : At(p, "topics") /\ t \in proc[p].todo

\* As long as no call failed: a server that has a record is registered or about
\* to be, and one that is registered has a goroutine that will deregister it.
GoneInv == ~failed =>
    /\ records[Own] # NoAddr => registered \/ \E p \in Procs : At(p, "announce")
    /\ registered => \E p \in Procs : Active(p) /\ ~At(p, "router")

\* The inductive strengthening of OneRegistrar, ListenerOwned, Subscribed and
\* StoppedIsGone.
ServerInv == OwnerInv /\ SubsInv /\ GoneInv

\* The registration corrects itself: while the server runs and is healthy, a
\* service that is missing or has an address the machine no longer has is
\* registered with the present one.
AddressCorrected == \A n \in Names :
    started /\ records[n] # ip ~> records[n] = ip \/ ~started \/ ~healthy

\* Every Stop returns.
StopReturns == \A s \in Stoppers : stop[s] # "idle" ~> stop[s] = "idle"
============================================================================
