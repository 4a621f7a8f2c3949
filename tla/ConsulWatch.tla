--------------------------- MODULE ConsulWatch ---------------------------
(***************************************************************************)
(* The watcher of the consul registry (registry/consul/watcher.go) for one *)
(* service: the plan that watches the catalog's services starts and stops  *)
(* the plan of the service, whose handler turns each answer into the       *)
(* difference from the last one, as events on a channel of limited size.   *)
(* The two handlers run in goroutines of their own; each holds an answer   *)
(* that may be older than the catalog.                                     *)
(***************************************************************************)
EXTENDS Naturals, Sequences

CONSTANTS
    Nodes, Versions,
    Cap,            \* capacity of cw.next
    MaxChanges      \* changes of the catalog

VARIABLES
    entries,        \* the catalog: node -> [version, ok], Absent
    changes,
    plan,           \* cw.watchers has the plan of the service
    services,       \* cw.services[name]: version -> its nodes; NoServices
    handler,        \* serviceHandler: [pc, todo, gone, out, old, new, data]
    listing,        \* handle: [pc, todo, old]
    next,           \* cw.next
    view,           \* what a reader of Next has made of the events: version -> nodes
    seen,           \* what the last serviceHandler to end was given, or nothing
    stopped,        \* Stop has been called
    overtaken       \* handle has dropped the service while serviceHandler was running

watchVars == <<entries, changes, plan, services, handler, listing, next, view, seen, stopped, overtaken>>

Absent     == [version |-> 0, ok |-> FALSE]
Entry      == {Absent} \cup [version : Versions, ok : BOOLEAN]
NoEntries  == [n \in Nodes |-> Absent]
NoServices == [v \in {} |-> {}]
IdleHandler == [pc |-> "idle", todo |-> {}, gone |-> {}, out |-> <<>>,
                old |-> NoServices, new |-> NoServices, data |-> NoEntries]
IdleListing == [pc |-> "idle", todo |-> {}, old |-> NoServices]

WatchInit ==
    /\ entries = NoEntries /\ changes = 0
    /\ plan = FALSE /\ services = NoServices
    /\ handler = IdleHandler /\ listing = IdleListing
    /\ next = <<>> /\ view = [v \in Versions |-> {}]
    /\ seen = NoEntries /\ stopped = FALSE /\ overtaken = FALSE

\* A node appears, changes its version or its health, or goes.
Change ==
    /\ changes < MaxChanges /\ changes' = changes + 1
    /\ \E n \in Nodes, e \in Entry : entries[n] # e /\ entries' = [entries EXCEPT ![n] = e]
    /\ UNCHANGED <<plan, services, handler, listing, next, view, seen, stopped, overtaken>>

---------------------------------------------------------------------------
(* serviceHandler                                                          *)

\* serviceMap: a version with an entry, and its nodes that are not critical.
ServiceMap(data) ==
    [v \in {data[n].version : n \in Nodes} \ {0} |->
        {n \in Nodes : data[n].version = v /\ data[n].ok}]

Event(action, v, nodes) == [action |-> action, version |-> v, nodes |-> nodes]

\* For a version: the nodes that have gone, then what is there now.
Diff(old, new, v) ==
    IF v \notin DOMAIN new THEN <<Event("delete", v, old[v])>>
    ELSE IF v \notin DOMAIN old THEN <<Event("create", v, new[v])>>
    ELSE LET gone == old[v] \ new[v]
         IN (IF gone = {} THEN <<>> ELSE <<Event("delete", v, gone)>>)
            \o <<Event("update", v, new[v])>>

\* An answer of the plan of the service is compared with a copy of what was
\* known: the versions there are now, in any order, then those that are not any
\* more.  When there are no entries the name of the service is not known:
\* nothing is compared or kept.
ServiceHandler ==
    /\ plan /\ handler.pc = "idle" /\ entries # seen
    /\ LET new == ServiceMap(entries) IN
       handler' = IF entries = NoEntries THEN [IdleHandler EXCEPT !.pc = "send"]
                  ELSE [pc |-> "send", todo |-> DOMAIN new,
                        gone |-> DOMAIN services \ DOMAIN new, out |-> <<>>,
                        old |-> services, new |-> new, data |-> entries]
    /\ UNCHANGED <<entries, changes, plan, services, listing, next, view, seen, stopped, overtaken>>

\* The next event: the rest of a version's, or the first of another's.
HandlerSend ==
    /\ handler.pc = "send" /\ Len(next) < Cap
    /\ \/ /\ handler.out # <<>>
          /\ next' = Append(next, Head(handler.out))
          /\ handler' = [handler EXCEPT !.out = Tail(@)]
       \/ /\ handler.out = <<>>
          /\ \E v \in IF handler.todo # {} THEN handler.todo ELSE handler.gone :
               LET events == Diff(handler.old, handler.new, v) IN
               /\ next' = Append(next, Head(events))
               /\ handler' = [handler EXCEPT !.todo = @ \ {v}, !.gone = @ \ {v},
                                             !.out = Tail(events)]
    /\ UNCHANGED <<entries, changes, plan, services, listing, view, seen, stopped, overtaken>>

\* cw.services[name] = newServices
HandlerEnd ==
    /\ handler.pc = "send" /\ handler.out = <<>>
    /\ handler.todo = {} /\ handler.gone = {}
    /\ services' = IF handler.data = NoEntries THEN services ELSE handler.new
    /\ seen' = handler.data
    /\ handler' = IdleHandler
    /\ UNCHANGED <<entries, changes, plan, listing, next, view, stopped, overtaken>>

---------------------------------------------------------------------------
(* handle                                                                  *)

NewService   == Event("create", 0, {})
WholeService == Event("delete", 0, {})

\* The service is listed for the first time: its plan is started.
HandleNew ==
    /\ ~stopped /\ listing.pc = "idle" /\ entries # NoEntries /\ ~plan
    /\ plan' = TRUE /\ seen' = NoEntries
    /\ listing' = [IdleListing EXCEPT !.pc = "new"]
    /\ UNCHANGED <<entries, changes, services, handler, next, view, stopped, overtaken>>

\* It is not listed any more: what was known of it is dropped, its plan is
\* stopped, and the reader is told, last of all that the whole service is gone.
HandleGone ==
    /\ ~stopped /\ listing.pc = "idle" /\ entries = NoEntries /\ plan
    /\ services' = NoServices /\ plan' = FALSE
    /\ listing' = [pc |-> "gone", todo |-> DOMAIN services, old |-> services]
    /\ overtaken' = (overtaken \/ handler.pc # "idle")
    /\ UNCHANGED <<entries, changes, handler, next, view, seen, stopped>>

ListingSend ==
    /\ listing.pc # "idle" /\ Len(next) < Cap
    /\ \/ /\ listing.todo = {}
          /\ next' = Append(next, IF listing.pc = "new" THEN NewService ELSE WholeService)
          /\ listing' = IdleListing
       \/ \E v \in listing.todo :
             /\ next' = Append(next, Event("delete", v, listing.old[v]))
             /\ listing' = [listing EXCEPT !.todo = @ \ {v}]
    /\ UNCHANGED <<entries, changes, plan, services, handler, view, seen, stopped, overtaken>>

---------------------------------------------------------------------------
(* A reader of Next: RegistryCacher.update                                 *)

Applied(e) ==
    CASE e = WholeService -> [v \in Versions |-> {}]
      [] e.version = 0 /\ e # WholeService -> view
      [] e.version # 0 /\ e.action = "delete" -> [view EXCEPT ![e.version] = @ \ e.nodes]
      [] OTHER -> [view EXCEPT ![e.version] = @ \cup e.nodes]

Read ==
    /\ next # <<>>
    /\ view' = Applied(Head(next))
    /\ next' = Tail(next)
    /\ UNCHANGED <<entries, changes, plan, services, handler, listing, seen, stopped, overtaken>>

\* Stop: the plan of the services ends and the channel is drained; the plan of
\* the service goes on, and its handler with it.
Stop ==
    /\ ~stopped /\ stopped' = TRUE
    /\ next' = <<>>
    /\ UNCHANGED <<entries, changes, plan, services, handler, listing, view, seen, overtaken>>

WatchNext ==
    \/ Change
    \/ ServiceHandler \/ HandlerSend \/ HandlerEnd
    \/ HandleNew \/ HandleGone \/ ListingSend
    \/ Read \/ Stop

WatchSpec == WatchInit /\ [][WatchNext]_watchVars

---------------------------------------------------------------------------
(* Properties                                                              *)

\* The handlers have ended with the catalog as it is, and all events are read.
CaughtUp ==
    /\ ~stopped /\ handler.pc = "idle" /\ listing.pc = "idle" /\ next = <<>>
    /\ plan = (entries # NoEntries) /\ (plan => seen = entries)

Healthy(v) == {n \in Nodes : entries[n].version = v /\ entries[n].ok}

\* serviceHandler and handle: a reader that has applied every event has the
\* nodes of the catalog, version by version, however the answers were batched
\* and wherever the channel was full - unless handle dropped the service while
\* serviceHandler was still at work: what that one sends and keeps afterwards
\* is never taken back.
WatchExact == CaughtUp /\ ~overtaken => \A v \in Versions : view[v] = Healthy(v)

Maps   == UNION {[S -> SUBSET Nodes] : S \in SUBSET Versions}
Events == [action : {"create", "update", "delete"}, version : Versions \cup {0},
           nodes : SUBSET Nodes]

WatchTypeOK ==
    /\ entries \in [Nodes -> Entry] /\ seen \in [Nodes -> Entry]
    /\ services \in Maps /\ view \in [Versions -> SUBSET Nodes] /\ next \in Seq(Events)
    /\ handler \in [pc : {"idle", "send"}, todo : SUBSET Versions, gone : SUBSET Versions,
                    out : Seq(Events), old : Maps, new : Maps, data : [Nodes -> Entry]]
    /\ listing \in [pc : {"idle", "new", "gone"}, todo : SUBSET Versions, old : Maps]

\* What the handlers still have to send is about versions their answers have.
WorkOK ==
    /\ handler.todo \subseteq DOMAIN handler.new
    /\ handler.gone \subseteq DOMAIN handler.old \ DOMAIN handler.new
    /\ \/ handler.out = <<>>
       \/ \E v \in (DOMAIN handler.old \cap DOMAIN handler.new) \ handler.todo :
             handler.out = <<Event("update", v, handler.new[v])>>
    /\ handler.data # NoEntries => handler.new = ServiceMap(handler.data)
    /\ listing.todo \subseteq DOMAIN listing.old

Adds(e, v, n)    == e.action # "delete" /\ e.version = v /\ n \in e.nodes
Removes(e, v, n) == e.action = "delete" /\ (e = WholeService \/ (e.version = v /\ n \in e.nodes))

\* The reader has n under v once it has read everything that was sent.
WillHave(v, n) ==
    \/ /\ n \in view[v]
       /\ \A j \in 1..Len(next) : ~Removes(next[j], v, n)
    \/ \E k \in 1..Len(next) :
         /\ Adds(next[k], v, n)
         /\ \A j \in (k + 1)..Len(next) : ~Removes(next[j], v, n)

At(map, v) == IF v \in DOMAIN map THEN map[v] ELSE {}

\* What has been sent of version v: what was known, until serviceHandler comes
\* to it; then what there is now, or what is left of it in between.
Sent(v) ==
    IF handler.pc = "idle" \/ handler.data = NoEntries \/ v \in handler.todo \cup handler.gone
    THEN At(services, v)
    ELSE IF handler.out # <<>> /\ Head(handler.out).version = v
         THEN At(services, v) \cap At(handler.new, v)
         ELSE At(handler.new, v)

Following ==
    /\ ~plan => services = NoServices /\ handler.pc = "idle"
    /\ plan /\ seen # NoEntries => services = ServiceMap(seen)
    /\ handler.pc = "send" =>
         IF handler.data = NoEntries
         THEN handler.todo = {} /\ handler.gone = {} /\ handler.out = <<>>
         ELSE handler.old = services
    /\ IF listing.pc = "gone" THEN ~plan
       ELSE /\ listing.todo = {}
            /\ \A v \in Versions : \A n \in Nodes : WillHave(v, n) <=> n \in Sent(v)

\* The inductive invariant behind WatchExact.
WatchInv == WatchTypeOK /\ WorkOK /\ (~stopped /\ ~overtaken => Following)
==========================================================================
