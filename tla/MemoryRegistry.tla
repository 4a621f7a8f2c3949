------------------------- MODULE MemoryRegistry --------------------------
(***************************************************************************)
(* The memory registry (registry/memory): one service of several versions, *)
(* in records that every registry of the process shares, a pruner for      *)
(* nodes whose time to live is over, and one goroutine per event that      *)
(* hands it to every watcher.                                              *)
(***************************************************************************)
EXTENDS Naturals, FiniteSets

CONSTANTS
    Nodes,
    VersionOf,      \* node -> the version of the service it belongs to
    Watchers,
    MaxSends        \* goroutines that send an event at the same time

VARIABLES
    known,          \* versions in m.records[name]
    rec,            \* node -> "none", "fresh", "due", or "kept": no time to live
    wanted,         \* nodes whose owner has registered them and has not left
    watcher,        \* w -> "none", "open", "stopped"
    watchers,       \* m.watchers
    inNext,         \* watchers somebody waits on in Next
    sends           \* id -> [pc, todo] of a goroutine in sendEvent

memoryVars == <<known, rec, wanted, watcher, watchers, inNext, sends>>

Versions == {VersionOf[n] : n \in Nodes}

\* The node lists a service can have: nodes of one version.
NodeLists == {S \in SUBSET Nodes : S # {} /\ \A m, n \in S : VersionOf[m] = VersionOf[n]}
VersionOfList(S) == VersionOf[CHOOSE n \in S : TRUE]

Unsent == [pc |-> "none", todo |-> {}]

MemoryInit ==
    /\ known = {} /\ rec = [n \in Nodes |-> "none"] /\ wanted = {}
    /\ watcher = [w \in Watchers |-> "none"] /\ watchers = {} /\ inNext = {}
    /\ sends = [i \in 1..MaxSends |-> Unsent]

\* go m.sendEvent(...)
Send == \E i \in 1..MaxSends :
    /\ sends[i] = Unsent /\ \A j \in 1..(i - 1) : sends[j] # Unsent
    /\ sends' = [sends EXCEPT ![i].pc = "start"]

---------------------------------------------------------------------------
(* Init, Register, Deregister and the pruner: each holds the lock          *)

Put(S, age) == rec' = [n \in Nodes |-> IF n \in S THEN age ELSE rec[n]]

\* Init with services in its context: versions not tracked yet are added.
Seed(S) ==
    /\ VersionOfList(S) \notin known
    /\ known' = known \cup {VersionOfList(S)}
    /\ Put(S, "kept")
    /\ wanted' = wanted \cup S
    /\ UNCHANGED <<watcher, watchers, inNext, sends>>

\* A version that is not known is added with its nodes; else the nodes that
\* are new are added; only when none is new are the others refreshed.
Register(S) ==
    /\ wanted' = wanted \cup S
    /\ known' = known \cup {VersionOfList(S)}
    /\ LET new == {n \in S : rec[n] = "none"} IN
         IF VersionOfList(S) \notin known \/ new # {}
         THEN Put(new, "fresh") /\ Send
         ELSE Put(S, "fresh") /\ UNCHANGED sends
    /\ UNCHANGED <<watcher, watchers, inNext>>

\* Mutated form: the version goes with the first of its nodes.
DeregisterVersion(S) ==
    /\ wanted' = wanted \ S
    /\ Put({n \in Nodes : VersionOf[n] = VersionOfList(S)}, "none")
    /\ known' = known \ {VersionOfList(S)}
    /\ IF known = {} THEN UNCHANGED sends ELSE Send
    /\ UNCHANGED <<watcher, watchers, inNext>>

\* The nodes go, with the last one the version; the event is sent when the
\* service was known at all.
Deregister(S) ==
    /\ wanted' = wanted \ S
    /\ Put(S, "none")
    /\ known' = IF \E n \in Nodes : VersionOf[n] = VersionOfList(S) /\ rec'[n] # "none"
                THEN known ELSE known \ {VersionOfList(S)}
    /\ IF known = {} THEN UNCHANGED sends ELSE Send
    /\ UNCHANGED <<watcher, watchers, inNext>>

\* A node has not been registered again for its time to live.
FallDue(n) ==
    /\ rec[n] = "fresh" /\ rec' = [rec EXCEPT ![n] = "due"]
    /\ UNCHANGED <<known, wanted, watcher, watchers, inNext, sends>>

\* ttlPrune: such nodes are removed; no event, and the version stays.
Prune ==
    /\ \E n \in Nodes : rec[n] = "due"
    /\ rec' = [n \in Nodes |-> IF rec[n] = "due" THEN "none" ELSE rec[n]]
    /\ UNCHANGED <<known, wanted, watcher, watchers, inNext, sends>>

---------------------------------------------------------------------------
(* Watchers and events                                                     *)

Watch(w) ==
    /\ watcher[w] = "none"
    /\ watcher' = [watcher EXCEPT ![w] = "open"]
    /\ watchers' = watchers \cup {w}
    /\ UNCHANGED <<known, rec, wanted, inNext, sends>>

CallNext(w) ==
    /\ watcher[w] # "none" /\ w \notin inNext
    /\ inNext' = inNext \cup {w}
    /\ UNCHANGED <<known, rec, wanted, watcher, watchers, sends>>

\* Next returns an error once the watcher is stopped.
NextStopped(w) ==
    /\ watcher[w] = "stopped" /\ w \in inNext
    /\ inNext' = inNext \ {w}
    /\ UNCHANGED <<known, rec, wanted, watcher, watchers, sends>>

StopWatcher(w) ==
    /\ watcher[w] = "open" /\ watcher' = [watcher EXCEPT ![w] = "stopped"]
    /\ UNCHANGED <<known, rec, wanted, watchers, inNext, sends>>

\* sendEvent: the watchers of this moment
SendStart(i) ==
    /\ sends[i].pc = "start"
    /\ sends' = [sends EXCEPT ![i] = [pc |-> "send", todo |-> watchers]]
    /\ UNCHANGED <<known, rec, wanted, watcher, watchers, inNext>>

Past(i, w) == sends' = [sends EXCEPT ![i].todo = @ \ {w}]

\* One watcher is gone and forgotten; or it takes the event, and its Next
\* returns it or, when it is not of the service it watches, goes on waiting.
SendOne(i, w) ==
    /\ sends[i].pc = "send" /\ w \in sends[i].todo
    /\ Past(i, w)
    /\ \/ watcher[w] = "stopped" /\ watchers' = watchers \ {w} /\ UNCHANGED inNext
       \/ w \in inNext /\ inNext' \in {inNext, inNext \ {w}} /\ UNCHANGED watchers
    /\ UNCHANGED <<known, rec, wanted, watcher>>

\* Mutated form: no time limit.
DropBlocks(i, w) == FALSE /\ UNCHANGED memoryVars

\* ... or it is too slow, and the event is dropped.
Drop(i, w) ==
    /\ sends[i].pc = "send" /\ w \in sends[i].todo
    /\ watcher[w] = "open" /\ w \notin inNext
    /\ Past(i, w)
    /\ UNCHANGED <<known, rec, wanted, watcher, watchers, inNext>>

SendEnd(i) ==
    /\ sends[i].pc = "send" /\ sends[i].todo = {}
    /\ sends' = [sends EXCEPT ![i] = Unsent]
    /\ UNCHANGED <<known, rec, wanted, watcher, watchers, inNext>>

SendStep(i) == SendStart(i) \/ SendEnd(i) \/ \E w \in Watchers : SendOne(i, w) \/ Drop(i, w)

MemoryNext ==
    \/ \E S \in NodeLists : Seed(S) \/ Register(S) \/ Deregister(S)
    \/ \E n \in Nodes : FallDue(n)
    \/ Prune
    \/ \E w \in Watchers : Watch(w) \/ CallNext(w) \/ NextStopped(w) \/ StopWatcher(w)
    \/ \E i \in 1..MaxSends : SendStep(i)

\* The goroutines of sendEvent run on.
MemoryFairness == \A i \in 1..MaxSends : WF_memoryVars(SendStep(i))

MemorySpec == MemoryInit /\ [][MemoryNext]_memoryVars /\ MemoryFairness

---------------------------------------------------------------------------
(* Properties                                                              *)

\* GetService and ListServices: the nodes of the versions that are known
MemoryVisible == {n \in Nodes : VersionOf[n] \in known /\ rec[n] # "none"}

MemoryAge == [n \in Nodes |->
    IF n \in wanted /\ rec[n] # "none"
    THEN IF rec[n] = "due" THEN "due" ELSE "fresh"
    ELSE "out"]

MemoryBackend == INSTANCE RegistryPromise WITH
    st <- [n \in Nodes |->
        [want |-> n \in wanted, visible |-> n \in MemoryVisible, age |-> MemoryAge[n]]]

\* Register, Deregister, ttlPrune: a node registered in time is found by every
\* lookup, whatever nodes of its version come, go and run out beside it.
MemoryPromise == MemoryBackend!PSpec

\* The inductive invariant behind MemoryPromise: the version of a node that
\* has a record is known, so that every lookup finds the node.
MemoryInv ==
    /\ rec \in [Nodes -> {"none", "fresh", "due", "kept"}]
    /\ \A n \in Nodes : rec[n] # "none" => VersionOf[n] \in known

\* sendEvent: the goroutine of an event ends, whatever the watchers do: one
\* that is slow, has been stopped or is never read again does not hold it.
SendsFinish == \A i \in 1..MaxSends : sends[i].pc = "start" ~> sends[i] = Unsent
==========================================================================
