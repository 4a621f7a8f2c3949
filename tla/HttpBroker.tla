--------------------------- MODULE HttpBroker ----------------------------
(***************************************************************************)
(* Start, Close, Subscribe and the exit loop of the HTTP broker            *)
(* (broker/http/http.go): Close and the loop shake hands over a channel,   *)
(* both need the broker's lock, and the loop writes the address back when  *)
(* nobody waits for it any more.  Addresses: "any", the configured one,    *)
(* and "bound", the one the listener has.                                  *)
(***************************************************************************)
EXTENDS FiniteSets

CONSTANTS Callers,      \* goroutines that call Start and Close
          Topics

VARIABLES
    started, running, address,
    lock,       \* the caller that holds the write lock, or nobody
    caller,     \* caller -> where it is
    listening,  \* the transport's listener is open
    loop,       \* the exit loop that waits for Close: the address it keeps, or "none"
    leaving,    \* exit loops that have heard Close: [pc, for, addr]
    subs,       \* subscribers: topics
    registered, \* topics of this broker that the registry knows, with their address
    overlap     \* Start has run while an old loop had not written its address yet

brokerVars == <<started, running, address, lock, caller, listening, loop, leaving, subs,
                registered, overlap>>

BrokerInit ==
    /\ started = FALSE /\ running = FALSE /\ address = "any" /\ lock = "nobody"
    /\ caller = [c \in Callers |-> "idle"]
    /\ listening = FALSE /\ loop = "none" /\ leaving = {}
    /\ subs = {} /\ registered = [t \in Topics |-> "none"] /\ overlap = FALSE

Goto(c, pc) == caller' = [caller EXCEPT ![c] = pc]

---------------------------------------------------------------------------

\* Start looks at started before it has the lock.
Start(c) ==
    /\ caller[c] = "idle" /\ ~started
    /\ Goto(c, "start")
    /\ UNCHANGED <<started, running, address, lock, listening, loop, leaving, subs, registered, overlap>>

\* Mutated form: the broker counts as running before Listen has failed.
StartFailsMarked(c) ==
    /\ caller[c] = "start" /\ lock = "nobody" /\ listening
    /\ running' = TRUE
    /\ Goto(c, "idle")
    /\ UNCHANGED <<started, address, lock, listening, loop, leaving, subs, registered, overlap>>

\* Listen fails while the listener is open.
StartFails(c) ==
    /\ caller[c] = "start" /\ lock = "nobody" /\ listening
    /\ Goto(c, "idle")
    /\ UNCHANGED <<started, running, address, lock, listening, loop, leaving, subs, registered, overlap>>

StartRuns(c) ==
    /\ caller[c] = "start" /\ lock = "nobody" /\ ~listening
    /\ listening' = TRUE /\ address' = "bound"
    /\ started' = TRUE /\ running' = TRUE
    /\ loop' = address
    /\ overlap' = (overlap \/ leaving # {})
    /\ Goto(c, "idle")
    /\ UNCHANGED <<lock, leaving, subs, registered>>

\* Close: the first one that finds running set does the handshake ...
CloseLocks(c) ==
    /\ caller[c] = "idle" /\ lock = "nobody" /\ lock' = c
    /\ Goto(c, "close")
    /\ UNCHANGED <<started, running, address, listening, loop, leaving, subs, registered, overlap>>

\* Mutated form: the lock is kept until the handshake is over.
CloseMarksLocked(c) ==
    /\ caller[c] = "close"
    /\ IF running
       THEN running' = FALSE /\ started' = FALSE /\ Goto(c, "shake") /\ UNCHANGED lock
       ELSE UNCHANGED <<running, started>> /\ Goto(c, "idle") /\ lock' = "nobody"
    /\ UNCHANGED <<address, listening, loop, leaving, subs, registered, overlap>>

\* ... and lets go of the lock before it.
CloseMarks(c) ==
    /\ caller[c] = "close" /\ lock' = "nobody"
    /\ IF running
       THEN running' = FALSE /\ started' = FALSE /\ Goto(c, "shake")
       ELSE UNCHANGED <<running, started>> /\ Goto(c, "idle")
    /\ UNCHANGED <<address, listening, loop, leaving, subs, registered, overlap>>

\* The exit loop receives the channel.
CloseShakes(c) ==
    /\ caller[c] = "shake" /\ loop # "none"
    /\ Goto(c, "wait")
    /\ leaving' = leaving \cup {[pc |-> "leave", for |-> c, addr |-> loop]}
    /\ loop' = "none"
    /\ UNCHANGED <<started, running, address, lock, listening, subs, registered, overlap>>

---------------------------------------------------------------------------
(* The exit loop                                                           *)

\* On every tick the subscribers are registered again, under the read lock.
Tick ==
    /\ loop # "none" /\ lock = "nobody" /\ subs # {}
    /\ registered' = [t \in Topics |-> IF t \in subs THEN "bound" ELSE registered[t]]
    /\ UNCHANGED <<started, running, address, lock, caller, listening, loop, leaving, subs, overlap>>

MovesOn(l, pc) == leaving' = (leaving \ {l}) \cup {[l EXCEPT !.pc = pc]}

\* They are taken out of the registry before the listener is closed; an error
\* is ignored.
LoopLeaves(l) ==
    /\ l.pc = "leave" /\ lock = "nobody" /\ MovesOn(l, "close")
    /\ \E kept \in SUBSET subs :
         registered' = [t \in Topics |-> IF t \in subs \ kept THEN "none" ELSE registered[t]]
    /\ UNCHANGED <<started, running, address, lock, caller, listening, loop, subs, overlap>>

\* ch <- ts.Close(): the listener is closed, from where on Start can run ...
LoopCloses(l) ==
    /\ l.pc = "close" /\ MovesOn(l, "answer")
    /\ listening' = FALSE
    /\ UNCHANGED <<started, running, address, lock, caller, loop, subs, registered, overlap>>

\* ... and Close returns.
LoopAnswers(l) ==
    /\ l.pc = "answer" /\ MovesOn(l, "write")
    /\ Goto(l.for, "idle")
    /\ UNCHANGED <<started, running, address, lock, listening, loop, subs, registered, overlap>>

\* The address is written back, without the lock.
WriteBack(l) ==
    /\ l.pc = "write" /\ leaving' = leaving \ {l}
    /\ address' = l.addr
    /\ UNCHANGED <<started, running, lock, caller, listening, loop, subs, registered, overlap>>

---------------------------------------------------------------------------

\* Subscribe: the address is read, then the subscriber registered and kept
\* under the lock.
Subscribe(t) ==
    /\ lock = "nobody" /\ t \notin subs
    /\ registered' = [registered EXCEPT ![t] = address]
    /\ subs' = subs \cup {t}
    /\ UNCHANGED <<started, running, address, lock, caller, listening, loop, leaving, overlap>>

LoopStep(l) == LoopLeaves(l) \/ LoopCloses(l) \/ LoopAnswers(l) \/ WriteBack(l)

CallerStep(c) == StartFails(c) \/ StartRuns(c) \/ CloseMarks(c) \/ CloseShakes(c)

BrokerNext ==
    \/ \E c \in Callers : Start(c) \/ CloseLocks(c) \/ CallerStep(c)
    \/ Tick
    \/ \E l \in leaving : LoopStep(l)
    \/ \E t \in Topics : Subscribe(t)

\* Goroutines run on, and a lock that is free again and again is got.
BrokerFairness == \A c \in Callers :
    /\ WF_brokerVars(CloseMarks(c) \/ CloseShakes(c))
    /\ SF_brokerVars(\E l \in leaving : l.for = c /\ LoopLeaves(l))
    /\ WF_brokerVars(\E l \in leaving : l.for = c /\ LoopCloses(l))
    /\ WF_brokerVars(\E l \in leaving : l.for = c /\ LoopAnswers(l))

BrokerSpec == BrokerInit /\ [][BrokerNext]_brokerVars /\ BrokerFairness

---------------------------------------------------------------------------
(* Properties                                                              *)

\* Close, and the deadlock its comment tells of: a Close that has begun
\* returns, beside other calls of Close and Start and the ticks of the loop.
CloseReturns == \A c \in Callers : caller[c] = "close" ~> caller[c] = "idle"

\* Start, Close: while the broker runs its listener is open and a loop is there
\* to close it, and Close never waits for a loop that is gone; its address is the
\* listener's, except when Start came after the listener was closed and before
\* the loop's last assignment.
LoopOwnsListener ==
    /\ running => loop # "none" /\ listening
    /\ (\E c \in Callers : caller[c] = "shake") => loop # "none"
    /\ running /\ leaving = {} /\ ~overlap => address = "bound"

BrokerTypeOK ==
    /\ running \in BOOLEAN /\ listening \in BOOLEAN /\ overlap \in BOOLEAN
    /\ address \in {"any", "bound"} /\ loop \in {"none", "any", "bound"}
    /\ caller \in [Callers -> {"idle", "start", "close", "shake", "wait"}]
    /\ leaving \subseteq [pc : {"leave", "close", "answer", "write"}, for : Callers,
                          addr : {"any", "bound"}]

\* A loop that has heard Close and has not closed the listener yet.
MayClose(l) == l \in leaving /\ l.pc \in {"leave", "close"}

\* The inductive invariant behind LoopOwnsListener: one loop at a time is to
\* close the listener, and it is the running one or the one Close has reached.
BrokerInv ==
    /\ BrokerTypeOK
    /\ running => loop # "none"
    /\ loop # "none" => listening
    /\ \A c \in Callers : caller[c] = "shake" => loop # "none" /\ ~running
    /\ \A c, d \in Callers : caller[c] = "shake" /\ caller[d] = "shake" => c = d
    /\ \A l \in leaving : MayClose(l) => listening /\ loop = "none"
    /\ \A l, k \in leaving : MayClose(l) /\ MayClose(k) => l = k
    /\ running /\ ~overlap => leaving = {} /\ address = "bound"
==========================================================================
