----------------------------- MODULE LogWriter -----------------------------
(***************************************************************************)
(* The log manager (logger/writer.go, logger/logger.go): callers write     *)
(* lines either themselves or through a channel that one goroutine         *)
(* drains; message objects come from a pool; Async switches the mode and   *)
(* Close drains the channel and ends the goroutine.                        *)
(***************************************************************************)
EXTENDS Naturals, FiniteSets, Sequences

CONSTANTS
    Loggers,    \* goroutines that log; each logs the lines 1..MaxLines
    MaxLines,   \* bound: lines a goroutine logs
    Objects,    \* the TWriterMsg objects
    Capacity,   \* the size of the channel msg
    MaxModes    \* bound: calls of Async

VARIABLES
    async,      \* asynchronous
    modes,      \* how often Async was called
    queue,      \* the channel msg: objects
    text,       \* what each object holds: a line, or None
    free,       \* the pool
    at,         \* where each logger's write stands
    next,       \* the line it logs next
    listener,   \* "off", "waits", "gone" or the object it is dispatching
    closer,     \* "no", "drains", "returned" or the object it is dispatching
    stop,       \* the stop channel is closed
    dropped,    \* the lines counted as dropped
    done,       \* how often each line was written
    before      \* the lines logged when Close was called
logVars == <<async, modes, queue, text, free, at, next, listener, closer, stop,
             dropped, done, before>>

None == [by |-> "none", n |-> 0]
Idle == "idle"
Sync == "sync"
Line(l) == [by |-> l, n |-> next[l]]
Logged == {[by |-> l, n |-> n] : l \in Loggers, n \in 1..MaxLines}

LogInit ==
    /\ async = FALSE /\ modes = 0
    /\ queue = <<>> /\ free = Objects
    /\ text = [o \in Objects |-> None]
    /\ at = [l \in Loggers |-> Idle] /\ next = [l \in Loggers |-> 1]
    /\ listener = "off" /\ closer = "no" /\ stop = FALSE
    /\ dropped = {} /\ done = [x \in Logged |-> 0] /\ before = {}

---------------------------------------------------------------------------
\* write: read the mode; an asynchronous line goes into an object of the pool.
writeBegins(l) ==
    /\ at[l] = Idle /\ next[l] <= MaxLines
    /\ \/ /\ ~async
          /\ at' = [at EXCEPT ![l] = Sync]
          /\ UNCHANGED <<free, text>>
       \/ /\ async
          /\ \E o \in free :
                /\ free' = free \ {o}
                /\ text' = [text EXCEPT ![o] = Line(l)]
                /\ at' = [at EXCEPT ![l] = o]
    /\ UNCHANGED <<async, modes, queue, next, listener, closer, stop, dropped,
                   done, before>>

\* writeDown, in the caller's goroutine.
writeDown(l) ==
    /\ at[l] = Sync
    /\ done' = [done EXCEPT ![Line(l)] = @ + 1]
    /\ next' = [next EXCEPT ![l] = @ + 1]
    /\ at' = [at EXCEPT ![l] = Idle]
    /\ UNCHANGED <<async, modes, queue, text, free, listener, closer, stop,
                   dropped, before>>

\* As if the object went back to the pool after the send.
sendPools(l) ==
    /\ at[l] \in Objects
    /\ IF Len(queue) < Capacity
       THEN queue' = Append(queue, at[l]) /\ UNCHANGED dropped
       ELSE dropped' = dropped \cup {Line(l)} /\ UNCHANGED queue
    /\ free' = free \cup {at[l]}
    /\ next' = [next EXCEPT ![l] = @ + 1]
    /\ at' = [at EXCEPT ![l] = Idle]
    /\ UNCHANGED <<async, modes, text, listener, closer, stop, done, before>>

\* The send that never blocks: a full channel drops the line and counts it.
send(l) ==
    /\ at[l] \in Objects
    /\ IF Len(queue) < Capacity
       THEN queue' = Append(queue, at[l]) /\ UNCHANGED <<dropped, free>>
       ELSE /\ dropped' = dropped \cup {Line(l)}
            /\ free' = free \cup {at[l]}
            /\ UNCHANGED queue
    /\ next' = [next EXCEPT ![l] = @ + 1]
    /\ at' = [at EXCEPT ![l] = Idle]
    /\ UNCHANGED <<async, modes, text, listener, closer, stop, done, before>>

\* Async: the listener is started once, whatever happened to it since.
Async(on) ==
    /\ modes < MaxModes
    /\ modes' = modes + 1
    /\ async' = on
    /\ listener' = IF on /\ listener = "off" THEN "waits" ELSE listener
    /\ UNCHANGED <<queue, text, free, at, next, closer, stop, dropped, done, before>>

\* listen: take a message, or see the stop; the select picks either.
listen ==
    /\ listener = "waits"
    /\ \/ /\ stop /\ listener' = "gone" /\ UNCHANGED queue
       \/ /\ queue # <<>> /\ listener' = Head(queue) /\ queue' = Tail(queue)
    /\ UNCHANGED <<async, modes, text, free, at, next, closer, stop, dropped,
                   done, before>>

\* dispatch the message and give the object back.
dispatch ==
    /\ listener \in Objects
    /\ done' = [done EXCEPT ![text[listener]] = @ + 1]
    /\ text' = [text EXCEPT ![listener] = None]
    /\ free' = free \cup {listener}
    /\ listener' = "waits"
    /\ UNCHANGED <<async, modes, queue, at, next, closer, stop, dropped, before>>

\* Close: back to synchronous writes, ...
CloseBegins ==
    /\ closer \in {"no", "returned"}
    /\ async' = FALSE
    /\ closer' = "drains"
    /\ before' = {x \in Logged : x.n < next[x.by]}
    /\ UNCHANGED <<modes, queue, text, free, at, next, listener, stop, dropped, done>>

\* ... take what is in the channel, one by one, until it is empty; the drained
\* objects do not go back to the pool.
CloseDrains ==
    /\ closer = "drains"
    /\ IF queue # <<>>
       THEN closer' = Head(queue) /\ queue' = Tail(queue) /\ UNCHANGED stop
       ELSE closer' = "returned" /\ stop' = TRUE /\ UNCHANGED queue
    /\ UNCHANGED <<async, modes, text, free, at, next, listener, dropped, done, before>>

CloseWrites ==
    /\ closer \in Objects
    /\ done' = [done EXCEPT ![text[closer]] = @ + 1]
    /\ closer' = "drains"
    /\ UNCHANGED <<async, modes, queue, text, free, at, next, listener, stop,
                   dropped, before>>

LogNext ==
    \/ \E l \in Loggers : writeBegins(l) \/ writeDown(l) \/ send(l)
    \/ \E on \in BOOLEAN : Async(on)
    \/ listen \/ dispatch
    \/ CloseBegins \/ CloseDrains \/ CloseWrites

LogSpec == LogInit /\ [][LogNext]_logVars

---------------------------------------------------------------------------
(* Properties.                                                             *)

Written == {x \in Logged : done[x] > 0}

\* The objects somebody will still read, each with the line it was given.
InHand(o) == o = listener \/ o = closer \/ \E i \in 1..Len(queue) : queue[i] = o

Holds(o, x) == InHand(o) /\ text[o] = x
Held(x) == {o \in Objects : Holds(o, x)}

\* Every line whose write returned is in exactly one place: written, once,
\* counted as dropped, or in an object that nobody else fills before it is
\* written.
LinesAccounted ==
    \A x \in Logged :
        IF x.n >= next[x.by] THEN done[x] = 0 /\ x \notin dropped /\ Held(x) = {}
        ELSE done[x] + Cardinality(Held(x)) + Cardinality({x} \cap dropped) = 1

\* What Close's comment says: the lines logged before Close was called are
\* written, or counted as dropped, when it returns.
ClosedIsWritten ==
    closer = "returned" => before \subseteq Written \cup dropped

---------------------------------------------------------------------------
(* The inductive invariant behind LinesAccounted.                          *)

LogTypeOK ==
    /\ queue \in Seq(Objects) /\ free \in SUBSET Objects
    /\ text \in [Objects -> Logged \cup {None}]
    /\ at \in [Loggers -> Objects \cup {Idle, Sync}]
    /\ next \in [Loggers -> Nat \ {0}]
    /\ listener \in Objects \cup {"off", "waits", "gone"}
    /\ closer \in Objects \cup {"no", "drains", "returned"}
    /\ done \in [Logged -> Nat] /\ dropped \in SUBSET Logged

Queued == {queue[i] : i \in 1..Len(queue)}

\* An object is in one place: the pool, a logger's hand, the channel, or the
\* hand of the listener or of Close.
OnePlace ==
    /\ \A i, j \in 1..Len(queue) : queue[i] = queue[j] => i = j
    /\ listener \in Objects => listener # closer
    /\ listener \notin Queued /\ closer \notin Queued
    /\ \A o \in free : ~InHand(o)
    /\ \A l \in Loggers : at[l] \in Objects =>
          /\ at[l] \notin free /\ ~InHand(at[l])
          /\ \A k \in Loggers : at[k] = at[l] => k = l

\* It holds the line of its logger, and later one whose write has returned.
TextsKept ==
    /\ \A l \in Loggers : at[l] # Idle => next[l] <= MaxLines
    /\ \A l \in Loggers : at[l] \in Objects => text[at[l]] = Line(l)
    /\ \A o \in Objects : InHand(o) => text[o] \in Logged /\ text[o].n < next[text[o].by]

\* Where the line x is.
Accounted(x) ==
    IF x.n >= next[x.by] THEN done[x] = 0 /\ x \notin dropped
    ELSE \/ done[x] = 1 /\ x \notin dropped /\ \A o \in Objects : ~Holds(o, x)
         \/ done[x] = 0 /\ x \in dropped /\ \A o \in Objects : ~Holds(o, x)
         \/ /\ done[x] = 0 /\ x \notin dropped
            /\ \E o \in Objects : Holds(o, x) /\ \A p \in Objects : Holds(p, x) => p = o

LogInv == LogTypeOK /\ OnePlace /\ TextsKept /\ \A x \in Logged : Accounted(x)

===========================================================================
