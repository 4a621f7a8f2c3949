--------------------------- MODULE ServiceFacade ---------------------------
(***************************************************************************)
(* A service (volts.go): Run starts the hooks and the server, waits for a  *)
(* signal or the end of the context, and stops them; Stop may also be      *)
(* called by anybody else.                                                 *)
(***************************************************************************)
EXTENDS Naturals, Sequences

CONSTANTS
    Hooks,      \* bound: hooks of each kind
    Stoppers    \* goroutines that may call Stop, besides Run's own

Runner == "run"
Actors == Stoppers \cup {Runner}

VARIABLES
    run,        \* the stage of Run: a phase of Start, "waits" or "returned"
    k,          \* the next hook of this stage
    error,      \* what Run returned
    stopping,   \* per actor: the phase of Stop, or "no", or "done"
    hook,       \* per actor: the next hook of that phase
    failed,     \* per actor: an error Stop collected
    ran,        \* per actor: the hooks and calls Stop made, in order
    server      \* "down" or "up"
facadeVars == <<run, k, error, stopping, hook, failed, ran, server>>

FacadeInit ==
    /\ run = "before" /\ k = 1 /\ error = "none"
    /\ stopping = [a \in Actors |-> "no"] /\ hook = [a \in Actors |-> 1]
    /\ failed = [a \in Actors |-> FALSE]
    /\ ran = [a \in Actors |-> <<>>]
    /\ server = "down"

---------------------------------------------------------------------------
\* A hook of Start; the first error ends Run, whatever was started.
StartHook(phase, then) ==
    /\ run = phase
    /\ \/ /\ k <= Hooks
          /\ \/ k' = k + 1 /\ UNCHANGED <<run, error>>
             \/ run' = "returned" /\ error' = phase /\ UNCHANGED k
       \/ k > Hooks /\ run' = then /\ k' = 1 /\ UNCHANGED error
    /\ UNCHANGED <<stopping, hook, failed, ran, server>>

StartServer ==
    /\ run = "server"
    /\ \/ run' = "after" /\ server' = "up" /\ UNCHANGED error
       \/ run' = "returned" /\ error' = "server" /\ UNCHANGED server
    /\ UNCHANGED <<k, stopping, hook, failed, ran>>

\* The signal, or the end of the context: Run calls Stop.
Signal ==
    /\ run = "waits"
    /\ run' = "stops"
    /\ stopping' = [stopping EXCEPT ![Runner] = "before"]
    /\ UNCHANGED <<k, error, hook, failed, ran, server>>

StopCalled(a) ==
    /\ a \in Stoppers /\ stopping[a] = "no"
    /\ stopping' = [stopping EXCEPT ![a] = "before"]
    /\ UNCHANGED <<run, k, error, hook, failed, ran, server>>

\* As if the first error ended Stop as it ends Start.
StopHookGivesUp(a, phase, then) ==
    /\ stopping[a] = phase
    /\ IF hook[a] <= Hooks
       THEN /\ ran' = [ran EXCEPT ![a] = Append(@, <<phase, hook[a]>>)]
            /\ hook' = [hook EXCEPT ![a] = @ + 1]
            /\ \/ UNCHANGED <<failed, stopping>>
               \/ /\ failed' = [failed EXCEPT ![a] = TRUE]
                  /\ stopping' = [stopping EXCEPT ![a] = "done"]
       ELSE /\ stopping' = [stopping EXCEPT ![a] = then]
            /\ hook' = [hook EXCEPT ![a] = 1]
            /\ UNCHANGED <<ran, failed>>
    /\ UNCHANGED <<run, k, error, server>>

\* A hook of Stop; its error is kept and the next one runs.
StopHook(a, phase, then) ==
    /\ stopping[a] = phase
    /\ IF hook[a] <= Hooks
       THEN /\ ran' = [ran EXCEPT ![a] = Append(@, <<phase, hook[a]>>)]
            /\ hook' = [hook EXCEPT ![a] = @ + 1]
            /\ \E err \in BOOLEAN : failed' = [failed EXCEPT ![a] = @ \/ err]
            /\ UNCHANGED stopping
       ELSE /\ stopping' = [stopping EXCEPT ![a] = then]
            /\ hook' = [hook EXCEPT ![a] = 1]
            /\ UNCHANGED <<ran, failed>>
    /\ UNCHANGED <<run, k, error, server>>

StopServer(a) ==
    /\ stopping[a] = "server"
    /\ server' = "down"
    /\ ran' = [ran EXCEPT ![a] = Append(@, <<"server", 1>>)]
    /\ \E err \in BOOLEAN : failed' = [failed EXCEPT ![a] = @ \/ err]
    /\ stopping' = [stopping EXCEPT ![a] = "after"]
    /\ UNCHANGED <<run, k, error, hook>>

RunReturns ==
    /\ run = "stops" /\ stopping[Runner] = "done"
    /\ run' = "returned"
    /\ error' = IF failed[Runner] THEN "stop" ELSE "none"
    /\ UNCHANGED <<k, stopping, hook, failed, ran, server>>

FacadeNext ==
    \/ StartHook("before", "server") \/ StartServer \/ StartHook("after", "waits")
    \/ Signal \/ RunReturns
    \/ \E a \in Actors :
          \/ StopCalled(a) \/ StopServer(a)
          \/ StopHook(a, "before", "server") \/ StopHook(a, "after", "done")

FacadeSpec == FacadeInit /\ [][FacadeNext]_facadeVars

---------------------------------------------------------------------------
Order == [i \in 1..(2 * Hooks + 1) |->
            IF i <= Hooks THEN <<"before", i>>
            ELSE IF i = Hooks + 1 THEN <<"server", 1>> ELSE <<"after", i - Hooks - 1>>]

\* A Stop that returned ran every hook and stopped the server, in order,
\* whatever failed on the way and whoever else was stopping; and when Run
\* returns from its wait nothing serves any more.  Only a Run that failed after
\* its server was up leaves it serving.
StopIsTotal ==
    /\ \A a \in Actors : stopping[a] = "done" => ran[a] = Order
    /\ (run = "returned" /\ server = "up") => error = "after"

\* How much of Order the Stop of an actor has behind it.
Made(a) ==
    CASE stopping[a] = "no" -> 0
      [] stopping[a] = "before" -> hook[a] - 1
      [] stopping[a] = "server" -> Hooks
      [] stopping[a] = "after" -> Hooks + hook[a]
      [] stopping[a] = "done" -> 2 * Hooks + 1

\* The inductive invariant behind StopIsTotal: every Stop has made just the
\* beginning of Order its phase says, the server is up only between its start
\* and the first StopServer, and Run's own Stop begins when Run waits no more.
FacadeInv ==
    /\ stopping \in [Actors -> {"no", "before", "server", "after", "done"}]
    /\ hook \in [Actors -> 1..(Hooks + 1)]
    /\ \A a \in Actors : stopping[a] \in {"no", "server"} => hook[a] = 1
    /\ ran = [a \in Actors |-> [i \in 1..Made(a) |-> Order[i]]]
    /\ run \in {"before", "server", "after", "waits", "stops", "returned"}
    /\ run \in {"before", "server"} => server = "down"
    /\ run \in {"before", "server", "after", "waits"} => stopping[Runner] = "no"
    /\ (run = "stops" /\ stopping[Runner] \in {"after", "done"}) => server = "down"
    /\ (run = "returned" /\ server = "up") => error = "after"
    /\ server \in {"down", "up"}

===========================================================================
