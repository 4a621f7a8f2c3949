----------------------------- MODULE HttpCall ------------------------------
(***************************************************************************)
(* A call of the HTTP client (client/http_client.go): the hooks stamp the  *)
(* request once, then up to Retries attempts each take a node from the     *)
(* selector, send the request and report the outcome to the selector, with *)
(* a pause between them that the caller's deadline cuts short.             *)
(*                                                                         *)
(* An error is its status code: 404 for no node, 408 for a deadline, 500   *)
(* for a failed request or selector, Custom for one a RetryFunc returns.   *)
(***************************************************************************)
EXTENDS Naturals, Sequences

CONSTANTS
    Targets,    \* the nodes the selector may return
    RetryCounts,\* the values of CallOptions.Retries
    Policies    \* the RetryFuncs: "onError", "always", "custom"

Ok == 200
NotFound == 404
Timeout == 408
Internal == 500
Custom == 1
Nothing == 0    \* a nil response with a nil error

VARIABLES
    retries, policy,    \* the call's options
    at,                 \* the next step of callTyped
    i,                  \* attempts finished
    node,               \* the node of this attempt
    expired,            \* ctx.Done() is closed
    gerr,               \* the last retried error
    result,             \* what the call returned
    hooks,              \* how often the hooks ran
    outcomes,           \* the requests sent: their node and outcome
    marks               \* what the selector was told
httpVars == <<retries, policy, at, i, node, expired, gerr, result, hooks,
              outcomes, marks>>

HttpInit ==
    /\ retries \in RetryCounts /\ policy \in Policies
    /\ at = "next" /\ i = 0
    /\ node \in Targets
    /\ expired \in BOOLEAN
    /\ gerr = Nothing /\ result = Nothing /\ hooks = 0
    /\ outcomes = <<>> /\ marks = <<>>

\* No call: the state of a client that is not calling.
HttpIdle ==
    /\ HttpInit
    /\ retries = 0 /\ policy = "always" /\ ~expired
    /\ node = CHOOSE n \in Targets : TRUE

Return(r) == at' = "returned" /\ result' = r

---------------------------------------------------------------------------
\* next: a fixed address or the request's host needs no selector; without a
\* host, or with a selector that fails, the call ends.
next ==
    /\ at = "next"
    /\ \/ at' = "hooks" /\ UNCHANGED result
       \/ \E e \in {NotFound, Internal} : Return(e)
    /\ UNCHANGED <<retries, policy, i, node, expired, gerr, hooks, outcomes, marks>>

\* callTyped, before the loop: an expired context ends the call, the hooks run.
applyRequestHooks ==
    /\ at = "hooks"
    /\ \/ /\ expired
          /\ Return(Timeout)
          /\ UNCHANGED hooks
       \/ /\ ~expired
          /\ hooks' = hooks + 1
          /\ \/ at' = "loop" /\ UNCHANGED result
             \/ Return(Internal)
    /\ UNCHANGED <<retries, policy, i, node, expired, gerr, outcomes, marks>>

\* The head of the loop.
loop ==
    /\ at = "loop"
    /\ \/ i >= retries /\ Return(gerr)
       \/ i < retries /\ expired /\ Return(Timeout)
       \/ i < retries /\ ~expired /\ at' = "select" /\ UNCHANGED result
    /\ UNCHANGED <<retries, policy, i, node, expired, gerr, hooks, outcomes, marks>>

\* RetryOnError retries a 408 or a 500, RetryAlways everything; a RetryFunc of
\* the caller's may return an error of its own.
Retried(e) ==
    \/ policy \in {"always", "custom"}
    \/ policy = "onError" /\ e \in {Timeout, Internal}

\* What follows a failed attempt.
Failed(e) ==
    \/ /\ policy = "custom"
       /\ Return(Custom)
       /\ UNCHANGED gerr
    \/ /\ ~Retried(e)
       /\ Return(e)
       /\ UNCHANGED gerr
    \/ /\ Retried(e)
       /\ at' = "backoff"
       /\ gerr' = e
       /\ UNCHANGED result

\* The selector's next(): no node is an attempt that failed, and nobody is told.
select ==
    /\ at = "select"
    /\ \/ /\ \E n \in Targets : node' = n
          /\ at' = "request"
          /\ UNCHANGED <<result, gerr>>
       \/ /\ \E e \in {NotFound, Internal} : Failed(e)
          /\ UNCHANGED node
    /\ UNCHANGED <<retries, policy, i, expired, hooks, outcomes, marks>>

\* As before the fix the comment tells of: only a success was reported.
callMarksSuccess ==
    /\ at = "request"
    /\ \E o \in {Ok, Internal} :
          /\ expired => o = Internal
          /\ outcomes' = Append(outcomes, [node |-> node, code |-> o])
          /\ \/ /\ o = Ok /\ Return(Ok) /\ UNCHANGED gerr
                /\ marks' = Append(marks, [node |-> node, code |-> o])
             \/ o # Ok /\ Failed(o) /\ UNCHANGED marks
    /\ UNCHANGED <<retries, policy, i, node, expired, hooks>>

\* call: the request is sent; it fails for sure when the context is done.
\* Either way the selector is told.
call ==
    /\ at = "request"
    /\ \E o \in {Ok, Internal} :
          /\ expired => o = Internal
          /\ outcomes' = Append(outcomes, [node |-> node, code |-> o])
          /\ marks' = Append(marks, [node |-> node, code |-> o])
          /\ \/ o = Ok /\ Return(Ok) /\ UNCHANGED gerr
             \/ o # Ok /\ Failed(o)
    /\ UNCHANGED <<retries, policy, i, node, expired, hooks>>

\* The pause before the next attempt.
backoff ==
    /\ at = "backoff"
    /\ \/ expired /\ Return(Timeout) /\ UNCHANGED i
       \/ i' = i + 1 /\ at' = "loop" /\ UNCHANGED result
    /\ UNCHANGED <<retries, policy, node, expired, gerr, hooks, outcomes, marks>>

\* The deadline passes, or the caller cancels.
Expire ==
    /\ ~expired
    /\ expired' = TRUE
    /\ UNCHANGED <<retries, policy, at, i, node, gerr, result, hooks, outcomes, marks>>

HttpStep == next \/ applyRequestHooks \/ loop \/ select \/ call \/ backoff
HttpNext == HttpStep \/ Expire
HttpSpec == HttpInit /\ [][HttpNext]_httpVars

---------------------------------------------------------------------------
(* Properties.                                                             *)

\* The selector hears of every request exactly once, the failures included, so
\* that the breaker sees what happened; there are at most Retries of them, all
\* after the hooks ran once; only the last can have succeeded, the call
\* succeeds just when it did, and it returns neither a response nor an error
\* only when no attempt was allowed.
AttemptsReported ==
    /\ marks = outcomes
    /\ Len(outcomes) <= retries
    /\ outcomes # <<>> => hooks = 1
    /\ \A k \in 1..Len(outcomes) : outcomes[k].code = Ok => k = Len(outcomes)
    /\ at = "returned" =>
          /\ (result = Ok) <=> \E k \in 1..Len(outcomes) : outcomes[k].code = Ok
          /\ (result = Nothing) => retries = 0

NoneSucceeded == \A k \in 1..Len(outcomes) : outcomes[k].code # Ok

HttpTypeOK ==
    /\ retries \in Nat /\ i \in Nat /\ hooks \in {0, 1} /\ node \in Targets
    /\ at \in {"next", "hooks", "loop", "select", "request", "backoff", "returned"}
    /\ gerr \in {Nothing, NotFound, Internal}
    /\ outcomes \in Seq([node : Targets, code : {Ok, Internal}])

\* The inductive invariant behind AttemptsReported: at most one request per
\* attempt that was finished or, while the client pauses, is about to be; the
\* loop goes on only after a failure, which gerr keeps.
HttpInv ==
    /\ HttpTypeOK
    /\ at \in {"next", "hooks"} => outcomes = <<>> /\ hooks = 0 /\ i = 0
    /\ at \in {"loop", "select", "request", "backoff"} => hooks = 1
    /\ at \in {"select", "request", "backoff"} => i < retries
    /\ at # "returned" => NoneSucceeded /\ i <= retries
    /\ at \in {"loop", "select", "request"} => Len(outcomes) <= i
    /\ at = "backoff" => Len(outcomes) <= i + 1 /\ gerr # Nothing
    /\ gerr = Nothing => i = 0
    /\ AttemptsReported
===========================================================================
