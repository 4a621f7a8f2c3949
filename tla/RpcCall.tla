------------------------------ MODULE RpcCall ------------------------------
(***************************************************************************)
(* One RPC over a pooled connection: RpcClient.call (client/rpc_client.go) *)
(* with the connection pool (internal/pool/default.go), the message pool   *)
(* (transport/pool.go) and the serving loop at the other end               *)
(* (transport/tcp_server.go).                                              *)
(*                                                                         *)
(* A call takes an idle connection or dials one, and hands it to a helper  *)
(* goroutine that sends the request and receives the answer; the call      *)
(* waits for the helper or for its deadline.  All calls go to one address  *)
(* with the same options: one key of the pool.                             *)
(***************************************************************************)
EXTENDS Naturals, Sequences

CONSTANTS
    Calls,          \* goroutines that make calls
    Conns,          \* bound: connections that can be dialled
    Msgs,           \* messages of the message pool
    Size,           \* pool size
    NoConn, NoMsg, NoReq,
    MaxCalls,       \* bound: calls per goroutine
    MaxFaults,      \* bound: failed dials and sends, closing peers, read timeouts,
                    \* helpers left behind
    MaxCloses       \* bound: calls of pool.Close

Reqs == Calls \X (1 .. MaxCalls)

ASSUME SizeAssumption ==
    /\ {Size, MaxCalls, MaxFaults, MaxCloses} \subseteq Nat
    /\ NoConn \notin Conns /\ NoMsg \notin Msgs /\ NoReq \notin Reqs

VARIABLES
    idle,       \* pool.conns[key], the last one is taken first
    conn,       \* connections: state here, at the peer, and what is under way
    free,       \* messages in the message pool
    call,       \* per goroutine: pc, number of calls, connection, message, result
    helper,     \* per goroutine: the send/receive goroutine of its last call
    faults, closes

vars == <<idle, conn, free, call, helper, faults, closes>>

\* The request a goroutine is making, or made last.
req(c) == <<c, call[c].n>>

\* A connection that was not dialled yet, or is gone at both ends.
NewConn == [here |-> "none", peer |-> FALSE, old |-> FALSE, sent |-> <<>>,
            serving |-> NoReq, answers |-> <<>>]

NoHelper == [pc |-> "none", conn |-> NoConn, msg |-> NoMsg, req |-> NoReq,
             res |-> NoReq, left |-> FALSE]

Init ==
    /\ idle = <<>>
    /\ conn = [i \in Conns |-> NewConn]
    /\ free = Msgs
    /\ call = [c \in Calls |-> [pc |-> "idle", n |-> 0, conn |-> NoConn,
                                msg |-> NoMsg, res |-> NoReq]]
    /\ helper = [c \in Calls |-> NoHelper]
    /\ faults = 0 /\ closes = 0

Fault == faults < MaxFaults /\ faults' = faults + 1

---------------------------------------------------------------------------
(* The pool                                                                *)

\* Call starts.
Begin(c) ==
    /\ call[c].pc = "idle" /\ call[c].n < MaxCalls
    /\ call' = [call EXCEPT ![c] = [pc |-> "get", n |-> call[c].n + 1,
                                    conn |-> NoConn, msg |-> NoMsg, res |-> NoReq]]
    /\ UNCHANGED <<idle, conn, free, helper, faults, closes>>

\* Mutated form: the connection is not taken out of the pool.
PopKeeps(c) ==
    /\ call[c].pc = "get"
    /\ \/ /\ idle = <<>>
          /\ call' = [call EXCEPT ![c].pc = "dial"]
       \/ /\ idle # <<>>
          /\ call' = [call EXCEPT ![c].pc = "probe", ![c].conn = idle[Len(idle)]]
    /\ UNCHANGED <<idle, conn, free, helper, faults, closes>>

\* Get, under the lock: take the connection that was released last.
Pop(c) ==
    /\ call[c].pc = "get"
    /\ \/ /\ idle = <<>>
          /\ call' = [call EXCEPT ![c].pc = "dial"]
          /\ UNCHANGED idle
       \/ /\ idle # <<>>
          /\ call' = [call EXCEPT ![c].pc = "probe", ![c].conn = idle[Len(idle)]]
          /\ idle' = SubSeq(idle, 1, Len(idle) - 1)
    /\ UNCHANGED <<conn, free, helper, faults, closes>>

\* A connection that is closed here: what is under way on it is lost.
Closed == [NewConn EXCEPT !.here = "closed"]

\* connClosedByPeer: the end of the stream, or data nobody asked for.
connClosedByPeer(i) == ~conn[i].peer \/ conn[i].answers # <<>>

\* Get, outside the lock: too old or dead, look further; else use it.
Probe(c) ==
    LET i == call[c].conn
    IN  /\ call[c].pc = "probe"
        /\ \/ /\ conn[i].old \/ connClosedByPeer(i)
              /\ conn' = [conn EXCEPT ![i] = Closed]
              /\ call' = [call EXCEPT ![c].pc = "get", ![c].conn = NoConn]
           \/ /\ ~conn[i].old /\ ~connClosedByPeer(i)
              /\ call' = [call EXCEPT ![c].pc = "fill"]
              /\ UNCHANGED conn
        /\ UNCHANGED <<idle, free, helper, faults, closes>>

\* Get dials: a new connection, or the error of the call.
Dial(c) ==
    /\ call[c].pc = "dial"
    /\ \/ \E i \in Conns :
            /\ conn[i].here = "none"
            /\ conn' = [conn EXCEPT ![i].here = "open", ![i].peer = TRUE]
            /\ call' = [call EXCEPT ![c].pc = "fill", ![c].conn = i]
            /\ UNCHANGED faults
       \/ /\ Fault
          /\ call' = [call EXCEPT ![c].pc = "idle"]
          /\ UNCHANGED conn
    /\ UNCHANGED <<idle, free, helper, closes>>

\* Mutated form: a connection is put back whatever happened to it.
ReleaseAlways(i, failed) ==
    \/ /\ Len(idle) >= Size
       /\ conn' = [conn EXCEPT ![i] = Closed]
       /\ UNCHANGED idle
    \/ /\ Len(idle) < Size
       /\ idle' = Append(idle, i)
       /\ UNCHANGED conn

\* Mutated form: one connection too many is kept.
ReleaseOverfills(i, failed) ==
    \/ /\ failed \/ Len(idle) > Size
       /\ conn' = [conn EXCEPT ![i] = Closed]
       /\ UNCHANGED idle
    \/ /\ ~failed /\ Len(idle) <= Size
       /\ idle' = Append(idle, i)
       /\ UNCHANGED conn

\* Mutated form: a connection that finds the pool full is dropped, not closed.
ReleaseDrops(i, failed) ==
    \/ /\ failed
       /\ conn' = [conn EXCEPT ![i] = Closed]
       /\ UNCHANGED idle
    \/ /\ ~failed
       /\ idle' = IF Len(idle) < Size THEN Append(idle, i) ELSE idle
       /\ UNCHANGED conn

\* Release: close after an error and when the pool is full, else keep.
Release(i, failed) ==
    \/ /\ failed \/ Len(idle) >= Size
       /\ conn' = [conn EXCEPT ![i] = Closed]
       /\ UNCHANGED idle
    \/ /\ ~failed /\ Len(idle) < Size
       /\ idle' = Append(idle, i)
       /\ UNCHANGED conn

\* Close: the idle connections are closed and forgotten; Get and Release go on
\* working.
PoolClose ==
    /\ closes < MaxCloses
    /\ closes' = closes + 1
    /\ conn' = [i \in Conns |-> IF \E k \in DOMAIN idle : idle[k] = i
                  THEN Closed ELSE conn[i]]
    /\ idle' = <<>>
    /\ UNCHANGED <<free, call, helper, faults>>

---------------------------------------------------------------------------
(* call                                                                    *)

\* Take a message, fill it and start the helper.  (A goroutine whose last call
\* left a helper behind starts the next one when that has ended: a bound.)
Fill(c) ==
    /\ call[c].pc = "fill" /\ helper[c].pc \in {"none", "done"}
    /\ \E m \in free :
         /\ free' = free \ {m}
         /\ call' = [call EXCEPT ![c].pc = "wait", ![c].msg = m]
         /\ helper' = [helper EXCEPT ![c] =
                         [NoHelper EXCEPT !.pc = "send", !.conn = call[c].conn,
                                          !.msg = m, !.req = req(c)]]
    /\ UNCHANGED <<idle, conn, faults, closes>>

\* Compressing the payload fails: nothing was sent, the connection is kept.
ZipFails(c) ==
    /\ call[c].pc = "fill" /\ Fault
    /\ Release(call[c].conn, FALSE)
    /\ call' = [call EXCEPT ![c].pc = "idle", ![c].conn = NoConn]
    /\ UNCHANGED <<free, helper, closes>>

HelperIdle(c) == helper' = [helper EXCEPT ![c] = NoHelper]

\* The helper hands over its result (NoReq: an error) and ends.
HelperDone(c, res) ==
    helper' = [helper EXCEPT ![c] = [NoHelper EXCEPT !.pc = "done", !.res = res]]

\* conn.Send: fails on a connection that was closed here, may fail on one the
\* peer closed.
HelperSend(c) ==
    LET i == helper[c].conn
    IN  /\ helper[c].pc = "send"
        /\ \/ /\ conn[i].here = "open"
              /\ conn' = IF conn[i].peer
                         THEN [conn EXCEPT ![i].sent = Append(@, helper[c].req)]
                         ELSE conn
              /\ helper' = [helper EXCEPT ![c].pc = "recv"]
           \/ /\ conn[i].here = "closed" \/ ~conn[i].peer
              /\ HelperDone(c, NoReq)
              /\ UNCHANGED conn
        /\ UNCHANGED <<idle, free, call, faults, closes>>

\* conn.Recv: the first answer on the stream.
HelperRecv(c) ==
    LET i == helper[c].conn
    IN  /\ helper[c].pc = "recv"
        /\ conn[i].here = "open" /\ conn[i].answers # <<>>
        /\ conn' = [conn EXCEPT ![i].answers = Tail(@)]
        /\ HelperDone(c, Head(conn[i].answers))
        /\ UNCHANGED <<idle, free, call, faults, closes>>

\* conn.Recv fails: closed here, closed by the peer, or no answer in time.
HelperRecvFails(c) ==
    LET i == helper[c].conn
    IN  /\ helper[c].pc = "recv"
        /\ \/ /\ \/ conn[i].here = "closed"
                 \/ ~conn[i].peer /\ conn[i].answers = <<>>
              /\ UNCHANGED faults
           \/ conn[i].here = "open" /\ Fault
        /\ HelperDone(c, NoReq)
        /\ UNCHANGED <<idle, conn, free, call, closes>>

\* The call returns; the deferred put returns the message to its pool.
Finish(c, res) ==
    /\ free' = free \cup {call[c].msg}
    /\ call' = [call EXCEPT ![c].pc = "idle", ![c].conn = NoConn,
                            ![c].msg = NoMsg, ![c].res = res]

\* The helper's result arrives first.
Result(c) ==
    /\ call[c].pc = "wait" /\ helper[c].pc = "done"
    /\ Release(call[c].conn, helper[c].res = NoReq)
    /\ Finish(c, helper[c].res)
    /\ HelperIdle(c)
    /\ UNCHANGED <<faults, closes>>

\* Mutated form: the deadline returns the call without waiting for its helper.
DeadlineReturns(c) ==
    /\ call[c].pc = "wait"
    /\ Release(call[c].conn, TRUE)
    /\ Finish(c, NoReq)
    /\ UNCHANGED <<helper, faults, closes>>

\* Mutated form: the connection is not closed at the deadline.
DeadlineKeepsConn(c) ==
    /\ call[c].pc = "wait"
    /\ call' = [call EXCEPT ![c].pc = "late"]
    /\ UNCHANGED <<idle, conn, free, helper, faults, closes>>

\* The deadline comes first: closing the connection makes the helper return.
Deadline(c) ==
    /\ call[c].pc = "wait"
    /\ Release(call[c].conn, TRUE)
    /\ call' = [call EXCEPT ![c].pc = "late", ![c].conn = NoConn]
    /\ UNCHANGED <<free, helper, faults, closes>>

\* The call waits for its helper ...
Late(c) ==
    /\ call[c].pc = "late" /\ helper[c].pc = "done"
    /\ HelperIdle(c)
    /\ Finish(c, NoReq)
    /\ UNCHANGED <<idle, conn, faults, closes>>

\* ... but no longer than two seconds.
LeaveHelper(c) ==
    /\ call[c].pc = "late" /\ helper[c].pc # "done" /\ Fault
    /\ helper' = [helper EXCEPT ![c].left = TRUE]
    /\ Finish(c, NoReq)
    /\ UNCHANGED <<idle, conn, closes>>

---------------------------------------------------------------------------
(* The peer, and time                                                      *)

\* The serving loop of one connection: a request at a time, answered before
\* the next one is read.
ServeRead(i) ==
    /\ conn[i].peer /\ conn[i].serving = NoReq /\ conn[i].sent # <<>>
    /\ conn' = [conn EXCEPT ![i].sent = Tail(@), ![i].serving = Head(conn[i].sent)]
    /\ UNCHANGED <<idle, free, call, helper, faults, closes>>

ServeReply(i) ==
    /\ conn[i].peer /\ conn[i].serving # NoReq
    /\ conn' = [conn EXCEPT ![i].serving = NoReq,
                            ![i].answers = Append(@, conn[i].serving)]
    /\ UNCHANGED <<idle, free, call, helper, faults, closes>>

\* The loop ends: an idle timeout, a panic or a restart.
ServeEnds(i) ==
    /\ conn[i].peer /\ conn[i].here = "open" /\ Fault
    /\ conn' = [conn EXCEPT ![i].peer = FALSE, ![i].serving = NoReq, ![i].sent = <<>>]
    /\ UNCHANGED <<idle, free, call, helper, closes>>

\* The loop ends because the client closed.  (The connection may be dialled
\* anew when no helper knows it: as good as a fresh one.)
ServeEof(i) ==
    /\ conn[i].here = "closed" /\ \A c \in Calls : helper[c].conn # i
    /\ conn' = [conn EXCEPT ![i] = NewConn]
    /\ UNCHANGED <<idle, free, call, helper, faults, closes>>

\* A connection gets older than the TTL.
Age(i) ==
    /\ conn[i].here = "open" /\ ~conn[i].old
    /\ conn' = [conn EXCEPT ![i].old = TRUE]
    /\ UNCHANGED <<idle, free, call, helper, faults, closes>>

---------------------------------------------------------------------------
CallStep(c) ==
    Pop(c) \/ Probe(c) \/ Dial(c) \/ Fill(c) \/ Result(c) \/ Late(c)

HelperStep(c) == HelperSend(c) \/ HelperRecv(c) \/ HelperRecvFails(c)

Next ==
    \/ \E c \in Calls : \/ Begin(c) \/ CallStep(c) \/ ZipFails(c) \/ Deadline(c)
                        \/ LeaveHelper(c) \/ HelperStep(c)
    \/ \E i \in Conns : ServeRead(i) \/ ServeReply(i) \/ ServeEnds(i) \/ ServeEof(i) \/ Age(i)
    \/ PoolClose

\* Goroutines that can run do, and a deadline passes.  Nothing makes the peer
\* answer.  A connection that is closed is gone some time: dialling never waits
\* for one.
Fairness ==
    /\ \A c \in Calls : /\ WF_vars(CallStep(c)) /\ WF_vars(HelperStep(c))
                        /\ WF_vars(Deadline(c))
    /\ \A i \in Conns : WF_vars(ServeEof(i))

Spec     == Init /\ [][Next]_vars
FairSpec == Spec /\ Fairness

---------------------------------------------------------------------------
(* Properties                                                              *)

ConnType == [here : {"none", "open", "closed"}, peer : BOOLEAN, old : BOOLEAN,
             sent : Seq(Reqs), serving : Reqs \cup {NoReq}, answers : Seq(Reqs)]
CallPcs  == {"idle", "get", "probe", "dial", "fill", "wait", "late"}
CallType == [pc : CallPcs, n : 0 .. MaxCalls, conn : Conns \cup {NoConn},
             msg : Msgs \cup {NoMsg}, res : Reqs \cup {NoReq}]
HelperPcs  == {"none", "send", "recv", "done"}
HelperType == [pc : HelperPcs, conn : Conns \cup {NoConn},
               msg : Msgs \cup {NoMsg}, req : Reqs \cup {NoReq},
               res : Reqs \cup {NoReq}, left : BOOLEAN]

\* Every variable keeps its type, and the pool its size.
TypeOK ==
    /\ idle \in Seq(Conns) /\ Len(idle) <= Size
    /\ conn \in [Conns -> ConnType]
    /\ free \subseteq Msgs
    /\ call \in [Calls -> CallType]
    /\ helper \in [Calls -> HelperType]
    /\ faults \in Nat /\ closes \in Nat

IsIdle(i) == \E k \in DOMAIN idle : idle[k] = i

\* Nothing is under way on a connection.
Clean(i) == conn[i].sent = <<>> /\ conn[i].serving = NoReq /\ conn[i].answers = <<>>

\* One request, or its answer, is under way and nothing else.
Carries(i, r) ==
    \/ conn[i].sent = <<r>> /\ conn[i].serving = NoReq /\ conn[i].answers = <<>>
    \/ conn[i].sent = <<>> /\ conn[i].serving = r /\ conn[i].answers = <<>>
    \/ conn[i].sent = <<>> /\ conn[i].serving = NoReq /\ conn[i].answers = <<r>>

\* A call that gets an answer gets the answer to its own request, although
\* connections are reused and deadlines leave answers behind.
NoCrossTalk == \A c \in Calls :
    call[c].pc = "idle" /\ call[c].res # NoReq => call[c].res = req(c)

\* An idle connection carries nothing: no request on its way, in service or
\* unanswered, and no unread answer - what connClosedByPeer takes for granted.
IdleIsClean == \A i \in Conns : IsIdle(i) => Clean(i)

\* A connection has one user: it is idle once, or one call has it.
OneUserPerConn ==
    /\ \A k, m \in DOMAIN idle : idle[k] = idle[m] => k = m
    /\ \A c \in Calls : call[c].conn # NoConn => ~IsIdle(call[c].conn)
    /\ \A c, d \in Calls : call[c].conn = call[d].conn /\ c # d => call[c].conn = NoConn

\* No connection is forgotten: an open one is idle or some call has it.
NoConnLeak == \A i \in Conns : conn[i].here = "open" =>
    IsIdle(i) \/ \E c \in Calls : call[c].conn = i

\* A message that a helper may still be sending is not in the message pool and
\* no other call fills it, unless the call left its helper behind after two
\* seconds.
MessageNotShared == \A c \in Calls : helper[c].msg # NoMsg /\ ~helper[c].left =>
    /\ helper[c].msg \notin free
    /\ \A d \in Calls : d # c => call[d].msg # helper[c].msg

Holding(c) == call[c].pc \in {"probe", "fill", "wait"}

\* A call has an open connection from Get to Release; before its request is
\* sent nothing is under way on it.
CallInv == \A c \in Calls :
    /\ Holding(c) => call[c].conn \in Conns /\ conn[call[c].conn].here = "open"
    /\ ~Holding(c) => call[c].conn = NoConn
    /\ call[c].pc # "idle" => call[c].n # 0
    /\ call[c].pc \in {"probe", "fill"} => Clean(call[c].conn)
    /\ call[c].res # NoReq => call[c].res = req(c)

\* A helper works for the call that waits for it, on its connection and request;
\* the helper of a call that does not wait any more has a closed connection.
HelperInv == \A c \in Calls :
    /\ helper[c].pc \in {"send", "recv"} =>
         /\ helper[c].conn \in Conns /\ helper[c].req \in Reqs
         /\ call[c].pc # "wait" => conn[helper[c].conn].here = "closed"
         /\ call[c].pc = "wait" => /\ helper[c].conn = call[c].conn
                                   /\ helper[c].req = req(c)
    /\ call[c].pc = "wait" =>
         /\ helper[c].pc # "none"
         /\ helper[c].pc = "send" => Clean(call[c].conn)
         /\ helper[c].pc = "recv" =>
              Clean(call[c].conn) \/ Carries(call[c].conn, req(c))
         /\ helper[c].pc = "done" /\ helper[c].res # NoReq =>
              helper[c].res = req(c) /\ Clean(call[c].conn)

\* The idle connections are open and clean, one to be dialled is clean; only an
\* open one has a peer.
PoolInv ==
    /\ \A k \in DOMAIN idle : conn[idle[k]].here = "open" /\ Clean(idle[k])
    /\ \A i \in Conns : conn[i].here = "none" => Clean(i)
    /\ \A i \in Conns : conn[i].peer => conn[i].here = "open"

\* The inductive strengthening of NoCrossTalk, IdleIsClean, OneUserPerConn and
\* NoConnLeak: whose every connection is, and what is under way on it.
ConnInv == CallInv /\ HelperInv /\ PoolInv /\ OneUserPerConn /\ NoConnLeak

\* The inductive strengthening of MessageNotShared: a call has a message while
\* it waits, of its own and out of the pool, and its helper sends that one.
MsgInv == \A c \in Calls :
    /\ call[c].msg # NoMsg <=> call[c].pc \in {"wait", "late"}
    /\ call[c].msg \notin free
    /\ \A d \in Calls : call[c].msg = call[d].msg /\ c # d => call[c].msg = NoMsg
    /\ helper[c].msg # NoMsg /\ ~helper[c].left => call[c].msg = helper[c].msg

\* What the proofs carry from step to step.
RpcInv == TypeOK /\ ConnInv /\ MsgInv

\* Every call returns, even when the peer never answers.
CallsReturn == \A c \in Calls : call[c].pc # "idle" ~> call[c].pc = "idle"
============================================================================
