--------------------------- MODULE RpcCallProofs ---------------------------
(***************************************************************************)
(* What RpcCall guarantees for any number of calls, connections, messages, *)
(* faults and any size of the pool.  The argument: every open connection   *)
(* has one owner, the pool or a call (OneUserPerConn, NoConnLeak), so that *)
(* what is under way on it is the owner's own request or nothing (CallInv, *)
(* HelperInv, PoolInv), and an answer that is read is the owner's.         *)
(***************************************************************************)
EXTENDS RpcCall, TLAPS

---------------------------------------------------------------------------
(* What the assignments of the actions do, field by field                  *)

\* After the step goroutine c is at pc with connection i, message m and result
\* res; the others are where they were.
CallIs(c, pc, i, m, res) ==
  /\ call' \in [Calls -> CallType]
  /\ call'[c].pc = pc /\ call'[c].conn = i /\ call'[c].msg = m
  /\ call'[c].res = res /\ call'[c].n = call[c].n
  /\ \A d \in Calls \ {c} : call'[d] = call[d]

LEMMA CallGoes ==
  ASSUME TypeOK, NEW c \in Calls, NEW pc \in CallPcs, call' = [call EXCEPT ![c].pc = pc]
  PROVE  CallIs(c, pc, call[c].conn, call[c].msg, call[c].res)
  BY DEF CallIs, TypeOK, CallType

LEMMA CallMoves ==
  ASSUME TypeOK, NEW c \in Calls, NEW pc \in CallPcs, NEW i \in Conns \cup {NoConn},
         call' = [call EXCEPT ![c].pc = pc, ![c].conn = i]
  PROVE  CallIs(c, pc, i, call[c].msg, call[c].res)
  BY DEF CallIs, TypeOK, CallType

LEMMA CallFills ==
  ASSUME TypeOK, NEW c \in Calls, NEW m \in Msgs,
         call' = [call EXCEPT ![c].pc = "wait", ![c].msg = m]
  PROVE  CallIs(c, "wait", call[c].conn, m, call[c].res)
  BY DEF CallIs, TypeOK, CallType, CallPcs

LEMMA CallFinishes ==
  ASSUME TypeOK, NEW c \in Calls, NEW res \in Reqs \cup {NoReq}, Finish(c, res)
  PROVE  CallIs(c, "idle", NoConn, NoMsg, res)
  BY DEF CallIs, Finish, TypeOK, CallType, CallPcs

\* Likewise for the helper of c.
HelperIs(c, pc, i, m, r, res, left) ==
  /\ helper' \in [Calls -> HelperType]
  /\ helper'[c].pc = pc /\ helper'[c].conn = i /\ helper'[c].msg = m
  /\ helper'[c].req = r /\ helper'[c].res = res /\ helper'[c].left = left
  /\ \A d \in Calls \ {c} : helper'[d] = helper[d]

LEMMA HelperStarts ==
  ASSUME TypeOK, NEW c \in Calls, NEW i \in Conns, NEW m \in Msgs, NEW r \in Reqs,
         helper' = [helper EXCEPT ![c] =
           [NoHelper EXCEPT !.pc = "send", !.conn = i, !.msg = m, !.req = r]]
  PROVE  HelperIs(c, "send", i, m, r, NoReq, FALSE)
  BY DEF HelperIs, TypeOK, HelperType, HelperPcs, NoHelper

LEMMA HelperSent ==
  ASSUME TypeOK, NEW c \in Calls, helper' = [helper EXCEPT ![c].pc = "recv"]
  PROVE  HelperIs(c, "recv", helper[c].conn, helper[c].msg, helper[c].req,
                  helper[c].res, helper[c].left)
  BY DEF HelperIs, TypeOK, HelperType, HelperPcs

LEMMA HelperEnds ==
  ASSUME TypeOK, NEW c \in Calls, NEW res \in Reqs \cup {NoReq}, HelperDone(c, res)
  PROVE  HelperIs(c, "done", NoConn, NoMsg, NoReq, res, FALSE)
  BY DEF HelperIs, HelperDone, TypeOK, HelperType, HelperPcs, NoHelper

LEMMA HelperForgotten ==
  ASSUME TypeOK, NEW c \in Calls, HelperIdle(c)
  PROVE  HelperIs(c, "none", NoConn, NoMsg, NoReq, NoReq, FALSE)
  BY DEF HelperIs, HelperIdle, TypeOK, HelperType, HelperPcs, NoHelper

LEMMA HelperLeft ==
  ASSUME TypeOK, NEW c \in Calls, helper' = [helper EXCEPT ![c].left = TRUE]
  PROVE  HelperIs(c, helper[c].pc, helper[c].conn, helper[c].msg, helper[c].req,
                  helper[c].res, TRUE)
  BY DEF HelperIs, TypeOK, HelperType

\* And for connection i: here, whether it has a peer, and what is under way.
ConnIs(i, here, peer, sent, serving, answers) ==
  /\ conn' \in [Conns -> ConnType]
  /\ conn'[i].here = here /\ conn'[i].peer = peer
  /\ conn'[i].sent = sent /\ conn'[i].serving = serving /\ conn'[i].answers = answers
  /\ \A j \in Conns \ {i} : conn'[j] = conn[j]

LEMMA ConnCloses ==
  ASSUME TypeOK, NEW i \in Conns, conn' = [conn EXCEPT ![i] = Closed]
  PROVE  ConnIs(i, "closed", FALSE, <<>>, NoReq, <<>>)
  <1>1. /\ NewConn \in ConnType /\ NewConn.peer = FALSE /\ NewConn.sent = <<>>
        /\ NewConn.serving = NoReq /\ NewConn.answers = <<>>
    BY DEF NewConn, ConnType
  <1>2. /\ Closed \in ConnType /\ Closed.here = "closed" /\ Closed.peer = FALSE
        /\ Closed.sent = <<>> /\ Closed.serving = NoReq /\ Closed.answers = <<>>
    BY <1>1 DEF Closed, ConnType
  <1> QED  BY <1>2 DEF ConnIs, TypeOK

LEMMA ConnGone ==
  ASSUME TypeOK, NEW i \in Conns, conn' = [conn EXCEPT ![i] = NewConn]
  PROVE  ConnIs(i, "none", FALSE, <<>>, NoReq, <<>>)
  BY DEF ConnIs, TypeOK, ConnType, NewConn

LEMMA ConnOpens ==
  ASSUME TypeOK, NEW i \in Conns,
         conn' = [conn EXCEPT ![i].here = "open", ![i].peer = TRUE]
  PROVE  ConnIs(i, "open", TRUE, conn[i].sent, conn[i].serving, conn[i].answers)
  BY DEF ConnIs, TypeOK, ConnType

LEMMA ConnAges ==
  ASSUME TypeOK, NEW i \in Conns, conn' = [conn EXCEPT ![i].old = TRUE]
  PROVE  ConnIs(i, conn[i].here, conn[i].peer, conn[i].sent, conn[i].serving,
                conn[i].answers)
  BY DEF ConnIs, TypeOK, ConnType

LEMMA ConnSends ==
  ASSUME TypeOK, NEW i \in Conns, NEW s \in Seq(Reqs), conn' = [conn EXCEPT ![i].sent = s]
  PROVE  ConnIs(i, conn[i].here, conn[i].peer, s, conn[i].serving, conn[i].answers)
  BY DEF ConnIs, TypeOK, ConnType

LEMMA ConnReceives ==
  ASSUME TypeOK, NEW i \in Conns, NEW s \in Seq(Reqs), conn' = [conn EXCEPT ![i].answers = s]
  PROVE  ConnIs(i, conn[i].here, conn[i].peer, conn[i].sent, conn[i].serving, s)
  BY DEF ConnIs, TypeOK, ConnType

LEMMA ConnServes ==
  ASSUME TypeOK, NEW i \in Conns, NEW s \in Seq(Reqs), NEW r \in Reqs,
         conn' = [conn EXCEPT ![i].sent = s, ![i].serving = r]
  PROVE  ConnIs(i, conn[i].here, conn[i].peer, s, r, conn[i].answers)
  BY DEF ConnIs, TypeOK, ConnType

LEMMA ConnReplies ==
  ASSUME TypeOK, NEW i \in Conns, NEW s \in Seq(Reqs),
         conn' = [conn EXCEPT ![i].serving = NoReq, ![i].answers = s]
  PROVE  ConnIs(i, conn[i].here, conn[i].peer, conn[i].sent, NoReq, s)
  BY DEF ConnIs, TypeOK, ConnType

LEMMA ConnLosesPeer ==
  ASSUME TypeOK, NEW i \in Conns,
         conn' = [conn EXCEPT ![i].peer = FALSE, ![i].serving = NoReq, ![i].sent = <<>>]
  PROVE  ConnIs(i, conn[i].here, FALSE, <<>>, NoReq, conn[i].answers)
  <1>1. [conn EXCEPT ![i].peer = FALSE, ![i].serving = NoReq] \in [Conns -> ConnType]
    BY DEF TypeOK, ConnType
  <1>2. conn' \in [Conns -> ConnType]
    <2> DEFINE lost == [conn EXCEPT ![i].peer = FALSE, ![i].serving = NoReq]
    <2>1. conn' = [lost EXCEPT ![i].sent = <<>>]  OBVIOUS
    <2>2. lost \in [Conns -> ConnType]  BY <1>1
    <2> HIDE DEF lost
    <2>3. \A s \in Seq(Reqs) : [lost EXCEPT ![i].sent = s] \in [Conns -> ConnType]
      BY <2>2 DEF ConnType
    <2>4. <<>> \in Seq(Reqs)  OBVIOUS
    <2> QED  BY <2>1, <2>3, <2>4, Zenon
  <1>3. /\ conn'[i].here = conn[i].here /\ conn'[i].peer = FALSE
        /\ conn'[i].sent = <<>> /\ conn'[i].serving = NoReq
        /\ conn'[i].answers = conn[i].answers
    BY DEF TypeOK, ConnType
  <1>4. \A j \in Conns \ {i} : conn'[j] = conn[j]  BY DEF TypeOK
  <1> QED  BY <1>2, <1>3, <1>4 DEF ConnIs

---------------------------------------------------------------------------
(* The actions                                                             *)

\* The request of a call that is under way.
LEMMA ReqType ==
  ASSUME TypeOK, NEW c \in Calls, call[c].n # 0
  PROVE  req(c) \in Reqs
  BY SizeAssumption DEF TypeOK, CallType, req, Reqs

\* A step of the peer, or of time, on connection i: what was under way stays
\* under way or is lost.
LEMMA PeerStep ==
  ASSUME RpcInv, TypeOK', NEW i \in Conns, UNCHANGED <<idle, free, call, helper>>,
         \A j \in Conns \ {i} : conn'[j] = conn[j],
         conn'[i].here = conn[i].here, conn'[i].peer => conn[i].peer,
         Clean(i) => Clean(i)', \A r \in Reqs : Carries(i, r) => Carries(i, r)' \/ Clean(i)'
  PROVE  RpcInv'
  <1> USE DEF RpcInv, ConnInv
  <1>1. \A j \in Conns : /\ conn'[j].here = conn[j].here
                         /\ conn'[j].peer => conn[j].peer
                         /\ Clean(j) => Clean(j)'
                         /\ \A r \in Reqs : Carries(j, r) => Carries(j, r)' \/ Clean(j)'
    BY DEF Clean, Carries
  <1>2. CallInv'  BY <1>1 DEF CallInv, Holding, req
  <1>3. HelperInv'
    <2>1. \A c \in Calls : call[c].pc = "wait" => call[c].conn \in Conns /\ req(c) \in Reqs
      BY ReqType DEF CallInv, Holding
    <2>2. \A c \in Calls : req(c)' = req(c)  BY DEF req
    <2> QED  BY <1>1, <2>1, <2>2 DEF HelperInv
  <1>4. PoolInv'
    <2>1. \A k \in DOMAIN idle : idle[k] \in Conns  BY DEF TypeOK
    <2> QED  BY <1>1, <2>1 DEF PoolInv
  <1>5. OneUserPerConn' /\ NoConnLeak' /\ MsgInv'
    BY <1>1 DEF OneUserPerConn, NoConnLeak, MsgInv, IsIdle
  <1> QED  BY <1>2, <1>3, <1>4, <1>5

LEMMA ServeReadStep ==
  ASSUME RpcInv, NEW i \in Conns, ServeRead(i)
  PROVE  RpcInv'
  <1>1. TypeOK  BY DEF RpcInv
  <1>2. Head(conn[i].sent) \in Reqs /\ Tail(conn[i].sent) \in Seq(Reqs)
    BY <1>1 DEF ServeRead, TypeOK, ConnType
  <1>3. ConnIs(i, conn[i].here, conn[i].peer, Tail(conn[i].sent), Head(conn[i].sent),
               conn[i].answers)
    BY <1>1, <1>2, ConnServes DEF ServeRead
  <1>4. TypeOK'  BY <1>1, <1>3 DEF ServeRead, TypeOK, ConnIs
  <1>5. ~Clean(i)  BY DEF ServeRead, Clean
  <1>6. ASSUME NEW r \in Reqs, Carries(i, r)  PROVE Carries(i, r)'
    <2>1. conn[i].sent = <<r>> /\ conn[i].answers = <<>>
      BY <1>6, SizeAssumption DEF ServeRead, Carries
    <2> QED  BY <1>3, <2>1 DEF Carries, ConnIs
  <1> QED  BY <1>3, <1>4, <1>5, <1>6, PeerStep DEF ServeRead, ConnIs

LEMMA ServeReplyStep ==
  ASSUME RpcInv, NEW i \in Conns, ServeReply(i)
  PROVE  RpcInv'
  <1>1. TypeOK  BY DEF RpcInv
  <1>2. Append(conn[i].answers, conn[i].serving) \in Seq(Reqs)
    BY <1>1 DEF ServeReply, TypeOK, ConnType
  <1>3. ConnIs(i, conn[i].here, conn[i].peer, conn[i].sent, NoReq,
               Append(conn[i].answers, conn[i].serving))
    BY <1>1, <1>2, ConnReplies DEF ServeReply
  <1>4. TypeOK'  BY <1>1, <1>3 DEF ServeReply, TypeOK, ConnIs
  <1>5. ~Clean(i)  BY DEF ServeReply, Clean
  <1>6. ASSUME NEW r \in Reqs, Carries(i, r)  PROVE Carries(i, r)'
    <2>1. conn[i].sent = <<>> /\ conn[i].serving = r /\ conn[i].answers = <<>>
      BY <1>6 DEF ServeReply, Carries
    <2> QED  BY <1>3, <2>1 DEF Carries, ConnIs
  <1> QED  BY <1>3, <1>4, <1>5, <1>6, PeerStep DEF ServeReply, ConnIs

LEMMA ServeEndsStep ==
  ASSUME RpcInv, NEW i \in Conns, ServeEnds(i)
  PROVE  RpcInv'
  <1>1. TypeOK  BY DEF RpcInv
  <1>2. ConnIs(i, conn[i].here, FALSE, <<>>, NoReq, conn[i].answers)
    BY <1>1, ConnLosesPeer DEF ServeEnds
  <1>3. TypeOK'  BY <1>1, <1>2 DEF ServeEnds, Fault, TypeOK, ConnIs
  <1>4. Clean(i) => Clean(i)'  BY <1>2 DEF Clean, ConnIs
  <1>5. \A r \in Reqs : Carries(i, r) => Carries(i, r)' \/ Clean(i)'
    BY <1>2 DEF Clean, Carries, ConnIs
  <1> QED  BY <1>2, <1>3, <1>4, <1>5, PeerStep DEF ServeEnds, ConnIs

LEMMA AgeStep ==
  ASSUME RpcInv, NEW i \in Conns, Age(i)
  PROVE  RpcInv'
  <1>1. TypeOK  BY DEF RpcInv
  <1>2. ConnIs(i, conn[i].here, conn[i].peer, conn[i].sent, conn[i].serving,
               conn[i].answers)
    BY <1>1, ConnAges DEF Age
  <1>3. TypeOK'  BY <1>1, <1>2 DEF Age, TypeOK, ConnIs
  <1>4. Clean(i) => Clean(i)'  BY <1>2 DEF Clean, ConnIs
  <1>5. \A r \in Reqs : Carries(i, r) => Carries(i, r)'  BY <1>2 DEF Carries, ConnIs
  <1> QED  BY <1>2, <1>3, <1>4, <1>5, PeerStep DEF Age, ConnIs

\* A closed connection is nobody's: it may go.
LEMMA ServeEofStep ==
  ASSUME RpcInv, NEW i \in Conns, ServeEof(i)
  PROVE  RpcInv'
  <1> USE DEF RpcInv, ConnInv
  <1>1. ConnIs(i, "none", FALSE, <<>>, NoReq, <<>>)  BY ConnGone DEF ServeEof
  <1>2. TypeOK'  BY <1>1 DEF ServeEof, TypeOK, ConnIs
  <1>3. \A c \in Calls : call[c].conn # i /\ helper[c].conn # i
    BY SizeAssumption DEF ServeEof, CallInv, Holding
  <1>4. \A k \in DOMAIN idle : idle[k] \in Conns /\ idle[k] # i
    BY DEF ServeEof, PoolInv, TypeOK
  <1>5. CallInv'  BY <1>1, <1>3 DEF ServeEof, CallInv, Holding, req, Clean, ConnIs
  <1>6. HelperInv'
    BY <1>1, <1>3 DEF ServeEof, HelperInv, CallInv, Holding, req, Clean, Carries, ConnIs
  <1>7. PoolInv'  BY <1>1, <1>4 DEF ServeEof, PoolInv, Clean, ConnIs
  <1>8. OneUserPerConn' /\ NoConnLeak' /\ MsgInv'
    BY <1>1 DEF ServeEof, OneUserPerConn, NoConnLeak, MsgInv, IsIdle, ConnIs
  <1> QED  BY <1>2, <1>5, <1>6, <1>7, <1>8

\* A step of goroutine c that changes no connection, no helper and no message,
\* between pcs without a connection.
LEMMA PlainStep ==
  ASSUME RpcInv, TypeOK', NEW c \in Calls, UNCHANGED <<idle, conn, free, helper>>,
         call[c].pc \notin {"probe", "fill", "wait", "late"},
         call'[c].pc \in {"idle", "get", "dial"},
         call'[c].pc # "idle" => call'[c].n # 0,
         call'[c].conn = NoConn, call'[c].msg = NoMsg,
         call'[c].res # NoReq => call'[c].res = req(c)',
         \A d \in Calls \ {c} : call'[d] = call[d]
  PROVE  RpcInv'
  <1> USE DEF RpcInv, ConnInv
  <1>1. \A d \in Calls \ {c} : req(d)' = req(d)  BY DEF req
  <1>2. CallInv'  BY <1>1 DEF CallInv, Holding, Clean
  <1>3. HelperInv'  BY <1>1 DEF HelperInv, Clean, Carries
  <1>4. PoolInv'  BY DEF PoolInv, Clean
  <1>5. call[c].conn = NoConn  BY DEF CallInv, Holding
  <1>6. \A d \in Calls : call'[d].conn = call[d].conn  BY <1>5
  <1>7. OneUserPerConn'  BY <1>6 DEF OneUserPerConn, IsIdle
  <1>8. NoConnLeak'  BY <1>6 DEF NoConnLeak, IsIdle
  <1>9. MsgInv'  BY SizeAssumption DEF MsgInv, TypeOK
  <1> QED  BY <1>2, <1>3, <1>4, <1>7, <1>8, <1>9

LEMMA BeginStep ==
  ASSUME RpcInv, NEW c \in Calls, Begin(c)
  PROVE  RpcInv'
  <1>1. TypeOK  BY DEF RpcInv
  <1>2. call[c].n + 1 \in 0 .. MaxCalls /\ call[c].n + 1 # 0
    BY <1>1, SizeAssumption DEF Begin, TypeOK, CallType
  <1>3. TypeOK'  BY <1>1, <1>2 DEF Begin, TypeOK, CallType, CallPcs
  <1>4. /\ call'[c].pc = "get" /\ call'[c].n = call[c].n + 1
        /\ call'[c].conn = NoConn /\ call'[c].msg = NoMsg /\ call'[c].res = NoReq
        /\ \A d \in Calls \ {c} : call'[d] = call[d]
    BY <1>1 DEF Begin, TypeOK
  <1> QED  BY <1>2, <1>3, <1>4, PlainStep DEF Begin

\* A sequence without its last element.
LEMMA AllButLast ==
  ASSUME NEW S, NEW s \in Seq(S), s # <<>>
  PROVE  /\ SubSeq(s, 1, Len(s) - 1) \in Seq(S)
         /\ Len(SubSeq(s, 1, Len(s) - 1)) = Len(s) - 1
         /\ \A k \in 1 .. Len(s) - 1 : SubSeq(s, 1, Len(s) - 1)[k] = s[k]
  <1>1. PICK n \in Nat : n = Len(s) - 1  OBVIOUS
  <1>2. \A k \in 1 .. n : s[k] \in S  BY <1>1
  <1>3. SubSeq(s, 1, n) \in Seq(S)  BY <1>1, <1>2
  <1>4. Len(SubSeq(s, 1, n)) = n  BY <1>1
  <1>5. \A k \in 1 .. n : SubSeq(s, 1, n)[k] = s[k]  BY <1>1, <1>2
  <1> QED  BY <1>1, <1>3, <1>4, <1>5

\* Pop on an empty pool leads to Dial; else the last idle connection changes
\* hands.
LEMMA PopStep ==
  ASSUME RpcInv, NEW c \in Calls, Pop(c)
  PROVE  RpcInv'
  <1> USE DEF RpcInv, ConnInv
  <1>0. call[c].conn = NoConn /\ call[c].msg = NoMsg /\ call[c].n # 0
    BY DEF Pop, CallInv, MsgInv, Holding
  <1>1. CASE idle = <<>>
    <2>1. CallIs(c, "dial", NoConn, NoMsg, call[c].res)
      BY <1>0, <1>1, CallGoes DEF Pop, CallPcs
    <2>2. TypeOK'  BY <1>1, <2>1 DEF Pop, TypeOK, CallIs
    <2>3. call'[c].res # NoReq => call'[c].res = req(c)'
      BY <2>1 DEF CallInv, CallIs, req
    <2> QED  BY <1>0, <1>1, <2>1, <2>2, <2>3, PlainStep DEF Pop, CallIs
  <1>2. CASE idle # <<>>
    <2>0. PICK i \in Conns : i = idle[Len(idle)]  BY <1>2 DEF TypeOK
    <2>1. /\ Len(idle) \in DOMAIN idle /\ i = idle[Len(idle)]
          /\ idle' \in Seq(Conns) /\ Len(idle') <= Size
          /\ DOMAIN idle' = DOMAIN idle \ {Len(idle)}
          /\ \A k \in DOMAIN idle' : idle'[k] = idle[k]
      <3>1. idle \in Seq(Conns) /\ Len(idle) \in Nat \ {0} /\ Len(idle) <= Size
        BY <1>2 DEF TypeOK
      <3>2. idle' = SubSeq(idle, 1, Len(idle) - 1)  BY <1>2 DEF Pop
      <3>3. /\ idle' \in Seq(Conns) /\ Len(idle') = Len(idle) - 1
            /\ \A k \in 1 .. Len(idle) - 1 : idle'[k] = idle[k]
        BY <1>2, <3>1, <3>2, AllButLast
      <3>4. DOMAIN idle = 1 .. Len(idle) /\ DOMAIN idle' = 1 .. Len(idle) - 1
        BY <3>1, <3>3
      <3> QED  BY <2>0, <3>1, <3>3, <3>4, SizeAssumption
    <2>2. CallIs(c, "probe", i, NoMsg, call[c].res)
      BY <1>0, <1>2, <2>1, CallMoves DEF Pop, CallPcs
    <2>3. TypeOK'  BY <1>2, <2>1, <2>2 DEF Pop, TypeOK, CallIs
    <2>4. conn[i].here = "open" /\ Clean(i)  BY <2>1 DEF PoolInv
    <2>5. \A j \in Conns : IsIdle(j) <=> IsIdle(j)' \/ j = i
      BY <2>1 DEF IsIdle
    <2>6. ~IsIdle(i)'
      <3>1. \A k \in DOMAIN idle : idle[k] = i => k = Len(idle)
        BY <2>1 DEF OneUserPerConn
      <3>2. \A k \in DOMAIN idle' : k \in DOMAIN idle /\ k # Len(idle) /\ idle'[k] = idle[k]
        BY <2>1
      <3> QED  BY <3>1, <3>2 DEF IsIdle
    <2>7. UNCHANGED <<conn, free, helper>>  BY DEF Pop
    <2>8. CallInv'
      BY <1>0, <2>1, <2>2, <2>4, <2>7 DEF CallInv, Holding, req, Clean, CallIs
    <2>9. HelperInv'
      <3>1. \A d \in Calls : req(d)' = req(d) /\ (call'[d].pc = "wait" => call'[d] = call[d])
        BY <2>2 DEF CallIs, req
      <3>2. call[c].pc # "wait"  BY DEF Pop
      <3>3. \A d \in Calls : call[d].pc # "wait" <=> call'[d].pc # "wait"
        BY <2>2, <3>2 DEF CallIs
      <3> QED  BY <2>7, <3>1, <3>3 DEF HelperInv, Clean, Carries
    <2>10. PoolInv'  BY <2>1, <2>7 DEF PoolInv, Clean
    <2>11. OneUserPerConn'
      <3>1. \A d \in Calls : call[d].conn # i  
        BY <2>1, <2>5, SizeAssumption DEF OneUserPerConn
      <3>2. ASSUME NEW d \in Calls, NEW j \in Conns, call'[d].conn = j
            PROVE  ~IsIdle(j)'
        BY <2>2, <2>5, <2>6, <3>2, SizeAssumption DEF OneUserPerConn, CallIs
      <3>5. \A d \in Calls : call'[d].conn \in Conns \cup {NoConn}
        BY <2>2 DEF CallIs, CallType
      <3>3. \A k, m \in DOMAIN idle' : idle'[k] = idle'[m] => k = m
        BY <2>1 DEF OneUserPerConn
      <3>4. \A d, e \in Calls :
              call'[d].conn = call'[e].conn /\ d # e => call'[d].conn = NoConn
        BY <2>2, <3>1 DEF OneUserPerConn, CallIs
      <3> QED  BY <3>2, <3>3, <3>4, <3>5 DEF OneUserPerConn, IsIdle
    <2>12. NoConnLeak'
      BY <1>0, <2>2, <2>5, <2>7, SizeAssumption DEF NoConnLeak, CallIs
    <2>13. MsgInv'  BY <1>0, <2>2, <2>7 DEF Pop, MsgInv, CallIs
    <2> QED  BY <2>3, <2>8, <2>9, <2>10, <2>11, <2>12, <2>13
  <1> QED  BY <1>1, <1>2

\* A step of goroutine c that closes connection i, which it has, and goes on
\* without one: nobody else knows it.
LEMMA CloseStep ==
  ASSUME RpcInv, TypeOK', NEW c \in Calls, NEW i \in Conns, call[c].conn = i,
         ConnIs(i, "closed", FALSE, <<>>, NoReq, <<>>), UNCHANGED idle,
         call'[c].pc \in {"idle", "get", "late"}, call'[c].n = call[c].n,
         call'[c].conn = NoConn, call'[c].res # NoReq => call'[c].res = req(c),
         \A d \in Calls \ {c} : call'[d] = call[d],
         call'[c].pc = "late" \/ call[c].pc # "wait" => UNCHANGED helper,
         call'[c].pc # "late" /\ call[c].pc = "wait" => helper'[c].pc = "none",
         \A d \in Calls \ {c} : helper'[d] = helper[d]
  PROVE  ConnInv'
  <1> USE DEF RpcInv, ConnInv
  <1>1. \A d \in Calls : req(d)' = req(d)  BY DEF req
  <1>2. \A d \in Calls \ {c} : call[d].conn # i
    BY SizeAssumption DEF OneUserPerConn
  <1>3. \A k \in DOMAIN idle : idle[k] \in Conns /\ idle[k] # i
    BY SizeAssumption DEF OneUserPerConn, IsIdle, TypeOK
  <1>4. Holding(c) /\ call[c].n # 0
    BY SizeAssumption DEF CallInv, Holding
  <1>5. CallInv'
    BY <1>1, <1>2, <1>4 DEF CallInv, Holding, Clean, ConnIs
  <1>6. HelperInv'
    <2>1. ASSUME NEW d \in Calls \ {c}
          PROVE  /\ helper'[d] = helper[d] /\ call'[d] = call[d]
                 /\ helper[d].conn \in Conns /\ conn[helper[d].conn].here = "closed"
                      => conn'[helper[d].conn].here = "closed"
                 /\ call[d].pc = "wait" => call[d].conn \in Conns \ {i}
      BY <1>2 DEF ConnIs, CallInv, Holding
    <2>2. \A d \in Calls \ {c} : call[d].pc = "wait" =>
            conn'[call[d].conn] = conn[call[d].conn]
      BY <2>1 DEF ConnIs
    <2>3. /\ helper'[c].pc \in {"send", "recv"} =>
               /\ helper'[c].conn \in Conns /\ helper'[c].req \in Reqs
               /\ conn'[helper'[c].conn].here = "closed"
          /\ call'[c].pc # "wait"
      BY <1>4 DEF ConnIs, HelperInv, Holding
    <2> SUFFICES ASSUME NEW d \in Calls  PROVE HelperInv!(d)'
      BY DEF HelperInv
    <2>4. CASE d = c  BY <2>3, <2>4
    <2>5. CASE d # c
      <3>1. /\ helper'[d] = helper[d] /\ call'[d] = call[d] /\ req(d)' = req(d)
            /\ call[d].pc = "wait" => conn'[call[d].conn] = conn[call[d].conn]
        BY <1>1, <2>1, <2>2, <2>5
      <3>2. HelperInv!(d)  BY DEF HelperInv
      <3> QED  BY <2>1, <2>5, <3>1, <3>2 DEF Clean, Carries
    <2> QED  BY <2>4, <2>5
  <1>7. PoolInv'  BY <1>3 DEF PoolInv, Clean, ConnIs
  <1>8. OneUserPerConn'
    BY SizeAssumption DEF OneUserPerConn, IsIdle
  <1>9. NoConnLeak'
    BY DEF NoConnLeak, IsIdle, ConnIs
  <1> QED  BY <1>5, <1>6, <1>7, <1>8, <1>9

\* A step that moves no message: every call keeps its message, every helper its
\* message or none.
LEMMA MsgKept ==
  ASSUME MsgInv, UNCHANGED free,
         \A d \in Calls : /\ call'[d].msg = call[d].msg
                          /\ call'[d].pc \in {"wait", "late"} <=> call[d].pc \in {"wait", "late"}
                          /\ \/ helper'[d].msg = helper[d].msg /\ helper'[d].left = helper[d].left
                             \/ helper'[d].msg = NoMsg
  PROVE  MsgInv'
  BY DEF MsgInv

\* The call of c returns its message to the pool, and has no helper any more or
\* has left it behind.
LEMMA MsgReturned ==
  ASSUME RpcInv, NEW c \in Calls, call[c].pc \in {"wait", "late"},
         free' = free \cup {call[c].msg},
         call'[c].pc = "idle", call'[c].msg = NoMsg,
         helper'[c].msg = NoMsg \/ helper'[c].left,
         \A d \in Calls \ {c} : call'[d] = call[d] /\ helper'[d] = helper[d]
  PROVE  MsgInv'
  <1>1. MsgInv /\ free \subseteq Msgs  BY DEF RpcInv, TypeOK
  <1>2. call[c].msg # NoMsg /\ NoMsg \notin free'  BY <1>1, SizeAssumption DEF MsgInv
  <1> QED  BY <1>1, <1>2 DEF MsgInv

LEMMA ProbeStep ==
  ASSUME RpcInv, NEW c \in Calls, Probe(c)
  PROVE  RpcInv'
  <1> USE DEF RpcInv, ConnInv
  <1>0. PICK i \in Conns : i = call[c].conn  BY DEF Probe, CallInv, Holding
  <1>1. CASE conn[i].old \/ connClosedByPeer(i)
    <2>1. conn' = [conn EXCEPT ![i] = Closed] /\ call' = [call EXCEPT ![c].pc = "get", ![c].conn = NoConn]
      BY <1>0, <1>1 DEF Probe
    <2>2. ConnIs(i, "closed", FALSE, <<>>, NoReq, <<>>)  BY <2>1, ConnCloses
    <2>3. CallIs(c, "get", NoConn, call[c].msg, call[c].res)  BY <2>1, CallMoves DEF CallPcs
    <2>4. TypeOK'  BY <2>2, <2>3 DEF Probe, TypeOK, CallIs, ConnIs
    <2>5. call'[c].res # NoReq => call'[c].res = req(c)  BY <2>3 DEF CallIs, CallInv
    <2>6. ConnInv'
      BY <1>0, <2>2, <2>3, <2>4, <2>5, CloseStep DEF Probe, CallIs
    <2>7. MsgInv'  BY <2>3, MsgKept DEF Probe, CallIs
    <2> QED  BY <2>4, <2>6, <2>7
  <1>2. CASE ~conn[i].old /\ ~connClosedByPeer(i)
    <2>1. UNCHANGED conn /\ call' = [call EXCEPT ![c].pc = "fill"]
      BY <1>0, <1>2 DEF Probe
    <2>2. CallIs(c, "fill", call[c].conn, call[c].msg, call[c].res)
      BY <2>1, CallGoes DEF CallPcs
    <2>3. TypeOK'  BY <2>1, <2>2 DEF Probe, TypeOK, CallIs
    <2>4. \A d \in Calls : /\ req(d)' = req(d) /\ call'[d].conn = call[d].conn
                           /\ call'[d].pc = "wait" <=> call[d].pc = "wait"
      BY <2>2 DEF CallIs, req, Probe
    <2>5. CallInv'  BY <2>1, <2>2, <2>4 DEF Probe, CallInv, Holding, Clean, CallIs
    <2>6. HelperInv'
      <3> SUFFICES ASSUME NEW d \in Calls  PROVE HelperInv!(d)'
        BY DEF HelperInv
      <3>1. HelperInv!(d) /\ helper'[d] = helper[d]  BY DEF HelperInv, Probe
      <3> QED  BY <2>1, <2>4, <3>1 DEF Clean, Carries
    <2>7. PoolInv'  BY <2>1 DEF Probe, PoolInv, Clean
    <2>8. OneUserPerConn'  BY <2>4 DEF Probe, OneUserPerConn, IsIdle
    <2>9. NoConnLeak'  BY <2>1, <2>4 DEF Probe, NoConnLeak, IsIdle
    <2>10. MsgInv'  BY <2>2, MsgKept DEF Probe, CallIs
    <2> QED  BY <2>3, <2>5, <2>6, <2>7, <2>8, <2>9, <2>10
  <1> QED  BY <1>1, <1>2

\* A connection to be dialled is nobody's and clean.
LEMMA DialStep ==
  ASSUME RpcInv, NEW c \in Calls, Dial(c)
  PROVE  RpcInv'
  <1> USE DEF RpcInv, ConnInv
  <1>0. call[c].conn = NoConn /\ call[c].msg = NoMsg /\ call[c].n # 0
    BY DEF Dial, CallInv, MsgInv, Holding
  <1>1. CASE Fault /\ call' = [call EXCEPT ![c].pc = "idle"] /\ UNCHANGED conn
    <2>1. CallIs(c, "idle", NoConn, NoMsg, call[c].res)
      BY <1>0, <1>1, CallGoes DEF CallPcs
    <2>2. TypeOK'
      <3>1. faults' \in Nat  BY <1>1 DEF Fault, TypeOK
      <3> QED  BY <1>1, <2>1, <3>1 DEF Dial, TypeOK, CallIs
    <2>3. call'[c].res # NoReq => call'[c].res = req(c)'
      BY <2>1 DEF CallInv, CallIs, req
    <2> QED  BY <1>0, <1>1, <2>1, <2>2, <2>3, PlainStep DEF Dial, CallIs
  <1>2. ASSUME NEW i \in Conns, conn[i].here = "none",
               conn' = [conn EXCEPT ![i].here = "open", ![i].peer = TRUE],
               call' = [call EXCEPT ![c].pc = "fill", ![c].conn = i], UNCHANGED faults
        PROVE  RpcInv'
    <2>1. ConnIs(i, "open", TRUE, conn[i].sent, conn[i].serving, conn[i].answers)
      BY <1>2, ConnOpens
    <2>2. CallIs(c, "fill", i, NoMsg, call[c].res)  BY <1>0, <1>2, CallMoves DEF CallPcs
    <2>3. TypeOK'  BY <1>2, <2>1, <2>2 DEF Dial, TypeOK, CallIs, ConnIs
    <2>4. \A j \in Conns : Clean(j)' <=> Clean(j)  BY <2>1 DEF Clean, ConnIs
    <2>5. Clean(i)  BY <1>2 DEF PoolInv
    <2>6. \A d \in Calls : call[d].conn # i /\ req(d)' = req(d)
      BY <1>2, <2>2, SizeAssumption DEF CallInv, Holding, CallIs, req
    <2>7. \A k \in DOMAIN idle : idle[k] \in Conns /\ idle[k] # i
      BY <1>2 DEF PoolInv, TypeOK
    <2>8. CallInv'
      BY <1>0, <2>1, <2>2, <2>4, <2>5, <2>6 DEF CallInv, Holding, CallIs, ConnIs
    <2>9. HelperInv'
      <3> SUFFICES ASSUME NEW d \in Calls  PROVE HelperInv!(d)'
        BY DEF HelperInv
      <3>1. HelperInv!(d) /\ helper'[d] = helper[d]  BY DEF HelperInv, Dial
      <3>2. \A j \in Conns : conn[j].here = "closed" => conn'[j].here = "closed"
        BY <1>2, <2>1 DEF ConnIs
      <3>3. call'[d].pc = "wait" => /\ call'[d] = call[d]
                                    /\ conn'[call[d].conn] = conn[call[d].conn]
        BY <2>1, <2>2, <2>6 DEF CallIs, ConnIs, CallInv, Holding
      <3>4. call'[d].pc # "wait" => call[d].pc # "wait"
        BY <2>2 DEF CallIs, Dial
      <3> QED  BY <2>6, <3>1, <3>2, <3>3, <3>4 DEF Clean, Carries
    <2>10. PoolInv'  BY <2>1, <2>4, <2>7 DEF Dial, PoolInv, ConnIs
    <2>11. OneUserPerConn'
      BY <2>2, <2>6, <2>7 DEF Dial, OneUserPerConn, IsIdle, CallIs
    <2>12. NoConnLeak'
      BY <1>0, <2>1, <2>2, SizeAssumption DEF Dial, NoConnLeak, IsIdle, CallIs, ConnIs
    <2>13. MsgInv'  BY <1>0, <2>2, MsgKept DEF Dial, CallIs
    <2> QED  BY <2>3, <2>8, <2>9, <2>10, <2>11, <2>12, <2>13
  <1> QED  BY <1>1, <1>2 DEF Dial

LEMMA FillStep ==
  ASSUME RpcInv, NEW c \in Calls, Fill(c)
  PROVE  RpcInv'
  <1> USE DEF RpcInv, ConnInv
  <1>0. PICK i \in Conns : i = call[c].conn  BY DEF Fill, CallInv, Holding
  <1>1. PICK m \in free :
          /\ free' = free \ {m}
          /\ call' = [call EXCEPT ![c].pc = "wait", ![c].msg = m]
          /\ helper' = [helper EXCEPT ![c] =
               [NoHelper EXCEPT !.pc = "send", !.conn = call[c].conn, !.msg = m, !.req = req(c)]]
    BY DEF Fill
  <1>2. m \in Msgs /\ m # NoMsg  BY SizeAssumption DEF TypeOK
  <1>3. req(c) \in Reqs  BY ReqType DEF Fill, CallInv
  <1>4. PICK r \in Reqs : r = req(c)  BY <1>3
  <1>5. CallIs(c, "wait", i, m, call[c].res)  BY <1>0, <1>1, <1>2, CallFills
  <1>6. HelperIs(c, "send", i, m, r, NoReq, FALSE)
    BY <1>0, <1>1, <1>2, <1>4, HelperStarts
  <1>7. TypeOK'  BY <1>1, <1>5, <1>6 DEF Fill, TypeOK, CallIs, HelperIs
  <1>8. UNCHANGED <<idle, conn>>  BY DEF Fill
  <1>9. \A d \in Calls : req(d)' = req(d) /\ call'[d].conn = call[d].conn
    BY <1>0, <1>5 DEF CallIs, req
  <1>10. CallInv'  BY <1>5, <1>8, <1>9 DEF Fill, CallInv, Holding, Clean, CallIs
  <1>11. HelperInv'
    <2>1. Clean(i)'  BY <1>0, <1>8 DEF Fill, CallInv, Clean
    <2> SUFFICES ASSUME NEW d \in Calls  PROVE HelperInv!(d)'
      BY DEF HelperInv
    <2>2. CASE d = c
      BY <1>0, <1>4, <1>5, <1>6, <1>9, <2>1, <2>2 DEF CallIs, HelperIs, Clean
    <2>3. CASE d # c
      <3>1. HelperInv!(d)  BY DEF HelperInv
      <3> QED  BY <1>5, <1>6, <1>8, <1>9, <2>3, <3>1 DEF CallIs, HelperIs, Clean, Carries
    <2> QED  BY <2>2, <2>3
  <1>12. PoolInv'  BY <1>8 DEF PoolInv, Clean
  <1>13. OneUserPerConn'  BY <1>8, <1>9 DEF OneUserPerConn, IsIdle
  <1>14. NoConnLeak'  BY <1>8, <1>9 DEF NoConnLeak, IsIdle
  <1>15. MsgInv'
    <2>1. \A d \in Calls : call[d].msg # m  BY DEF MsgInv
    <2> QED  BY <1>1, <1>2, <1>5, <1>6, <2>1 DEF MsgInv, CallIs, HelperIs
  <1> QED  BY <1>7, <1>10, <1>11, <1>12, <1>13, <1>14, <1>15

\* A step of goroutine c that gives connection i back to the pool, clean.
LEMMA GiveBackStep ==
  ASSUME RpcInv, TypeOK', NEW c \in Calls, NEW i \in Conns, call[c].conn = i,
         idle' = Append(idle, i), UNCHANGED conn, Clean(i),
         call'[c].pc = "idle", call'[c].n = call[c].n, call'[c].conn = NoConn,
         call'[c].res # NoReq => call'[c].res = req(c),
         call[c].pc # "wait" => UNCHANGED helper,
         call[c].pc = "wait" => helper'[c].pc = "none",
         \A d \in Calls \ {c} : call'[d] = call[d] /\ helper'[d] = helper[d]
  PROVE  ConnInv'
  <1> USE DEF RpcInv, ConnInv
  <1>1. \A d \in Calls : req(d)' = req(d)  BY DEF req
  <1>2. \A d \in Calls \ {c} : call[d].conn # i
    BY SizeAssumption DEF OneUserPerConn
  <1>3. \A k \in DOMAIN idle : idle[k] \in Conns /\ idle[k] # i
    BY SizeAssumption DEF OneUserPerConn, IsIdle, TypeOK
  <1>4. conn[i].here = "open"  BY SizeAssumption DEF CallInv, Holding
  <1>5. /\ Len(idle) \in Nat /\ DOMAIN idle = 1 .. Len(idle)
        /\ DOMAIN idle' = 1 .. Len(idle) + 1 /\ idle'[Len(idle) + 1] = i
        /\ \A k \in 1 .. Len(idle) : idle'[k] = idle[k]
    BY DEF TypeOK
  <1>6. DOMAIN idle' = DOMAIN idle \cup {Len(idle) + 1}  BY <1>5
  <1>7. \A j \in Conns : IsIdle(j)' <=> IsIdle(j) \/ j = i
    BY <1>5, <1>6 DEF IsIdle
  <1>8. CallInv'  BY <1>1 DEF CallInv, Holding, Clean
  <1>9. HelperInv'
    <2> SUFFICES ASSUME NEW d \in Calls  PROVE HelperInv!(d)'
      BY DEF HelperInv
    <2>1. HelperInv!(d)  BY DEF HelperInv
    <2>2. CASE d = c  BY <2>1, <2>2
    <2>3. CASE d # c  BY <1>1, <2>1, <2>3 DEF Clean, Carries
    <2> QED  BY <2>2, <2>3
  <1>10. PoolInv'  BY <1>4, <1>5, <1>6 DEF PoolInv, Clean
  <1>11. OneUserPerConn'
    <2>1. \A k, m \in DOMAIN idle' : idle'[k] = idle'[m] => k = m
      BY <1>3, <1>5, <1>6 DEF OneUserPerConn
    <2>2. \A d \in Calls : call'[d].conn # NoConn => d # c /\ call'[d].conn = call[d].conn
      OBVIOUS
    <2>3. \A d \in Calls : call'[d].conn # NoConn => ~IsIdle(call[d].conn)'
      <3>1. \A d \in Calls : call[d].conn \in Conns \cup {NoConn}  BY DEF TypeOK, CallType
      <3> QED  BY <1>2, <1>5, <1>6, <2>2, <3>1 DEF OneUserPerConn, IsIdle
    <2>4. \A d, e \in Calls :
            call'[d].conn = call'[e].conn /\ d # e => call'[d].conn = NoConn
      BY <2>2 DEF OneUserPerConn
    <2> QED  BY <2>1, <2>2, <2>3, <2>4 DEF OneUserPerConn, IsIdle
  <1>12. NoConnLeak'  BY <1>7 DEF NoConnLeak
  <1> QED  BY <1>8, <1>9, <1>10, <1>11, <1>12

\* Release(i, failed) closes the connection or puts it back.
LEMMA ReleaseCases ==
  ASSUME TypeOK, NEW i \in Conns, NEW failed \in BOOLEAN, Release(i, failed)
  PROVE  /\ \/ ConnIs(i, "closed", FALSE, <<>>, NoReq, <<>>) /\ UNCHANGED idle
            \/ ~failed /\ idle' = Append(idle, i) /\ UNCHANGED conn
         /\ idle' \in Seq(Conns) /\ Len(idle') <= Size /\ conn' \in [Conns -> ConnType]
  <1>1. CASE conn' = [conn EXCEPT ![i] = Closed] /\ UNCHANGED idle
    <2>1. ConnIs(i, "closed", FALSE, <<>>, NoReq, <<>>)  BY <1>1, ConnCloses
    <2> QED  BY <1>1, <2>1 DEF TypeOK, ConnIs
  <1>2. CASE ~failed /\ Len(idle) < Size /\ idle' = Append(idle, i) /\ UNCHANGED conn
    <2>1. idle' \in Seq(Conns) /\ Len(idle') = Len(idle) + 1 /\ Len(idle) \in Nat
      BY <1>2 DEF TypeOK
    <2>2. Size \in Nat  BY SizeAssumption
    <2>3. Len(idle') <= Size  BY <1>2, <2>1, <2>2
    <2> QED  BY <1>2, <2>1, <2>3 DEF TypeOK
  <1> QED  BY <1>1, <1>2 DEF Release

LEMMA ZipFailsStep ==
  ASSUME RpcInv, NEW c \in Calls, ZipFails(c)
  PROVE  RpcInv'
  <1> USE DEF RpcInv, ConnInv
  <1>0. PICK i \in Conns : i = call[c].conn  BY DEF ZipFails, CallInv, Holding
  <1>1. CallIs(c, "idle", NoConn, call[c].msg, call[c].res)
    BY CallMoves DEF ZipFails, CallPcs
  <1>2. Release(i, FALSE)  BY <1>0 DEF ZipFails
  <1>3. /\ \/ ConnIs(i, "closed", FALSE, <<>>, NoReq, <<>>) /\ UNCHANGED idle
           \/ idle' = Append(idle, i) /\ UNCHANGED conn
        /\ idle' \in Seq(Conns) /\ Len(idle') <= Size /\ conn' \in [Conns -> ConnType]
    BY <1>2, ReleaseCases
  <1>4. TypeOK'
    <2>1. faults' \in Nat  BY DEF ZipFails, Fault, TypeOK
    <2> QED  BY <1>1, <1>3, <2>1 DEF ZipFails, TypeOK, CallIs
  <1>5. Clean(i) /\ (call'[c].res # NoReq => call'[c].res = req(c))
    BY <1>0, <1>1 DEF ZipFails, CallInv, CallIs
  <1>6. ASSUME ConnIs(i, "closed", FALSE, <<>>, NoReq, <<>>), UNCHANGED idle
        PROVE  ConnInv'
    BY <1>0, <1>1, <1>4, <1>5, <1>6, CloseStep DEF ZipFails, CallIs
  <1>7. ASSUME idle' = Append(idle, i), UNCHANGED conn
        PROVE  ConnInv'
    BY <1>0, <1>1, <1>4, <1>5, <1>7, GiveBackStep DEF ZipFails, CallIs
  <1>8. MsgInv'  BY <1>1, MsgKept DEF ZipFails, CallIs
  <1> QED  BY <1>3, <1>4, <1>6, <1>7, <1>8

LEMMA ResultStep ==
  ASSUME RpcInv, NEW c \in Calls, Result(c)
  PROVE  RpcInv'
  <1> USE DEF RpcInv, ConnInv
  <1>0. PICK i \in Conns : i = call[c].conn  BY DEF Result, CallInv, Holding
  <1>1. PICK res \in Reqs \cup {NoReq} : res = helper[c].res  BY DEF TypeOK, HelperType
  <1>2. CallIs(c, "idle", NoConn, NoMsg, res)  BY <1>1, CallFinishes DEF Result
  <1>3. HelperIs(c, "none", NoConn, NoMsg, NoReq, NoReq, FALSE)
    BY HelperForgotten DEF Result
  <1>4. PICK failed \in BOOLEAN : failed <=> res = NoReq  OBVIOUS
  <1>5. Release(i, failed)  BY <1>0, <1>1, <1>4 DEF Result, Release
  <1>6. /\ \/ ConnIs(i, "closed", FALSE, <<>>, NoReq, <<>>) /\ UNCHANGED idle
           \/ ~failed /\ idle' = Append(idle, i) /\ UNCHANGED conn
        /\ idle' \in Seq(Conns) /\ Len(idle') <= Size /\ conn' \in [Conns -> ConnType]
    BY <1>5, ReleaseCases
  <1>7. free' = free \cup {call[c].msg} /\ call[c].msg \in Msgs
    BY DEF Result, Finish, TypeOK, CallType, MsgInv
  <1>8. TypeOK'  BY <1>2, <1>3, <1>6, <1>7 DEF Result, TypeOK, CallIs, HelperIs
  <1>9. /\ call'[c].res # NoReq => call'[c].res = req(c)
        /\ ~failed => Clean(i)
    BY <1>0, <1>1, <1>2, <1>4 DEF Result, HelperInv, CallIs
  <1>10. ASSUME ConnIs(i, "closed", FALSE, <<>>, NoReq, <<>>), UNCHANGED idle
         PROVE  ConnInv'
    BY <1>0, <1>2, <1>3, <1>8, <1>9, <1>10, CloseStep DEF Result, CallIs, HelperIs
  <1>11. ASSUME ~failed, idle' = Append(idle, i), UNCHANGED conn
         PROVE  ConnInv'
    BY <1>0, <1>2, <1>3, <1>8, <1>9, <1>11, GiveBackStep DEF Result, CallIs, HelperIs
  <1>12. MsgInv'  BY <1>2, <1>3, <1>7, MsgReturned DEF Result, CallIs, HelperIs
  <1> QED  BY <1>6, <1>8, <1>10, <1>11, <1>12

\* At the deadline the helper stays, on a connection that is closed.
LEMMA DeadlineStep ==
  ASSUME RpcInv, NEW c \in Calls, Deadline(c)
  PROVE  RpcInv'
  <1> USE DEF RpcInv, ConnInv
  <1>0. PICK i \in Conns : i = call[c].conn  BY DEF Deadline, CallInv, Holding
  <1>1. CallIs(c, "late", NoConn, call[c].msg, call[c].res)
    BY CallMoves DEF Deadline, CallPcs
  <1>2. Release(i, TRUE)  BY <1>0 DEF Deadline
  <1>3. ConnIs(i, "closed", FALSE, <<>>, NoReq, <<>>) /\ UNCHANGED idle
    BY <1>2, ReleaseCases
  <1>4. TypeOK'  BY <1>1, <1>3 DEF Deadline, TypeOK, CallIs, ConnIs
  <1>5. call'[c].res # NoReq => call'[c].res = req(c)  BY <1>1 DEF CallInv, CallIs
  <1>6. ConnInv'
    BY <1>0, <1>1, <1>3, <1>4, <1>5, CloseStep DEF Deadline, CallIs
  <1>7. MsgInv'  BY <1>1, MsgKept DEF Deadline, CallIs
  <1> QED  BY <1>4, <1>6, <1>7

\* A call that has no connection any more returns an error; its helper has ended
\* or is left behind.
LEMMA LateReturns ==
  ASSUME RpcInv, TypeOK', NEW c \in Calls, call[c].pc = "late", UNCHANGED <<idle, conn>>,
         CallIs(c, "idle", NoConn, NoMsg, NoReq),
         \/ helper'[c].pc = "none"
         \/ helper'[c].pc = helper[c].pc /\ helper'[c].conn = helper[c].conn
            /\ helper'[c].req = helper[c].req,
         \A d \in Calls \ {c} : helper'[d] = helper[d]
  PROVE  ConnInv'
  <1> USE DEF RpcInv, ConnInv
  <1>1. \A d \in Calls : req(d)' = req(d)  BY DEF req, CallIs
  <1>2. \A d \in Calls : call'[d].conn = call[d].conn
    BY DEF CallIs, CallInv, Holding
  <1>3. CallInv'  BY <1>1, <1>2 DEF CallInv, Holding, Clean, CallIs
  <1>4. HelperInv'
    <2> SUFFICES ASSUME NEW d \in Calls  PROVE HelperInv!(d)'
      BY DEF HelperInv
    <2>1. HelperInv!(d)  BY DEF HelperInv
    <2>2. CASE d = c  BY <2>1, <2>2 DEF CallIs
    <2>3. CASE d # c  BY <1>1, <2>1, <2>3 DEF Clean, Carries, CallIs
    <2> QED  BY <2>2, <2>3
  <1>5. PoolInv'  BY DEF PoolInv, Clean
  <1>6. OneUserPerConn'  BY <1>2 DEF OneUserPerConn, IsIdle
  <1>7. NoConnLeak'  BY <1>2 DEF NoConnLeak, IsIdle
  <1> QED  BY <1>3, <1>4, <1>5, <1>6, <1>7

LEMMA LateStep ==
  ASSUME RpcInv, NEW c \in Calls, Late(c)
  PROVE  RpcInv'
  <1>0. TypeOK /\ MsgInv  BY DEF RpcInv
  <1>1. CallIs(c, "idle", NoConn, NoMsg, NoReq)  BY <1>0, CallFinishes DEF Late
  <1>2. HelperIs(c, "none", NoConn, NoMsg, NoReq, NoReq, FALSE)
    BY <1>0, HelperForgotten DEF Late
  <1>3. free' = free \cup {call[c].msg} /\ call[c].msg \in Msgs
    BY <1>0 DEF Late, Finish, TypeOK, CallType, MsgInv
  <1>4. TypeOK'  BY <1>0, <1>1, <1>2, <1>3 DEF Late, TypeOK, CallIs, HelperIs
  <1>5. ConnInv'  BY <1>1, <1>2, <1>4, LateReturns DEF Late, HelperIs
  <1>6. MsgInv'  BY <1>1, <1>2, <1>3, MsgReturned DEF Late, CallIs, HelperIs
  <1> QED  BY <1>4, <1>5, <1>6 DEF RpcInv

LEMMA LeaveHelperStep ==
  ASSUME RpcInv, NEW c \in Calls, LeaveHelper(c)
  PROVE  RpcInv'
  <1>0. TypeOK /\ MsgInv  BY DEF RpcInv
  <1>1. CallIs(c, "idle", NoConn, NoMsg, NoReq)  BY <1>0, CallFinishes DEF LeaveHelper
  <1>2. HelperIs(c, helper[c].pc, helper[c].conn, helper[c].msg, helper[c].req,
                 helper[c].res, TRUE)
    BY <1>0, HelperLeft DEF LeaveHelper
  <1>3. free' = free \cup {call[c].msg} /\ call[c].msg \in Msgs
    BY <1>0 DEF LeaveHelper, Finish, TypeOK, CallType, MsgInv
  <1>4. TypeOK'
    <2>1. faults' \in Nat  BY <1>0 DEF LeaveHelper, Fault, TypeOK
    <2> QED  BY <1>0, <1>1, <1>2, <1>3, <2>1 DEF LeaveHelper, TypeOK, CallIs, HelperIs
  <1>5. ConnInv'  BY <1>1, <1>2, <1>4, LateReturns DEF LeaveHelper, HelperIs
  <1>6. MsgInv'  BY <1>1, <1>2, <1>3, MsgReturned DEF LeaveHelper, CallIs, HelperIs
  <1> QED  BY <1>4, <1>5, <1>6 DEF RpcInv

\* A helper that ends without an answer.
LEMMA HelperGivesUp ==
  ASSUME RpcInv, TypeOK', NEW c \in Calls, UNCHANGED <<idle, conn, free, call>>,
         HelperIs(c, "done", NoConn, NoMsg, NoReq, NoReq, FALSE)
  PROVE  RpcInv'
  <1> USE DEF RpcInv, ConnInv
  <1>1. \A d \in Calls : req(d)' = req(d)  BY DEF req
  <1>2. CallInv' /\ PoolInv' /\ OneUserPerConn' /\ NoConnLeak'
    BY <1>1 DEF CallInv, PoolInv, OneUserPerConn, NoConnLeak, Holding, Clean, IsIdle
  <1>3. HelperInv'
    <2> SUFFICES ASSUME NEW d \in Calls  PROVE HelperInv!(d)'
      BY DEF HelperInv
    <2>1. HelperInv!(d)  BY DEF HelperInv
    <2>2. CASE d = c  BY <2>2 DEF HelperIs
    <2>3. CASE d # c  BY <1>1, <2>1, <2>3 DEF Clean, Carries, HelperIs
    <2> QED  BY <2>2, <2>3
  <1>4. MsgInv'  BY MsgKept DEF HelperIs
  <1> QED  BY <1>2, <1>3, <1>4

\* A step of the helper of c, whose call waits, on its connection i: nobody else
\* uses it.
LEMMA HelperWorks ==
  ASSUME RpcInv, TypeOK', NEW c \in Calls, NEW i \in Conns, UNCHANGED <<idle, free, call>>,
         call[c].pc = "wait", call[c].conn = i, HelperInv!(c)',
         conn'[i].here = conn[i].here, conn'[i].peer = conn[i].peer,
         \A j \in Conns \ {i} : conn'[j] = conn[j],
         \A d \in Calls \ {c} : helper'[d] = helper[d],
         \/ helper'[c].msg = helper[c].msg /\ helper'[c].left = helper[c].left
         \/ helper'[c].msg = NoMsg
  PROVE  RpcInv'
  <1> USE DEF RpcInv, ConnInv
  <1>1. \A d \in Calls : req(d)' = req(d)  BY DEF req
  <1>2. \A d \in Calls \ {c} : call[d].conn # i  BY SizeAssumption DEF OneUserPerConn
  <1>3. \A k \in DOMAIN idle : idle[k] \in Conns /\ idle[k] # i
    BY SizeAssumption DEF OneUserPerConn, IsIdle, TypeOK
  <1>4. \A j \in Conns : conn'[j].here = conn[j].here /\ conn'[j].peer = conn[j].peer
    OBVIOUS
  <1>5. conn[i].here = "open"  BY DEF CallInv, Holding
  <1>6. \A j \in Conns \ {i} : Clean(j) <=> Clean(j)'  BY DEF Clean
  <1>7. CallInv'
    <2> SUFFICES ASSUME NEW d \in Calls  PROVE CallInv!(d)'
      BY DEF CallInv
    <2>1. CallInv!(d)  BY DEF CallInv
    <2>2. CASE d = c  BY <1>1, <1>4, <2>1, <2>2 DEF Holding
    <2>3. CASE d # c  BY <1>1, <1>2, <1>4, <1>6, <2>1, <2>3 DEF Holding
    <2> QED  BY <2>2, <2>3
  <1>8. HelperInv'
    <2> SUFFICES ASSUME NEW d \in Calls \ {c}  PROVE HelperInv!(d)'
      BY DEF HelperInv
    <2>1. HelperInv!(d)  BY DEF HelperInv
    <2>2. call[d].pc = "wait" => conn'[call[d].conn] = conn[call[d].conn]
      BY <1>2 DEF CallInv, Holding
    <2> QED  BY <1>1, <1>4, <2>1, <2>2 DEF Clean, Carries
  <1>9. PoolInv'  BY <1>3, <1>4, <1>5, <1>6 DEF PoolInv
  <1>10. OneUserPerConn' /\ NoConnLeak'
    BY <1>4 DEF OneUserPerConn, NoConnLeak, IsIdle
  <1>11. MsgInv'  BY MsgKept
  <1> QED  BY <1>7, <1>8, <1>9, <1>10, <1>11

\* Send: on an open connection the helper's call waits, and nothing else is
\* under way.
LEMMA HelperSendStep ==
  ASSUME RpcInv, NEW c \in Calls, HelperSend(c)
  PROVE  RpcInv'
  <1> USE DEF RpcInv, ConnInv
  <1>0. PICK i \in Conns : i = helper[c].conn  BY DEF HelperSend, HelperInv
  <1>1. PICK r \in Reqs : r = helper[c].req  BY DEF HelperSend, HelperInv
  <1>2. CASE HelperDone(c, NoReq) /\ UNCHANGED conn
    <2>1. HelperIs(c, "done", NoConn, NoMsg, NoReq, NoReq, FALSE)  BY <1>2, HelperEnds
    <2>2. TypeOK'  BY <1>2, <2>1 DEF HelperSend, TypeOK, HelperIs
    <2> QED  BY <1>2, <2>1, <2>2, HelperGivesUp DEF HelperSend
  <1>3. CASE /\ conn[i].here = "open"
             /\ conn' = IF conn[i].peer THEN [conn EXCEPT ![i].sent = Append(@, r)] ELSE conn
             /\ helper' = [helper EXCEPT ![c].pc = "recv"]
    <2>1. call[c].pc = "wait" /\ call[c].conn = i /\ r = req(c) /\ Clean(i)
      BY <1>0, <1>1, <1>3 DEF HelperSend, HelperInv
    <2>2. HelperIs(c, "recv", helper[c].conn, helper[c].msg, helper[c].req,
                   helper[c].res, helper[c].left)
      BY <1>3, HelperSent
    <2>3. PICK s \in Seq(Reqs) : s = <<r>>
      <3>1. <<r>> \in Seq(Reqs)  OBVIOUS
      <3> QED  BY <3>1, Zenon
    <2>4. Append(conn[i].sent, r) = s  BY <2>1, <2>3 DEF Clean
    <2>5. \/ UNCHANGED conn
          \/ ConnIs(i, conn[i].here, conn[i].peer, s, conn[i].serving, conn[i].answers)
      <3>1. CASE conn[i].peer
        <4>1. conn' = [conn EXCEPT ![i].sent = s]  BY <1>3, <2>4, <3>1
        <4> QED  BY <4>1, ConnSends
      <3>2. CASE ~conn[i].peer  BY <1>3, <3>2
      <3> QED  BY <3>1, <3>2
    <2>6. /\ conn' \in [Conns -> ConnType]
          /\ conn'[i].here = conn[i].here /\ conn'[i].peer = conn[i].peer
          /\ \A j \in Conns \ {i} : conn'[j] = conn[j]
      BY <2>5 DEF TypeOK, ConnIs
    <2>7. TypeOK'  BY <2>2, <2>6 DEF HelperSend, TypeOK, HelperIs
    <2>8. Clean(i)' \/ Carries(i, r)'
      BY <2>1, <2>3, <2>5 DEF Clean, Carries, ConnIs
    <2>9. UNCHANGED <<idle, free, call>> /\ req(c)' = req(c)  BY DEF HelperSend, req
    <2>10. HelperInv!(c)'
      BY <1>0, <1>1, <2>1, <2>2, <2>8, <2>9 DEF HelperIs, Clean, Carries
    <2> QED  BY <2>1, <2>2, <2>6, <2>7, <2>9, <2>10, HelperWorks DEF HelperIs
  <1> QED  BY <1>0, <1>1, <1>2, <1>3 DEF HelperSend

\* Recv: the answer is the one to the helper's own request.
LEMMA HelperRecvStep ==
  ASSUME RpcInv, NEW c \in Calls, HelperRecv(c)
  PROVE  RpcInv'
  <1> USE DEF RpcInv, ConnInv
  <1>0. PICK i \in Conns : i = helper[c].conn  BY DEF HelperRecv, HelperInv
  <1>1. call[c].pc = "wait" /\ call[c].conn = i
    BY <1>0 DEF HelperRecv, HelperInv
  <1>2. PICK r \in Reqs : r = req(c)  BY <1>1, ReqType DEF CallInv
  <1>3. conn[i].sent = <<>> /\ conn[i].serving = NoReq /\ conn[i].answers = <<r>>
    BY <1>0, <1>1, <1>2 DEF HelperRecv, HelperInv, Clean, Carries
  <1>4. PICK s \in Seq(Reqs) : s = <<>>
    <2>1. <<>> \in Seq(Reqs)  OBVIOUS
    <2> QED  BY <2>1, Zenon
  <1>5. Head(conn[i].answers) = r /\ Tail(conn[i].answers) = s  BY <1>3, <1>4
  <1>6. HelperIs(c, "done", NoConn, NoMsg, NoReq, r, FALSE)
    BY <1>0, <1>5, HelperEnds DEF HelperRecv
  <1>7. conn' = [conn EXCEPT ![i].answers = s]  BY <1>0, <1>5 DEF HelperRecv
  <1>8. ConnIs(i, conn[i].here, conn[i].peer, conn[i].sent, conn[i].serving, s)
    BY <1>7, ConnReceives
  <1>9. TypeOK'  BY <1>6, <1>8 DEF HelperRecv, TypeOK, HelperIs, ConnIs
  <1>10. Clean(i)'  BY <1>3, <1>4, <1>8 DEF Clean, ConnIs
  <1>11. UNCHANGED <<idle, free, call>> /\ req(c)' = req(c)  BY DEF HelperRecv, req
  <1>12. HelperInv!(c)'  BY <1>1, <1>2, <1>6, <1>10, <1>11 DEF HelperIs, Clean
  <1> QED  BY <1>1, <1>6, <1>8, <1>9, <1>11, <1>12, HelperWorks DEF HelperIs, ConnIs

LEMMA HelperRecvFailsStep ==
  ASSUME RpcInv, NEW c \in Calls, HelperRecvFails(c)
  PROVE  RpcInv'
  <1>0. TypeOK  BY DEF RpcInv
  <1>1. HelperIs(c, "done", NoConn, NoMsg, NoReq, NoReq, FALSE)
    BY <1>0, HelperEnds DEF HelperRecvFails
  <1>2. faults' \in Nat  BY <1>0 DEF HelperRecvFails, Fault, TypeOK
  <1>3. TypeOK'  BY <1>0, <1>1, <1>2 DEF HelperRecvFails, TypeOK, HelperIs
  <1> QED  BY <1>1, <1>3, HelperGivesUp DEF HelperRecvFails

\* Closing the pool closes connections that no call has.
LEMMA PoolCloseStep ==
  ASSUME RpcInv, PoolClose
  PROVE  RpcInv'
  <1> USE DEF RpcInv, ConnInv
  <1>1. Closed \in ConnType /\ Closed.here = "closed" /\ Closed.peer = FALSE
    <2>1. NewConn \in ConnType /\ NewConn.peer = FALSE  BY DEF NewConn, ConnType
    <2> QED  BY <2>1 DEF Closed, ConnType
  <1>2. \A j \in Conns : /\ IsIdle(j) => conn'[j] = Closed
                         /\ ~IsIdle(j) => conn'[j] = conn[j]
    BY DEF PoolClose, IsIdle
  <1>3. conn' \in [Conns -> ConnType]  BY <1>1 DEF PoolClose, TypeOK
  <1>4. TypeOK'
    <2>1. idle' \in Seq(Conns) /\ Len(idle') = 0  BY DEF PoolClose
    <2>2. Size \in Nat /\ closes' \in Nat  BY SizeAssumption DEF PoolClose, TypeOK
    <2>3. Len(idle') <= Size  BY <2>1, <2>2
    <2> QED  BY <1>3, <2>1, <2>2, <2>3 DEF PoolClose, TypeOK
  <1>5. \A c \in Calls : Holding(c) => /\ call[c].conn \in Conns
                                       /\ conn'[call[c].conn] = conn[call[c].conn]
    BY <1>2, SizeAssumption DEF CallInv, OneUserPerConn
  <1>6. UNCHANGED <<free, call, helper>> /\ \A c \in Calls : req(c)' = req(c) /\ Holding(c)' = Holding(c)
    BY DEF PoolClose, req, Holding
  <1>7. CallInv'  BY <1>5, <1>6 DEF CallInv, Holding, Clean
  <1>8. HelperInv'
    <2> SUFFICES ASSUME NEW d \in Calls  PROVE HelperInv!(d)'
      BY DEF HelperInv
    <2>1. HelperInv!(d)  BY DEF HelperInv
    <2>2. call[d].pc = "wait" => conn'[call[d].conn] = conn[call[d].conn]
      BY <1>5 DEF Holding
    <2>3. \A j \in Conns : conn[j].here = "closed" => conn'[j].here = "closed"
      BY <1>1, <1>2
    <2> QED  BY <1>6, <2>1, <2>2, <2>3 DEF Clean, Carries
  <1>9. PoolInv'
    <2>1. DOMAIN idle' = {}  BY DEF PoolClose
    <2> QED  BY <1>1, <1>2, <2>1 DEF PoolInv, Clean
  <1>10. OneUserPerConn'
    <2>1. DOMAIN idle' = {}  BY DEF PoolClose
    <2> QED  BY <1>6, <2>1 DEF OneUserPerConn, IsIdle
  <1>11. NoConnLeak'  BY <1>1, <1>2, <1>6 DEF NoConnLeak
  <1>12. MsgInv'  BY <1>6 DEF MsgInv
  <1> QED  BY <1>4, <1>7, <1>8, <1>9, <1>10, <1>11, <1>12

---------------------------------------------------------------------------
(* The theorems                                                            *)

LEMMA InitInv == Init => RpcInv
  <1> SUFFICES ASSUME Init  PROVE RpcInv
    OBVIOUS
  <1>1. NewConn \in ConnType /\ NewConn.here = "none" /\ NewConn.peer = FALSE
    BY DEF NewConn, ConnType
  <1>2. idle \in Seq(Conns) /\ Len(idle) = 0 /\ DOMAIN idle = {}  BY DEF Init
  <1>3. Len(idle) <= Size  BY <1>2, SizeAssumption
  <1>4. /\ call \in [Calls -> CallType]
        /\ \A c \in Calls : /\ call[c].pc = "idle" /\ call[c].n = 0 /\ call[c].conn = NoConn
                             /\ call[c].msg = NoMsg /\ call[c].res = NoReq
    BY SizeAssumption DEF Init, CallType, CallPcs
  <1>5. /\ helper \in [Calls -> HelperType]
        /\ \A c \in Calls : helper[c].pc = "none" /\ helper[c].msg = NoMsg
    BY DEF Init, NoHelper, HelperType, HelperPcs
  <1>6. TypeOK  BY <1>1, <1>2, <1>3, <1>4, <1>5 DEF Init, TypeOK
  <1>7. \A i \in Conns : Clean(i) /\ conn[i].here = "none" /\ conn[i].peer = FALSE
    BY DEF Init, NewConn, Clean
  <1>8. CallInv /\ HelperInv  BY <1>4, <1>5 DEF CallInv, HelperInv, Holding
  <1>9. PoolInv /\ OneUserPerConn /\ NoConnLeak
    BY <1>2, <1>4, <1>7 DEF PoolInv, OneUserPerConn, NoConnLeak
  <1>10. MsgInv  BY <1>4, <1>5, SizeAssumption DEF Init, MsgInv
  <1> QED  BY <1>6, <1>8, <1>9, <1>10 DEF RpcInv, ConnInv

LEMMA NextInv == RpcInv /\ [Next]_vars => RpcInv'
  <1> SUFFICES ASSUME RpcInv, [Next]_vars  PROVE RpcInv'
    OBVIOUS
  <1>1. ASSUME NEW c \in Calls, Begin(c) \/ CallStep(c) \/ ZipFails(c) \/ Deadline(c)
                                 \/ LeaveHelper(c) \/ HelperStep(c)
        PROVE  RpcInv'
    BY <1>1, BeginStep, PopStep, ProbeStep, DialStep, FillStep, ResultStep, LateStep,
       ZipFailsStep, DeadlineStep, LeaveHelperStep, HelperSendStep, HelperRecvStep,
       HelperRecvFailsStep
       DEF CallStep, HelperStep
  <1>2. ASSUME NEW i \in Conns, ServeRead(i) \/ ServeReply(i) \/ ServeEnds(i)
                                 \/ ServeEof(i) \/ Age(i)
        PROVE  RpcInv'
    BY <1>2, ServeReadStep, ServeReplyStep, ServeEndsStep, ServeEofStep, AgeStep
  <1>3. CASE PoolClose  BY <1>3, PoolCloseStep
  <1>4. CASE UNCHANGED vars
    <2> USE <1>4 DEF vars
    <2>1. TypeOK'  BY DEF RpcInv, TypeOK
    <2>2. CallInv' /\ HelperInv' /\ PoolInv'
      BY DEF RpcInv, ConnInv, CallInv, HelperInv, PoolInv, Holding, Clean, Carries, req
    <2>3. OneUserPerConn' /\ NoConnLeak' /\ MsgInv'
      BY DEF RpcInv, ConnInv, OneUserPerConn, NoConnLeak, IsIdle, MsgInv
    <2> QED  BY <2>1, <2>2, <2>3 DEF RpcInv, ConnInv
  <1> QED  BY <1>1, <1>2, <1>3, <1>4 DEF Next

\* The inductive invariant of client, pool, transport and message pool: the
\* ownership of every connection and message, and what is under way, hold in
\* every state, for any number of goroutines and any size of the pool.
THEOREM RpcInvariant == Spec => []RpcInv
  <1>1. RpcInv /\ [Next]_vars => RpcInv'  BY NextInv
  <1> QED  BY <1>1, InitInv, PTL DEF Spec

\* The variables keep their types and the pool never holds more than its size.
THEOREM TypeCorrect == Spec => []TypeOK
  <1>1. RpcInv => TypeOK  BY DEF RpcInv
  <1> QED  BY <1>1, RpcInvariant, PTL

\* A call returns the answer to its own request or an error, although
\* connections are reused, and deadlines and closing peers leave requests
\* unanswered.
THEOREM AnswersAreOwn == Spec => []NoCrossTalk
  <1>1. RpcInv => NoCrossTalk  BY DEF RpcInv, ConnInv, CallInv, NoCrossTalk
  <1> QED  BY <1>1, RpcInvariant, PTL

\* An open connection is in the pool or some call has it, whatever fails.
THEOREM NoConnectionLeaks == Spec => []NoConnLeak
  <1>1. RpcInv => NoConnLeak  BY DEF RpcInv, ConnInv
  <1> QED  BY <1>1, RpcInvariant, PTL

\* A connection has one user, and nothing is under way on an idle one.
THEOREM ConnectionsAreExclusive == Spec => [](OneUserPerConn /\ IdleIsClean)
  <1>1. RpcInv => OneUserPerConn /\ IdleIsClean
    BY DEF RpcInv, ConnInv, PoolInv, IdleIsClean, IsIdle
  <1> QED  BY <1>1, RpcInvariant, PTL

\* A message that is being sent is neither in the pool nor another call's, unless
\* the call left its helper behind.
THEOREM MessagesNotShared == Spec => []MessageNotShared
  <1>1. RpcInv => MessageNotShared
    <2> SUFFICES ASSUME RpcInv, NEW c \in Calls, helper[c].msg # NoMsg, ~helper[c].left
                 PROVE  /\ helper[c].msg \notin free
                        /\ \A d \in Calls : d # c => call[d].msg # helper[c].msg
      BY DEF MessageNotShared
    <2> QED  BY DEF RpcInv, MsgInv
  <1> QED  BY <1>1, RpcInvariant, PTL
============================================================================
