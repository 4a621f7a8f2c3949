----------------------------- MODULE Websocket -----------------------------
(***************************************************************************)
(* One end of a websocket connection (transport/websocket.go): one         *)
(* goroutine reads messages and answers control frames, others write       *)
(* messages, say close or close the socket, and the peer sends any frames. *)
(*                                                                         *)
(* A frame is a record [op, fin, ok, data, code]: `ok` is FALSE for a      *)
(* header the peer may not send (reserved bits, unknown opcode, wrong mask *)
(* direction); `data` is the unmasked payload, for a close frame its       *)
(* reason, and `code` its status (None for an empty payload, Short for one *)
(* of a single byte).  wmu is held for one whole frame, so that a write is *)
(* one step.                                                               *)
(***************************************************************************)
EXTENDS Naturals, FiniteSets, Sequences, SequencesExt

CONSTANTS
    Frames,         \* the frames the peer sends
    Closers,        \* the goroutines that may call WriteClose
    MaxSent,        \* bound: frames the peer sends
    MaxWrites,      \* bound: messages this end writes
    ReadLimit,      \* readLimit: the longest message
    ControlLimit    \* wsMaxControlPayload

None == 1005        \* CloseNoStatusReceived
Short == 1          \* a close payload of one byte
Normal == 1000
ProtocolErr == 1002
InvalidPayload == 1007
TooBig == 1009
Reader == "reader"
Callers == Closers \cup {Reader}
Reads == 0
Down == 1006        \* the reader's error when the socket is gone

VARIABLES
    wire,       \* frames on their way from the peer
    sent,       \* all the peer ever sent, in order
    frag,       \* fragOpcode and fragBuf
    got,        \* what ReadMessage returned, in order
    reader,     \* Reads, or the code of the error ReadMessage returned
    pending,    \* the code and reason WriteClose(c) is about to write
    closed, closeSent, broken,
    out,        \* frames written to the socket, in order
    refused     \* a close frame was refused as too long
wsVars == <<wire, sent, frag, got, reader, pending, closed, closeSent, broken,
            out, refused>>

NoFrag == [op |-> "none", buf |-> <<>>]
Idle == [code |-> 0, text |-> <<>>]
control(f) == f.op \in {"ping", "pong", "close"}

\* The length of a frame's payload: a close frame's holds its status too.
length(f) ==
    Len(f.data) + (IF f.op # "close" \/ f.code = None THEN 0
                   ELSE IF f.code = Short THEN 1 ELSE 2)

WsInit ==
    /\ wire = <<>> /\ sent = <<>>
    /\ frag = NoFrag /\ got = <<>>
    /\ reader = Reads
    /\ pending = [c \in Callers |-> Idle]
    /\ closed = FALSE /\ closeSent = FALSE /\ broken = FALSE
    /\ out = <<>> /\ refused = FALSE

---------------------------------------------------------------------------
(* Writing.                                                                *)

\* What a frame written now leaves on the socket.
Write(f) == out' = IF closed \/ broken THEN out ELSE Append(out, f)

\* WriteMessage, by any goroutine.
WriteMessage ==
    /\ ~closed
    /\ Cardinality({i \in 1..Len(out) : out[i].op = "bin"}) < MaxWrites
    /\ Write([op |-> "bin", code |-> 0, data |-> <<>>])
    /\ UNCHANGED <<wire, sent, frag, got, reader, pending, closed, closeSent,
                   broken, refused>>

\* As if nobody looked at closeSent.
WriteCloseUnchecked(c, code, text) ==
    /\ closeSent' = TRUE
    /\ pending' = [pending EXCEPT ![c] = [code |-> code, text |-> text]]

\* WriteClose marks the close as said under closeMu ...
WriteClose(c, code, text) ==
    IF closeSent THEN UNCHANGED <<closeSent, pending>>
    ELSE /\ closeSent' = TRUE
         /\ pending' = [pending EXCEPT ![c] = [code |-> code, text |-> text]]

\* ... and writes it in a later step, which WriteControl may refuse.
WriteControl(c) ==
    /\ pending[c] # Idle
    /\ IF Len(pending[c].text) + 2 > ControlLimit
       THEN refused' = TRUE /\ UNCHANGED out
       ELSE /\ Write([op |-> "close", code |-> pending[c].code, data |-> <<>>])
            /\ UNCHANGED refused
    /\ pending' = [pending EXCEPT ![c] = Idle]
    /\ UNCHANGED <<wire, sent, frag, got, reader, closed, closeSent, broken>>

SayClose(c) ==
    /\ c \in Closers /\ pending[c] = Idle
    /\ \E text \in {<<>>, [i \in 1..ControlLimit |-> "a"]} :
          WriteClose(c, Normal, text)
    /\ UNCHANGED <<wire, sent, frag, got, reader, closed, broken, out, refused>>

Close ==
    /\ closed' = TRUE
    /\ UNCHANGED <<wire, sent, frag, got, reader, pending, closeSent, broken,
                   out, refused>>

---------------------------------------------------------------------------
(* Reading.                                                                *)

\* A text is valid when every character's halves stand together.
ValidText(b) ==
    \A i \in 1..Len(b) :
        /\ b[i] = "h1" => i < Len(b) /\ b[i + 1] = "h2"
        /\ b[i] = "h2" => i > 1 /\ b[i - 1] = "h1"

wsValidCloseCode(code) ==
    \/ code \in 3000..4999
    \/ code \in (1000..1014) \ {1004, 1005, 1006}

\* ReadMessage gives up with this code, and tells the peer.
Fail(code) ==
    /\ reader' = code
    /\ WriteClose(Reader, code, <<>>)
    /\ UNCHANGED <<got, out>>

\* readFrame's checks: the code of the error, or 0.
readFrame(f) ==
    IF ~f.ok \/ (control(f) /\ ~f.fin) \/ (control(f) /\ length(f) > ControlLimit)
    THEN ProtocolErr
    ELSE IF length(f) > ReadLimit THEN TooBig ELSE 0

\* handleControl: answer a ping; answer a close and stop.
handleControl(f) ==
    /\ UNCHANGED frag
    /\ \/ /\ f.op = "ping"
          /\ Write([op |-> "pong", code |-> 0, data |-> f.data])
          /\ reader' = IF closed THEN Down ELSE reader
          /\ UNCHANGED <<got, closeSent, pending>>
       \/ /\ f.op = "pong"
          /\ UNCHANGED <<got, reader, out, closeSent, pending>>
       \/ /\ f.op = "close"
          /\ IF f.code # None /\ ~wsValidCloseCode(f.code)
             THEN Fail(ProtocolErr)
             ELSE IF ~ValidText(f.data) THEN Fail(InvalidPayload)
             ELSE /\ reader' = f.code
                  /\ WriteClose(Reader, IF f.code = None THEN Normal ELSE f.code, <<>>)
                  /\ UNCHANGED <<got, out>>

\* A message is complete: return it, unless it is a text that is not one.
Deliver(op, buf) ==
    IF op = "text" /\ ~ValidText(buf) THEN Fail(InvalidPayload)
    ELSE /\ got' = Append(got, [op |-> op, data |-> buf])
         /\ UNCHANGED <<reader, out, closeSent, pending>>

\* The first frame of a message.
readFirst(f) ==
    IF frag # NoFrag THEN Fail(ProtocolErr) /\ UNCHANGED frag
    ELSE IF f.fin THEN Deliver(f.op, f.data) /\ UNCHANGED frag
    ELSE /\ frag' = [op |-> f.op, buf |-> f.data]
         /\ UNCHANGED <<got, reader, out, closeSent, pending>>

\* As if a fragment replaced the ones before it.
readMoreUnbounded(f) ==
    IF frag = NoFrag THEN Fail(ProtocolErr) /\ UNCHANGED frag
    ELSE IF f.fin THEN Deliver(frag.op, frag.buf \o f.data) /\ frag' = NoFrag
    ELSE /\ frag' = [frag EXCEPT !.buf = f.data]
         /\ UNCHANGED <<got, reader, out, closeSent, pending>>

\* A later one: the limit holds for the whole message.
readMore(f) ==
    IF frag = NoFrag THEN Fail(ProtocolErr) /\ UNCHANGED frag
    ELSE IF Len(frag.buf) + Len(f.data) > ReadLimit THEN Fail(TooBig) /\ frag' = NoFrag
    ELSE IF f.fin THEN Deliver(frag.op, frag.buf \o f.data) /\ frag' = NoFrag
    ELSE /\ frag' = [frag EXCEPT !.buf = @ \o f.data]
         /\ UNCHANGED <<got, reader, out, closeSent, pending>>

\* ReadMessage takes the next frame, which may be buffered though the socket is
\* closed; its caller stops at the first error.
ReadMessage ==
    /\ reader = Reads /\ pending[Reader] = Idle
    /\ wire # <<>>
    /\ LET f == Head(wire) IN
       IF readFrame(f) # 0 THEN Fail(readFrame(f)) /\ UNCHANGED frag
       ELSE \/ control(f) /\ handleControl(f)
            \/ f.op \in {"text", "bin"} /\ readFirst(f)
            \/ f.op = "cont" /\ readMore(f)
    /\ wire' = Tail(wire)
    /\ UNCHANGED <<sent, closed, broken, refused>>

\* The socket is closed here, or the peer is gone and all it sent is read.
ReadError ==
    /\ reader = Reads
    /\ closed \/ (broken /\ wire = <<>>)
    /\ reader' = Down
    /\ UNCHANGED <<wire, sent, frag, got, pending, closed, closeSent, broken,
                   out, refused>>

---------------------------------------------------------------------------
(* The peer (external).                                                    *)

PeerSends ==
    /\ Len(sent) < MaxSent /\ ~broken
    /\ \E f \in Frames : wire' = Append(wire, f) /\ sent' = Append(sent, f)
    /\ UNCHANGED <<frag, got, reader, pending, closed, closeSent, broken, out,
                   refused>>

PeerGone ==
    /\ broken' = TRUE
    /\ UNCHANGED <<wire, sent, frag, got, reader, pending, closed, closeSent,
                   out, refused>>

WsNext ==
    \/ WriteMessage \/ Close \/ ReadMessage \/ ReadError \/ PeerSends \/ PeerGone
    \/ \E c \in Callers : WriteControl(c)
    \/ \E c \in Closers : SayClose(c)

WsSpec == WsInit /\ [][WsNext]_wsVars

---------------------------------------------------------------------------
(* Properties.                                                             *)

\* The messages of a stream of frames: its data frames, cut after each FIN.
Messages(fs) ==
    LET d == SelectSeq(fs, LAMBDA f : ~control(f))
        ends == {i \in 1..Len(d) : d[i].fin}
        before(i) == {j \in ends : j < i}
        first(i) == IF before(i) = {} THEN 1
                    ELSE 1 + (CHOOSE j \in before(i) : \A k \in before(i) : k <= j)
        payloads(i) == [k \in 1..(i - first(i) + 1) |-> d[first(i) + k - 1].data]
    IN [n \in 1..Cardinality(ends) |->
          LET i == CHOOSE e \in ends : Cardinality(before(e)) = n - 1
          IN [op |-> d[first(i)].op, data |-> FlattenSeq(payloads(i))]]

Read == SubSeq(sent, 1, Len(sent) - Len(wire))

\* What ReadMessage returns is within the limit, and a text is one.
WithinLimit == \A i \in 1..Len(got) :
    /\ Len(got[i].data) <= ReadLimit
    /\ got[i].op \in {"text", "bin"}
    /\ got[i].op = "text" => ValidText(got[i].data)

\* ReadMessage returns the messages the peer sent, each whole, in order and
\* within the limit, whatever control frames stood between their fragments; it
\* misses at most the one it failed on.
Reassembled ==
    LET want == Messages(Read) IN
    /\ IsPrefix(got, want)
    /\ Len(got) < Len(want) => reader # Reads /\ Len(got) + 1 = Len(want)
    /\ WithinLimit

\* The close is said at most once however many goroutines say it, and a reader
\* that stopped for what the peer sent has said it, unless the socket is down or
\* a caller's reason was too long.
CloseSaid ==
    LET said == {i \in 1..Len(out) : out[i].op = "close"}
    IN /\ \A i, j \in said : i = j
       /\ (reader \notin {Reads, Down} /\ \A c \in Callers : pending[c] = Idle) =>
             said # {} \/ closed \/ broken \/ refused

\* Every ping is answered once with its own payload, in order, and the close is
\* said as it should.
HandshakeKept ==
    LET pings == SelectSeq(Read, LAMBDA f : f.op = "ping" /\ readFrame(f) = 0)
        pongs == SelectSeq(out, LAMBDA f : f.op = "pong")
    IN /\ Len(pongs) <= Len(pings)
       /\ \A i \in 1..Len(pongs) : pongs[i].data = pings[i].data
       /\ (reader = Reads /\ ~closed /\ ~broken) => Len(pongs) = Len(pings)
       /\ CloseSaid

\* A payload: plain characters, and the halves of one that takes two.
Payload == Seq({"a", "h1", "h2"})

WsTypeOK ==
    /\ wire \in Seq(Frames) /\ closed \in BOOLEAN /\ broken \in BOOLEAN
    /\ closeSent \in BOOLEAN /\ refused \in BOOLEAN
    /\ frag \in [op : {"none", "text", "bin"}, buf : Payload] /\ Len(frag.buf) <= ReadLimit
    /\ frag # NoFrag => frag.op # "none"
    /\ got \in Seq([op : {"text", "bin"}, data : Payload])
    /\ out \in Seq([op : {"bin", "pong", "close"}, code : Nat, data : Payload])
    /\ pending \in [Callers -> [code : Nat, text : Payload]]

ClosesAt(i) == i \in 1..Len(out) /\ out[i].op = "close"
Pends(c)    == c \in Callers /\ pending[c] # Idle

\* One caller at most is between the mark and the frame, and only when there is
\* no frame yet.
CloseOwned ==
    /\ (\E c \in Callers : Pends(c)) \/ (\E i \in 1..Len(out) : ClosesAt(i)) => closeSent
    /\ \A c, d \in Callers : Pends(c) /\ Pends(d) => c = d
    /\ \A c \in Callers : \A i \in 1..Len(out) : ~(Pends(c) /\ ClosesAt(i))
    /\ \A i, j \in 1..Len(out) : ClosesAt(i) /\ ClosesAt(j) => i = j
    /\ closeSent => \/ \E c \in Callers : Pends(c)
                    \/ \E i \in 1..Len(out) : ClosesAt(i)
                    \/ closed \/ broken \/ refused

\* The inductive invariant behind CloseSaid and WithinLimit.
WsInv ==
    /\ WsTypeOK /\ WithinLimit /\ CloseOwned
    /\ reader \notin {Reads, Down} => closeSent
===========================================================================
