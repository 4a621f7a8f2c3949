--------------------------- MODULE MessageCodec ----------------------------
(***************************************************************************)
(* The wire format of an RPC message (transport/message.go).  A stream is  *)
(* a sequence of cells: a byte of the Bom, a four-byte length or a byte of *)
(* text is one cell, a number.  Strings are sequences of cells.            *)
(***************************************************************************)
EXTENDS Integers, FiniteSets, Sequences, SequencesExt

LOCAL INSTANCE Bitwise

CONSTANTS
    Magic,              \* MagicNumber
    MaxMessageLength,   \* the longest body Decode accepts
    ServicePath,        \* the header key "ServicePath"
    ServiceMethod       \* the header key "ServiceMethod"

BomLen == 5     \* magic, three bytes of flags, and the sequence number

---------------------------------------------------------------------------
(* The Bom's bit fields; b is the byte the field lives in.                 *)

Version(b)              == b \div 16
SetVersion(b, v)        == (b % 16) + (v % 16) * 16
MessageStatusType(b)    == b % 16
\* As if the status were or-ed into the byte.
SetStatusOr(b, s)       == b | (s % 16)
SetMessageStatusType(b, s) == (b - (b % 16)) + (s % 16)
MessageType(b)          == b \div 64
SetMessageType(b, t)    == (b % 64) + (t % 4) * 64
IsHeartbeat(b)          == (b \div 32) % 2
SetHeartbeat(b, h)      == b - 32 * IsHeartbeat(b) + 32 * h
IsOneway(b)             == (b \div 16) % 2
SetOneway(b, o)         == b - 16 * IsOneway(b) + 16 * o
CompressType(b)         == (b \div 2) % 8
SetCompressType(b, c)   == b - 2 * CompressType(b) + 2 * (c % 8)
\* The serialize type is or-ed into what the byte holds.
SetSerializeType(b, t)  == b | t

---------------------------------------------------------------------------
(* Encoding.                                                               *)

Field(s) == <<Len(s)>> \o s
Value(header, k) == IF k \in DOMAIN header THEN header[k] ELSE <<>>

\* encodeMetadata: the pairs in some order.
encodeMetadata(header) ==
    LET keys == SetToSeq(DOMAIN header)
    IN FlattenSeq([i \in 1..Len(keys) |-> Field(keys[i]) \o Field(header[keys[i]])])

\* As if the length of the method were left out of the total.
EncodeShort(m) ==
    LET body == Field(m.path) \o Field(Value(m.header, ServicePath))
                  \o Field(Value(m.header, ServiceMethod))
                  \o Field(encodeMetadata(m.header)) \o Field(m.payload)
    IN m.bom \o <<Len(body) - Len(Value(m.header, ServiceMethod))>> \o body

Encode(m) ==
    LET body == Field(m.path) \o Field(Value(m.header, ServicePath))
                  \o Field(Value(m.header, ServiceMethod))
                  \o Field(encodeMetadata(m.header)) \o Field(m.payload)
    IN m.bom \o <<Len(body)>> \o body

---------------------------------------------------------------------------
(* Decoding: an error, or what was read.                                   *)

Bad(why) == [ok |-> FALSE, why |-> why]

\* readField: the field at offset n and the offset after it.
readField(data, n) ==
    IF Len(data) - n < 1 THEN Bad("malformed")
    ELSE IF data[n + 1] > Len(data) - (n + 1) THEN Bad("malformed")
    ELSE [ok |-> TRUE, text |-> SubSeq(data, n + 2, n + 1 + data[n + 1]),
          n |-> n + 1 + data[n + 1]]

\* decodeMetadata from offset n: a later pair replaces an earlier one.
RECURSIVE decodeMetadata(_, _, _)
decodeMetadata(data, n, header) ==
    IF n >= Len(data) THEN [ok |-> TRUE, header |-> header]
    ELSE LET k == readField(data, n) IN
         IF ~k.ok THEN k
         ELSE LET v == readField(data, k.n) IN
              IF ~v.ok THEN v
              ELSE decodeMetadata(data, v.n, (k.text :> v.text) @@ header)

\* The five fields of a body, in order; each starts where the last one ended.
Parse(bom, data) ==
    LET path == readField(data, 0)
        sp == readField(data, path.n)
        sm == readField(data, sp.n)
        meta == readField(data, sm.n)
        header == decodeMetadata(meta.text, 0,
                      (ServiceMethod :> sm.text) @@ (ServicePath :> sp.text))
        payload == readField(data, meta.n)
    IN IF ~path.ok THEN path
       ELSE IF ~sp.ok THEN sp
       ELSE IF ~sm.ok THEN sm
       ELSE IF ~meta.ok THEN meta
       ELSE IF ~header.ok THEN header
       ELSE IF ~payload.ok THEN payload
       ELSE [ok |-> TRUE,
             m |-> [bom |-> bom, path |-> path.text, header |-> header.header,
                    payload |-> payload.text]]

\* Decode: the stream may end anywhere.
Decode(stream) ==
    IF stream = <<>> THEN Bad("eof")
    ELSE IF stream[1] # Magic THEN Bad("magic")
    ELSE IF Len(stream) <= BomLen THEN Bad("eof")
    ELSE LET l == stream[BomLen + 1]
             rest == SubSeq(stream, BomLen + 2, Len(stream))
         IN IF l > MaxMessageLength THEN Bad("too long")
            ELSE IF Len(rest) < l THEN Bad("unexpected eof")
            ELSE Parse(SubSeq(stream, 1, BomLen), SubSeq(rest, 1, l))

---------------------------------------------------------------------------
(* What the codec promises.                                                *)

\* A message that is sent and read is the message, with the two service keys
\* added when it had none; and nothing else of the stream is read.
RoundTrip(m, more) ==
    Decode(Encode(m) \o more) =
        IF Len(Encode(m)) - BomLen - 1 > MaxMessageLength THEN Bad("too long")
        ELSE [ok |-> TRUE,
              m |-> [m EXCEPT !.header =
                        @ @@ (ServicePath :> <<>>) @@ (ServiceMethod :> <<>>)]]

\* Whatever bytes arrive, Decode answers, reads nothing outside the body, and
\* sending on what it read says the same.
Stable(stream) ==
    LET d == Decode(stream) IN
    d.ok => LET again == Decode(Encode(d.m)) IN
            again = d \/ again = Bad("too long")

\* Setting one field of the flags leaves the others as they are.
FieldsApart(b, x) ==
    /\ Version(SetVersion(b, x)) = x % 16
    /\ MessageStatusType(SetVersion(b, x)) = MessageStatusType(b)
    /\ MessageStatusType(SetMessageStatusType(b, x)) = x % 16
    /\ Version(SetMessageStatusType(b, x)) = Version(b)
    /\ LET fields(c) == <<MessageType(c), IsHeartbeat(c), IsOneway(c), CompressType(c)>>
       IN /\ fields(SetMessageType(b, x)) = [fields(b) EXCEPT ![1] = x % 4]
          /\ fields(SetHeartbeat(b, x % 2)) = [fields(b) EXCEPT ![2] = x % 2]
          /\ fields(SetOneway(b, x % 2)) = [fields(b) EXCEPT ![3] = x % 2]
          /\ fields(SetCompressType(b, x)) = [fields(b) EXCEPT ![4] = x % 8]
    /\ SetSerializeType(0, x) = x
===========================================================================
