------------------------------ MODULE MCPure ------------------------------
(***************************************************************************)
(* The routing tree under every sequence of changes, and, as initial       *)
(* states of their own, the inputs of the pure functions: messages and     *)
(* streams for the codec, services for the consul tags, requests for the  *)
(* CORS and CSRF middlewares, words, documents and key sets for the        *)
(* configuration's text functions.                                         *)
(***************************************************************************)
EXTENDS RoutingTree, TLC

CONSTANTS Magic, MaxMessageLength

VARIABLE probe      \* the input of a pure function, or what = "tree"

Text == INSTANCE ConfigText
Tags == INSTANCE ConsulTags
Guard == INSTANCE Guards
Codec == INSTANCE MessageCodec WITH ServicePath <- <<1>>, ServiceMethod <- <<2>>

Upto(S, n) == UNION {[1 .. k -> S] : k \in 0 .. n}

---------------------------------------------------------------------------
(* Inputs of the codec.                                                    *)

Bom(s) == <<Magic, 16, 64, s, 3>>
Headers == UNION {[K -> Upto({0, 1}, 1)] : K \in SUBSET {<<1>>, <<2>>, <<>>, <<0, 2>>}}
Messages == [bom : {Bom(1)}, path : Upto({0, 2}, 2), header : Headers,
             payload : {<<>>, <<1>>, <<2, 0, 1>>}]
Streams == {Bom(0) \o <<Len(b)>> \o b : b \in Upto({0, 1, 2, 5}, 6)}
             \cup {Bom(0) \o <<l>> \o <<0, 0, 0, 0, 0>> : l \in 0 .. 7}
             \cup {SubSeq(Bom(0), 1, n) : n \in 0 .. 5} \cup {<<Magic + 1>>}
             \cup {Bom(0) \o <<Len(b)>> \o b : b \in
                      {<<0, 0, 0, 6>> \o m \o <<0>> : m \in [1 .. 6 -> {0, 1, 2}]}}

---------------------------------------------------------------------------
(* Inputs of the text functions.                                           *)

Words == Upto({"a", "b"}, 4)
Leaf(kind) == [kind |-> kind, text |-> "k", items |-> <<>>]
Entries(S) == {<<[key |-> "k", val |-> v]>> : v \in S}
                \cup {<<[key |-> "k", val |-> v], [key |-> "m", val |-> w]>> : v, w \in S}
Object(S) == {[kind |-> "object", text |-> "", items |-> es] : es \in Entries(S) \cup {<<>>}}
Flat == {Leaf("str"), Leaf("num")}
Arrays == {[kind |-> "array", text |-> "", items |-> its] :
             its \in {<<>>, <<Leaf("str"), Leaf("num")>>} \cup {<<o>> : o \in Object(Flat)}}
Docs == Object(Object(Flat) \cup Arrays \cup Flat)
          \cup Object(Object(Object(Flat)))

A == <<"a">>
B == <<"b">>
Keys == {<<A>>, <<A, A>>, <<A, B>>, <<A, A, B>>, <<B, A>>, <<A, B, A>>, <<B>>, <<B, B>>}
KeySets == {K \in SUBSET Keys : Cardinality(K) <= 2}
---------------------------------------------------------------------------
(* Inputs of the tags and of the middlewares.                              *)

Foreign == {<<>>, <<Tags!Tag("x", "-", Tags!Plain("y"))>>,
            <<Tags!Tag("v", "9", Tags!Plain("y")), Tags!Tag("y", "-", Tags!Plain("y"))>>}
Metadata == UNION {[K -> {"y", "z"}] : K \in SUBSET {"p", "q"}}

Origins == {"a", "b"}
CorsConfigs == [origins : SUBSET (Origins \cup {"*"}), credentials : BOOLEAN,
                headers : {"none", "h"}, expose : BOOLEAN]
CorsRequests == [http : BOOLEAN, origin : Origins \cup {"none"},
                 method : {"GET", "OPTIONS", "PUT"}, asks : BOOLEAN, wants : {"none", "w"}]
CsrfRequests == [http : BOOLEAN, skip : BOOLEAN, method : {"GET", "POST"},
                 cookie : {"none", "t"}, header : {"none", "t", "u"}, form : {"none", "t", "u"}]

ProbeIdle == probe = [what |-> "tree"]

ProbeInit ==
    \/ ProbeIdle
    \/ \E m \in Messages, more \in {<<>>, <<0, Magic>>} :
          probe = [what |-> "message", m |-> m, more |-> more]
    \/ \E s \in Streams : probe = [what |-> "stream", s |-> s]
    \/ \E b \in {0, 5, 16, 33, 78, 129, 255}, x \in 0 .. 17 :
          probe = [what |-> "flags", byte |-> b, x |-> x]
    \/ \E en \in Upto({"f", "g"}, 2), md \in Metadata, v \in {"1", "2"}, f \in Foreign :
          probe = [what |-> "tags", en |-> en, md |-> md, v |-> v, foreign |-> f]
    \/ \E c \in CorsConfigs, r \in CorsRequests : probe = [what |-> "cors", cfg |-> c, r |-> r]
    \/ \E r \in CsrfRequests, f \in BOOLEAN, t \in {"none", "n"} :
          probe = [what |-> "csrf", r |-> r, useForm |-> f, fresh |-> t]
    \/ \E a, b \in Words : probe = [what |-> "words", a |-> a, b |-> b]
    \/ \E d \in Docs : probe = [what |-> "doc", doc |-> d]
    \/ \E F, K, S \in KeySets :
          probe = [what |-> "keys", file |-> F, known |-> K,
                   sections |-> {s \in S : Len(s) <= 2}]

vars == <<treeVars, probe>>

Init == TreeInit /\ ProbeInit
Next == probe.what = "tree" /\ TreeNext /\ UNCHANGED probe
Spec == Init /\ [][Next]_vars

---------------------------------------------------------------------------
(* The properties of the pure functions; the tree's are in RoutingTree.    *)

\* A message decodes to what was encoded, any bytes decode to an error or to
\* a message that says the same when it is sent on, the flags of the Bom do
\* not disturb each other, and consul's tags give the service back.
CodecRight ==
    /\ probe.what = "message" => Codec!RoundTrip(probe.m, probe.more)
    /\ probe.what = "stream" => Codec!Stable(probe.s)
    /\ probe.what = "tags" => Tags!TagsRight(probe.en, probe.md, probe.v, probe.foreign)
    /\ probe.what = "flags" => Codec!FieldsApart(probe.byte, probe.x)

\* Every value of the file is found, at its own name; the distance of two
\* words is the least number of edits; and a key nobody declared is told of
\* just once, by Lint or by the report.
TextRight ==
    /\ probe.what = "doc" => Text!LeavesPlaced(probe.doc)
    /\ probe.what = "words" => Text!editDistance(probe.a, probe.b) = Text!Edits(probe.a, probe.b)
    /\ probe.what = "keys" => Text!LintApart(probe.file, probe.sections, probe.known)

\* What the CORS and the CSRF middleware let through, to whom, and what they
\* stop (Guards).
GuardsRight ==
    /\ probe.what = "cors" => Guard!CorsRight(probe.cfg, probe.r)
    /\ probe.what = "csrf" => Guard!CsrfRight(probe.r, probe.useForm, probe.fresh)
===========================================================================
