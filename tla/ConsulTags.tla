---------------------------- MODULE ConsulTags -----------------------------
(***************************************************************************)
(* A service's endpoints, metadata and version as consul tags              *)
(* (registry/consul/encoding.go).  A tag is a record [kind, form, text]:   *)
(* its first letter, its second one, and what follows.  The form "-" is    *)
(* compressed and in hex, so that its text is a record Packed(x); "=" is   *)
(* the old plain form; a text that does not unpack or is no JSON is Junk.  *)
(***************************************************************************)
EXTENDS Naturals, FiniteSets, Sequences, SequencesExt

Junk == [json |-> FALSE, val |-> ""]
Json(x) == [json |-> TRUE, val |-> x]
Packed(x) == [packed |-> TRUE, of |-> x]
Plain(x) == [packed |-> FALSE, of |-> x]

\* encode compresses, decode unpacks: what is not packed decodes to nothing.
encode(x) == Packed(x)
decode(t) == IF t.packed THEN t.of ELSE Junk

Tag(kind, form, text) == [kind |-> kind, form |-> form, text |-> text]

encodeEndpoints(en) == [i \in 1..Len(en) |-> Tag("e", "-", encode(Json(en[i])))]

\* One tag per entry of the map, in some order.
encodeMetadata(md) ==
    LET keys == SetToSeq(DOMAIN md)
    IN [i \in 1..Len(keys) |-> Tag("t", "-", encode(Json([k |-> keys[i], v |-> md[keys[i]]])))]

encodeVersion(v) == <<Tag("v", "-", encode(Json(v)))>>

---------------------------------------------------------------------------
\* What a tag of either form holds; of an unknown form, nothing.
Content(t) ==
    IF t.form = "-" THEN decode(t.text)
    ELSE IF t.form = "=" /\ ~t.text.packed THEN t.text.of ELSE Junk

\* As if the tags of both forms were read.
OfKindAnyForm(tags, kind) == SelectSeq(tags, LAMBDA t : t.kind = kind)

\* The tags of a kind that are read: those of the form that is met first.
OfKind(tags, kind) ==
    LET all == SelectSeq(tags, LAMBDA t : t.kind = kind)
    IN SelectSeq(all, LAMBDA t : t.form = all[1].form)

\* The values of a kind, in order; what does not parse is passed over.
Values(tags, kind) ==
    LET some == SelectSeq(OfKind(tags, kind), LAMBDA t : Content(t).json)
    IN [i \in 1..Len(some) |-> Content(some[i]).val]

decodeEndpoints(tags) == Values(tags, "e")

decodeMetadata(tags) ==
    LET kvs == Values(tags, "t")
        last(k) == CHOOSE i \in 1..Len(kvs) : kvs[i].k = k /\
                       \A j \in 1..Len(kvs) : kvs[j].k = k => j <= i
    IN [k \in {kvs[i].k : i \in 1..Len(kvs)} |-> kvs[last(k)].v]

\* The version of the first tag in a form that is known, and whether there is one.
decodeVersion(tags) ==
    LET some == SelectSeq(tags, LAMBDA t : t.kind = "v" /\ t.form \in {"=", "-"})
    IN IF some = <<>> THEN [ok |-> FALSE, v |-> ""]
       ELSE [ok |-> TRUE, v |-> Content(some[1]).val]

---------------------------------------------------------------------------
\* The same service in the old form.
Old(tags) == [i \in 1..Len(tags) |->
    [tags[i] EXCEPT !.form = "=", !.text = Plain(tags[i].text.of)]]

\* A service is read back as it was registered, whichever of the two forms, or
\* both, its tags have, in whichever order the kinds come, and whatever tags
\* of other kinds stand among them.
TagsRight(en, md, v, foreign) ==
    LET new == encodeMetadata(md) \o encodeEndpoints(en) \o encodeVersion(v)
        right(tags) == /\ decodeEndpoints(tags) = en
                       /\ decodeMetadata(tags) = md
                       /\ decodeVersion(tags) = [ok |-> TRUE, v |-> v]
    IN /\ right(foreign \o new) /\ right(new \o Old(new))
       /\ right(Old(new) \o foreign \o new)
       /\ right(encodeVersion(v) \o encodeEndpoints(en) \o encodeMetadata(md))
===========================================================================
