-------------------------- MODULE MemoryBroker ---------------------------
(***************************************************************************)
(* The memory broker (broker/memory/memory.go) on one topic.  Publish      *)
(* takes the slice of subscribers under the lock and calls the handlers    *)
(* without it, while others subscribe and unsubscribe: the slice it walks  *)
(* may share its array with the broker's, so arrays are modelled.          *)
(***************************************************************************)
EXTENDS Naturals, Sequences, Functions

CONSTANTS
    Subscribers,
    Publishers,
    MaxChanges      \* subscriptions taken and given up

VARIABLES
    connected,
    slice,          \* Subscribers[topic]: [array, len]
    arrays,         \* array -> its slots, len(arrays[a]) of them
    changes,
    pub,            \* publisher -> [pc, slice, next]
    ran,            \* publisher -> handlers called, in order
    found           \* publisher -> subscribers there were when it took the slice

memBrokerVars == <<connected, slice, arrays, changes, pub, ran, found>>

Free   == "free"
Quiet  == [pc |-> "idle", slice |-> [array |-> 1, len |-> 0], next |-> 1]

MemBrokerInit ==
    /\ connected = FALSE
    /\ slice = [array |-> 1, len |-> 0] /\ arrays = <<<<>>>> /\ changes = 0
    /\ pub = [p \in Publishers |-> Quiet]
    /\ ran = [p \in Publishers |-> <<>>] /\ found = [p \in Publishers |-> <<>>]

Elements(s) == SubSeq(arrays[s.array], 1, s.len)

Start ==
    /\ ~connected /\ connected' = TRUE
    /\ UNCHANGED <<slice, arrays, changes, pub, ran, found>>

Close ==
    /\ connected /\ connected' = FALSE
    /\ UNCHANGED <<slice, arrays, changes, pub, ran, found>>

\* A new array with these elements and the room the runtime gives it.
NewArray(elements) == \E room \in 0..slice.len :
    /\ arrays' = Append(arrays, elements \o [i \in 1..room |-> Free])
    /\ slice' = [array |-> Len(arrays) + 1, len |-> Len(elements)]

\* append: into the array when it has room, else into a new one.
Subscribe(s) ==
    /\ connected /\ s \notin Range(Elements(slice))
    /\ changes < MaxChanges /\ changes' = changes + 1
    /\ IF slice.len < Len(arrays[slice.array])
       THEN /\ arrays' = [arrays EXCEPT ![slice.array][slice.len + 1] = s]
            /\ slice' = [slice EXCEPT !.len = @ + 1]
       ELSE NewArray(Append(Elements(slice), s))
    /\ UNCHANGED <<connected, pub, ran, found>>

\* The elements of the slice but for s, which is there once.
Without(s) ==
    LET at == CHOOSE i \in 1..slice.len : Elements(slice)[i] = s
    IN [i \in 1..(slice.len - 1) |-> Elements(slice)[IF i < at THEN i ELSE i + 1]]

\* Mutated form: the ones after it move up in the same array.
UnsubscribeInPlace(s) ==
    /\ s \in Range(Elements(slice))
    /\ changes < MaxChanges /\ changes' = changes + 1
    /\ slice' = [slice EXCEPT !.len = @ - 1]
    /\ arrays' = [arrays EXCEPT ![slice.array] =
           [i \in 1..Len(@) |-> IF i < slice.len THEN Without(s)[i] ELSE @[i]]]
    /\ UNCHANGED <<connected, pub, ran, found>>

\* Unsubscribe: the others are copied to a new array.
Unsubscribe(s) ==
    /\ s \in Range(Elements(slice))
    /\ changes < MaxChanges /\ changes' = changes + 1
    /\ NewArray(Without(s))
    /\ UNCHANGED <<connected, pub, ran, found>>

\* Publish: refused while the broker is closed, else the slice is taken.
Publish(p) ==
    /\ pub[p].pc = "idle" /\ connected
    /\ pub' = [pub EXCEPT ![p] = [pc |-> "call", slice |-> slice, next |-> 1]]
    /\ found' = [found EXCEPT ![p] = Elements(slice)]
    /\ UNCHANGED <<connected, slice, arrays, changes, ran>>

\* Mutated form: the first handler that fails or panics ends the walk.
CallHandlerStops(p) ==
    /\ pub[p].pc = "call" /\ pub[p].next <= pub[p].slice.len
    /\ ran' = [ran EXCEPT ![p] = Append(@, Elements(pub[p].slice)[pub[p].next])]
    /\ pub' = [pub EXCEPT ![p].next = pub[p].slice.len + 1]
    /\ UNCHANGED <<connected, slice, arrays, changes, found>>

\* dispatch: an error or a panic of the handler is kept for the caller, and the
\* walk goes on either way.
CallHandler(p) ==
    /\ pub[p].pc = "call" /\ pub[p].next <= pub[p].slice.len
    /\ ran' = [ran EXCEPT ![p] = Append(@, Elements(pub[p].slice)[pub[p].next])]
    /\ pub' = [pub EXCEPT ![p].next = @ + 1]
    /\ UNCHANGED <<connected, slice, arrays, changes, found>>

PublishEnds(p) ==
    /\ pub[p].pc = "call" /\ pub[p].next > pub[p].slice.len
    /\ pub' = [pub EXCEPT ![p] = Quiet]
    /\ ran' = [ran EXCEPT ![p] = <<>>] /\ found' = [found EXCEPT ![p] = <<>>]
    /\ UNCHANGED <<connected, slice, arrays, changes>>

MemBrokerNext ==
    \/ Start \/ Close
    \/ \E s \in Subscribers : Subscribe(s) \/ Unsubscribe(s)
    \/ \E p \in Publishers : Publish(p) \/ CallHandler(p) \/ PublishEnds(p)

MemBrokerSpec == MemBrokerInit /\ [][MemBrokerNext]_memBrokerVars

---------------------------------------------------------------------------
(* Properties                                                              *)

\* Publish, Subscribe, Unsubscribe: when a publisher has come to the end of its
\* slice it has called, once each and in order, the handlers of those that were
\* subscribed when it began, whoever came and went meanwhile, in a handler too.
FanOut == \A p \in Publishers :
    pub[p].pc = "call" /\ pub[p].next > pub[p].slice.len => ran[p] = found[p]

Slots == Subscribers \cup {Free}
IsSlice(t) == t.array \in 1..Len(arrays) /\ t.len \in 0..Len(arrays[t.array])

MemBrokerTypeOK ==
    /\ arrays \in Seq(Seq(Slots))
    /\ slice \in [array : Nat, len : Nat] /\ IsSlice(slice)
    /\ pub \in [Publishers -> [pc : {"idle", "call"}, slice : [array : Nat, len : Nat], next : Nat]]
    /\ ran \in [Publishers -> Seq(Slots)] /\ found \in [Publishers -> Seq(Slots)]

\* A publisher's slice is never longer than the broker's in the same array, which
\* only grows at its end: what the publisher walks is what it found.
Walks(p) ==
    /\ IsSlice(pub[p].slice)
    /\ pub[p].slice.array = slice.array => pub[p].slice.len <= slice.len
    /\ found[p] = Elements(pub[p].slice)
    /\ pub[p].next \in 1..(pub[p].slice.len + 1)
    /\ ran[p] = SubSeq(found[p], 1, pub[p].next - 1)

\* The inductive invariant behind FanOut.
MemBrokerInv ==
    /\ MemBrokerTypeOK
    /\ \A p \in Publishers : IF pub[p].pc = "call" THEN Walks(p) ELSE ran[p] = <<>>
==========================================================================
