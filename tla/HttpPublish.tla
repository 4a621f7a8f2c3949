--------------------------- MODULE HttpPublish ---------------------------
(***************************************************************************)
(* Publish of the HTTP broker (broker/http/http.go) on one topic: the      *)
(* message goes into the inbox, then a goroutine takes a batch out of the  *)
(* inbox - other messages with it - and posts each to the subscribers that *)
(* were registered when its Publish began.  What cannot be posted goes     *)
(* back into the inbox.                                                    *)
(***************************************************************************)
EXTENDS Naturals, Sequences, FiniteSets, Functions

CONSTANTS
    Publishers,     \* publishers; each publishes the message of its name, once
    Nodes,          \* subscribers' nodes
    Queue,          \* nodes of the queue group; the others are broadcast to
    InboxSize,      \* length of the inbox, 64 in the code
    Batch,          \* messages taken at a time, 8 in the code
    MaxFaults

VARIABLES
    subs,           \* nodes registered for the topic
    inbox,
    pub,            \* publisher -> [pc, nodes, batch, groups]
    got,            \* message -> nodes whose handler has run for it
    full,           \* messages the inbox had no room for
    nobody,         \* <<message, group>>: the group had no node when the message was posted
    faults

publishVars == <<subs, inbox, pub, got, full, nobody, faults>>

Groups == {"queue", "broadcast"}
Members(g) == IF g = "queue" THEN Queue ELSE Nodes \ Queue

Idle == [pc |-> "idle", nodes |-> {}, batch |-> <<>>, groups |-> {}]

PublishInit ==
    /\ subs = {} /\ inbox = <<>> /\ pub = [p \in Publishers |-> Idle]
    /\ got = [m \in Publishers |-> {}] /\ full = {} /\ nobody = {} /\ faults = 0

\* Mutated form: the oldest message makes room, and nobody notes it.
saveMessageDropsOld(m) ==
    /\ inbox' = IF Len(inbox) = InboxSize THEN Append(Tail(inbox), m) ELSE Append(inbox, m)
    /\ UNCHANGED full

\* saveMessage: the message that does not fit is dropped.
saveMessage(m) ==
    IF Len(inbox) = InboxSize THEN full' = full \cup {m} /\ UNCHANGED inbox
    ELSE inbox' = Append(inbox, m) /\ UNCHANGED full

Subscribe(n) ==
    /\ subs' \in {subs \cup {n}, subs \ {n}} /\ subs' # subs
    /\ UNCHANGED <<inbox, pub, got, full, nobody, faults>>

Publish(p) ==
    /\ pub[p].pc = "idle"
    /\ saveMessage(p)
    /\ pub' = [pub EXCEPT ![p].pc = "lookup"]
    /\ UNCHANGED <<subs, got, nobody, faults>>

\* GetService; when it fails Publish returns the error, and the message stays
\* in the inbox for another Publish.
Lookup(p) ==
    /\ pub[p].pc = "lookup"
    /\ \/ pub' = [pub EXCEPT ![p].pc = "take", ![p].nodes = subs] /\ UNCHANGED faults
       \/ pub' = [pub EXCEPT ![p].pc = "done"] /\ faults < MaxFaults /\ faults' = faults + 1
    /\ UNCHANGED <<subs, inbox, got, full, nobody>>

\* getMessage
Taken == SubSeq(inbox, 1, IF Len(inbox) < Batch THEN Len(inbox) ELSE Batch)

\* Mutated form: the inbox is emptied whatever was taken.
TakeAll(p) ==
    /\ pub[p].pc = "take"
    /\ pub' = [pub EXCEPT ![p] = [@ EXCEPT !.pc = "post", !.batch = Taken, !.groups = Groups]]
    /\ inbox' = <<>>
    /\ UNCHANGED <<subs, got, full, nobody, faults>>

Take(p) ==
    /\ pub[p].pc = "take"
    /\ pub' = [pub EXCEPT ![p] = [@ EXCEPT !.pc = "post", !.batch = Taken, !.groups = Groups]]
    /\ inbox' = SubSeq(inbox, Len(Taken) + 1, Len(inbox))
    /\ UNCHANGED <<subs, got, full, nobody, faults>>

\* The first message of the batch is posted to a group.
Group(p, g) ==
    /\ pub[p].pc = "post" /\ pub[p].batch # <<>> /\ g \in pub[p].groups
    /\ pub' = [pub EXCEPT ![p].groups = @ \ {g}]
    /\ UNCHANGED subs

\* Mutated form: a request that fails is not saved again.
PostForgets(p, g) ==
    /\ Group(p, g)
    /\ pub[p].nodes \cap Members(g) # {}
    /\ UNCHANGED <<inbox, got, full, nobody>> /\ faults' = faults

\* srv: to one node of the queue group, to every node otherwise; saved when no
\* request succeeded.  A node that is gone cannot be reached; a request can fail
\* before or after the handler has run.
Post(p, g) ==
    LET m == Head(pub[p].batch)
        there == pub[p].nodes \cap Members(g)
    IN /\ Group(p, g)
       /\ \/ /\ there = {}
             /\ nobody' = nobody \cup {<<m, g>>} /\ UNCHANGED <<inbox, got, full, faults>>
          \/ \E to \in SUBSET there, ran \in SUBSET (there \cap subs) :
               /\ to # {} /\ (g = "queue" => Cardinality(to) = 1) /\ (g # "queue" => to = there)
               /\ ran \subseteq to
               /\ \E ok \in SUBSET ran :
                    /\ got' = [got EXCEPT ![m] = @ \cup ran]
                    /\ faults' = IF ok = to \cap subs THEN faults ELSE faults + 1
                    /\ faults' <= MaxFaults
                    /\ IF ok = {} THEN saveMessage(m) ELSE UNCHANGED <<inbox, full>>
                    /\ UNCHANGED nobody

\* The next message of the batch.
NextMessage(p) ==
    /\ pub[p].pc = "post"
    /\ \/ /\ pub[p].batch # <<>> /\ pub[p].groups = {}
          /\ pub' = [pub EXCEPT ![p].batch = Tail(@), ![p].groups = Groups]
       \/ /\ pub[p].batch = <<>>
          /\ pub' = [pub EXCEPT ![p] = [Idle EXCEPT !.pc = "done"]]
    /\ UNCHANGED <<subs, inbox, got, full, nobody, faults>>

PublishNext ==
    \/ \E n \in Nodes : Subscribe(n)
    \/ \E p \in Publishers :
         \/ Publish(p) \/ Lookup(p) \/ Take(p) \/ NextMessage(p)
         \/ \E g \in Groups : Post(p, g)

PublishSpec == PublishInit /\ [][PublishNext]_publishVars

---------------------------------------------------------------------------
(* Properties                                                              *)

Waits(m, g) ==
    \/ m \in Range(inbox)
    \/ \E p \in Publishers :
         /\ m \in Range(pub[p].batch)
         /\ m = Head(pub[p].batch) => g \in pub[p].groups

\* Publish, saveMessage, getMessage: a message that was published has been
\* handled by a node of each group, or it still waits for that, or the group had
\* no node when it was posted, or the inbox was full: none is lost because the
\* batch of another Publish took it, or because a request failed.
EveryGroupServed == \A m \in Publishers, g \in Groups : pub[m].pc # "idle" =>
    got[m] \cap Members(g) # {} \/ Waits(m, g) \/ <<m, g>> \in nobody \/ m \in full

PublishTypeOK ==
    /\ subs \in SUBSET Nodes /\ inbox \in Seq(Publishers)
    /\ pub \in [Publishers -> [pc : {"idle", "lookup", "take", "post", "done"},
                               nodes : SUBSET Nodes, batch : Seq(Publishers),
                               groups : SUBSET Groups]]
    /\ got \in [Publishers -> SUBSET Nodes]

\* The inductive invariant: a batch is only there while it is posted, so that
\* taking the next one overwrites nothing.
PublishInv ==
    /\ PublishTypeOK
    /\ \A p \in Publishers : pub[p].pc # "post" => pub[p].batch = <<>>
    /\ EveryGroupServed
==========================================================================
