------------------------- MODULE RegistryPromise -------------------------
(***************************************************************************)
(* What a registry back end promises the owner of a node                   *)
(* (registry.IRegistry), whatever it is built on: a node that the owner    *)
(* wants registered and that the back end has confirmed is found by every  *)
(* lookup until the owner leaves, or until it has not been renewed for a   *)
(* whole time to live.  EtcdRegistry, MemoryRegistry and MdnsRegistry are  *)
(* shown to implement this specification.                                  *)
(***************************************************************************)
CONSTANT Nodes

\* node -> [want, visible, age]: the owner has asked for it and has not left;
\* a lookup returns it; "fresh" or "due" while it is confirmed, else "out".
VARIABLE st

PInit == st = [n \in Nodes |-> [want |-> FALSE, visible |-> FALSE, age |-> "out"]]

\* Register is called, and may have written the node before it returns.
Ask(a, b)     == b = [a EXCEPT !.want = TRUE]
Publish(a, b) == a.want /\ b = [a EXCEPT !.visible = TRUE]

\* The back end knows the node as the owner's, or has renewed it.
Confirm(a, b) == b.want /\ b.visible /\ b.age \in {"fresh", "due"}

\* Another content is asked for: the old one is not confirmed any more.
Reask(a, b)   == a.want /\ b = [a EXCEPT !.age = "out"]

\* Deregister is called, or the owner dies.
Depart(a, b)  == ~b.want /\ b.age = "out" /\ (b.visible => a.visible)

\* What is not confirmed may go; what is confirmed goes by lapse of time only.
Vanish(a, b)  == a.age = "out" /\ b = [a EXCEPT !.visible = FALSE]
FallDue(a, b) == a.age = "fresh" /\ b = [a EXCEPT !.age = "due"]
Lapse(a, b)   == a.age = "due" /\ b = [a EXCEPT !.age = "out", !.visible = FALSE]

Allowed(a, b) ==
    \/ b = a \/ Ask(a, b) \/ Publish(a, b) \/ Confirm(a, b) \/ Reask(a, b)
    \/ Depart(a, b) \/ Vanish(a, b) \/ FallDue(a, b) \/ Lapse(a, b)

PNext == \A n \in Nodes : Allowed(st[n], st'[n])

PSpec == PInit /\ [][PNext]_st
==========================================================================
