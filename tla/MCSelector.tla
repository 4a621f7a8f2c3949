---------------------------- MODULE MCSelector ----------------------------
(* Instances of Selector: who provides what.                               *)
EXTENDS Selector, TLC

CONSTANTS n1, n2

MCNodes == {n1, n2}

\* Every service on both nodes.
MCProviders == [s \in Services |-> <<n1, n2>>]

\* One node.
MCOneNode == {n1}
MCOneProvider == [s \in Services |-> <<n1>>]

ClientSymmetry == Permutations(Clients)
===========================================================================
