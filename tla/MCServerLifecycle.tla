------------------------- MODULE MCServerLifecycle -------------------------
(* Instances of ServerLifecycle for TLC: a server with one group and one    *)
(* subscriber on a machine with two addresses.                              *)
EXTENDS ServerLifecycle
============================================================================
