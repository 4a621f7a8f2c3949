----------------------------- MODULE MCRpcCall -----------------------------
(* The instance of RpcCall for TLC: its constants are all in the cfg.       *)
EXTENDS RpcCall
============================================================================
