---------------------------- MODULE MCDispatch ----------------------------
(* Instances of Dispatch: a global middleware for both transports, one of   *)
(* the route for RPC only.                                                  *)
EXTENDS Dispatch, TLC

MCGlobal == <<"any">>
MCRoute  == <<"rpc">>

MCCtrl   == <<"own", "skip">>

MCDoes ==
    [any  |-> {"next", "abort"},
     rpc  |-> {"next", "setctx"},
     own  |-> {"next", "panic"},
     main |-> {"panic", "setctx", "respond", "write", "upgrade"}]

DispatchSymmetry ==
    Permutations(Requests) \cup Permutations(Ctxs) \cup Permutations(Rsps)
    \cup Permutations(Insts) \cup Permutations(Discoverers)
===========================================================================
