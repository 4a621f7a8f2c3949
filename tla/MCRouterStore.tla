--------------------------- MODULE MCRouterStore ---------------------------
(* Instances of RouterStore: two servers of one process that share a node,  *)
(* one service that is only ours, one that another process offers too, and  *)
(* a process that clashes with our address.                                 *)
EXTENDS RouterStore

CONSTANTS k1, k2, s1, s2, own, far, clash, p1, p2

MCServers  == {k1, k2}
MCSvcOf    == (k1 :> s1) @@ (k2 :> s2)
MCNodeOf   == (k1 :> own) @@ (k2 :> own)
MCServices == {s1, s2}
MCNodes    == {own, far, clash}
MCAddrOf   == (own :> own) @@ (far :> far) @@ (clash :> own)
MCPaths    == {p1, p2}
MCEndpoints  == (s1 :> {p1}) @@ (s2 :> {p1, p2})
============================================================================
