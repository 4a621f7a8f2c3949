-------------------------- MODULE DispatchProofs --------------------------
(***************************************************************************)
(* Proofs about Dispatch: pooled contexts, responses and handler instances *)
(* have one holder, a request runs its chain in order and once, sees only  *)
(* its own data and does not lose its result.                              *)
(***************************************************************************)
EXTENDS Dispatch, SequenceTheorems, TLAPS

---------------------------------------------------------------------------
(* The parts of the invariant                                              *)

CtxHeld ==
    /\ \A q, p \in Requests : q # p /\ req[q].ctx = req[p].ctx => req[q].ctx = None
    /\ \A n \in Ids : pools[n] # None =>
          /\ \A q \in Requests : req[q].ctx \notin pools[n]
          /\ \A h \in ws : h.ctx \notin pools[n]
          /\ \A m \in Ids : n # m /\ pools[m] # None => pools[n] \cap pools[m] = {}

RspHeld ==
    /\ \A q, p \in Requests : q # p /\ req[q].rsp = req[p].rsp => req[q].rsp = None
    /\ \A q \in Requests : req[q].rsp \notin rspPool
    /\ \A h \in ws : h.rsp \notin rspPool

InstHeld ==
    /\ \A q, p \in Requests : q # p /\ req[q].inst = req[p].inst => req[q].inst = None
    /\ \A n \in DOMAIN stack :
          /\ \A m \in DOMAIN stack : stack[m] = stack[n] => m = n
          /\ \A q \in Requests : req[q].inst # stack[n]

Own(q) == Held(q) /\ Data(q) /\ Runs(q)

LEMMA Parts == DispatchInv =>
    /\ TypeOK /\ CtxHeld /\ RspHeld /\ InstHeld /\ WsInv /\ InstInv /\ ModelInv
    /\ \A q \in Requests : Held(q) /\ Data(q) /\ Runs(q)
  BY DEF DispatchInv, OneHolder, CtxHeld, RspHeld, InstHeld

LEMMA PartsNext ==
    /\ TypeOK' /\ CtxHeld' /\ RspHeld' /\ InstHeld' /\ WsInv' /\ InstInv' /\ ModelInv'
    /\ \A q \in Requests : Own(q)'
    => DispatchInv'
  BY DEF DispatchInv, OneHolder, CtxHeld, RspHeld, InstHeld, Own

---------------------------------------------------------------------------
(* Requests that a step is not about                                       *)

\* What the record of a request may not change, for its invariant to stay.
SameReq(p) ==
    /\ req'[p].pc = req[p].pc /\ req'[p].route = req[p].route
    /\ req'[p].todo = req[p].todo /\ req'[p].ctx = req[p].ctx
    /\ req'[p].rsp = req[p].rsp /\ req'[p].inst = req[p].inst
    /\ req'[p].ran = req[p].ran /\ req'[p].half = req[p].half
    /\ req'[p].said = req[p].said

LEMMA Frame ==
  ASSUME NEW p \in Requests, Own(p), SameReq(p), kind' = kind, ctrl' = ctrl,
         got'[p] = got[p],
         req[p].ctx # None => ctx'[req[p].ctx] = ctx[req[p].ctx],
         req[p].rsp # None => rsp'[req[p].rsp] = rsp[req[p].rsp],
         req[p].inst # None => inst'[req[p].inst] = inst[req[p].inst],
         req[p].ctx # None /\ ~req'[p].stale => pools'[req[p].route.id] # None
  PROVE  Own(p)'
  <1>1. Held(p)'  BY DEF Own, Held, SameReq
  <1>2. Ended(p)' = Ended(p)  BY DEF Ended, SameReq
  <1>3. Data(p)'
    <2>1. req[p].pc = "ctx" /\ kind = "http" => req[p].rsp # None
      BY DEF Own, Held, Served
    <2>2. req[p].ctx # None /\ kind = "http" => req[p].rsp # None
      BY DEF Own, Held, Served
    <2> QED  BY <1>2, <2>1, <2>2 DEF Own, Data, SameReq
  <1>4. Chain' = Chain  BY DEF Chain
  <1>5. req[p].pc = "run" => req[p].inst # None /\ req[p].ctx # None
    BY DEF Own, Held, Served
  <1>6. (Half(p) \/ Torn(p))' = (Half(p) \/ Torn(p))  BY DEF Half, Torn, SameReq
  <1>7. Runs(p)'  BY <1>2, <1>4, <1>5, <1>6 DEF Own, Runs, SameReq
  <1> QED  BY <1>1, <1>3, <1>7 DEF Own

\* What a step of request q leaves as it is.
Aside(q) ==
    /\ kind' = kind /\ ctrl' = ctrl
    /\ \A p \in Requests : p # q => req'[p] = req[p] /\ got'[p] = got[p]
    /\ \A p \in Requests : p # q =>
          /\ req[p].ctx # None => ctx'[req[p].ctx] = ctx[req[p].ctx]
          /\ req[p].rsp # None => rsp'[req[p].rsp] = rsp[req[p].rsp]
          /\ req[p].inst # None => inst'[req[p].inst] = inst[req[p].inst]
    /\ \A n \in Ids : pools[n] # None => pools'[n] # None

LEMMA Others ==
  ASSUME DispatchInv, NEW q \in Requests, Aside(q), NEW p \in Requests, p # q
  PROVE  Own(p)'
  <1>1. Own(p)  BY Parts DEF Own
  <1>2. SameReq(p)  BY DEF Aside, SameReq
  <1>3. ASSUME req[p].ctx # None, ~req'[p].stale  PROVE pools'[req[p].route.id] # None
    <2>1. pools[req[p].route.id] # None  BY <1>1, <1>3 DEF Own, Held, Aside
    <2>2. req[p].route # None  BY <1>1, <1>3 DEF Own, Held
    <2>3. req[p] \in ReqType  BY Parts DEF TypeOK
    <2>4. req[p].route.id \in Ids  BY <2>2, <2>3 DEF ReqType, RouteType
    <2> QED  BY <2>1, <2>4 DEF Aside
  <1> QED  BY <1>1, <1>2, <1>3, Frame DEF Aside

\* Facts about the records of a state that the steps keep needing.
LEMMA Fields ==
  ASSUME TypeOK
  PROVE  /\ \A q \in Requests : req[q] \in ReqType
         /\ \A c \in Ctxs : ctx[c] \in CtxType
         /\ \A s \in Rsps : rsp[s] \in RspType
         /\ \A i \in Insts : inst[i] \in InstType
         /\ \A n \in Ids : pools[n] = None \/ pools[n] \subseteq Ctxs
         /\ \A h \in ws : h.ctx \in Ctxs /\ h.rsp \in Rsps
  BY DEF TypeOK

\* A step that leaves requests, pools and what is in them alone.
LEMMA Unseen ==
  ASSUME DispatchInv,
         UNCHANGED <<kind, ctrl, stack, inst, pools, ctx, rspPool, rsp, ws, req, got>>
  PROVE  /\ CtxHeld' /\ RspHeld' /\ InstHeld' /\ WsInv'
         /\ \A q \in Requests : Own(q)'
  <1>1. CtxHeld'  BY Parts DEF CtxHeld
  <1>2. RspHeld'  BY Parts DEF RspHeld
  <1>3. InstHeld'  BY Parts DEF InstHeld
  <1>4. WsInv'  BY Parts DEF WsInv
  <1>5. ASSUME NEW q \in Requests  PROVE Own(q)'
    <2>1. Own(q)  BY Parts DEF Own
    <2>2. SameReq(q)  BY DEF SameReq
    <2>3. req[q].ctx # None /\ ~req'[q].stale => pools'[req[q].route.id] # None
      BY <2>1 DEF Own, Held
    <2> QED  BY <2>1, <2>2, <2>3, Frame
  <1> QED  BY <1>1, <1>2, <1>3, <1>4, <1>5

\* A route's chain is a sequence of functions.
LEMMA ChainTypes ==
  ASSUME TypeOK
  PROVE  RouteChain \in Seq(Funcs) /\ Chain \in Seq(Funcs)
  <1>1. kind \in Kinds /\ "main" \in Funcs  BY DispatchAssumption DEF TypeOK
  <1>2. PICK g \in Seq(Funcs) : g = buildMiddlewares(GlobalMids, kind)
    BY <1>1, MiddlewareAssumption
  <1>3. PICK m \in Seq(Funcs) : m = buildMiddlewares(RouteMids, kind)
    BY <1>1, MiddlewareAssumption
  <1>4. <<"main">> \in Seq(Funcs) /\ <<>> \in Seq(Funcs)  BY <1>1
  <1>5. PICK f \in Seq(Funcs) : f = IF ctrl THEN filtered ELSE <<>>
    BY <1>4, MiddlewareAssumption
  <1>6. PICK e \in Seq(Funcs) : e = IF ctrl THEN <<>> ELSE <<"main">>  BY <1>4
  <1>7. m \o e \in Seq(Funcs)  OBVIOUS
  <1>8. ((g \o m) \o f) \o <<"main">> \in Seq(Funcs)  BY <1>4
  <1> QED  BY <1>2, <1>3, <1>5, <1>6, <1>7, <1>8 DEF RouteChain, Chain

\* generateHandler up to Store.
LEMMA ModelStep ==
  ASSUME DispatchInv, NEW d \in Discoverers, Model(d)
  PROVE  DispatchInv'
  <1> USE DEF Model, routeVars, poolVars
  <1>1. CtxHeld' /\ RspHeld' /\ InstHeld' /\ WsInv' /\ \A q \in Requests : Own(q)'
    BY Unseen
  <1>2. PICK b \in {"fill", "add"} : disc' = [disc EXCEPT ![d] = b]  OBVIOUS
  <1>3. disc' \in [Discoverers -> {"idle", "fill", "add"}]  BY <1>2, Parts DEF TypeOK
  <1>4. model' = [full |-> FALSE, chain |-> <<>>] \/ (model' = model /\ model # None)
    BY DEF Reuse
  <1>5. model' \in ModelType
    <2>1. <<>> \in Seq(Funcs)  OBVIOUS
    <2>2. [full |-> FALSE, chain |-> <<>>] \in ModelType  BY <2>1 DEF ModelType
    <2> QED  BY <1>4, <2>2, Parts DEF TypeOK
  <1>6. TypeOK'  BY <1>3, <1>5, Parts DEF TypeOK
  <1>7. Chain' = Chain /\ RouteChain' = RouteChain  BY DEF Chain, RouteChain
  <1>8. InstInv'
    <2>1. model' # None /\ model'.full => model'.chain = RouteChain
      BY <1>4, Parts DEF InstInv
    <2> QED  BY <1>7, <2>1, Parts DEF InstInv
  <1>9. model' # None  BY <1>5, DispatchAssumption
  <1>10. ModelInv'  BY <1>9 DEF ModelInv
  <1> QED  BY <1>1, <1>6, <1>8, <1>10, PartsNext

\* generateHandler after Store.
LEMMA FillModelStep ==
  ASSUME DispatchInv, NEW d \in Discoverers, FillModel(d)
  PROVE  DispatchInv'
  <1> USE DEF FillModel, routeVars, poolVars
  <1>1. CtxHeld' /\ RspHeld' /\ InstHeld' /\ WsInv' /\ \A q \in Requests : Own(q)'
    BY Unseen
  <1>2. disc' \in [Discoverers -> {"idle", "fill", "add"}]  BY Parts DEF TypeOK
  <1>3. model' = [full |-> TRUE, chain |-> RouteChain]  BY DEF RouteChain
  <1>4. model' \in ModelType
    <2>1. PICK c \in Seq(Funcs) : c = RouteChain  BY ChainTypes, Parts
    <2>2. [full |-> TRUE, chain |-> c] \in ModelType  BY <2>1 DEF ModelType
    <2> QED  BY <1>3, <2>1, <2>2
  <1>5. TypeOK'  BY <1>2, <1>4, Parts DEF TypeOK
  <1>6. Chain' = Chain /\ RouteChain' = RouteChain  BY DEF Chain, RouteChain
  <1>7. InstInv'  BY <1>3, <1>6, Parts DEF InstInv
  <1>8. model' # None  BY <1>4, DispatchAssumption
  <1>9. ModelInv'  BY <1>8 DEF ModelInv
  <1> QED  BY <1>1, <1>5, <1>7, <1>9, PartsNext

---------------------------------------------------------------------------
(* Routes that are replaced, and pools that let go                         *)

\* Contexts that nobody holds are forgotten, and pools only lose what they have.
LEMMA Shrinks ==
  ASSUME DispatchInv, NEW cs \in SUBSET Ctxs, ctx' = Forget(cs),
         \A q \in Requests : req[q].ctx \notin cs,
         \A q \in Requests : SameReq(q),
         \A n \in Ids : pools'[n] = None \/ pools'[n] = pools[n] \/ pools'[n] = {},
         \A q \in Requests : req[q].ctx # None /\ ~req'[q].stale =>
                               pools'[req[q].route.id] # None,
         UNCHANGED <<kind, ctrl, stack, inst, rspPool, rsp, ws, got>>
  PROVE  /\ CtxHeld' /\ RspHeld' /\ InstHeld' /\ WsInv'
         /\ \A q \in Requests : Own(q)'
         /\ ctx' \in [Ctxs -> CtxType]
  <1>1. CtxHeld'  BY Parts DEF CtxHeld, SameReq
  <1>2. RspHeld'  BY Parts DEF RspHeld, SameReq
  <1>3. InstHeld'  BY Parts DEF InstHeld, SameReq
  <1>4. \A c \in Ctxs : c \notin cs => ctx'[c] = ctx[c]  BY DEF Forget
  <1>5. WsInv'
    <2>1. kind' = "rpc" => ws' = {}  BY Parts DEF WsInv
    <2>2. ASSUME NEW h \in ws, NEW q \in Requests
          PROVE  /\ req'[q].rsp = h.rsp => req'[q].ctx = h.ctx
                 /\ req'[q].ctx = h.ctx => ctx'[h.ctx].hijacked
      <3>1. h.ctx \in Ctxs  BY Parts, Fields
      <3> QED  BY <1>4, <3>1, Parts DEF WsInv, SameReq
    <2> QED  BY <2>1, <2>2 DEF WsInv
  <1>6. ASSUME NEW q \in Requests  PROVE Own(q)'
    <2>1. Own(q)  BY Parts DEF Own
    <2>2. req[q] \in ReqType  BY Parts, Fields
    <2>3. req[q].ctx # None => req[q].ctx \in Ctxs  BY <2>2 DEF ReqType
    <2>4. req[q].ctx # None => ctx'[req[q].ctx] = ctx[req[q].ctx]  BY <1>4, <2>3
    <2> QED  BY <2>1, <2>4, Frame
  <1>7. FreshCtx \in CtxType  BY DEF FreshCtx, CtxType
  <1>8. ctx' \in [Ctxs -> CtxType]
    <2>1. \A c \in Ctxs : (IF c \in cs THEN FreshCtx ELSE ctx[c]) \in CtxType
      BY <1>7, Parts, Fields
    <2> QED  BY <2>1 DEF Forget
  <1> QED  BY <1>1, <1>2, <1>3, <1>5, <1>6, <1>8

\* onRouteReplaced
LEMMA Drops ==
  ASSUME DispatchInv, DropPools(tree),
         UNCHANGED <<kind, ctrl, stack, inst, rspPool, rsp, ws, got>>
  PROVE  /\ CtxHeld' /\ RspHeld' /\ InstHeld' /\ WsInv'
         /\ \A q \in Requests : Own(q)'
         /\ ctx' \in [Ctxs -> CtxType]
         /\ pools' \in [Ids -> {None} \cup SUBSET Ctxs]
         /\ req' \in [Requests -> ReqType]
         /\ \A q \in Requests : SameReq(q)
  <1>1. CASE tree = None
    <2>1. UNCHANGED <<pools, ctx, req>>  BY <1>1 DEF DropPools
    <2>2. CtxHeld' /\ RspHeld' /\ InstHeld' /\ WsInv' /\ \A q \in Requests : Own(q)'
      BY <2>1, Unseen
    <2> QED  BY <2>1, <2>2, Parts DEF TypeOK, SameReq
  <1>2. CASE tree # None
    <2>1. tree \in RouteType  BY <1>2, Parts DEF TypeOK
    <2>2. PICK id \in Ids : id = tree.id  BY <2>1 DEF RouteType
    <2>3. PICK cs \in SUBSET Ctxs : cs = IF pools[id] = None THEN {} ELSE pools[id]
      BY Parts, Fields
    <2>4. /\ pools' = [pools EXCEPT ![id] = None]
          /\ ctx' = Forget(cs)
      BY <1>2, <2>2, <2>3 DEF DropPools
    <2>5. ASSUME NEW q \in Requests
          PROVE  /\ req'[q] \in ReqType /\ SameReq(q)
                 /\ req'[q].stale \/ (req'[q].stale = req[q].stale
                                      /\ (req[q].ctx = None \/ req[q].route.id # id))
      <3>1. req'[q] = IF req[q].ctx # None /\ req[q].route.id = id
                      THEN [req[q] EXCEPT !.stale = TRUE] ELSE req[q]
        BY <1>2, <2>2 DEF DropPools
      <3>2. req[q] \in ReqType  BY Parts, Fields
      <3>3. CASE req[q].ctx # None /\ req[q].route.id = id
        <4>1. req'[q] = [req[q] EXCEPT !.stale = TRUE]  BY <3>1, <3>3
        <4> QED  BY <3>2, <4>1 DEF ReqType, SameReq
      <3>4. CASE ~(req[q].ctx # None /\ req[q].route.id = id)
        <4>1. req'[q] = req[q]  BY <3>1, <3>4
        <4> QED  BY <3>2, <3>4, <4>1 DEF SameReq
      <3> QED  BY <3>3, <3>4
    <2>6. req' \in [Requests -> ReqType]
      <3>1. DOMAIN req' = Requests /\ req' = [q \in Requests |-> req'[q]]
        BY <1>2 DEF DropPools
      <3> QED  BY <3>1, <2>5
    <2>7. pools' \in [Ids -> {None} \cup SUBSET Ctxs]  BY <2>4, Parts DEF TypeOK
    <2>8. \A n \in Ids : pools'[n] = None \/ pools'[n] = pools[n]
      BY <2>4, Parts DEF TypeOK
    <2>9. \A q \in Requests : req[q].ctx \notin cs  BY <2>3, Parts DEF CtxHeld
    <2>10. ASSUME NEW q \in Requests, req[q].ctx # None, ~req'[q].stale
           PROVE  pools'[req[q].route.id] # None
      <3>1. req[q].route.id # id /\ ~req[q].stale  BY <2>5, <2>10
      <3>2. req[q].route # None /\ pools[req[q].route.id] # None
        BY <2>10, <3>1, Parts DEF Held
      <3>3. req[q] \in ReqType  BY Parts, Fields
      <3>4. req[q].route.id \in Ids  BY <3>2, <3>3 DEF ReqType, RouteType
      <3> QED  BY <2>4, <3>1, <3>2, <3>4, Parts DEF TypeOK
    <2>11. /\ CtxHeld' /\ RspHeld' /\ InstHeld' /\ WsInv'
           /\ \A q \in Requests : Own(q)'
           /\ ctx' \in [Ctxs -> CtxType]
      BY <2>4, <2>5, <2>8, <2>9, <2>10, Shrinks
    <2> QED  BY <2>5, <2>6, <2>7, <2>11
  <1> QED  BY <1>1, <1>2

\* The path gets or loses a route: AddRoute, Register, Deregister.
LEMMA RouteStep ==
  ASSUME DispatchInv, DropPools(tree),
         tree' \in RouteType \cup {None}, lastId' \in 0 .. MaxRoutes,
         disc' \in [Discoverers -> {"idle", "fill", "add"}],
         \A d \in Discoverers : disc'[d] # "idle" => disc[d] # "idle",
         tree' # None /\ tree'.handlers # <<>> => model # None,
         UNCHANGED <<kind, ctrl, model, stack, inst, rspPool, rsp, ws, got, panics>>
  PROVE  DispatchInv'
  <1>1. /\ CtxHeld' /\ RspHeld' /\ InstHeld' /\ WsInv'
        /\ \A q \in Requests : Own(q)'
        /\ ctx' \in [Ctxs -> CtxType]
        /\ pools' \in [Ids -> {None} \cup SUBSET Ctxs]
        /\ req' \in [Requests -> ReqType]
        /\ \A q \in Requests : SameReq(q)
    BY Drops
  <1>2. TypeOK'  BY <1>1, Parts DEF TypeOK
  <1>3. Chain' = Chain /\ RouteChain' = RouteChain  BY DEF Chain, RouteChain
  <1>4. InstInv'  BY <1>3, Parts DEF InstInv
  <1>5. ModelInv'  BY <1>1, Parts DEF ModelInv, SameReq
  <1> QED  BY <1>1, <1>2, <1>4, <1>5, PartsNext

LEMMA NewRouteIs ==
  ASSUME TypeOK, NEW hs \in {<<>>, <<"handler">>}, NewRoute(hs)
  PROVE  /\ tree' \in RouteType /\ tree'.handlers = hs
         /\ lastId' \in 0 .. MaxRoutes /\ DropPools(tree)
  <1>1. lastId + 1 \in Ids /\ lastId' \in 0 .. MaxRoutes
    BY DispatchAssumption DEF NewRoute, TypeOK, Ids
  <1>2. PICK n \in Ids : n = lastId + 1  BY <1>1
  <1>3. tree' = [id |-> n, handlers |-> hs]  BY <1>2 DEF NewRoute
  <1>4. tree' \in RouteType /\ tree'.handlers = hs  BY <1>3 DEF RouteType
  <1> QED  BY <1>1, <1>4 DEF NewRoute

LEMMA AddRouteStep ==
  ASSUME DispatchInv, NEW d \in Discoverers, AddRoute(d)
  PROVE  DispatchInv'
  <1>1. model # None  BY Parts DEF AddRoute, ModelInv
  <1>2. /\ tree' \in RouteType
        /\ lastId' \in 0 .. MaxRoutes /\ DropPools(tree)
    BY Parts, NewRouteIs DEF AddRoute
  <1>3. /\ disc' \in [Discoverers -> {"idle", "fill", "add"}]
        /\ \A e \in Discoverers : disc'[e] # "idle" => disc[e] # "idle"
    BY Parts DEF AddRoute, TypeOK
  <1> QED  BY <1>1, <1>2, <1>3, RouteStep DEF AddRoute, handlerVars

LEMMA RegisterStep ==
  ASSUME DispatchInv, Register
  PROVE  DispatchInv'
  <1>1. /\ tree' \in RouteType /\ tree'.handlers = <<>>
        /\ lastId' \in 0 .. MaxRoutes /\ DropPools(tree)
    BY Parts, NewRouteIs DEF Register
  <1>2. UNCHANGED disc /\ disc \in [Discoverers -> {"idle", "fill", "add"}]
    BY Parts DEF Register, TypeOK
  <1> QED  BY <1>1, <1>2, RouteStep DEF Register, handlerVars

LEMMA DeregisterStep ==
  ASSUME DispatchInv, Deregister
  PROVE  DispatchInv'
  <1>1. tree' \in {tree, None} /\ UNCHANGED <<lastId, disc>>  BY DEF Deregister
  <1>2. tree' # None /\ tree'.handlers # <<>> => model # None
    BY <1>1, Parts DEF ModelInv
  <1>3. /\ tree' \in RouteType \cup {None} /\ lastId' \in 0 .. MaxRoutes
        /\ disc' \in [Discoverers -> {"idle", "fill", "add"}]
    BY <1>1, Parts DEF TypeOK
  <1> QED  BY <1>1, <1>2, <1>3, RouteStep DEF Deregister, handlerVars

\* A pool of contexts is emptied.
LEMMA CollectStep ==
  ASSUME DispatchInv, CollectCtxs
  PROVE  DispatchInv'
  <1> USE DEF CollectCtxs, routeVars, handlerVars
  <1>1. PICK n \in Ids : /\ pools[n] \notin {None, {}}
                         /\ pools' = [pools EXCEPT ![n] = {}]
                         /\ ctx' = Forget(pools[n])
    OBVIOUS
  <1>2. PICK cs \in SUBSET Ctxs : cs = pools[n]  BY <1>1, Parts, Fields
  <1>3. \A q \in Requests : req[q].ctx \notin cs  BY <1>1, <1>2, Parts DEF CtxHeld
  <1>4. \A q \in Requests : SameReq(q)  BY DEF SameReq
  <1>5. pools' \in [Ids -> {None} \cup SUBSET Ctxs]  BY <1>1, Parts DEF TypeOK
  <1>6. \A m \in Ids : pools'[m] = pools[m] \/ pools'[m] = {}
    BY <1>1, Parts DEF TypeOK
  <1>7. ASSUME NEW q \in Requests, req[q].ctx # None, ~req'[q].stale
        PROVE  pools'[req[q].route.id] # None
    <2>1. req[q].route # None /\ pools[req[q].route.id] # None
      BY <1>7, Parts DEF Held
    <2>2. req[q] \in ReqType  BY Parts, Fields
    <2>3. req[q].route.id \in Ids  BY <2>1, <2>2 DEF ReqType, RouteType
    <2>4. {} # None  BY DispatchAssumption
    <2> QED  BY <1>6, <2>1, <2>3, <2>4
  <1>8. /\ CtxHeld' /\ RspHeld' /\ InstHeld' /\ WsInv'
        /\ \A q \in Requests : Own(q)'
        /\ ctx' \in [Ctxs -> CtxType]
    <2>1. ctx' = Forget(cs)  BY <1>1, <1>2
    <2> QED  BY <1>3, <1>4, <1>6, <1>7, <2>1, Shrinks
  <1>9. TypeOK'  BY <1>5, <1>8, Parts DEF TypeOK
  <1>10. Chain' = Chain /\ RouteChain' = RouteChain  BY DEF Chain, RouteChain
  <1>11. InstInv'  BY <1>10, Parts DEF InstInv
  <1>12. ModelInv'  BY Parts DEF ModelInv
  <1> QED  BY <1>8, <1>9, <1>11, <1>12, PartsNext

\* A websocket goroutine ends.  No request has what it had taken over.
LEMMA CloseWsStep ==
  ASSUME DispatchInv, CloseWs
  PROVE  DispatchInv'
  <1> USE DEF CloseWs, routeVars, handlerVars
  <1>1. PICK h \in ws : /\ \A q \in Requests : req[q].ctx # h.ctx
                        /\ ws' = ws \ {h}
                        /\ ctx' = Forget({h.ctx})
                        /\ rsp' = [rsp EXCEPT ![h.rsp] = FreshRsp]
    OBVIOUS
  <1>2. h.ctx \in Ctxs /\ h.rsp \in Rsps  BY Parts, Fields
  <1>3. \A q \in Requests : req[q].rsp # h.rsp  BY <1>1, Parts DEF WsInv
  <1>4. \A c \in Ctxs : c # h.ctx => ctx'[c] = ctx[c]  BY <1>1 DEF Forget
  <1>5. ctx' \in [Ctxs -> CtxType]
    <2>1. FreshCtx \in CtxType  BY DEF FreshCtx, CtxType
    <2>2. \A c \in Ctxs : (IF c \in {h.ctx} THEN FreshCtx ELSE ctx[c]) \in CtxType
      BY <2>1, Parts, Fields
    <2> QED  BY <1>1, <2>2 DEF Forget
  <1>6. /\ rsp' \in [Rsps -> RspType]
        /\ \A s \in Rsps : s # h.rsp => rsp'[s] = rsp[s]
    <2>1. FreshRsp \in RspType  BY DEF FreshRsp, RspType
    <2> QED  BY <1>1, <1>2, <2>1, Parts DEF TypeOK
  <1>7. TypeOK'  BY <1>1, <1>5, <1>6, Parts DEF TypeOK
  <1>8. CtxHeld'  BY <1>1, Parts DEF CtxHeld
  <1>9. RspHeld'  BY <1>1, Parts DEF RspHeld
  <1>10. InstHeld'  BY Parts DEF InstHeld
  <1>11. WsInv'
    <2>1. kind' = "rpc" => ws' = {}  BY <1>1, Parts DEF WsInv
    <2>2. ASSUME NEW g \in ws', NEW q \in Requests
          PROVE  /\ req[q].rsp = g.rsp => req[q].ctx = g.ctx
                 /\ req[q].ctx = g.ctx => ctx'[g.ctx].hijacked
      <3>1. g \in ws /\ g.ctx \in Ctxs  BY <1>1, Parts, Fields
      <3> QED  BY <1>1, <1>4, <3>1, Parts DEF WsInv
    <2> QED  BY <2>1, <2>2 DEF WsInv
  <1>12. ASSUME NEW q \in Requests  PROVE Own(q)'
    <2>1. Own(q)  BY Parts DEF Own
    <2>2. req[q] \in ReqType  BY Parts, Fields
    <2>3. /\ req[q].ctx # None => ctx'[req[q].ctx] = ctx[req[q].ctx]
          /\ req[q].rsp # None => rsp'[req[q].rsp] = rsp[req[q].rsp]
      BY <1>1, <1>3, <1>4, <1>6, <2>2 DEF ReqType
    <2>4. SameReq(q)  BY DEF SameReq
    <2>5. req[q].ctx # None /\ ~req'[q].stale => pools'[req[q].route.id] # None
      BY <2>1 DEF Own, Held
    <2> QED  BY <2>1, <2>3, <2>4, <2>5, Frame
  <1>13. Chain' = Chain /\ RouteChain' = RouteChain  BY DEF Chain, RouteChain
  <1>14. InstInv'  BY <1>13, Parts DEF InstInv
  <1>15. ModelInv'  BY Parts DEF ModelInv
  <1> QED  BY <1>7, <1>8, <1>9, <1>10, <1>11, <1>12, <1>14, <1>15, PartsNext

\* The head of a stack and what is behind it.
LEMMA HeadAndTail ==
  ASSUME NEW S, NEW s \in Seq(S), s # <<>>
  PROVE  /\ Head(s) \in S /\ Head(s) = s[1] /\ 1 \in DOMAIN s
         /\ Tail(s) \in Seq(S)
         /\ \A n \in DOMAIN Tail(s) : n + 1 \in DOMAIN s /\ Tail(s)[n] = s[n + 1]
                                      /\ n \in Nat \ {0}
  OBVIOUS

LEMMA VacuumStep ==
  ASSUME DispatchInv, Vacuum
  PROVE  DispatchInv'
  <1> USE DEF Vacuum, routeVars, poolVars
  <1>1. stack \in Seq(Insts) /\ stack # <<>>  BY Parts DEF TypeOK
  <1>2. PICK i \in Insts : i = Head(stack)  BY <1>1, HeadAndTail
  <1>3. inst' = [inst EXCEPT ![i] = Fresh] /\ stack' = Tail(stack)  BY <1>2
  <1>4. /\ i = stack[1] /\ 1 \in DOMAIN stack
        /\ stack' \in Seq(Insts)
        /\ \A n \in DOMAIN stack' : n + 1 \in DOMAIN stack
             /\ stack'[n] = stack[n + 1] /\ n \in Nat \ {0}
    BY <1>1, <1>2, <1>3, HeadAndTail
  <1>5. Fresh \in InstType  BY DEF Fresh, InstType
  <1>6. inst' \in [Insts -> InstType]  BY <1>3, <1>5, Parts DEF TypeOK
  <1>7. TypeOK'  BY <1>4, <1>6, Parts DEF TypeOK
  <1>8. CtxHeld' /\ RspHeld' /\ WsInv'  BY Parts DEF CtxHeld, RspHeld, WsInv
  <1>9. InstHeld'  BY <1>4, Parts DEF InstHeld
  <1>10. \A n \in DOMAIN stack' : stack'[n] # i /\ stack'[n] \in Insts
    BY <1>4, Parts DEF InstHeld
  <1>11. /\ \A j \in Insts : j # i => inst'[j] = inst[j]
         /\ ~inst'[i].full
    BY <1>3, Parts DEF TypeOK, Fresh
  <1>12. Chain' = Chain /\ RouteChain' = RouteChain  BY DEF Chain, RouteChain
  <1>13. InstInv'
    <2>1. \A n \in DOMAIN stack' : inst'[stack'[n]].pos = 0
      BY <1>4, <1>10, <1>11, Parts DEF InstInv
    <2> QED  BY <1>11, <1>12, <2>1, Parts DEF InstInv
  <1>14. ModelInv'  BY Parts DEF ModelInv
  <1>15. ASSUME NEW q \in Requests  PROVE Own(q)'
    <2>1. Own(q)  BY Parts DEF Own
    <2>2. req[q] \in ReqType  BY Parts, Fields
    <2>3. req[q].inst # None => inst'[req[q].inst] = inst[req[q].inst]
      BY <1>4, <1>11, <2>2, Parts DEF ReqType, InstHeld
    <2>4. SameReq(q)  BY DEF SameReq
    <2>5. req[q].ctx # None /\ ~req'[q].stale => pools'[req[q].route.id] # None
      BY <2>1 DEF Own, Held
    <2> QED  BY <2>1, <2>3, <2>4, <2>5, Frame
  <1> QED  BY <1>7, <1>8, <1>9, <1>13, <1>14, <1>15, PartsNext

---------------------------------------------------------------------------
(* The steps of a request                                                  *)

LEMMA ServeStep ==
  ASSUME DispatchInv, NEW q \in Requests, Aside(q), Own(q)',
         TypeOK', CtxHeld', RspHeld', InstHeld', WsInv', InstInv', ModelInv'
  PROVE  DispatchInv'
  <1>1. \A p \in Requests : Own(p)'  BY Others
  <1> QED  BY <1>1, PartsNext

\* The record of one request becomes r.
LEMMA Updated ==
  ASSUME TypeOK, NEW q \in Requests, NEW r \in ReqType, req' = [req EXCEPT ![q] = r]
  PROVE  /\ req' \in [Requests -> ReqType] /\ req'[q] = r
         /\ \A p \in Requests : p # q => req'[p] = req[p]
  BY DEF TypeOK

LEMMA FinishedIs ==
  ASSUME TypeOK, NEW q \in Requests
  PROVE  /\ Finished(q) \in ReqType
         /\ Finished(q).pc = "done" /\ Finished(q).ctx = None /\ Finished(q).rsp = None
         /\ Finished(q).inst = None /\ Finished(q).todo = <<>> /\ Finished(q).route = None
         /\ Finished(q).ran = req[q].ran /\ Finished(q).half = req[q].half
         /\ Finished(q).said = req[q].said
  <1>1. req[q] \in ReqType  BY Fields
  <1>2. NoRequest \in ReqType
    <2>1. <<>> \in Seq(Funcs)  OBVIOUS
    <2> QED  BY <2>1 DEF NoRequest, ReqType
  <1> QED  BY <1>1, <1>2 DEF Finished, ReqType, NoRequest, Served

\* A request that has run nothing yet, and is at none of its functions.
LEMMA NothingRun ==
  ASSUME TypeOK, NEW q \in Requests, kind' = kind, ctrl' = ctrl,
         req'[q].ran = <<>>, req'[q].pc \notin {"run", "put"}
  PROVE  Runs(q)'
  <1>1. Chain' = Chain  BY DEF Chain
  <1>2. Len(Chain) \in Nat  BY ChainTypes
  <1> QED  BY <1>1, <1>2 DEF Runs

\* A request that has not started has nothing.
LEMMA NewHasNothing ==
  ASSUME DispatchInv, NEW q \in Requests, req[q].pc = "new"
  PROVE  /\ req[q].ctx = None /\ req[q].rsp = None /\ req[q].inst = None
         /\ req[q].said = {} /\ req[q].ran = <<>>
  BY Parts DEF Held, Data, Runs, Served

\* None is nobody's: in no pool, on no stack, with no websocket.
LEMMA NoneIsFree ==
  ASSUME TypeOK
  PROVE  /\ \A n \in Ids : pools[n] # None => None \notin pools[n]
         /\ None \notin rspPool
         /\ \A n \in DOMAIN stack : stack[n] # None
         /\ \A h \in ws : h.ctx # None /\ h.rsp # None
  BY Fields, DispatchAssumption DEF TypeOK

\* A response that can be taken is nobody's.
LEMMA FreeRsp ==
  ASSUME DispatchInv, NEW s \in Rsps,
         s \in rspPool \/ (rspPool = {} /\ ~RspInUse(s))
  PROVE  /\ \A p \in Requests : req[p].rsp # s
         /\ \A h \in ws : h.rsp # s
  BY Parts DEF RspHeld, RspInUse

LEMMA StartHttpFound ==
  ASSUME DispatchInv, NEW q \in Requests, StartHttp(q), tree # None
  PROVE  DispatchInv'
  <1> USE DEF StartHttp, routeVars, handlerVars
  <1>1. PICK s \in Rsps :
          /\ s \in rspPool \/ (rspPool = {} /\ ~RspInUse(s))
          /\ req' = [req EXCEPT ![q].pc = "ctx", ![q].route = tree, ![q].rsp = s]
          /\ rspPool' = rspPool \ {s}
          /\ rsp' = [rsp EXCEPT ![s] = Connect(@, q)]
          /\ UNCHANGED got
    OBVIOUS
  <1>2. /\ \A p \in Requests : req[p].rsp # s
        /\ \A h \in ws : h.rsp # s
    BY <1>1, FreeRsp
  <1>3. /\ req[q].ctx = None /\ req[q].inst = None
        /\ req[q].said = {} /\ req[q].ran = <<>>
    BY NewHasNothing
  <1>4. tree \in RouteType  BY Parts DEF TypeOK
  <1>5. PICK r : r = [req[q] EXCEPT !.pc = "ctx", !.route = tree, !.rsp = s]  OBVIOUS
  <1>6. req[q] \in ReqType  BY Parts, Fields
  <1>7. /\ r \in ReqType /\ r.pc = "ctx" /\ r.route = tree /\ r.rsp = s
        /\ r.ctx = None /\ r.inst = None /\ r.said = {} /\ r.ran = <<>>
        /\ r.todo = req[q].todo
    BY <1>3, <1>4, <1>5, <1>6 DEF ReqType, Served
  <1>8. req' = [req EXCEPT ![q] = r]  BY <1>1, <1>5, Parts DEF TypeOK
  <1>9. /\ req' \in [Requests -> ReqType] /\ req'[q] = r
        /\ \A p \in Requests : p # q => req'[p] = req[p]
    BY <1>7, <1>8, Parts, Updated
  <1>10. /\ rsp' \in [Rsps -> RspType] /\ rsp'[s].writer = q /\ rsp'[s].status = 0
         /\ \A t \in Rsps : t # s => rsp'[t] = rsp[t]
    <2>1. rsp[s] \in RspType  BY Parts, Fields
    <2>2. PICK c : c = Connect(rsp[s], q)  OBVIOUS
    <2>3. c \in RspType /\ c.writer = q /\ c.status = 0
      BY <2>1, <2>2 DEF Connect, RspType
    <2>4. rsp' = [rsp EXCEPT ![s] = c]  BY <1>1, <2>2
    <2> QED  BY <2>3, <2>4, Parts DEF TypeOK
  <1>11. TypeOK'  BY <1>1, <1>9, <1>10, Parts DEF TypeOK
  <1>12. Aside(q)
    <2>1. \A p \in Requests : p # q =>
            (req[p].rsp # None => rsp'[req[p].rsp] = rsp[req[p].rsp])
      BY <1>2, <1>10, Parts, Fields DEF ReqType
    <2> QED  BY <1>1, <1>9, <2>1 DEF Aside
  <1>13. CtxHeld'  BY <1>3, <1>7, <1>9, Parts DEF CtxHeld
  <1>14. RspHeld'  BY <1>1, <1>2, <1>7, <1>9, Parts DEF RspHeld
  <1>15. InstHeld'  BY <1>3, <1>7, <1>9, Parts DEF InstHeld
  <1>16. WsInv'  BY <1>2, <1>3, <1>7, <1>9, Parts DEF WsInv
  <1>17. Chain' = Chain /\ RouteChain' = RouteChain  BY DEF Chain, RouteChain
  <1>18. InstInv'  BY <1>17, Parts DEF InstInv
  <1>19. ModelInv'  BY <1>7, <1>9, Parts DEF ModelInv
  <1>20. Held(q)'
    BY <1>4, <1>7, <1>9, <1>10, DispatchAssumption DEF Held, Served
  <1>21. Data(q)'  BY <1>1, <1>7, <1>9, <1>10, Parts DEF Data
  <1>22. Runs(q)'  BY <1>7, <1>9, NothingRun, Parts
  <1> QED
    BY <1>11, <1>12, <1>13, <1>14, <1>15, <1>16, <1>18, <1>19, <1>20, <1>21, <1>22,
       ServeStep DEF Own

LEMMA StartHttpMissed ==
  ASSUME DispatchInv, NEW q \in Requests, StartHttp(q), tree = None
  PROVE  DispatchInv'
  <1> USE DEF StartHttp, routeVars, handlerVars
  <1>1. PICK s \in Rsps :
          /\ s \in rspPool \/ (rspPool = {} /\ ~RspInUse(s))
          /\ req' = [req EXCEPT ![q] = [Finished(q) EXCEPT !.said = {"404"}]]
          /\ rspPool' = rspPool \cup {s}
          /\ rsp' = [rsp EXCEPT ![s] = [writer |-> None, status |-> 404]]
          /\ got' = [got EXCEPT ![q] = {"404"}]
    OBVIOUS
  <1>2. /\ \A p \in Requests : req[p].rsp # s
        /\ \A h \in ws : h.rsp # s
    BY <1>1, FreeRsp
  <1>3. req[q].ran = <<>>  BY NewHasNothing
  <1>4. PICK r : r = [Finished(q) EXCEPT !.said = {"404"}]  OBVIOUS
  <1>5. /\ r \in ReqType /\ r.pc = "done" /\ r.ctx = None /\ r.rsp = None
        /\ r.inst = None /\ r.said = {"404"} /\ r.ran = <<>>
        /\ r.todo = <<>> /\ r.route = None
    BY <1>3, <1>4, FinishedIs, Parts DEF ReqType
  <1>6. /\ req' \in [Requests -> ReqType] /\ req'[q] = r
        /\ \A p \in Requests : p # q => req'[p] = req[p]
    BY <1>1, <1>4, <1>5, Parts, Updated
  <1>7. /\ rsp' \in [Rsps -> RspType]
        /\ \A t \in Rsps : t # s => rsp'[t] = rsp[t]
    <2>1. [writer |-> None, status |-> 404] \in RspType  BY DEF RspType
    <2> QED  BY <1>1, <2>1, Parts DEF TypeOK
  <1>8. /\ got' \in [Requests -> SUBSET (Requests \cup {None} \cup Says)]
        /\ got'[q] = {"404"} /\ \A p \in Requests : p # q => got'[p] = got[p]
    BY <1>1, Parts DEF TypeOK, Says
  <1>9. TypeOK'  BY <1>1, <1>6, <1>7, <1>8, Parts DEF TypeOK
  <1>10. Aside(q)
    <2>1. \A p \in Requests : p # q =>
            (req[p].rsp # None => rsp'[req[p].rsp] = rsp[req[p].rsp])
      BY <1>2, <1>7, Parts, Fields DEF ReqType
    <2> QED  BY <1>6, <1>8, <2>1 DEF Aside
  <1>11. CtxHeld'  BY <1>5, <1>6, NoneIsFree, Parts DEF CtxHeld
  <1>12. RspHeld'
    <2>1. None \notin rspPool'  BY <1>1, NoneIsFree, Parts, DispatchAssumption
    <2> QED  BY <1>1, <1>2, <1>5, <1>6, <2>1, Parts DEF RspHeld
  <1>13. InstHeld'  BY <1>5, <1>6, NoneIsFree, Parts DEF InstHeld
  <1>14. WsInv'  BY <1>5, <1>6, NoneIsFree, Parts DEF WsInv
  <1>15. Chain' = Chain /\ RouteChain' = RouteChain  BY DEF Chain, RouteChain
  <1>16. InstInv'  BY <1>15, Parts DEF InstInv
  <1>17. ModelInv'  BY <1>5, <1>6, Parts DEF ModelInv
  <1>18. Held(q)'  BY <1>5, <1>6 DEF Held, Served
  <1>19. Data(q)'
    <2>1. "404" \notin Requests  BY DispatchAssumption DEF Says
    <2> QED  BY <1>5, <1>6, <1>8, <2>1 DEF Data
  <1>20. Runs(q)'  BY <1>5, <1>6, NothingRun, Parts
  <1> QED
    BY <1>9, <1>10, <1>11, <1>12, <1>13, <1>14, <1>16, <1>17, <1>18, <1>19, <1>20,
       ServeStep DEF Own

LEMMA StartRpcFound ==
  ASSUME DispatchInv, NEW q \in Requests, StartRpc(q), tree # None
  PROVE  DispatchInv'
  <1> USE DEF StartRpc, routeVars, handlerVars, poolVars
  <1>1. /\ req' = [req EXCEPT ![q].pc = "ctx", ![q].route = tree]
        /\ UNCHANGED got
    OBVIOUS
  <1>2. /\ req[q].ctx = None /\ req[q].inst = None /\ req[q].rsp = None
        /\ req[q].said = {} /\ req[q].ran = <<>>
    BY NewHasNothing
  <1>3. tree \in RouteType  BY Parts DEF TypeOK
  <1>4. PICK r : r = [req[q] EXCEPT !.pc = "ctx", !.route = tree]  OBVIOUS
  <1>5. req[q] \in ReqType  BY Parts, Fields
  <1>6. /\ r \in ReqType /\ r.pc = "ctx" /\ r.route = tree /\ r.rsp = None
        /\ r.ctx = None /\ r.inst = None /\ r.said = {} /\ r.ran = <<>>
        /\ r.todo = req[q].todo
    BY <1>2, <1>3, <1>4, <1>5 DEF ReqType, Served
  <1>7. req' = [req EXCEPT ![q] = r]  BY <1>1, <1>4, Parts DEF TypeOK
  <1>8. /\ req' \in [Requests -> ReqType] /\ req'[q] = r
        /\ \A p \in Requests : p # q => req'[p] = req[p]
    BY <1>6, <1>7, Parts, Updated
  <1>9. TypeOK'  BY <1>1, <1>8, Parts DEF TypeOK
  <1>10. Aside(q)  BY <1>1, <1>8 DEF Aside
  <1>11. CtxHeld'  BY <1>2, <1>6, <1>8, Parts DEF CtxHeld
  <1>12. RspHeld'  BY <1>2, <1>6, <1>8, Parts DEF RspHeld
  <1>13. InstHeld'  BY <1>2, <1>6, <1>8, Parts DEF InstHeld
  <1>14. WsInv'  BY <1>2, <1>6, <1>8, Parts DEF WsInv
  <1>15. Chain' = Chain /\ RouteChain' = RouteChain  BY DEF Chain, RouteChain
  <1>16. InstInv'  BY <1>15, Parts DEF InstInv
  <1>17. ModelInv'  BY <1>6, <1>8, Parts DEF ModelInv
  <1>18. Held(q)'  BY <1>3, <1>6, <1>8, DispatchAssumption DEF Held, Served
  <1>19. Data(q)'  BY <1>1, <1>6, <1>8, Parts DEF Data
  <1>20. Runs(q)'  BY <1>6, <1>8, NothingRun, Parts
  <1> QED
    BY <1>9, <1>10, <1>11, <1>12, <1>13, <1>14, <1>16, <1>17, <1>18, <1>19, <1>20,
       ServeStep DEF Own

LEMMA StartRpcMissed ==
  ASSUME DispatchInv, NEW q \in Requests, StartRpc(q), tree = None
  PROVE  DispatchInv'
  <1> USE DEF StartRpc, routeVars, handlerVars, poolVars
  <1>1. /\ req' = [req EXCEPT ![q] = [Finished(q) EXCEPT !.said = {"404"}]]
        /\ got' = [got EXCEPT ![q] = {"404"}]
    OBVIOUS
  <1>2. req[q].ran = <<>>  BY NewHasNothing
  <1>3. PICK r : r = [Finished(q) EXCEPT !.said = {"404"}]  OBVIOUS
  <1>4. /\ r \in ReqType /\ r.pc = "done" /\ r.ctx = None /\ r.rsp = None
        /\ r.inst = None /\ r.said = {"404"} /\ r.ran = <<>>
        /\ r.todo = <<>> /\ r.route = None
    BY <1>2, <1>3, FinishedIs, Parts DEF ReqType
  <1>5. /\ req' \in [Requests -> ReqType] /\ req'[q] = r
        /\ \A p \in Requests : p # q => req'[p] = req[p]
    BY <1>1, <1>3, <1>4, Parts, Updated
  <1>6. /\ got' \in [Requests -> SUBSET (Requests \cup {None} \cup Says)]
        /\ got'[q] = {"404"} /\ \A p \in Requests : p # q => got'[p] = got[p]
    BY <1>1, Parts DEF TypeOK, Says
  <1>7. TypeOK'  BY <1>5, <1>6, Parts DEF TypeOK
  <1>8. Aside(q)  BY <1>5, <1>6 DEF Aside
  <1>9. CtxHeld'  BY <1>4, <1>5, NoneIsFree, Parts DEF CtxHeld
  <1>10. RspHeld'  BY <1>4, <1>5, NoneIsFree, Parts DEF RspHeld
  <1>11. InstHeld'  BY <1>4, <1>5, NoneIsFree, Parts DEF InstHeld
  <1>12. WsInv'  BY <1>4, <1>5, NoneIsFree, Parts DEF WsInv
  <1>13. Chain' = Chain /\ RouteChain' = RouteChain  BY DEF Chain, RouteChain
  <1>14. InstInv'  BY <1>13, Parts DEF InstInv
  <1>15. ModelInv'  BY <1>4, <1>5, Parts DEF ModelInv
  <1>16. Held(q)'  BY <1>4, <1>5 DEF Held, Served
  <1>17. Data(q)'
    <2>1. "404" \notin Requests  BY DispatchAssumption DEF Says
    <2> QED  BY <1>4, <1>5, <1>6, <2>1 DEF Data
  <1>18. Runs(q)'  BY <1>4, <1>5, NothingRun, Parts
  <1> QED
    BY <1>7, <1>8, <1>9, <1>10, <1>11, <1>12, <1>14, <1>15, <1>16, <1>17, <1>18,
       ServeStep DEF Own

\* A context that can be taken, from the pool of id n or new, is nobody's.
LEMMA FreeCtx ==
  ASSUME DispatchInv, NEW n \in Ids, NEW pool \in SUBSET Ctxs, NEW c \in Ctxs,
         pool = IF pools[n] = None THEN {} ELSE pools[n],
         c \in pool \/ (pool = {} /\ ~InUse(c))
  PROVE  /\ \A p \in Requests : req[p].ctx # c
         /\ \A h \in ws : h.ctx # c
         /\ \A m \in Ids : m # n /\ pools[m] # None => c \notin pools[m]
  <1>1. CASE c \in pool  BY <1>1, Parts DEF CtxHeld
  <1>2. CASE c \notin pool /\ ~InUse(c)  BY <1>2 DEF InUse
  <1> QED  BY <1>1, <1>2

LEMMA TakeCtxStep ==
  ASSUME DispatchInv, NEW q \in Requests, TakeCtx(q)
  PROVE  DispatchInv'
  <1>0. /\ UNCHANGED <<kind, ctrl, tree, lastId, model, stack, inst, rspPool, ws>>
        /\ UNCHANGED <<rsp, got, disc, panics>> /\ req[q].pc = "ctx"
    BY DEF TakeCtx, routeVars, handlerVars
  <1> USE <1>0
  <1>1. req[q] \in ReqType  BY Parts, Fields
  <1>2. /\ req[q].route \in RouteType /\ req[q].ctx = None /\ req[q].inst = None
        /\ req[q].said = {} /\ req[q].ran = <<>>
        /\ (req[q].rsp # None <=> kind = "http")
        /\ (req[q].rsp # None => rsp[req[q].rsp].writer = q)
        /\ (kind = "http" => rsp[req[q].rsp].status = 0)
    BY <1>1, Parts DEF ReqType, Held, Data, Runs, Served
  <1>3. PICK n \in Ids : n = req[q].route.id  BY <1>2 DEF RouteType
  <1>4. PICK hs \in {<<>>, <<"handler">>} : hs = req[q].route.handlers
    BY <1>2 DEF RouteType
  <1>5. PICK pool \in SUBSET Ctxs : pool = IF pools[n] = None THEN {} ELSE pools[n]
    BY Parts, Fields
  <1>6. PICK c \in Ctxs, header \in BOOLEAN :
          /\ c \in pool \/ (pool = {} /\ ~InUse(c))
          /\ header => kind = "rpc"
          /\ pools' = [pools EXCEPT ![n] = pool \ {c}]
          /\ LET old == IF c \in pool THEN ctx[c] ELSE FreshCtx
                 new == IF kind = "http" THEN resetHttp(old) ELSE resetRpc(old)
             IN  ctx' = [ctx EXCEPT ![c] = IF header THEN [new EXCEPT !.val = q] ELSE new]
          /\ req' = [req EXCEPT ![q].pc = "get", ![q].ctx = c, ![q].todo = hs]
    BY <1>3, <1>4, <1>5 DEF TakeCtx
  <1>7. /\ \A p \in Requests : req[p].ctx # c
        /\ \A h \in ws : h.ctx # c
        /\ \A m \in Ids : m # n /\ pools[m] # None => c \notin pools[m]
    BY <1>5, <1>6, FreeCtx
  <1>8. PICK old \in CtxType : old = IF c \in pool THEN ctx[c] ELSE FreshCtx
    <2>1. FreshCtx \in CtxType  BY DEF FreshCtx, CtxType
    <2> QED  BY <2>1, Parts, Fields
  <1>9. PICK new : new = IF kind = "http" THEN resetHttp(old) ELSE resetRpc(old)
    OBVIOUS
  <1>10. /\ new \in CtxType /\ new.result = None /\ ~new.done
         /\ (kind = "http" => ~new.hijacked) /\ (kind = "rpc" => new.val = None)
    <2>1. CASE kind = "http"
      BY <1>9, <2>1 DEF resetHttp, CtxType
    <2>2. CASE kind = "rpc"
      BY <1>9, <2>2 DEF resetRpc, CtxType
    <2> QED  BY <2>1, <2>2, Parts DEF TypeOK, Kinds
  <1>11. PICK d : d = IF header THEN [new EXCEPT !.val = q] ELSE new  OBVIOUS
  <1>12. /\ d \in CtxType /\ d.result = None /\ ~d.done
         /\ (kind = "http" => ~d.hijacked) /\ (kind = "rpc" => d.val \in {None, q})
    <2>1. CASE header  BY <1>6, <1>10, <1>11, <2>1 DEF CtxType
    <2>2. CASE ~header  BY <1>10, <1>11, <2>2
    <2> QED  BY <2>1, <2>2
  <1>13. ctx' = [ctx EXCEPT ![c] = d]  BY <1>6, <1>8, <1>9, <1>11
  <1>14. /\ ctx' \in [Ctxs -> CtxType] /\ ctx'[c] = d
         /\ \A e \in Ctxs : e # c => ctx'[e] = ctx[e]
    BY <1>12, <1>13, Parts DEF TypeOK
  <1>15. PICK r : r = [req[q] EXCEPT !.pc = "get", !.ctx = c, !.todo = hs]  OBVIOUS
  <1>16. /\ r \in ReqType /\ r.pc = "get" /\ r.ctx = c /\ r.todo = hs
         /\ r.route = req[q].route /\ r.rsp = req[q].rsp /\ r.inst = None
         /\ r.said = {} /\ r.ran = <<>>
    BY <1>1, <1>2, <1>15 DEF ReqType, Served
  <1>17. req' = [req EXCEPT ![q] = r]  BY <1>6, <1>15, Parts DEF TypeOK
  <1>18. /\ req' \in [Requests -> ReqType] /\ req'[q] = r
         /\ \A p \in Requests : p # q => req'[p] = req[p]
    BY <1>16, <1>17, Parts, Updated
  <1>19. /\ pools' \in [Ids -> {None} \cup SUBSET Ctxs]
         /\ pools'[n] = pool \ {c}
         /\ \A m \in Ids : m # n => pools'[m] = pools[m]
    BY <1>6, Parts DEF TypeOK
  <1>20. \A m \in Ids : pools[m] # None => pools'[m] # None
    <2>1. pool \ {c} # None  BY DispatchAssumption
    <2> QED  BY <1>19, <2>1
  <1>21. TypeOK'  BY <1>14, <1>18, <1>19, Parts DEF TypeOK
  <1>22. Aside(q)
    <2>1. \A p \in Requests : p # q =>
            (req[p].ctx # None => ctx'[req[p].ctx] = ctx[req[p].ctx])
      BY <1>7, <1>14, Parts, Fields DEF ReqType
    <2> QED  BY <1>18, <1>20, <2>1 DEF Aside
  <1>23. CtxHeld'
    <2>1. \A m \in Ids : pools'[m] # None /\ pools'[m] # {} =>
            pools[m] # None /\ pools'[m] \subseteq pools[m]
      BY <1>5, <1>19
    <2>2. \A m \in Ids : pools'[m] # None => c \notin pools'[m]  BY <1>7, <1>19
    <2>3. \A p, o \in Requests : p # o /\ req'[p].ctx = req'[o].ctx => req'[p].ctx = None
      BY <1>7, <1>16, <1>18, Parts DEF CtxHeld
    <2>4. ASSUME NEW m \in Ids, pools'[m] # None
          PROVE  /\ \A p \in Requests : req'[p].ctx \notin pools'[m]
                 /\ \A h \in ws : h.ctx \notin pools'[m]
                 /\ \A k \in Ids : m # k /\ pools'[k] # None =>
                                     pools'[m] \cap pools'[k] = {}
      <3>1. CASE pools'[m] = {}  BY <3>1
      <3>2. CASE pools'[m] # {}
        BY <1>16, <1>18, <2>1, <2>2, <2>4, <3>2, Parts DEF CtxHeld
      <3> QED  BY <3>1, <3>2
    <2> QED  BY <2>3, <2>4 DEF CtxHeld
  <1>24. RspHeld'  BY <1>16, <1>18, Parts DEF RspHeld
  <1>25. InstHeld'  BY <1>2, <1>16, <1>18, Parts DEF InstHeld
  <1>26. WsInv'
    <2>1. kind' = "rpc" => ws' = {}  BY Parts DEF WsInv
    <2>2. ASSUME NEW h \in ws, NEW p \in Requests
          PROVE  /\ req'[p].rsp = h.rsp => req'[p].ctx = h.ctx
                 /\ req'[p].ctx = h.ctx => ctx'[h.ctx].hijacked
      <3>1. h.ctx \in Ctxs /\ h.ctx # c  BY <1>7, Parts, Fields
      <3>2. req[q].rsp # h.rsp
        <4>1. h.ctx # None  BY NoneIsFree, Parts
        <4> QED  BY <1>2, <4>1, Parts DEF WsInv
      <3> QED  BY <1>14, <1>16, <1>18, <3>1, <3>2, Parts DEF WsInv
    <2> QED  BY <2>1, <2>2 DEF WsInv
  <1>27. Chain' = Chain /\ RouteChain' = RouteChain  BY DEF Chain, RouteChain
  <1>28. InstInv'  BY <1>27, Parts DEF InstInv
  <1>29. ModelInv'
    <2>1. model = None => hs = <<>>  BY <1>2, <1>4, Parts, DispatchAssumption DEF ModelInv
    <2> QED  BY <1>16, <1>18, <2>1, Parts DEF ModelInv
  <1>30. Held(q)'
    <2>1. c # None /\ pool \ {c} # None /\ req[q].route # None
      BY <1>2, DispatchAssumption
    <2> QED  BY <1>2, <1>3, <1>16, <1>18, <1>19, <2>1 DEF Held, Served
  <1>31. Data(q)'  BY <1>2, <1>12, <1>14, <1>16, <1>18, Parts DEF Data, Ended
  <1>32. Runs(q)'  BY <1>16, <1>18, NothingRun, Parts
  <1> QED
    BY <1>21, <1>22, <1>23, <1>24, <1>25, <1>26, <1>28, <1>29, <1>30, <1>31, <1>32,
       ServeStep DEF Own

---------------------------------------------------------------------------
(* The chain of an instance                                                *)

\* Whatever init puts together for a handler that was filled is the chain:
\* global middlewares, those of the route, those of the controller, the method.
LEMMA ChainIs ==
  ASSUME TypeOK
  PROVE  LET g == buildMiddlewares(GlobalMids, kind)
             own == IF ctrl THEN Append(filtered, "main") ELSE <<>>
         IN  (g \o RouteChain) \o own = Chain
  <1>1. kind \in Kinds /\ "main" \in Funcs  BY DispatchAssumption DEF TypeOK
  <1>2. PICK g \in Seq(Funcs) : g = buildMiddlewares(GlobalMids, kind)
    BY <1>1, MiddlewareAssumption
  <1>3. PICK m \in Seq(Funcs) : m = buildMiddlewares(RouteMids, kind)
    BY <1>1, MiddlewareAssumption
  <1>4. PICK f \in Seq(Funcs) : f = filtered  BY MiddlewareAssumption
  <1>5. PICK w \in Seq(Funcs) : w = <<"main">>
    <2>1. <<"main">> \in Seq(Funcs)  BY <1>1
    <2> QED  BY <2>1
  <1>6. g \o m \in Seq(Funcs) /\ (g \o m) \o f \in Seq(Funcs)  OBVIOUS
  <1>7. CASE ctrl
    <2>1. RouteChain = m \o <<>>  BY <1>3, <1>7 DEF RouteChain
    <2>2. RouteChain = m  BY <2>1, ConcatEmptySeq
    <2>3. Append(f, "main") = f \o w  BY <1>1, <1>5, AppendIsConcat
    <2>4. (g \o m) \o (f \o w) = ((g \o m) \o f) \o w  BY <1>6, ConcatAssociative
    <2>5. Chain = ((g \o m) \o f) \o w  BY <1>2, <1>3, <1>4, <1>5, <1>7 DEF Chain
    <2> QED  BY <1>2, <1>4, <1>7, <2>2, <2>3, <2>4, <2>5
  <1>8. CASE ~ctrl
    <2>1. RouteChain = m \o w  BY <1>3, <1>5, <1>8 DEF RouteChain
    <2>2. g \o (m \o w) = (g \o m) \o w  BY ConcatAssociative
    <2>3. (g \o m) \o w \in Seq(Funcs)  BY <1>6
    <2>4. ((g \o m) \o w) \o <<>> = (g \o m) \o w  BY <2>3, ConcatEmptySeq
    <2>5. Chain = ((g \o m) \o <<>>) \o w  BY <1>2, <1>3, <1>5, <1>8 DEF Chain
    <2>6. (g \o m) \o <<>> = g \o m  BY <1>6, ConcatEmptySeq
    <2> QED  BY <1>2, <1>8, <2>1, <2>2, <2>4, <2>5, <2>6
  <1> QED  BY <1>7, <1>8

\* An instance whose chain is as InstInv has it.
WellBuilt(i) == i.full /\ ~i.torn =>
    i.chain = IF i.inited THEN Chain ELSE RouteChain

LEMMA PrependIs ==
  ASSUME TypeOK, NEW i \in InstType
  PROVE  LET p == prependMiddlewares(i) IN
         /\ p \in InstType /\ p.pos = i.pos /\ p.inited = i.inited
         /\ p.full = i.full /\ p.torn = i.torn
         /\ i.full => p.chain = buildMiddlewares(GlobalMids, kind) \o i.chain
  <1>1. PICK t \in Kinds : t = IF i.full THEN kind ELSE "rpc"
    BY DEF TypeOK, Kinds
  <1>2. PICK g \in Seq(Funcs) : g = buildMiddlewares(GlobalMids, t)
    BY MiddlewareAssumption
  <1>3. i.chain \in Seq(Funcs)  BY DEF InstType
  <1>4. PICK c \in Seq(Funcs) : c = g \o i.chain  BY <1>3, ConcatProperties
  <1>5. prependMiddlewares(i) = [i EXCEPT !.chain = c]
    BY <1>1, <1>2, <1>4 DEF prependMiddlewares
  <1>6. PICK p : p = [i EXCEPT !.chain = c]  OBVIOUS
  <1>7. /\ p \in InstType /\ p.pos = i.pos /\ p.inited = i.inited
        /\ p.full = i.full /\ p.torn = i.torn /\ p.chain = c
    BY <1>6 DEF InstType
  <1>8. i.full => c = buildMiddlewares(GlobalMids, kind) \o i.chain
    BY <1>1, <1>2, <1>4
  <1> QED  BY <1>5, <1>6, <1>7, <1>8

LEMMA InitIs ==
  ASSUME TypeOK, NEW i \in InstType, WellBuilt(i)
  PROVE  /\ init(i) \in InstType /\ init(i).inited /\ init(i).pos = i.pos
         /\ init(i).full = i.full /\ init(i).torn = i.torn
         /\ i.full /\ ~i.torn => init(i).chain = Chain
  <1>1. CASE i.inited
    <2>1. init(i) = i  BY <1>1 DEF init
    <2> QED  BY <1>1, <2>1 DEF WellBuilt
  <1>2. CASE ~i.inited
    <2>1. PICK p : p = prependMiddlewares(i)  OBVIOUS
    <2>2. /\ p \in InstType /\ p.pos = i.pos
          /\ p.full = i.full /\ p.torn = i.torn
          /\ i.full => p.chain = buildMiddlewares(GlobalMids, kind) \o i.chain
      BY <2>1, PrependIs
    <2>3. PICK own : own = IF ctrl THEN Append(filtered, "main") ELSE <<>>  OBVIOUS
    <2>4. own \in Seq(Funcs)
      <3>1. filtered \in Seq(Funcs) /\ "main" \in Funcs
        BY MiddlewareAssumption, DispatchAssumption
      <3>2. Append(filtered, "main") \in Seq(Funcs) /\ <<>> \in Seq(Funcs)  BY <3>1
      <3> QED  BY <2>3, <3>2
    <2>5. p.chain \in Seq(Funcs)  BY <2>2 DEF InstType
    <2>6. PICK c \in Seq(Funcs) : c = p.chain \o own  BY <2>4, <2>5, ConcatProperties
    <2>7. init(i) = [p EXCEPT !.chain = c, !.inited = TRUE]
      BY <1>2, <2>1, <2>3, <2>6 DEF init
    <2>8. PICK r : r = [p EXCEPT !.chain = c, !.inited = TRUE]  OBVIOUS
    <2>9. /\ r \in InstType /\ r.inited /\ r.pos = p.pos
          /\ r.full = p.full /\ r.torn = p.torn /\ r.chain = c
      BY <2>2, <2>8 DEF InstType
    <2>10. i.full /\ ~i.torn => c = Chain
      <3>1. i.full /\ ~i.torn =>
              c = (buildMiddlewares(GlobalMids, kind) \o RouteChain) \o own
        BY <1>2, <2>2, <2>6 DEF WellBuilt
      <3> QED  BY <2>3, <3>1, ChainIs
    <2> QED  BY <2>2, <2>7, <2>8, <2>9, <2>10
  <1> QED  BY <1>1, <1>2

\* handlerManager.Get: an instance from the stack, or a clone of the model.
LEMMA GetIs ==
  ASSUME DispatchInv, NEW i \in Insts, Get(i), model # None
  PROVE  /\ Popped(i) \in InstType /\ WellBuilt(Popped(i)) /\ Popped(i).pos = 0
         /\ \A p \in Requests : req[p].inst # i
         /\ stack' \in Seq(Insts)
         /\ \A n \in DOMAIN stack' :
              /\ stack'[n] \in Insts /\ stack'[n] # i /\ inst[stack'[n]].pos = 0
              /\ \A m \in DOMAIN stack' : stack'[m] = stack'[n] => m = n
              /\ \A p \in Requests : req[p].inst # stack'[n]
  <1>1. stack \in Seq(Insts)  BY Parts DEF TypeOK
  <1>2. CASE stack # <<>>
    <2>1. i = Head(stack) /\ stack' = Tail(stack) /\ Popped(i) = inst[i]
      BY <1>2 DEF Get, Popped
    <2>2. /\ i = stack[1] /\ 1 \in DOMAIN stack
          /\ stack' \in Seq(Insts)
          /\ \A n \in DOMAIN stack' : n + 1 \in DOMAIN stack
               /\ stack'[n] = stack[n + 1] /\ n \in Nat \ {0}
      BY <1>1, <1>2, <2>1, HeadAndTail
    <2>3. /\ inst[i] \in InstType /\ inst[i].pos = 0
          /\ \A p \in Requests : req[p].inst # i
      BY <2>2, Parts, Fields DEF InstInv, InstHeld
    <2>4. WellBuilt(inst[i])  BY Parts DEF InstInv, WellBuilt
    <2>5. ASSUME NEW n \in DOMAIN stack'
          PROVE  /\ stack'[n] \in Insts /\ stack'[n] # i /\ inst[stack'[n]].pos = 0
                 /\ \A m \in DOMAIN stack' : stack'[m] = stack'[n] => m = n
                 /\ \A p \in Requests : req[p].inst # stack'[n]
      BY <2>2, Parts DEF InstInv, InstHeld
    <2> QED  BY <2>1, <2>2, <2>3, <2>4, <2>5
  <1>3. CASE stack = <<>>
    <2>1. /\ UNCHANGED stack /\ ~InstInUse(i)
          /\ Popped(i) = [Fresh EXCEPT !.chain = model.chain, !.full = model.full]
      BY <1>3 DEF Get, Popped
    <2>2. model \in ModelType  BY Parts DEF TypeOK
    <2>3. PICK c \in Seq(Funcs), f \in BOOLEAN : c = model.chain /\ f = model.full
      BY <2>2 DEF ModelType
    <2>4. PICK r : r = [Fresh EXCEPT !.chain = c, !.full = f]  OBVIOUS
    <2>5. /\ r \in InstType /\ r.pos = 0 /\ ~r.inited /\ r.full = f /\ r.chain = c
      BY <2>4 DEF Fresh, InstType
    <2>6. f => c = RouteChain  BY <2>3, Parts DEF InstInv
    <2>7. WellBuilt(r)  BY <2>5, <2>6 DEF WellBuilt
    <2>8. Popped(i) = r  BY <2>1, <2>3, <2>4
    <2>9. \A p \in Requests : req[p].inst # i  BY <2>1 DEF InstInUse
    <2>10. stack' = <<>> /\ DOMAIN stack' = {}  BY <1>3, <2>1
    <2> QED  BY <2>5, <2>7, <2>8, <2>9, <2>10
  <1> QED  BY <1>2, <1>3

\* The instance i of request q becomes r, others stay; the stack is as Get or
\* Put leave it.
LEMMA InstsKept ==
  ASSUME DispatchInv, UNCHANGED <<kind, ctrl, model>>, NEW i \in Insts,
         NEW r \in InstType, WellBuilt(r), inst' = [inst EXCEPT ![i] = r],
         \A n \in DOMAIN stack' : stack'[n] \in Insts /\ inst'[stack'[n]].pos = 0
  PROVE  /\ inst' \in [Insts -> InstType] /\ inst'[i] = r
         /\ \A j \in Insts : j # i => inst'[j] = inst[j]
         /\ InstInv'
  <1>1. /\ inst' \in [Insts -> InstType] /\ inst'[i] = r
        /\ \A j \in Insts : j # i => inst'[j] = inst[j]
    BY Parts DEF TypeOK
  <1>2. Chain' = Chain /\ RouteChain' = RouteChain  BY DEF Chain, RouteChain
  <1>3. InstInv'  BY <1>1, <1>2, Parts DEF InstInv, WellBuilt
  <1> QED  BY <1>1, <1>3

\* Nobody takes or gives anything.
LEMMA SameHolders ==
  ASSUME DispatchInv, UNCHANGED <<kind, ctx, pools, rspPool, ws, stack>>,
         \A p \in Requests : /\ req'[p].ctx = req[p].ctx /\ req'[p].rsp = req[p].rsp
                             /\ req'[p].inst = req[p].inst
  PROVE  CtxHeld' /\ RspHeld' /\ InstHeld' /\ WsInv'
  <1>1. CtxHeld'  BY Parts DEF CtxHeld
  <1>2. RspHeld'  BY Parts DEF RspHeld
  <1>3. InstHeld'  BY Parts DEF InstHeld
  <1>4. WsInv'  BY Parts DEF WsInv
  <1> QED  BY <1>1, <1>2, <1>3, <1>4

LEMMA NoHandlerLeft ==
  ASSUME DispatchInv, NEW q \in Requests, GetHandler(q), req[q].todo = <<>>
  PROVE  DispatchInv'
  <1>0. /\ UNCHANGED <<kind, ctrl, tree, lastId, model, stack, inst, pools, rspPool, ws>>
        /\ UNCHANGED <<ctx, rsp, got, disc, panics>> /\ req[q].pc = "get"
        /\ req' = [req EXCEPT ![q].pc = "end"]
    BY DEF GetHandler, routeVars, poolVars
  <1> USE <1>0
  <1>1. req[q] \in ReqType  BY Parts, Fields
  <1>2. PICK r : r = [req[q] EXCEPT !.pc = "end"]  OBVIOUS
  <1>3. /\ r \in ReqType /\ r.pc = "end" /\ r.route = req[q].route /\ r.todo = <<>>
        /\ r.ctx = req[q].ctx /\ r.rsp = req[q].rsp /\ r.inst = req[q].inst
        /\ r.stale = req[q].stale /\ r.ran = req[q].ran /\ r.half = req[q].half
        /\ r.said = req[q].said
    BY <1>1, <1>2 DEF ReqType, Served
  <1>4. req' = [req EXCEPT ![q] = r]  BY <1>2, Parts DEF TypeOK
  <1>5. /\ req' \in [Requests -> ReqType] /\ req'[q] = r
        /\ \A p \in Requests : p # q => req'[p] = req[p]
    BY <1>3, <1>4, Parts, Updated
  <1>6. TypeOK'  BY <1>5, Parts DEF TypeOK
  <1>7. Aside(q)  BY <1>5 DEF Aside
  <1>8. \A p \in Requests : /\ req'[p].ctx = req[p].ctx /\ req'[p].rsp = req[p].rsp
                            /\ req'[p].inst = req[p].inst
    BY <1>3, <1>5
  <1>9. CtxHeld' /\ RspHeld' /\ InstHeld' /\ WsInv'  BY <1>8, SameHolders
  <1>13. Chain' = Chain /\ RouteChain' = RouteChain  BY DEF Chain, RouteChain
  <1>14. InstInv'  BY <1>13, Parts DEF InstInv
  <1>15. ModelInv'  BY <1>3, <1>5, Parts DEF ModelInv
  <1>16. Held(q)'  BY <1>3, <1>5, Parts DEF Held, Served
  <1>17. Ended(q)' = Ended(q)  BY <1>3, <1>5 DEF Ended
  <1>18. Data(q)'  BY <1>3, <1>5, <1>17, Parts DEF Data
  <1>19. (Half(q) \/ Torn(q))' = (Half(q) \/ Torn(q))  BY <1>3, <1>5 DEF Half, Torn
  <1>20. Runs(q)'  BY <1>3, <1>5, <1>13, <1>17, <1>19, Parts DEF Runs
  <1> QED
    BY <1>6, <1>7, <1>9, <1>14, <1>15, <1>16, <1>18, <1>20, ServeStep DEF Own

LEMMA HandlerGot ==
  ASSUME DispatchInv, NEW q \in Requests, GetHandler(q), req[q].todo # <<>>
  PROVE  DispatchInv'
  <1>0. /\ UNCHANGED <<kind, ctrl, tree, lastId, model, pools, rspPool, ws>>
        /\ UNCHANGED <<ctx, rsp, got, disc, panics>> /\ req[q].pc = "get"
    BY DEF GetHandler, routeVars, poolVars
  <1> USE <1>0
  <1>1. PICK i \in Insts :
          /\ Get(i)
          /\ inst' = [inst EXCEPT ![i] = Enter(init(Popped(i)))]
          /\ req' = [req EXCEPT ![q].pc = "run", ![q].inst = i, ![q].depth = 0]
    BY DEF GetHandler
  <1>2. model # None  BY Parts DEF ModelInv
  <1>3. /\ Popped(i) \in InstType /\ WellBuilt(Popped(i)) /\ Popped(i).pos = 0
        /\ \A p \in Requests : req[p].inst # i
        /\ stack' \in Seq(Insts)
        /\ \A n \in DOMAIN stack' :
             /\ stack'[n] \in Insts /\ stack'[n] # i /\ inst[stack'[n]].pos = 0
             /\ \A m \in DOMAIN stack' : stack'[m] = stack'[n] => m = n
             /\ \A p \in Requests : req[p].inst # stack'[n]
    BY <1>1, <1>2, GetIs
  <1>4. PICK b \in InstType :
          /\ b = init(Popped(i)) /\ b.inited /\ b.pos = 0
          /\ b.full /\ ~b.torn => b.chain = Chain
    BY <1>3, InitIs, Parts
  <1>5. PICK e : e = Enter(b)  OBVIOUS
  <1>6. /\ e \in InstType /\ e.inited /\ e.pos = 1 /\ e.full = b.full /\ e.torn = b.torn
        /\ e.chain = b.chain
    BY <1>4, <1>5 DEF Enter, InstType
  <1>7. WellBuilt(e)  BY <1>4, <1>6 DEF WellBuilt
  <1>8. inst' = [inst EXCEPT ![i] = e]  BY <1>1, <1>4, <1>5
  <1>9. \A n \in DOMAIN stack' : stack'[n] \in Insts /\ inst'[stack'[n]].pos = 0
    BY <1>3, <1>8, Parts DEF TypeOK
  <1>10. /\ inst' \in [Insts -> InstType] /\ inst'[i] = e
         /\ \A j \in Insts : j # i => inst'[j] = inst[j]
         /\ InstInv'
    BY <1>6, <1>7, <1>8, <1>9, InstsKept
  <1>11. req[q] \in ReqType  BY Parts, Fields
  <1>12. PICK r : r = [req[q] EXCEPT !.pc = "run", !.inst = i, !.depth = 0]  OBVIOUS
  <1>13. /\ r \in ReqType /\ r.pc = "run" /\ r.route = req[q].route /\ r.inst = i
         /\ r.ctx = req[q].ctx /\ r.rsp = req[q].rsp /\ r.todo = req[q].todo
         /\ r.stale = req[q].stale /\ r.ran = req[q].ran /\ r.half = req[q].half
         /\ r.said = req[q].said
    BY <1>11, <1>12 DEF ReqType, Served
  <1>14. req' = [req EXCEPT ![q] = r]  BY <1>1, <1>12, Parts DEF TypeOK
  <1>15. /\ req' \in [Requests -> ReqType] /\ req'[q] = r
         /\ \A p \in Requests : p # q => req'[p] = req[p]
    BY <1>13, <1>14, Parts, Updated
  <1>16. TypeOK'  BY <1>3, <1>10, <1>15, Parts DEF TypeOK
  <1>17. Aside(q)
    <2>1. \A p \in Requests : p # q =>
            (req[p].inst # None => inst'[req[p].inst] = inst[req[p].inst])
      BY <1>3, <1>10, Parts, Fields DEF ReqType
    <2> QED  BY <1>15, <2>1 DEF Aside
  <1>18. \A p \in Requests : req'[p].ctx = req[p].ctx /\ req'[p].rsp = req[p].rsp
    BY <1>13, <1>15
  <1>19. CtxHeld'  BY <1>18, Parts DEF CtxHeld
  <1>20. RspHeld'  BY <1>18, Parts DEF RspHeld
  <1>21. InstHeld'  BY <1>3, <1>13, <1>15, Parts DEF InstHeld
  <1>22. WsInv'  BY <1>18, Parts DEF WsInv
  <1>23. ModelInv'  BY <1>2 DEF ModelInv
  <1>24. i # None  BY DispatchAssumption
  <1>25. Held(q)'  BY <1>13, <1>15, <1>24, Parts DEF Held, Served
  <1>26. Ended(q)' = Ended(q)  BY <1>13, <1>15 DEF Ended
  <1>27. Data(q)'  BY <1>13, <1>15, <1>26, Parts DEF Data
  <1>28. Runs(q)'
    <2>1. req[q].ran = <<>>  BY Parts DEF Runs
    <2>2. Chain' = Chain  BY DEF Chain
    <2>3. Len(Chain) \in Nat  BY ChainTypes, Parts
    <2> QED  BY <1>6, <1>10, <1>13, <1>15, <2>1, <2>2, <2>3 DEF Runs
  <1> QED
    BY <1>10, <1>16, <1>17, <1>19, <1>20, <1>21, <1>22, <1>23, <1>25, <1>27, <1>28,
       ServeStep DEF Own

LEMMA InitPanicsStep ==
  ASSUME DispatchInv, NEW q \in Requests, InitPanics(q)
  PROVE  DispatchInv'
  <1>0. /\ UNCHANGED <<kind, ctrl, tree, lastId, model, pools, rspPool, ws>>
        /\ UNCHANGED <<ctx, rsp, got, disc>> /\ req[q].pc = "get" /\ req[q].todo # <<>>
        /\ panics < MaxInitPanics /\ panics' = panics + 1
    BY DEF InitPanics, routeVars, poolVars
  <1> USE <1>0
  <1>1. PICK i \in Insts :
          /\ Get(i)
          /\ inst' = [inst EXCEPT ![i] =
                        [prependMiddlewares(Popped(i)) EXCEPT !.torn = TRUE]]
          /\ req' = [req EXCEPT ![q].pc = "put", ![q].inst = i,
                                ![q].said = @ \cup {"panic"}]
    BY DEF InitPanics
  <1>2. model # None  BY Parts DEF ModelInv
  <1>3. /\ Popped(i) \in InstType
        /\ \A p \in Requests : req[p].inst # i
        /\ stack' \in Seq(Insts)
        /\ \A n \in DOMAIN stack' :
             /\ stack'[n] \in Insts /\ stack'[n] # i /\ inst[stack'[n]].pos = 0
             /\ \A m \in DOMAIN stack' : stack'[m] = stack'[n] => m = n
             /\ \A p \in Requests : req[p].inst # stack'[n]
    BY <1>1, <1>2, GetIs
  <1>4. PICK b \in InstType : b = prependMiddlewares(Popped(i))
    BY <1>3, PrependIs, Parts
  <1>5. PICK e : e = [b EXCEPT !.torn = TRUE]  OBVIOUS
  <1>6. e \in InstType /\ e.torn  BY <1>4, <1>5 DEF InstType
  <1>7. WellBuilt(e)  BY <1>6 DEF WellBuilt
  <1>8. inst' = [inst EXCEPT ![i] = e]  BY <1>1, <1>4, <1>5
  <1>9. \A n \in DOMAIN stack' : stack'[n] \in Insts /\ inst'[stack'[n]].pos = 0
    BY <1>3, <1>8, Parts DEF TypeOK
  <1>10. /\ inst' \in [Insts -> InstType] /\ inst'[i] = e
         /\ \A j \in Insts : j # i => inst'[j] = inst[j]
         /\ InstInv'
    BY <1>6, <1>7, <1>8, <1>9, InstsKept
  <1>11. req[q] \in ReqType  BY Parts, Fields
  <1>12. PICK r : r = [req[q] EXCEPT !.pc = "put", !.inst = i, !.said = @ \cup {"panic"}]
    OBVIOUS
  <1>13. /\ r \in ReqType /\ r.pc = "put" /\ r.route = req[q].route /\ r.inst = i
         /\ r.ctx = req[q].ctx /\ r.rsp = req[q].rsp /\ r.todo = req[q].todo
         /\ r.stale = req[q].stale /\ r.ran = req[q].ran /\ r.half = req[q].half
         /\ r.said = req[q].said \cup {"panic"}
    BY <1>11, <1>12 DEF ReqType, Served, Words
  <1>14. req' = [req EXCEPT ![q] = r]  BY <1>1, <1>12, Parts DEF TypeOK
  <1>15. /\ req' \in [Requests -> ReqType] /\ req'[q] = r
         /\ \A p \in Requests : p # q => req'[p] = req[p]
    BY <1>13, <1>14, Parts, Updated
  <1>16. panics' \in 0 .. MaxInitPanics  BY Parts, DispatchAssumption DEF TypeOK
  <1>17. TypeOK'  BY <1>3, <1>10, <1>15, <1>16, Parts DEF TypeOK
  <1>18. Aside(q)
    <2>1. \A p \in Requests : p # q =>
            (req[p].inst # None => inst'[req[p].inst] = inst[req[p].inst])
      BY <1>3, <1>10, Parts, Fields DEF ReqType
    <2> QED  BY <1>15, <2>1 DEF Aside
  <1>19. \A p \in Requests : req'[p].ctx = req[p].ctx /\ req'[p].rsp = req[p].rsp
    BY <1>13, <1>15
  <1>20. CtxHeld'  BY <1>19, Parts DEF CtxHeld
  <1>21. RspHeld'  BY <1>19, Parts DEF RspHeld
  <1>22. InstHeld'  BY <1>3, <1>13, <1>15, Parts DEF InstHeld
  <1>23. WsInv'  BY <1>19, Parts DEF WsInv
  <1>24. ModelInv'  BY <1>2 DEF ModelInv
  <1>25. i # None  BY DispatchAssumption
  <1>26. Held(q)'  BY <1>13, <1>15, <1>25, Parts DEF Held, Served
  <1>27. Ended(q)'  BY <1>13, <1>15 DEF Ended
  <1>28. "panic" \in req'[q].said  BY <1>13, <1>15
  <1>29. Data(q)'  BY <1>13, <1>15, <1>27, <1>28, Parts DEF Data
  <1>30. Runs(q)'
    <2>1. req[q].ran = <<>>  BY Parts DEF Runs
    <2>2. Chain' = Chain  BY DEF Chain
    <2>3. Len(Chain) \in Nat  BY ChainTypes, Parts
    <2> QED  BY <1>13, <1>15, <2>1, <2>2, <2>3 DEF Runs
  <1> QED
    BY <1>10, <1>17, <1>18, <1>20, <1>21, <1>22, <1>23, <1>24, <1>26, <1>29, <1>30,
       ServeStep DEF Own

---------------------------------------------------------------------------
(* The chain runs                                                          *)

\* A request in the loop has its instance and its context.
LEMMA InLoop ==
  ASSUME DispatchInv, NEW q \in Requests, req[q].pc = "run"
  PROVE  /\ req[q].inst \in Insts /\ req[q].ctx \in Ctxs
         /\ req[q] \in ReqType
         /\ inst[req[q].inst] \in InstType /\ ctx[req[q].ctx] \in CtxType
         /\ inst[req[q].inst].pos > 0 /\ inst[req[q].inst].inited
         /\ (req[q].rsp # None <=> kind = "http")
  <1>1. req[q] \in ReqType  BY Parts, Fields
  <1>2. req[q].inst # None /\ req[q].ctx # None /\ (req[q].rsp # None <=> kind = "http")
    BY Parts DEF Held, Served
  <1>3. req[q].inst \in Insts /\ req[q].ctx \in Ctxs  BY <1>1, <1>2 DEF ReqType
  <1>4. inst[req[q].inst] \in InstType /\ ctx[req[q].ctx] \in CtxType
    BY <1>3, Parts, Fields
  <1>5. inst[req[q].inst].pos > 0 /\ inst[req[q].inst].inited  BY Parts DEF Runs
  <1> QED  BY <1>1, <1>2, <1>3, <1>4, <1>5

\* When the loop of a request with a complete handler ends, the request is done
\* or has run its whole chain.
LEMMA AtLoopEnd ==
  ASSUME DispatchInv, NEW q \in Requests, req[q].pc = "run", ~More(q),
         ~Half(q), ~Torn(q)
  PROVE  \/ ctx[req[q].ctx].done
         \/ inst[req[q].inst].pos > Len(Chain) /\ Len(req[q].ran) = Len(Chain)
  <1>1. PICK i \in Insts : i = req[q].inst  BY InLoop
  <1>2. i # None  BY DispatchAssumption
  <1>3. inst[i].full /\ ~inst[i].torn /\ inst[i].inited
    BY <1>1, <1>2, InLoop DEF Half, Torn
  <1>4. inst[i].chain = Chain  BY <1>3, Parts DEF InstInv
  <1>5. inst[i].pos > Len(Chain) \/ ctx[req[q].ctx].done
    <2>1. inst[i].pos \in Nat  BY Parts, Fields DEF InstType
    <2>2. Len(Chain) \in Nat  BY ChainTypes, Parts
    <2>3. ~(inst[i].pos <= Len(Chain)) \/ ctx[req[q].ctx].done
      BY <1>1, <1>3, <1>4 DEF More
    <2> QED  BY <2>1, <2>2, <2>3
  <1>6. /\ Len(req[q].ran) <= Len(Chain)
        /\ \/ inst[i].pos = Len(req[q].ran) + 1
           \/ ctx[req[q].ctx].done
           \/ inst[i].pos > Len(Chain) /\ Len(req[q].ran) = Len(Chain)
    BY <1>1, Parts DEF Runs
  <1>7. Len(req[q].ran) \in Nat /\ Len(Chain) \in Nat
    BY InLoop, ChainTypes, Parts DEF ReqType
  <1> QED  BY <1>1, <1>5, <1>6, <1>7

\* Next returns into the function that called it, which returns.
LEMMA NextReturns ==
  ASSUME DispatchInv, NEW q \in Requests, LeaveLoop(q), req[q].depth > 0,
         inst' = [inst EXCEPT ![req[q].inst].pos = @ + 1],
         req' = [req EXCEPT ![q].depth = @ - 1]
  PROVE  DispatchInv'
  <1>0. /\ UNCHANGED <<kind, ctrl, tree, lastId, model, stack, pools, rspPool, ws>>
        /\ UNCHANGED <<ctx, rsp, got, disc, panics>> /\ req[q].pc = "run" /\ ~More(q)
    BY DEF LeaveLoop, routeVars, poolVars
  <1> USE <1>0
  <1>1. /\ req[q].inst \in Insts /\ req[q] \in ReqType
        /\ inst[req[q].inst] \in InstType
        /\ inst[req[q].inst].pos > 0 /\ inst[req[q].inst].inited
    BY InLoop
  <1>2. PICK i \in Insts : i = req[q].inst  BY <1>1
  <1>3. PICK e : e = [inst[i] EXCEPT !.pos = @ + 1]  OBVIOUS
  <1>4. /\ e \in InstType /\ e.pos = inst[i].pos + 1 /\ e.inited = inst[i].inited
        /\ e.full = inst[i].full /\ e.torn = inst[i].torn /\ e.chain = inst[i].chain
    BY <1>1, <1>2, <1>3 DEF InstType
  <1>5. inst' = [inst EXCEPT ![i] = e]  BY <1>2, <1>3
  <1>6. WellBuilt(e)  BY <1>4, Parts DEF WellBuilt, InstInv
  <1>7. \A n \in DOMAIN stack' : stack'[n] \in Insts /\ stack'[n] # i
    BY <1>2, Parts DEF InstHeld, TypeOK
  <1>8. \A n \in DOMAIN stack' : stack'[n] \in Insts /\ inst'[stack'[n]].pos = 0
    BY <1>5, <1>7, Parts DEF TypeOK, InstInv
  <1>9. /\ inst' \in [Insts -> InstType] /\ inst'[i] = e
        /\ \A j \in Insts : j # i => inst'[j] = inst[j]
        /\ InstInv'
    BY <1>4, <1>5, <1>6, <1>8, InstsKept
  <1>10. PICK r : r = [req[q] EXCEPT !.depth = @ - 1]  OBVIOUS
  <1>11. /\ r \in ReqType /\ r.pc = "run" /\ r.route = req[q].route /\ r.inst = i
         /\ r.ctx = req[q].ctx /\ r.rsp = req[q].rsp /\ r.todo = req[q].todo
         /\ r.stale = req[q].stale /\ r.ran = req[q].ran /\ r.half = req[q].half
         /\ r.said = req[q].said
    BY <1>1, <1>2, <1>10 DEF ReqType
  <1>12. req' = [req EXCEPT ![q] = r]  BY <1>10, Parts DEF TypeOK
  <1>13. /\ req' \in [Requests -> ReqType] /\ req'[q] = r
         /\ \A p \in Requests : p # q => req'[p] = req[p]
    BY <1>11, <1>12, Parts, Updated
  <1>14. TypeOK'  BY <1>9, <1>13, Parts DEF TypeOK
  <1>15. \A p \in Requests : /\ req'[p].ctx = req[p].ctx /\ req'[p].rsp = req[p].rsp
                             /\ req'[p].inst = req[p].inst
    BY <1>2, <1>11, <1>13
  <1>16. i # None  BY DispatchAssumption
  <1>17. Aside(q)
    <2>1. \A p \in Requests : p # q =>
            (req[p].inst # None => inst'[req[p].inst] = inst[req[p].inst])
      BY <1>2, <1>9, <1>16, Parts, Fields DEF ReqType, InstHeld
    <2> QED  BY <1>13, <2>1 DEF Aside
  <1>18. CtxHeld' /\ RspHeld' /\ InstHeld' /\ WsInv'  BY <1>15, SameHolders
  <1>22. ModelInv'  BY <1>11, <1>13, Parts DEF ModelInv
  <1>23. Held(q)'  BY <1>2, <1>11, <1>13, Parts DEF Held
  <1>24. Ended(q)' = Ended(q)  BY <1>11, <1>13 DEF Ended
  <1>25. Data(q)'  BY <1>11, <1>13, <1>24, Parts DEF Data
  <1>26. Runs(q)'
    <2>1. Chain' = Chain  BY DEF Chain
    <2>2. (Half(q) \/ Torn(q))' = (Half(q) \/ Torn(q))
      BY <1>2, <1>4, <1>9, <1>11, <1>13 DEF Half, Torn
    <2>3. inst'[i].pos > 0 /\ inst'[i].inited
      BY <1>1, <1>2, <1>4, <1>9 DEF InstType
    <2>4. ASSUME ~Half(q), ~Torn(q)
          PROVE  ctx[req[q].ctx].done
                 \/ (inst'[i].pos > Len(Chain) /\ Len(req[q].ran) = Len(Chain))
      <3>1. Len(Chain) \in Nat /\ inst[i].pos \in Nat
        BY <1>1, <1>2, ChainTypes, Parts DEF InstType
      <3> QED  BY <1>2, <1>4, <1>9, <2>4, <3>1, AtLoopEnd
    <2>5. /\ req[q].todo # <<>>
          /\ \/ Half(q) \/ Torn(q)
             \/ /\ Len(req[q].ran) <= Len(Chain)
                /\ \A k \in 1 .. Len(req[q].ran) : req[q].ran[k] = Chain[k]
      BY Parts DEF Runs
    <2> QED  BY <1>11, <1>13, <2>1, <2>2, <2>3, <2>4, <2>5 DEF Runs
  <1> QED
    BY <1>9, <1>14, <1>17, <1>18, <1>22, <1>23, <1>25, <1>26, ServeStep DEF Own

\* Invoke returns, or the function that called Next panics.
LEMMA InvokeReturns ==
  ASSUME DispatchInv, NEW q \in Requests, LeaveLoop(q), UNCHANGED inst,
         NEW w \in {{}, {"panic"}},
         req' = [req EXCEPT ![q].pc = "put", ![q].said = @ \cup w]
  PROVE  DispatchInv'
  <1>0. /\ UNCHANGED <<kind, ctrl, tree, lastId, model, stack, pools, rspPool, ws>>
        /\ UNCHANGED <<ctx, rsp, got, disc, panics>> /\ req[q].pc = "run" /\ ~More(q)
    BY DEF LeaveLoop, routeVars, poolVars
  <1> USE <1>0
  <1>1. req[q] \in ReqType /\ req[q].ctx \in Ctxs  BY InLoop
  <1>2. PICK r : r = [req[q] EXCEPT !.pc = "put", !.said = @ \cup w]  OBVIOUS
  <1>3. /\ r \in ReqType /\ r.pc = "put" /\ r.route = req[q].route
        /\ r.inst = req[q].inst
        /\ r.ctx = req[q].ctx /\ r.rsp = req[q].rsp /\ r.todo = req[q].todo
        /\ r.stale = req[q].stale /\ r.ran = req[q].ran /\ r.half = req[q].half
        /\ r.said = req[q].said \cup w
    BY <1>1, <1>2 DEF ReqType, Served, Words
  <1>4. req' = [req EXCEPT ![q] = r]  BY <1>2, Parts DEF TypeOK
  <1>5. /\ req' \in [Requests -> ReqType] /\ req'[q] = r
        /\ \A p \in Requests : p # q => req'[p] = req[p]
    BY <1>3, <1>4, Parts, Updated
  <1>6. TypeOK'  BY <1>5, Parts DEF TypeOK
  <1>7. Aside(q)  BY <1>5 DEF Aside
  <1>8. \A p \in Requests : /\ req'[p].ctx = req[p].ctx /\ req'[p].rsp = req[p].rsp
                            /\ req'[p].inst = req[p].inst
    BY <1>3, <1>5
  <1>9. CtxHeld' /\ RspHeld' /\ InstHeld' /\ WsInv'  BY <1>8, SameHolders
  <1>13. Chain' = Chain /\ RouteChain' = RouteChain  BY DEF Chain, RouteChain
  <1>14. InstInv'  BY <1>13, Parts DEF InstInv
  <1>15. ModelInv'  BY <1>3, <1>5, Parts DEF ModelInv
  <1>16. Held(q)'  BY <1>3, <1>5, Parts DEF Held, Served
  <1>17. Ended(q) \/ w = {"panic"} => Ended(q)'  BY <1>3, <1>5 DEF Ended
  <1>18. Data(q)'
    <2>1. CASE w = {}
      <3>1. req'[q].said = req[q].said  BY <1>3, <1>5, <2>1
      <3> QED  BY <1>3, <1>5, <1>17, <3>1, Parts DEF Data
    <2>2. CASE w = {"panic"}
      <3>1. "panic" \in req'[q].said  BY <1>3, <1>5, <2>2
      <3> QED  BY <1>3, <1>5, <1>17, <2>2, <3>1, Parts DEF Data
    <2> QED  BY <2>1, <2>2
  <1>19. Runs(q)'
    <2>1. (Half(q) \/ Torn(q))' = (Half(q) \/ Torn(q))  BY <1>3, <1>5 DEF Half, Torn
    <2>2. ASSUME ~Half(q), ~Torn(q)
          PROVE  Ended(q) \/ Len(req[q].ran) = Len(Chain)
      <3>1. req[q].ctx # None  BY <1>1, DispatchAssumption
      <3>2. ctx[req[q].ctx].done => Ended(q)  BY <3>1, Parts DEF Data
      <3> QED  BY <2>2, <3>2, AtLoopEnd
    <2> QED  BY <1>3, <1>5, <1>13, <1>17, <2>1, <2>2, Parts DEF Runs
  <1> QED
    BY <1>6, <1>7, <1>9, <1>14, <1>15, <1>16, <1>18, <1>19, ServeStep DEF Own

LEMMA LeaveLoopStep ==
  ASSUME DispatchInv, NEW q \in Requests, LeaveLoop(q)
  PROVE  DispatchInv'
  <1>1. CASE /\ req[q].depth > 0
             /\ inst' = [inst EXCEPT ![req[q].inst].pos = @ + 1]
             /\ req' = [req EXCEPT ![q].depth = @ - 1]
    BY <1>1, NextReturns
  <1>2. CASE req' = [req EXCEPT ![q].pc = "put", ![q].said = @ \cup {"panic"}]
             /\ UNCHANGED inst
    BY <1>2, InvokeReturns
  <1>3. CASE req' = [req EXCEPT ![q].pc = "put"] /\ UNCHANGED inst
    <2>1. req[q] \in ReqType  BY Parts, Fields
    <2>2. req[q].said \cup {} = req[q].said  OBVIOUS
    <2>3. [req[q] EXCEPT !.pc = "put", !.said = @ \cup {}] = [req[q] EXCEPT !.pc = "put"]
      BY <2>1, <2>2 DEF ReqType
    <2>4. req' = [req EXCEPT ![q] = [req[q] EXCEPT !.pc = "put", !.said = @ \cup {}]]
      BY <1>3, <2>3
    <2>5. req' = [req EXCEPT ![q].pc = "put", ![q].said = @ \cup {}]
      BY <2>4, Parts DEF TypeOK
    <2> QED  BY <1>3, <2>5, InvokeReturns
  <1> QED  BY <1>1, <1>2, <1>3 DEF LeaveLoop

\* What the client of a request is sent besides a result is no request.
LEMMA SentIs ==
  ASSUME DispatchInv, NEW q \in Requests, NEW w \in Says,
         got' = [got EXCEPT ![q] = @ \cup {w}]
  PROVE  /\ got' \in [Requests -> SUBSET (Requests \cup {None} \cup Says)]
         /\ \A p \in Requests : p # q => got'[p] = got[p]
         /\ got'[q] = got[q] \cup {w} /\ w \notin Requests
  BY Parts, DispatchAssumption DEF TypeOK

\* What a function of request q may do to context, response, client and websockets.
EffectOf(q, c, s, e) ==
    /\ ctx' \in [Ctxs -> CtxType] /\ \A d \in Ctxs : d # c => ctx'[d] = ctx[d]
    /\ rsp' \in [Rsps -> RspType] /\ \A t \in Rsps : t # s => rsp'[t] = rsp[t]
    /\ kind = "http" => rsp'[s].writer = q
    /\ got' \in [Requests -> SUBSET (Requests \cup {None} \cup Says)]
    /\ \A p \in Requests : p # q => got'[p] = got[p]
    /\ got'[q] \cap Requests \subseteq got[q]
    /\ \/ ws' = ws
       \/ /\ kind = "http" /\ ctx'[c].hijacked
          /\ ws' = ws \cup {[ctx |-> c, rsp |-> s]}
    /\ ctx[c].hijacked => ctx'[c].hijacked
    /\ ctx'[c].result \in {ctx[c].result, q} /\ ctx'[c].val \in {ctx[c].val, q}
    /\ ctx'[c].done => ctx[c].done \/ e \in {"abort", "upgrade"}
    /\ e = "respond" => kind = "http" /\ ctx'[c].result = q
    /\ e \in {"next", "setctx"} => ctx'[c].result = ctx[c].result
    /\ e \in {"next", "setctx", "respond"} =>
          /\ ctx'[c].hijacked = ctx[c].hijacked
          /\ rsp' = rsp

LEMMA EffectIs ==
  ASSUME DispatchInv, NEW q \in Requests, req[q].pc = "run", NEW e \in Words,
         NEW c \in Ctxs, c = req[q].ctx, NEW s, s = req[q].rsp, Effect(q, e)
  PROVE  EffectOf(q, c, s, e)
  <1>1. /\ ctx \in [Ctxs -> CtxType] /\ rsp \in [Rsps -> RspType]
        /\ got \in [Requests -> SUBSET (Requests \cup {None} \cup Says)]
        /\ ctx[c] \in CtxType
    BY Parts DEF TypeOK
  <1>2. kind = "http" => s \in Rsps /\ rsp[s] \in RspType /\ rsp[s].writer = q
    <2>1. req[q] \in ReqType /\ (req[q].rsp # None <=> kind = "http")  BY InLoop
    <2>2. kind = "http" => s \in Rsps  BY <2>1 DEF ReqType
    <2> QED  BY <1>1, <2>1, <2>2, Parts DEF Held
  <1>3. CASE e \in {"next", "panic"} /\ UNCHANGED <<ctx, rsp, got, ws>>
    BY <1>1, <1>2, <1>3 DEF EffectOf
  <1>4. CASE e = "setctx" /\ ctx' = [ctx EXCEPT ![c].val = q] /\ UNCHANGED <<rsp, got, ws>>
    <2>1. PICK d : d = [ctx[c] EXCEPT !.val = q]  OBVIOUS
    <2>2. /\ d \in CtxType /\ d.val = q /\ d.result = ctx[c].result
          /\ d.done = ctx[c].done /\ d.hijacked = ctx[c].hijacked
      BY <1>1, <2>1 DEF CtxType
    <2>3. ctx' = [ctx EXCEPT ![c] = d]  BY <1>4, <2>1
    <2>4. /\ ctx' \in [Ctxs -> CtxType] /\ ctx'[c] = d
          /\ \A b \in Ctxs : b # c => ctx'[b] = ctx[b]
      BY <1>1, <2>2, <2>3
    <2> QED  BY <1>1, <1>2, <1>4, <2>2, <2>4 DEF EffectOf
  <1>5. CASE /\ e = "respond" /\ kind = "http"
             /\ ctx' = [ctx EXCEPT ![c].result = q] /\ UNCHANGED <<rsp, got, ws>>
    <2>1. PICK d : d = [ctx[c] EXCEPT !.result = q]  OBVIOUS
    <2>2. /\ d \in CtxType /\ d.result = q /\ d.val = ctx[c].val
          /\ d.done = ctx[c].done /\ d.hijacked = ctx[c].hijacked
      BY <1>1, <2>1 DEF CtxType
    <2>3. ctx' = [ctx EXCEPT ![c] = d]  BY <1>5, <2>1
    <2>4. /\ ctx' \in [Ctxs -> CtxType] /\ ctx'[c] = d
          /\ \A b \in Ctxs : b # c => ctx'[b] = ctx[b]
      BY <1>1, <2>2, <2>3
    <2> QED  BY <1>1, <1>2, <1>5, <2>2, <2>4 DEF EffectOf
  <1>6. CASE /\ e \in {"write", "abort"} /\ ~ctx[c].hijacked
             /\ ctx' = [ctx EXCEPT ![c].done = (e = "abort")]
             /\ rsp' = IF kind = "http" THEN [rsp EXCEPT ![s].status = 200] ELSE rsp
             /\ got' = IF kind = "http" THEN Sends(s, e)
                       ELSE [got EXCEPT ![q] = @ \cup {e}]
             /\ UNCHANGED ws
    <2>1. PICK a \in BOOLEAN : a = (e = "abort")  OBVIOUS
    <2>2. PICK d : d = [ctx[c] EXCEPT !.done = a]  OBVIOUS
    <2>3. /\ d \in CtxType /\ d.result = ctx[c].result /\ d.val = ctx[c].val
          /\ d.done = a /\ d.hijacked = ctx[c].hijacked
      BY <1>1, <2>2 DEF CtxType
    <2>4. ctx' = [ctx EXCEPT ![c] = d]  BY <1>6, <2>1, <2>2
    <2>5. /\ ctx' \in [Ctxs -> CtxType] /\ ctx'[c] = d
          /\ \A b \in Ctxs : b # c => ctx'[b] = ctx[b]
      BY <1>1, <2>3, <2>4
    <2>6. got' = [got EXCEPT ![q] = @ \cup {e}]  BY <1>2, <1>6 DEF Sends
    <2>7. e \in Says  BY <1>6 DEF Says
    <2>8. /\ got' \in [Requests -> SUBSET (Requests \cup {None} \cup Says)]
          /\ \A p \in Requests : p # q => got'[p] = got[p]
          /\ got'[q] = got[q] \cup {e} /\ e \notin Requests
      BY <2>6, <2>7, SentIs
    <2>9. /\ rsp' \in [Rsps -> RspType] /\ \A t \in Rsps : t # s => rsp'[t] = rsp[t]
          /\ kind = "http" => rsp'[s].writer = q
      <3>1. CASE kind = "http"
        <4>1. PICK z : z = [rsp[s] EXCEPT !.status = 200]  OBVIOUS
        <4>2. z \in RspType /\ z.writer = q  BY <1>2, <3>1, <4>1 DEF RspType
        <4>3. rsp' = [rsp EXCEPT ![s] = z]  BY <1>6, <3>1, <4>1
        <4> QED  BY <1>1, <1>2, <3>1, <4>2, <4>3
      <3>2. CASE kind # "http"  BY <1>1, <1>6, <3>2
      <3> QED  BY <3>1, <3>2
    <2>10. d.done => e = "abort"  BY <2>1, <2>3
    <2> QED  BY <1>6, <2>3, <2>5, <2>8, <2>9, <2>10 DEF EffectOf
  <1>7. CASE e = "upgrade" /\ kind = "http" /\ Upgrade(q)
    <2>1. CASE /\ ctx' = [ctx EXCEPT ![c].done = TRUE]
               /\ rsp' = [rsp EXCEPT ![s].status = 400]
               /\ got' = Sends(s, "refused")
               /\ UNCHANGED ws
      <3>1. PICK d : d = [ctx[c] EXCEPT !.done = TRUE]  OBVIOUS
      <3>2. /\ d \in CtxType /\ d.result = ctx[c].result /\ d.val = ctx[c].val
            /\ d.hijacked = ctx[c].hijacked
        BY <1>1, <3>1 DEF CtxType
      <3>3. ctx' = [ctx EXCEPT ![c] = d]  BY <2>1, <3>1
      <3>4. /\ ctx' \in [Ctxs -> CtxType] /\ ctx'[c] = d
            /\ \A b \in Ctxs : b # c => ctx'[b] = ctx[b]
        BY <1>1, <3>2, <3>3
      <3>5. PICK z : z = [rsp[s] EXCEPT !.status = 400]  OBVIOUS
      <3>6. z \in RspType /\ z.writer = q  BY <1>2, <1>7, <3>5 DEF RspType
      <3>7. rsp' = [rsp EXCEPT ![s] = z]  BY <2>1, <3>5
      <3>8. /\ rsp' \in [Rsps -> RspType] /\ rsp'[s].writer = q
            /\ \A t \in Rsps : t # s => rsp'[t] = rsp[t]
        BY <1>1, <1>2, <1>7, <3>6, <3>7
      <3>9. got' = [got EXCEPT ![q] = @ \cup {"refused"}]
        BY <1>2, <1>7, <2>1 DEF Sends
      <3>10. /\ got' \in [Requests -> SUBSET (Requests \cup {None} \cup Says)]
             /\ \A p \in Requests : p # q => got'[p] = got[p]
             /\ got'[q] = got[q] \cup {"refused"} /\ "refused" \notin Requests
        BY <3>9, SentIs DEF Says
      <3> QED  BY <1>7, <2>1, <3>2, <3>4, <3>8, <3>10 DEF EffectOf
    <2>2. CASE UNCHANGED <<ctx, rsp, got, ws>>
      BY <1>1, <1>2, <1>7, <2>2 DEF EffectOf
    <2>3. CASE /\ ctx' = [ctx EXCEPT ![c].hijacked = TRUE]
               /\ got' = Sends(s, "101")
               /\ ws' = ws \cup {[ctx |-> c, rsp |-> s]}
               /\ UNCHANGED rsp
      <3>1. PICK d : d = [ctx[c] EXCEPT !.hijacked = TRUE]  OBVIOUS
      <3>2. /\ d \in CtxType /\ d.result = ctx[c].result /\ d.val = ctx[c].val
            /\ d.hijacked /\ d.done = ctx[c].done
        BY <1>1, <3>1 DEF CtxType
      <3>3. ctx' = [ctx EXCEPT ![c] = d]  BY <2>3, <3>1
      <3>4. /\ ctx' \in [Ctxs -> CtxType] /\ ctx'[c] = d
            /\ \A b \in Ctxs : b # c => ctx'[b] = ctx[b]
        BY <1>1, <3>2, <3>3
      <3>5. got' = [got EXCEPT ![q] = @ \cup {"101"}]  BY <1>2, <1>7, <2>3 DEF Sends
      <3>6. /\ got' \in [Requests -> SUBSET (Requests \cup {None} \cup Says)]
            /\ \A p \in Requests : p # q => got'[p] = got[p]
            /\ got'[q] = got[q] \cup {"101"} /\ "101" \notin Requests
        BY <3>5, SentIs DEF Says
      <3> QED  BY <1>1, <1>2, <1>7, <2>3, <3>2, <3>4, <3>6 DEF EffectOf
    <2> QED  BY <1>7, <2>1, <2>2, <2>3 DEF Upgrade
  <1> QED  BY <1>3, <1>4, <1>5, <1>6, <1>7 DEF Effect

\* One function more is run: the chain goes on where it was.
LEMMA OneMore ==
  ASSUME NEW S, NEW chain \in Seq(S), NEW ran \in Seq(S), NEW pos \in Nat,
         pos = Len(ran) + 1, pos <= Len(chain),
         \A k \in 1 .. Len(ran) : ran[k] = chain[k], NEW more, more = Append(ran, chain[pos])
  PROVE  /\ Len(more) = pos /\ more \in Seq(S)
         /\ \A k \in 1 .. Len(more) : more[k] = chain[k]
  <1>1. chain[pos] \in S  OBVIOUS
  <1>2. /\ more \in Seq(S) /\ Len(more) = Len(ran) + 1
        /\ \A k \in 1 .. Len(ran) : more[k] = ran[k]
        /\ more[Len(ran) + 1] = chain[pos]
    BY <1>1, AppendProperties
  <1> QED  BY <1>2

LEMMA RunFuncStep ==
  ASSUME DispatchInv, NEW q \in Requests, RunFunc(q)
  PROVE  DispatchInv'
  <1>0. /\ UNCHANGED <<kind, ctrl, tree, lastId, model, stack, pools, rspPool>>
        /\ UNCHANGED <<disc, panics>> /\ req[q].pc = "run" /\ More(q)
    BY DEF RunFunc, routeVars
  <1> USE <1>0
  <1>1. /\ req[q].inst \in Insts /\ req[q].ctx \in Ctxs
        /\ req[q] \in ReqType
        /\ inst[req[q].inst] \in InstType
        /\ inst[req[q].inst].pos > 0 /\ inst[req[q].inst].inited
        /\ (req[q].rsp # None <=> kind = "http")
    BY InLoop
  <1>2. PICK i \in Insts : i = req[q].inst  BY <1>1
  <1>3. PICK c \in Ctxs : c = req[q].ctx  BY <1>1
  <1>4. PICK s : s = req[q].rsp  OBVIOUS
  <1>5. i # None /\ c # None  BY DispatchAssumption
  <1>6. PICK chain \in Seq(Funcs), pos \in Nat :
          chain = inst[i].chain /\ pos = inst[i].pos /\ pos > 0
    BY <1>1, <1>2 DEF InstType
  <1>7. inst[i].full /\ pos <= Len(chain) /\ ~ctx[c].done
    BY <1>2, <1>3, <1>6 DEF More
  <1>8. PICK f \in Funcs : f = chain[pos]  BY <1>6, <1>7
  <1>9. PICK e \in Does[f] :
          /\ Effect(q, e)
          /\ inst' = [inst EXCEPT ![i].pos = @ + 1]
          /\ req' = [req EXCEPT
                 ![q].said  = @ \cup ({e} \ {"next", "setctx"}),
                 ![q].ran   = Append(@, f),
                 ![q].depth = IF e = "next" THEN @ + 1 ELSE @,
                 ![q].pc    = IF e = "panic" THEN "put" ELSE @]
    BY <1>2, <1>6, <1>8 DEF RunFunc
  <1>10. e \in Words  BY DispatchAssumption
  <1>11. EffectOf(q, c, s, e)  BY <1>3, <1>4, <1>9, <1>10, EffectIs
  <1>12. PICK a : a = [inst[i] EXCEPT !.pos = @ + 1]  OBVIOUS
  <1>13. /\ a \in InstType /\ a.pos = pos + 1 /\ a.inited = inst[i].inited
         /\ a.full = inst[i].full /\ a.torn = inst[i].torn /\ a.chain = chain
    BY <1>1, <1>2, <1>6, <1>12 DEF InstType
  <1>14. inst' = [inst EXCEPT ![i] = a]  BY <1>9, <1>12
  <1>15. WellBuilt(a)  BY <1>6, <1>13, Parts DEF WellBuilt, InstInv
  <1>16. \A n \in DOMAIN stack' : stack'[n] \in Insts /\ stack'[n] # i
    BY <1>2, Parts DEF InstHeld, TypeOK
  <1>17. \A n \in DOMAIN stack' : stack'[n] \in Insts /\ inst'[stack'[n]].pos = 0
    BY <1>14, <1>16, Parts DEF TypeOK, InstInv
  <1>18. /\ inst' \in [Insts -> InstType] /\ inst'[i] = a
         /\ \A j \in Insts : j # i => inst'[j] = inst[j]
         /\ InstInv'
    BY <1>13, <1>14, <1>15, <1>17, InstsKept
  <1>19. PICK r : r = [req[q] EXCEPT
                 !.said  = @ \cup ({e} \ {"next", "setctx"}),
                 !.ran   = Append(@, f),
                 !.depth = IF e = "next" THEN @ + 1 ELSE @,
                 !.pc    = IF e = "panic" THEN "put" ELSE @]
    OBVIOUS
  <1>20. /\ r.pc = (IF e = "panic" THEN "put" ELSE "run")
         /\ r.route = req[q].route /\ r.inst = i /\ r.ctx = c /\ r.rsp = s
         /\ r.todo = req[q].todo /\ r.stale = req[q].stale /\ r.half = req[q].half
         /\ r.ran = Append(req[q].ran, f)
         /\ r.said = req[q].said \cup ({e} \ {"next", "setctx"})
    BY <1>1, <1>2, <1>3, <1>4, <1>19 DEF ReqType
  <1>21. r \in ReqType
    <2>1. PICK w \in SUBSET (Words \cup {"404"}) :
            w = req[q].said \cup ({e} \ {"next", "setctx"})
      BY <1>1, <1>10 DEF ReqType
    <2>2. PICK x \in Seq(Funcs) : x = Append(req[q].ran, f)
      BY <1>1, AppendProperties DEF ReqType
    <2>3. PICK d \in Nat : d = IF e = "next" THEN req[q].depth + 1 ELSE req[q].depth
      BY <1>1 DEF ReqType
    <2>4. PICK l \in {"run", "put"} : l = IF e = "panic" THEN "put" ELSE req[q].pc
      OBVIOUS
    <2>5. r = [req[q] EXCEPT !.said = w, !.ran = x, !.depth = d, !.pc = l]
      BY <1>1, <1>19, <2>1, <2>2, <2>3, <2>4 DEF ReqType
    <2> QED  BY <1>1, <2>5 DEF ReqType, Served
  <1>22. req' = [req EXCEPT ![q] = r]  BY <1>9, <1>19, Parts DEF TypeOK
  <1>23. /\ req' \in [Requests -> ReqType] /\ req'[q] = r
         /\ \A p \in Requests : p # q => req'[p] = req[p]
    BY <1>21, <1>22, Parts, Updated
  <1>24. \A p \in Requests : /\ req'[p].ctx = req[p].ctx /\ req'[p].rsp = req[p].rsp
                             /\ req'[p].inst = req[p].inst
    BY <1>2, <1>3, <1>4, <1>20, <1>23
  <1>25. kind = "http" => s \in Rsps  BY <1>1, <1>4 DEF ReqType
  <1>26. /\ ws' \subseteq [ctx : Ctxs, rsp : Rsps]
         /\ \A h \in ws' : h \in ws \/ (h.ctx = c /\ h.rsp = s /\ ctx'[c].hijacked
                                        /\ kind = "http")
    BY <1>11, <1>25, Parts DEF EffectOf, TypeOK
  <1>27. TypeOK'  BY <1>11, <1>18, <1>23, <1>26, Parts DEF TypeOK, EffectOf
  <1>28. Aside(q)
    <2>1. ASSUME NEW p \in Requests, p # q
          PROVE  /\ req[p].ctx # None => ctx'[req[p].ctx] = ctx[req[p].ctx]
                 /\ req[p].rsp # None => rsp'[req[p].rsp] = rsp[req[p].rsp]
                 /\ req[p].inst # None => inst'[req[p].inst] = inst[req[p].inst]
      <3>1. req[p] \in ReqType  BY Parts, Fields
      <3>2. /\ req[p].ctx # None => req[p].ctx \in Ctxs /\ req[p].ctx # c
            /\ req[p].rsp # None => req[p].rsp \in Rsps /\ req[p].rsp # s
            /\ req[p].inst # None => req[p].inst \in Insts /\ req[p].inst # i
        BY <1>2, <1>3, <1>4, <2>1, <3>1, Parts
        DEF ReqType, CtxHeld, RspHeld, InstHeld
      <3> QED  BY <1>11, <1>18, <3>2 DEF EffectOf
    <2> QED  BY <1>11, <1>23, <2>1 DEF Aside, EffectOf
  <1>29. CtxHeld'
    <2>1. \A n \in Ids : pools[n] # None => c \notin pools[n]
      BY <1>3, Parts DEF CtxHeld
    <2> QED  BY <1>24, <1>26, <2>1, Parts DEF CtxHeld
  <1>30. RspHeld'
    <2>1. s \notin rspPool  BY <1>4, Parts DEF RspHeld
    <2> QED  BY <1>24, <1>26, <2>1, Parts DEF RspHeld
  <1>31. InstHeld'  BY <1>24, Parts DEF InstHeld
  <1>32. WsInv'
    <2>1. kind' = "rpc" => ws' = {}  BY <1>11, Parts DEF WsInv, EffectOf
    <2>2. ASSUME NEW h \in ws', NEW p \in Requests
          PROVE  /\ req'[p].rsp = h.rsp => req'[p].ctx = h.ctx
                 /\ req'[p].ctx = h.ctx => ctx'[h.ctx].hijacked
      <3>1. CASE h \in ws
        <4>1. h.ctx \in Ctxs  BY <3>1, Parts, Fields
        <4>2. ctx[h.ctx].hijacked => ctx'[h.ctx].hijacked
          BY <1>11, <4>1 DEF EffectOf
        <4> QED  BY <1>24, <3>1, <4>2, Parts DEF WsInv
      <3>2. CASE h.ctx = c /\ h.rsp = s /\ ctx'[c].hijacked /\ kind = "http"
        <4>1. s # None  BY <1>1, <1>4, <3>2
        <4>2. req[p].rsp = s => p = q  BY <1>4, <4>1, Parts DEF RspHeld
        <4> QED  BY <1>3, <1>24, <3>2, <4>2
      <3> QED  BY <1>26, <3>1, <3>2
    <2> QED  BY <2>1, <2>2 DEF WsInv
  <1>33. ModelInv'
    <2>1. req'[q].route = req[q].route /\ req'[q].todo = req[q].todo  BY <1>20, <1>23
    <2> QED  BY <1>23, <2>1, Parts DEF ModelInv
  <1>34. Held(q)'
    <2>1. r.pc \in {"run", "put"}  BY <1>20
    <2>2. kind = "http" => rsp'[s].writer = q  BY <1>11 DEF EffectOf
    <2>3. s # None <=> kind = "http"  BY <1>1, <1>4
    <2>4. req[q].route # None /\ (~req[q].stale => pools[req[q].route.id] # None)
      BY <1>3, <1>5, Parts DEF Held, Served
    <2> QED  BY <1>5, <1>20, <1>23, <2>1, <2>2, <2>3, <2>4 DEF Held, Served
  <1>35. Ended(q) \/ e \in {"panic", "abort", "upgrade"} => Ended(q)'
    BY <1>20, <1>23 DEF Ended
  <1>36. Data(q)'
    <2>1. r.pc \notin {"new", "ctx", "done"}  BY <1>20
    <2>2. got'[q] \cap Requests \subseteq {q}  BY <1>11, Parts DEF Data, EffectOf
    <2>3. /\ ctx[c].result \in {None, q}
          /\ kind = "rpc" => ctx[c].val \in {None, q}
          /\ ctx[c].done => Ended(q)
          /\ req[q].said = {"respond"} => kind = "http"
          /\ req[q].said \subseteq {"respond"} =>
               /\ ~ctx[c].done
               /\ kind = "http" => ~ctx[c].hijacked /\ rsp[s].status = 0
               /\ req[q].said # {} => ctx[c].result = q
      BY <1>3, <1>4, <1>5, Parts DEF Data
    <2>4. /\ ctx'[c].result \in {None, q}
          /\ kind = "rpc" => ctx'[c].val \in {None, q}
          /\ ctx'[c].done => Ended(q)'
      BY <1>11, <1>35, <2>3 DEF EffectOf
    <2>5. r.said \subseteq {"respond"} =>
            req[q].said \subseteq {"respond"} /\ e \in {"next", "setctx", "respond"}
      BY <1>20, <1>10 DEF Words
    <2>6. r.said \subseteq {"respond"} =>
            /\ ~ctx'[c].done
            /\ kind = "http" => ~ctx'[c].hijacked /\ rsp'[s].status = 0
      BY <1>11, <2>3, <2>5 DEF EffectOf
    <2>7. r.said \subseteq {"respond"} /\ r.said # {} =>
            kind = "http" /\ ctx'[c].result = q
      <3>1. CASE e = "respond"  BY <1>11, <3>1 DEF EffectOf
      <3>2. CASE e \in {"next", "setctx"}
        <4>1. r.said = req[q].said  BY <1>20, <3>2
        <4>2. req[q].said \subseteq {"respond"} /\ req[q].said # {} =>
                req[q].said = {"respond"}
          OBVIOUS
        <4> QED  BY <1>11, <2>3, <3>2, <4>1, <4>2 DEF EffectOf
      <3> QED  BY <2>5, <3>1, <3>2
    <2> QED  BY <1>20, <1>23, <2>1, <2>2, <2>4, <2>6, <2>7 DEF Data
  <1>37. Runs(q)'
    <2>1. Chain' = Chain  BY DEF Chain
    <2>2. (Half(q) \/ Torn(q))' = (Half(q) \/ Torn(q))
      BY <1>2, <1>13, <1>18, <1>20, <1>23 DEF Half, Torn
    <2>3. inst'[i].pos > 0 /\ inst'[i].inited
      BY <1>1, <1>2, <1>6, <1>13, <1>18
    <2>4. req[q].todo # <<>>  BY Parts DEF Runs
    <2>5. ASSUME ~Half(q), ~Torn(q)
          PROVE  /\ Len(r.ran) = pos /\ pos <= Len(Chain)
                 /\ \A k \in 1 .. Len(r.ran) : r.ran[k] = Chain[k]
      <3>1. inst[i].full /\ ~inst[i].torn  BY <1>2, <1>5, <2>5 DEF Half, Torn
      <3>2. chain = Chain  BY <1>1, <1>2, <1>6, <3>1, Parts DEF InstInv
      <3>3. /\ \A k \in 1 .. Len(req[q].ran) : req[q].ran[k] = Chain[k]
            /\ \/ pos = Len(req[q].ran) + 1
               \/ ctx[c].done
               \/ pos > Len(Chain)
        BY <1>2, <1>3, <1>6, <2>5, Parts DEF Runs
      <3>4. Len(chain) \in Nat  BY <1>6
      <3>5. pos = Len(req[q].ran) + 1  BY <1>7, <3>2, <3>3, <3>4
      <3>6. PICK ran \in Seq(Funcs) : ran = req[q].ran  BY <1>1 DEF ReqType
      <3>7. \A k \in 1 .. Len(ran) : ran[k] = chain[k]  BY <3>2, <3>3, <3>6
      <3>8. r.ran = Append(ran, chain[pos])  BY <1>8, <1>20, <3>6
      <3>9. /\ Len(r.ran) = pos
            /\ \A k \in 1 .. Len(r.ran) : r.ran[k] = chain[k]
        BY <1>7, <3>5, <3>6, <3>7, <3>8, OneMore
      <3> QED  BY <1>7, <3>2, <3>9
    <2>6. inst'[i].pos = pos + 1  BY <1>13, <1>18
    <2>7. r.pc = "run" \/ (r.pc = "put" /\ Ended(q)')  BY <1>20, <1>35
    <2> QED  BY <1>20, <1>23, <2>1, <2>2, <2>3, <2>4, <2>5, <2>6, <2>7 DEF Runs
  <1> QED
    BY <1>18, <1>27, <1>28, <1>29, <1>30, <1>31, <1>32, <1>33, <1>34, <1>36, <1>37,
       ServeStep DEF Own

---------------------------------------------------------------------------
(* Everything is put back                                                  *)

\* An instance is pushed on the stack.
LEMMA Pushed ==
  ASSUME NEW S, NEW s \in Seq(S), NEW i \in S, NEW t, t = <<i>> \o s
  PROVE  /\ t \in Seq(S)
         /\ \A n \in DOMAIN t : n = 1 \/ (n - 1 \in DOMAIN s /\ n \in Nat)
         /\ 1 \in DOMAIN t => t[1] = i
         /\ \A n \in DOMAIN t : n # 1 => t[n] = s[n - 1]
  <1>1. <<i>> \in Seq(S) /\ Len(<<i>>) = 1 /\ <<i>>[1] = i  OBVIOUS
  <1>2. /\ t \in Seq(S) /\ Len(t) = 1 + Len(s)
        /\ \A n \in 1 .. Len(t) : t[n] = IF n <= 1 THEN <<i>>[n] ELSE s[n - 1]
    BY <1>1
  <1>3. DOMAIN t = 1 .. Len(t) /\ DOMAIN s = 1 .. Len(s) /\ Len(s) \in Nat  BY <1>2
  <1> QED  BY <1>1, <1>2, <1>3

\* What the error handler writes.
LEMMA ErrorIs ==
  ASSUME DispatchInv, NEW q \in Requests, req[q].pc = "put", NEW s, s = req[q].rsp,
         \/ UNCHANGED <<rsp, got>>
         \/ kind = "http" /\ rsp' = [rsp EXCEPT ![s].status = 500]
            /\ got' = Sends(s, "error")
         \/ kind # "http" /\ got' = [got EXCEPT ![q] = @ \cup {"error"}]
            /\ UNCHANGED rsp
  PROVE  /\ rsp' \in [Rsps -> RspType] /\ \A t \in Rsps : t # s => rsp'[t] = rsp[t]
         /\ kind = "http" => rsp'[s].writer = q
         /\ got' \in [Requests -> SUBSET (Requests \cup {None} \cup Says)]
         /\ \A p \in Requests : p # q => got'[p] = got[p]
         /\ got'[q] \cap Requests \subseteq got[q]
  <1>1. req[q] \in ReqType  BY Parts, Fields
  <1>2. kind = "http" => s \in Rsps /\ rsp[s].writer = q
    BY <1>1, Parts DEF ReqType, Held, Served
  <1>3. rsp \in [Rsps -> RspType]
        /\ got \in [Requests -> SUBSET (Requests \cup {None} \cup Says)]
    BY Parts DEF TypeOK
  <1>4. CASE UNCHANGED <<rsp, got>>  BY <1>2, <1>3, <1>4
  <1>5. ASSUME got' = [got EXCEPT ![q] = @ \cup {"error"}]
        PROVE  /\ got' \in [Requests -> SUBSET (Requests \cup {None} \cup Says)]
               /\ \A p \in Requests : p # q => got'[p] = got[p]
               /\ got'[q] \cap Requests \subseteq got[q]
    <2>1. PICK w \in Says : w = "error"  BY DEF Says
    <2>2. /\ got' \in [Requests -> SUBSET (Requests \cup {None} \cup Says)]
          /\ \A p \in Requests : p # q => got'[p] = got[p]
          /\ got'[q] = got[q] \cup {w} /\ w \notin Requests
      BY <1>5, <2>1, SentIs
    <2> QED  BY <2>2
  <1>6. CASE /\ kind = "http" /\ rsp' = [rsp EXCEPT ![s].status = 500]
             /\ got' = Sends(s, "error")
    <2>1. PICK z : z = [rsp[s] EXCEPT !.status = 500]  OBVIOUS
    <2>2. rsp[s] \in RspType  BY <1>2, <1>3, <1>6
    <2>3. z \in RspType /\ z.writer = q  BY <1>2, <1>6, <2>1, <2>2 DEF RspType
    <2>4. rsp' = [rsp EXCEPT ![s] = z]  BY <1>6, <2>1
    <2>5. got' = [got EXCEPT ![q] = @ \cup {"error"}]  BY <1>2, <1>6 DEF Sends
    <2>6. /\ rsp' \in [Rsps -> RspType] /\ rsp'[s].writer = q
          /\ \A t \in Rsps : t # s => rsp'[t] = rsp[t]
      BY <1>2, <1>3, <1>6, <2>3, <2>4
    <2> QED  BY <1>5, <2>5, <2>6
  <1>7. CASE kind # "http" /\ got' = [got EXCEPT ![q] = @ \cup {"error"}]
             /\ UNCHANGED rsp
    BY <1>3, <1>5, <1>7
  <1> QED  BY <1>4, <1>6, <1>7

LEMMA PutHandlerStep ==
  ASSUME DispatchInv, NEW q \in Requests, PutHandler(q)
  PROVE  DispatchInv'
  <1>0. /\ UNCHANGED <<kind, ctrl, tree, lastId, model, pools, rspPool, ws>>
        /\ UNCHANGED <<ctx, disc, panics>> /\ req[q].pc = "put"
    BY DEF PutHandler, routeVars, poolVars
  <1> USE <1>0
  <1>1. req[q] \in ReqType  BY Parts, Fields
  <1>2. /\ req[q].inst # None /\ req[q].ctx # None /\ req[q].route # None
        /\ req[q].todo # <<>> /\ (req[q].rsp # None <=> kind = "http")
    BY Parts DEF Held, Runs, Served
  <1>3. PICK i \in Insts : i = req[q].inst  BY <1>1, <1>2 DEF ReqType
  <1>4. PICK c \in Ctxs : c = req[q].ctx  BY <1>1, <1>2 DEF ReqType
  <1>5. PICK s : s = req[q].rsp  OBVIOUS
  <1>6. PICK end \in BOOLEAN : end <=> "panic" \in req[q].said  OBVIOUS
  <1>7. PICK half \in BOOLEAN : half <=> (req[q].half \/ ~inst[i].full \/ inst[i].torn)
    OBVIOUS
  <1>8. /\ inst' = [inst EXCEPT ![i] = reset(@)]
        /\ stack' = <<i>> \o stack
        /\ req' = [req EXCEPT ![q].pc = IF "panic" \in req[q].said THEN "end" ELSE "get",
                              ![q].todo = Tail(@), ![q].inst = None, ![q].depth = 0,
                              ![q].half = @ \/ ~inst[i].full \/ inst[i].torn]
        /\ \/ UNCHANGED <<rsp, got>>
           \/ kind = "http" /\ rsp' = [rsp EXCEPT ![s].status = 500]
              /\ got' = Sends(s, "error")
           \/ kind # "http" /\ got' = [got EXCEPT ![q] = @ \cup {"error"}]
              /\ UNCHANGED rsp
        /\ "panic" \notin req[q].said => UNCHANGED <<rsp, got>>
    BY <1>3, <1>5 DEF PutHandler
  <1>9. /\ rsp' \in [Rsps -> RspType] /\ \A t \in Rsps : t # s => rsp'[t] = rsp[t]
        /\ kind = "http" => rsp'[s].writer = q
        /\ got' \in [Requests -> SUBSET (Requests \cup {None} \cup Says)]
        /\ \A p \in Requests : p # q => got'[p] = got[p]
        /\ got'[q] \cap Requests \subseteq got[q]
    BY <1>5, <1>8, ErrorIs
  <1>10. inst[i] \in InstType /\ stack \in Seq(Insts)  BY Parts, Fields DEF TypeOK
  <1>11. PICK a : a = reset(inst[i])  OBVIOUS
  <1>12. /\ a \in InstType /\ a.pos = 0 /\ a.inited = inst[i].inited
         /\ a.full = inst[i].full /\ a.torn = inst[i].torn /\ a.chain = inst[i].chain
    BY <1>10, <1>11 DEF InstType, reset
  <1>13. inst' = [inst EXCEPT ![i] = a]  BY <1>8, <1>11
  <1>14. WellBuilt(a)  BY <1>12, Parts DEF WellBuilt, InstInv
  <1>15. /\ stack' \in Seq(Insts)
         /\ \A n \in DOMAIN stack' : n = 1 \/ (n - 1 \in DOMAIN stack /\ n \in Nat)
         /\ 1 \in DOMAIN stack' => stack'[1] = i
         /\ \A n \in DOMAIN stack' : n # 1 => stack'[n] = stack[n - 1]
    BY <1>8, <1>10, Pushed
  <1>16. \A n \in DOMAIN stack : stack[n] \in Insts /\ stack[n] # i
    BY <1>3, Parts DEF InstHeld, TypeOK
  <1>17. \A n \in DOMAIN stack' : stack'[n] \in Insts /\ inst'[stack'[n]].pos = 0
    <2>1. inst'[i].pos = 0 /\ \A j \in Insts : j # i => inst'[j] = inst[j]
      BY <1>12, <1>13, Parts DEF TypeOK
    <2> QED  BY <1>15, <1>16, <2>1, Parts DEF InstInv
  <1>18. /\ inst' \in [Insts -> InstType] /\ inst'[i] = a
         /\ \A j \in Insts : j # i => inst'[j] = inst[j]
         /\ InstInv'
    BY <1>12, <1>13, <1>14, <1>17, InstsKept
  <1>19. Tail(req[q].todo) = <<>>
    <2>1. req[q].todo = <<"handler">>  BY <1>1, <1>2 DEF ReqType
    <2> QED  BY <2>1
  <1>20. PICK l \in {"end", "get"} :
           /\ l = IF "panic" \in req[q].said THEN "end" ELSE "get"
    OBVIOUS
  <1>21. PICK r : r = [req[q] EXCEPT !.pc = l, !.todo = <<>>, !.inst = None,
                                     !.depth = 0, !.half = half]
    OBVIOUS
  <1>22. /\ r \in ReqType /\ r.pc = l /\ r.todo = <<>> /\ r.inst = None
         /\ r.half = half /\ r.route = req[q].route /\ r.ctx = c /\ r.rsp = s
         /\ r.stale = req[q].stale /\ r.ran = req[q].ran /\ r.said = req[q].said
    BY <1>1, <1>4, <1>5, <1>21 DEF ReqType, Served
  <1>23. req' = [req EXCEPT ![q] = r]
    <2>1. half = (req[q].half \/ ~inst[i].full \/ inst[i].torn)
      BY <1>1, <1>7, <1>10 DEF ReqType, InstType
    <2>2. r = [req[q] EXCEPT
                  !.pc = IF "panic" \in req[q].said THEN "end" ELSE "get",
                  !.todo = Tail(@), !.inst = None, !.depth = 0,
                  !.half = @ \/ ~inst[i].full \/ inst[i].torn]
      BY <1>19, <1>20, <1>21, <2>1
    <2> QED  BY <1>8, <2>2, Parts DEF TypeOK
  <1>24. /\ req' \in [Requests -> ReqType] /\ req'[q] = r
         /\ \A p \in Requests : p # q => req'[p] = req[p]
    BY <1>22, <1>23, Parts, Updated
  <1>25. TypeOK'  BY <1>9, <1>15, <1>18, <1>24, Parts DEF TypeOK
  <1>26. i # None /\ c # None  BY DispatchAssumption
  <1>27. Aside(q)
    <2>1. ASSUME NEW p \in Requests, p # q
          PROVE  /\ req[p].rsp # None => rsp'[req[p].rsp] = rsp[req[p].rsp]
                 /\ req[p].inst # None => inst'[req[p].inst] = inst[req[p].inst]
      <3>1. req[p] \in ReqType  BY Parts, Fields
      <3>2. /\ req[p].rsp # None => req[p].rsp \in Rsps /\ req[p].rsp # s
            /\ req[p].inst # None => req[p].inst \in Insts /\ req[p].inst # i
        BY <1>3, <1>5, <2>1, <3>1, Parts DEF ReqType, RspHeld, InstHeld
      <3> QED  BY <1>9, <1>18, <3>2
    <2> QED  BY <1>9, <1>24, <2>1 DEF Aside
  <1>28. \A p \in Requests : req'[p].ctx = req[p].ctx /\ req'[p].rsp = req[p].rsp
    BY <1>4, <1>5, <1>22, <1>24
  <1>29. CtxHeld'  BY <1>28, Parts DEF CtxHeld
  <1>30. RspHeld'  BY <1>28, Parts DEF RspHeld
  <1>31. InstHeld'
    <2>1. \A p \in Requests : req'[p].inst # i
      BY <1>3, <1>22, <1>24, <1>26, Parts DEF InstHeld
    <2>2. \A p \in Requests : req'[p].inst = req[p].inst \/ req'[p].inst = None
      BY <1>22, <1>24
    <2>3. \A n \in DOMAIN stack : stack[n] # None  BY <1>16, DispatchAssumption
    <2>4. ASSUME NEW n \in DOMAIN stack', NEW m \in DOMAIN stack', stack'[m] = stack'[n]
          PROVE  m = n
      <3>1. CASE n = 1 \/ m = 1  BY <1>15, <1>16, <2>4, <3>1
      <3>2. CASE n # 1 /\ m # 1
        <4>1. n - 1 = m - 1  BY <1>15, <2>4, <3>2, Parts DEF InstHeld
        <4> QED  BY <1>15, <3>2, <4>1
      <3> QED  BY <3>1, <3>2
    <2>5. ASSUME NEW n \in DOMAIN stack', NEW p \in Requests
          PROVE  req'[p].inst # stack'[n]
      <3>1. CASE n = 1  BY <1>15, <2>1, <3>1
      <3>2. CASE n # 1  BY <1>15, <2>2, <2>3, <3>2, Parts DEF InstHeld
      <3> QED  BY <3>1, <3>2
    <2>6. \A p, o \in Requests : p # o /\ req'[p].inst = req'[o].inst =>
            req'[p].inst = None
      BY <1>22, <1>24, Parts DEF InstHeld
    <2> QED  BY <2>4, <2>5, <2>6 DEF InstHeld
  <1>32. WsInv'  BY <1>28, Parts DEF WsInv
  <1>33. ModelInv'  BY <1>22, <1>24, Parts DEF ModelInv
  <1>34. Held(q)'
    <2>1. ~req[q].stale => pools[req[q].route.id] # None  BY <1>2, Parts DEF Held
    <2> QED  BY <1>2, <1>5, <1>9, <1>22, <1>24, <1>26, <2>1 DEF Held, Served
  <1>35. Ended(q)' = Ended(q)  BY <1>22, <1>24 DEF Ended
  <1>36. Data(q)'
    <2>1. r.pc \notin {"new", "ctx", "done"}  BY <1>22
    <2>2. got'[q] \cap Requests \subseteq {q}  BY <1>9, Parts DEF Data
    <2>3. r.said \subseteq {"respond"} => UNCHANGED <<rsp, got>>  BY <1>8, <1>22
    <2> QED  BY <1>4, <1>5, <1>22, <1>24, <1>26, <1>35, <2>1, <2>2, <2>3, Parts DEF Data
  <1>37. Runs(q)'
    <2>1. Chain' = Chain  BY DEF Chain
    <2>2. half \/ (~Half(q) /\ ~Torn(q))  BY <1>3, <1>7 DEF Half, Torn
    <2>3. half => Half(q)'  BY <1>22, <1>24 DEF Half
    <2>4. Half(q) \/ Torn(q) \/
            /\ Len(req[q].ran) <= Len(Chain)
            /\ \A k \in 1 .. Len(req[q].ran) : req[q].ran[k] = Chain[k]
            /\ Ended(q) \/ req[q].ran = <<>> \/ Len(req[q].ran) = Len(Chain)
      BY Parts DEF Runs
    <2>5. r.pc \notin {"new", "ctx", "run", "put"}  BY <1>22
    <2> QED  BY <1>22, <1>24, <1>35, <2>1, <2>2, <2>3, <2>4, <2>5 DEF Runs
  <1> QED
    BY <1>18, <1>25, <1>27, <1>29, <1>30, <1>31, <1>32, <1>33, <1>34, <1>36, <1>37,
       ServeStep DEF Own

\* The goroutine of a request lets go of everything.
LEMMA Ends ==
  ASSUME DispatchInv, NEW q \in Requests, req[q].pc = "end",
         UNCHANGED <<kind, ctrl, tree, model, stack, inst, disc>>,
         req' = [req EXCEPT ![q] = Finished(q)]
  PROVE  /\ req' \in [Requests -> ReqType]
         /\ req'[q].ctx = None /\ req'[q].rsp = None /\ req'[q].pc = "done"
         /\ req'[q].said = req[q].said
         /\ \A p \in Requests : p # q => req'[p] = req[p]
         /\ InstHeld' /\ InstInv' /\ ModelInv' /\ Held(q)' /\ Runs(q)'
  <1>1. PICK r \in ReqType : r = Finished(q)  BY FinishedIs, Parts
  <1>2. /\ r.pc = "done" /\ r.ctx = None /\ r.rsp = None
        /\ r.inst = None /\ r.todo = <<>> /\ r.route = None
        /\ r.ran = req[q].ran /\ r.half = req[q].half
        /\ r.said = req[q].said
    BY <1>1, FinishedIs, Parts
  <1>3. /\ req' \in [Requests -> ReqType] /\ req'[q] = r
        /\ \A p \in Requests : p # q => req'[p] = req[p]
    BY <1>1, Parts, Updated
  <1>4. InstHeld'  BY <1>2, <1>3, NoneIsFree, Parts DEF InstHeld
  <1>5. Chain' = Chain /\ RouteChain' = RouteChain  BY DEF Chain, RouteChain
  <1>6. InstInv'  BY <1>5, Parts DEF InstInv
  <1>7. ModelInv'  BY <1>2, <1>3, Parts DEF ModelInv
  <1>8. Held(q)'  BY <1>2, <1>3 DEF Held, Served
  <1>9. Runs(q)'
    <2>1. req[q].inst = None  BY Parts DEF Held
    <2>2. (Half(q) \/ Torn(q))' = (Half(q) \/ Torn(q))
      BY <1>2, <1>3, <2>1 DEF Half, Torn
    <2>3. Ended(q)' = Ended(q)  BY <1>2, <1>3 DEF Ended
    <2>4. Half(q) \/ Torn(q) \/
            /\ Len(req[q].ran) <= Len(Chain)
            /\ \A k \in 1 .. Len(req[q].ran) : req[q].ran[k] = Chain[k]
            /\ Ended(q) \/ req[q].ran = <<>> \/ Len(req[q].ran) = Len(Chain)
      BY Parts DEF Runs
    <2> QED  BY <1>2, <1>3, <1>5, <2>2, <2>3, <2>4 DEF Runs
  <1> QED  BY <1>2, <1>3, <1>4, <1>6, <1>7, <1>8, <1>9

\* pool.Put of a context that no websocket has: it goes to its pool, or is lost
\* with it.
LEMMA PutCtxIs ==
  ASSUME DispatchInv, NEW q \in Requests, req[q].pc = "end", NEW d \in CtxType,
         PutCtx(q, d), UNCHANGED <<kind, ws>>,
         \A h \in ws : h.ctx # req[q].ctx,
         req' \in [Requests -> ReqType], req'[q].ctx = None, req'[q].rsp = None,
         \A p \in Requests : p # q => req'[p] = req[p]
  PROVE  /\ ctx' \in [Ctxs -> CtxType]
         /\ pools' \in [Ids -> {None} \cup SUBSET Ctxs]
         /\ \A p \in Requests : p # q /\ req[p].ctx # None =>
              ctx'[req[p].ctx] = ctx[req[p].ctx]
         /\ \A n \in Ids : pools[n] # None => pools'[n] # None
         /\ CtxHeld' /\ WsInv'
  <1>1. req[q] \in ReqType  BY Parts, Fields
  <1>2. /\ req[q].ctx # None /\ req[q].route # None
        /\ ~req[q].stale => pools[req[q].route.id] # None
    BY Parts DEF Held, Served
  <1>3. PICK c \in Ctxs : c = req[q].ctx  BY <1>1, <1>2 DEF ReqType
  <1>4. PICK id \in Ids : id = req[q].route.id
    BY <1>1, <1>2 DEF ReqType, RouteType
  <1>5. PICK e \in CtxType : /\ \A b \in Ctxs : ctx'[b] = IF b = c THEN e ELSE ctx[b]
                             /\ ctx' \in [Ctxs -> CtxType]
    <2>1. CASE req[q].stale
      <3>1. FreshCtx \in CtxType  BY DEF FreshCtx, CtxType
      <3>2. ctx' = [b \in Ctxs |-> IF b \in {c} THEN FreshCtx ELSE ctx[b]]
        BY <1>3, <2>1 DEF PutCtx, Forget
      <3>3. \A b \in Ctxs : (IF b \in {c} THEN FreshCtx ELSE ctx[b]) \in CtxType
        BY <3>1, Parts, Fields
      <3>4. /\ ctx' \in [Ctxs -> CtxType]
            /\ \A b \in Ctxs : ctx'[b] = IF b = c THEN FreshCtx ELSE ctx[b]
        BY <3>2, <3>3
      <3> QED  BY <3>1, <3>4
    <2>2. CASE ~req[q].stale
      <3>1. ctx' = [ctx EXCEPT ![c] = d]  BY <1>3, <2>2 DEF PutCtx
      <3> QED  BY <3>1, Parts DEF TypeOK
    <2> QED  BY <2>1, <2>2
  <1>6. /\ pools' \in [Ids -> {None} \cup SUBSET Ctxs]
        /\ \A n \in Ids : n # id => pools'[n] = pools[n]
        /\ pools'[id] = pools[id]
           \/ (pools[id] # None /\ pools'[id] = pools[id] \cup {c} /\ pools'[id] # None)
    <2>1. pools \in [Ids -> {None} \cup SUBSET Ctxs]  BY Parts DEF TypeOK
    <2>2. CASE req[q].stale
      <3>1. pools' = pools  BY <2>2 DEF PutCtx
      <3> QED  BY <2>1, <3>1
    <2>3. CASE ~req[q].stale
      <3>1. pools[id] \in SUBSET Ctxs /\ pools[id] # None  BY <1>2, <1>4, <2>1, <2>3
      <3>2. PICK new \in SUBSET Ctxs : new = pools[id] \cup {c}  BY <3>1
      <3>3. new # None  BY DispatchAssumption
      <3>4. pools' = [pools EXCEPT ![id] = new]
        BY <1>3, <1>4, <2>3, <3>2 DEF PutCtx
      <3>5. pools'[id] = new /\ \A n \in Ids : n # id => pools'[n] = pools[n]
        BY <2>1, <3>4
      <3>6. pools' \in [Ids -> {None} \cup SUBSET Ctxs]  BY <2>1, <3>4
      <3> QED  BY <3>1, <3>2, <3>3, <3>5, <3>6
    <2> QED  BY <2>2, <2>3
  <1>7. \A n \in Ids : pools[n] # None => pools'[n] # None  BY <1>6
  <1>8. \A n \in Ids : pools'[n] # None =>
          /\ pools[n] # None
          /\ pools'[n] = pools[n] \/ (n = id /\ pools'[n] = pools[n] \cup {c})
    BY <1>6
  <1>9. \A p \in Requests : p # q => req[p].ctx # c
    BY <1>2, <1>3, Parts DEF CtxHeld
  <1>10. \A n \in Ids : pools[n] # None => c \notin pools[n]
    BY <1>3, Parts DEF CtxHeld
  <1>11. \A n \in Ids : pools'[n] # None => None \notin pools'[n]
    <2>1. c # None  BY DispatchAssumption
    <2> QED  BY <1>8, <2>1, NoneIsFree, Parts
  <1>12. CtxHeld'
    <2>1. \A p, o \in Requests : p # o /\ req'[p].ctx = req'[o].ctx => req'[p].ctx = None
      BY Parts DEF CtxHeld
    <2>2. ASSUME NEW n \in Ids, pools'[n] # None, NEW p \in Requests
          PROVE  req'[p].ctx \notin pools'[n]
      <3>1. CASE p = q  BY <1>11, <2>2, <3>1
      <3>2. CASE p # q  BY <1>8, <1>9, <2>2, <3>2, Parts DEF CtxHeld
      <3> QED  BY <3>1, <3>2
    <2>3. ASSUME NEW n \in Ids, pools'[n] # None, NEW h \in ws
          PROVE  h.ctx \notin pools'[n]
      BY <1>3, <1>8, <2>3, Parts DEF CtxHeld
    <2>4. ASSUME NEW n \in Ids, NEW m \in Ids, n # m, pools'[n] # None, pools'[m] # None
          PROVE  pools'[n] \cap pools'[m] = {}
      <3>1. pools[n] \cap pools[m] = {} /\ c \notin pools[n] /\ c \notin pools[m]
        BY <1>8, <1>10, <2>4, Parts DEF CtxHeld
      <3> QED  BY <1>8, <2>4, <3>1
    <2> QED  BY <2>1, <2>2, <2>3, <2>4 DEF CtxHeld
  <1>13. WsInv'
    <2>1. kind' = "rpc" => ws' = {}  BY Parts DEF WsInv
    <2>2. ASSUME NEW h \in ws, NEW p \in Requests
          PROVE  /\ req'[p].rsp = h.rsp => req'[p].ctx = h.ctx
                 /\ req'[p].ctx = h.ctx => ctx'[h.ctx].hijacked
      <3>1. h.ctx \in Ctxs /\ h.ctx # None /\ h.rsp # None
        BY Parts, Fields, NoneIsFree
      <3>2. h.ctx # c  BY <1>3
      <3>3. ctx'[h.ctx] = ctx[h.ctx]  BY <1>5, <3>1, <3>2
      <3> QED  BY <3>1, <3>3, Parts DEF WsInv
    <2> QED  BY <2>1, <2>2 DEF WsInv
  <1>14. ASSUME NEW p \in Requests, p # q, req[p].ctx # None
         PROVE  ctx'[req[p].ctx] = ctx[req[p].ctx]
    <2>1. req[p] \in ReqType  BY Parts, Fields
    <2>2. req[p].ctx \in Ctxs  BY <1>14, <2>1 DEF ReqType
    <2> QED  BY <1>5, <1>9, <1>14, <2>2
  <1> QED  BY <1>5, <1>6, <1>7, <1>12, <1>13, <1>14

LEMMA EndRpcStep ==
  ASSUME DispatchInv, NEW q \in Requests, EndRpc(q)
  PROVE  DispatchInv'
  <1>0. /\ UNCHANGED <<kind, ctrl, tree, lastId, model, stack, inst, rspPool, rsp, ws>>
        /\ UNCHANGED <<got, disc, panics>> /\ req[q].pc = "end" /\ kind = "rpc"
        /\ PutCtx(q, ctx[req[q].ctx]) /\ req' = [req EXCEPT ![q] = Finished(q)]
    BY DEF EndRpc, routeVars, handlerVars
  <1> USE <1>0
  <1>1. /\ req' \in [Requests -> ReqType]
        /\ req'[q].ctx = None /\ req'[q].rsp = None /\ req'[q].pc = "done"
        /\ req'[q].said = req[q].said
        /\ \A p \in Requests : p # q => req'[p] = req[p]
        /\ InstHeld' /\ InstInv' /\ ModelInv' /\ Held(q)' /\ Runs(q)'
    BY Ends
  <1>2. ws = {}  BY Parts DEF WsInv
  <1>3. PICK d \in CtxType : d = ctx[req[q].ctx]
    <2>1. req[q] \in ReqType /\ req[q].ctx # None  BY Parts, Fields DEF Held, Served
    <2> QED  BY <2>1, Parts, Fields DEF ReqType
  <1>4. PutCtx(q, d)  BY <1>3
  <1>5. /\ ctx' \in [Ctxs -> CtxType]
        /\ pools' \in [Ids -> {None} \cup SUBSET Ctxs]
        /\ \A p \in Requests : p # q /\ req[p].ctx # None =>
             ctx'[req[p].ctx] = ctx[req[p].ctx]
        /\ \A n \in Ids : pools[n] # None => pools'[n] # None
        /\ CtxHeld' /\ WsInv'
    BY <1>1, <1>2, <1>4, PutCtxIs
  <1>6. TypeOK'  BY <1>1, <1>5, Parts DEF TypeOK
  <1>7. Aside(q)  BY <1>1, <1>5 DEF Aside
  <1>8. RspHeld'  BY <1>1, NoneIsFree, Parts DEF RspHeld
  <1>9. Data(q)'
    <2>1. got[q] \cap Requests \subseteq {q} /\ req[q].said # {"respond"}
      BY Parts DEF Data
    <2> QED  BY <1>1, <2>1 DEF Data
  <1> QED  BY <1>1, <1>5, <1>6, <1>7, <1>8, <1>9, ServeStep DEF Own

\* The end of ServeHTTP after the connection was taken over: the websocket has
\* context and response.
LEMMA EndHijacked ==
  ASSUME DispatchInv, NEW q \in Requests, EndHttp(q), ctx[req[q].ctx].hijacked
  PROVE  DispatchInv'
  <1>0. /\ UNCHANGED <<kind, ctrl, tree, lastId, model, stack, inst, pools, rspPool, rsp>>
        /\ UNCHANGED <<ws, ctx, got, disc, panics>> /\ req[q].pc = "end" /\ kind = "http"
        /\ req' = [req EXCEPT ![q] = Finished(q)]
    BY DEF EndHttp, routeVars, handlerVars
  <1> USE <1>0
  <1>1. /\ req' \in [Requests -> ReqType]
        /\ req'[q].ctx = None /\ req'[q].rsp = None /\ req'[q].pc = "done"
        /\ req'[q].said = req[q].said
        /\ \A p \in Requests : p # q => req'[p] = req[p]
        /\ InstHeld' /\ InstInv' /\ ModelInv' /\ Held(q)' /\ Runs(q)'
    BY Ends
  <1>2. TypeOK'  BY <1>1, Parts DEF TypeOK
  <1>3. Aside(q)  BY <1>1 DEF Aside
  <1>4. CtxHeld'  BY <1>1, NoneIsFree, Parts DEF CtxHeld
  <1>5. RspHeld'  BY <1>1, NoneIsFree, Parts DEF RspHeld
  <1>6. WsInv'  BY <1>1, NoneIsFree, Parts DEF WsInv
  <1>7. Data(q)'
    <2>1. req[q].ctx # None  BY Parts DEF Held, Served
    <2>2. got[q] \cap Requests \subseteq {q} /\ req[q].said # {"respond"}
      BY <2>1, Parts DEF Data
    <2> QED  BY <1>1, <2>2 DEF Data
  <1> QED  BY <1>1, <1>2, <1>3, <1>4, <1>5, <1>6, <1>7, ServeStep DEF Own

\* The end of ServeHTTP: the result is sent, context and response are put back.
LEMMA EndPooled ==
  ASSUME DispatchInv, NEW q \in Requests, EndHttp(q), ~ctx[req[q].ctx].hijacked
  PROVE  DispatchInv'
  <1>0. /\ UNCHANGED <<kind, ctrl, tree, lastId, model, stack, inst>>
        /\ UNCHANGED <<ws, disc, panics>> /\ req[q].pc = "end" /\ kind = "http"
        /\ req' = [req EXCEPT ![q] = Finished(q)]
    BY DEF EndHttp, routeVars, handlerVars
  <1> USE <1>0
  <1>1. /\ req' \in [Requests -> ReqType]
        /\ req'[q].ctx = None /\ req'[q].rsp = None /\ req'[q].pc = "done"
        /\ req'[q].said = req[q].said
        /\ \A p \in Requests : p # q => req'[p] = req[p]
        /\ InstHeld' /\ InstInv' /\ ModelInv' /\ Held(q)' /\ Runs(q)'
    BY Ends
  <1>2. req[q] \in ReqType /\ req[q].ctx # None /\ req[q].rsp # None
    BY Parts, Fields DEF Held, Served
  <1>3. PICK c \in Ctxs : c = req[q].ctx  BY <1>2 DEF ReqType
  <1>4. PICK s \in Rsps : s = req[q].rsp  BY <1>2 DEF ReqType
  <1>5. ctx[c] \in CtxType /\ rsp[s] \in RspType /\ rsp[s].writer = q
    BY <1>2, <1>4, Parts, Fields DEF Held
  <1>6. PICK d : d = [ctx[c] EXCEPT !.done = TRUE]  OBVIOUS
  <1>7. d \in CtxType  BY <1>5, <1>6 DEF CtxType
  <1>8. PICK w : w = ctx[c].result  OBVIOUS
  <1>9. w \in {None, q}  BY <1>2, <1>3, <1>8, Parts DEF Data
  <1>10. PICK applies \in BOOLEAN : applies <=> (~ctx[c].done /\ rsp[s].status = 0)
    OBVIOUS
  <1>11. PICK z : z = [rsp[s] EXCEPT !.writer = None,
                                     !.status = IF applies THEN 200 ELSE @]
    OBVIOUS
  <1>12. z \in RspType
    <2>1. CASE applies  BY <1>5, <1>11, <2>1 DEF RspType
    <2>2. CASE ~applies  BY <1>5, <1>11, <2>2 DEF RspType
    <2> QED  BY <2>1, <2>2
  <1>13. /\ applies => got' = [got EXCEPT ![q] = @ \cup {w}]
         /\ ~applies => got' = got
         /\ PutCtx(q, d) /\ rspPool' = rspPool \cup {s}
    BY <1>3, <1>4, <1>5, <1>6, <1>8, <1>10 DEF EndHttp, Sends
  <1>14. rsp' = [rsp EXCEPT ![s] = z]
    <2>1. rsp' = [rsp EXCEPT ![s].writer = None,
                             ![s].status = IF applies THEN 200 ELSE @]
      BY <1>3, <1>4, <1>10 DEF EndHttp
    <2> QED  BY <1>11, <2>1, Parts DEF TypeOK
  <1>15. /\ rsp' \in [Rsps -> RspType] /\ \A t \in Rsps : t # s => rsp'[t] = rsp[t]
    BY <1>12, <1>14, Parts DEF TypeOK
  <1>16. /\ got' \in [Requests -> SUBSET (Requests \cup {None} \cup Says)]
         /\ \A p \in Requests : p # q => got'[p] = got[p]
         /\ got'[q] = IF applies THEN got[q] \cup {w} ELSE got[q]
    <2>1. got \in [Requests -> SUBSET (Requests \cup {None} \cup Says)]
      BY Parts DEF TypeOK
    <2>2. CASE applies
      <3>1. PICK g \in SUBSET (Requests \cup {None} \cup Says) : g = got[q] \cup {w}
        BY <1>9, <2>1
      <3>2. got' = [got EXCEPT ![q] = g]  BY <1>13, <2>2, <3>1
      <3> QED  BY <2>1, <2>2, <3>1, <3>2
    <2>3. CASE ~applies  BY <1>13, <2>1, <2>3
    <2> QED  BY <2>2, <2>3
  <1>17. \A h \in ws : h.ctx # c /\ h.rsp # s
    BY <1>3, <1>4, Parts DEF WsInv
  <1>18. /\ ctx' \in [Ctxs -> CtxType]
         /\ pools' \in [Ids -> {None} \cup SUBSET Ctxs]
         /\ \A p \in Requests : p # q /\ req[p].ctx # None =>
              ctx'[req[p].ctx] = ctx[req[p].ctx]
         /\ \A n \in Ids : pools[n] # None => pools'[n] # None
         /\ CtxHeld' /\ WsInv'
    BY <1>1, <1>3, <1>7, <1>13, <1>17, PutCtxIs
  <1>19. TypeOK'  BY <1>1, <1>13, <1>15, <1>16, <1>18, Parts DEF TypeOK
  <1>20. \A p \in Requests : p # q => req[p].rsp # s
    BY <1>2, <1>4, Parts DEF RspHeld
  <1>21. Aside(q)
    <2>1. \A p \in Requests : p # q =>
            (req[p].rsp # None => rsp'[req[p].rsp] = rsp[req[p].rsp])
      BY <1>15, <1>20, Parts, Fields DEF ReqType
    <2> QED  BY <1>1, <1>16, <1>18, <2>1 DEF Aside
  <1>22. RspHeld'
    <2>1. None \notin rspPool'  BY <1>13, NoneIsFree, Parts, DispatchAssumption
    <2> QED  BY <1>1, <1>13, <1>17, <1>20, <2>1, Parts DEF RspHeld
  <1>23. Data(q)'
    <2>1. got[q] \cap Requests \subseteq {q}  BY Parts DEF Data
    <2>2. got'[q] \cap Requests \subseteq {q}
      <3>1. None \notin Requests  BY DispatchAssumption
      <3> QED  BY <1>9, <1>16, <2>1, <3>1
    <2>3. ASSUME req[q].said = {"respond"}  PROVE q \in got'[q]
      <3>1. ~ctx[c].done /\ rsp[s].status = 0 /\ ctx[c].result = q
        BY <1>2, <1>3, <1>4, <2>3, Parts DEF Data
      <3>2. applies /\ w = q  BY <1>8, <1>10, <3>1
      <3> QED  BY <1>16, <3>2
    <2> QED  BY <1>1, <2>2, <2>3 DEF Data
  <1> QED  BY <1>1, <1>18, <1>19, <1>21, <1>22, <1>23, ServeStep DEF Own

---------------------------------------------------------------------------
(* The theorems                                                            *)

LEMMA InitInv == Init => DispatchInv
  <1> SUFFICES ASSUME Init PROVE DispatchInv  OBVIOUS
  <1>0. <<>> \in Seq(Funcs) /\ <<>> \in Seq(Insts)  OBVIOUS
  <1>1. /\ Fresh \in InstType /\ FreshCtx \in CtxType /\ FreshRsp \in RspType
        /\ NoRequest \in ReqType
    BY <1>0
    DEF Fresh, FreshCtx, FreshRsp, NoRequest, InstType, CtxType, RspType, ReqType
  <1>2. 0 \in 0 .. MaxRoutes /\ 0 \in 0 .. MaxInitPanics  BY DispatchAssumption
  <1>3. TypeOK
    <2>1. /\ inst \in [Insts -> InstType] /\ ctx \in [Ctxs -> CtxType]
          /\ rsp \in [Rsps -> RspType] /\ req \in [Requests -> ReqType]
      BY <1>1 DEF Init
    <2>2. /\ pools \in [Ids -> {None} \cup SUBSET Ctxs]
          /\ got \in [Requests -> SUBSET (Requests \cup {None} \cup Says)]
          /\ disc \in [Discoverers -> {"idle", "fill", "add"}]
      BY DEF Init
    <2> QED  BY <1>0, <1>2, <2>1, <2>2 DEF Init, TypeOK
  <1>4. /\ \A n \in Ids : pools[n] = None
        /\ \A q \in Requests : req[q] = NoRequest /\ got[q] = {}
        /\ ws = {} /\ rspPool = {} /\ stack = <<>> /\ model = None /\ tree = None
        /\ \A d \in Discoverers : disc[d] = "idle"
        /\ \A i \in Insts : inst[i] = Fresh
    BY DEF Init
  <1>5. OneHolder  BY <1>4, DispatchAssumption DEF OneHolder, NoRequest
  <1>6. WsInv /\ ModelInv  BY <1>4 DEF WsInv, ModelInv, NoRequest
  <1>7. InstInv  BY <1>4 DEF InstInv, Fresh
  <1>8. Len(Chain) \in Nat  BY <1>3, ChainTypes
  <1>9. ASSUME NEW q \in Requests  PROVE Held(q) /\ Data(q) /\ Runs(q)
    <2>1. Held(q)  BY <1>4 DEF Held, NoRequest, Served
    <2>2. Data(q)  BY <1>4 DEF Data, NoRequest
    <2>3. Runs(q)  BY <1>4, <1>8 DEF Runs, NoRequest
    <2> QED  BY <2>1, <2>2, <2>3
  <1> QED  BY <1>3, <1>5, <1>6, <1>7, <1>9 DEF DispatchInv

LEMMA ServeInv ==
  ASSUME DispatchInv, NEW q \in Requests, Serve(q)
  PROVE  DispatchInv'
  <1>1. CASE StartHttp(q)  BY <1>1, StartHttpFound, StartHttpMissed
  <1>2. CASE StartRpc(q)  BY <1>2, StartRpcFound, StartRpcMissed
  <1>3. CASE TakeCtx(q)  BY <1>3, TakeCtxStep
  <1>4. CASE GetHandler(q)  BY <1>4, NoHandlerLeft, HandlerGot
  <1>5. CASE InitPanics(q)  BY <1>5, InitPanicsStep
  <1>6. CASE RunFunc(q)  BY <1>6, RunFuncStep
  <1>7. CASE LeaveLoop(q)  BY <1>7, LeaveLoopStep
  <1>8. CASE PutHandler(q)  BY <1>8, PutHandlerStep
  <1>9. CASE EndHttp(q)  BY <1>9, EndHijacked, EndPooled
  <1>10. CASE EndRpc(q)  BY <1>10, EndRpcStep
  <1> QED
    BY <1>1, <1>2, <1>3, <1>4, <1>5, <1>6, <1>7, <1>8, <1>9, <1>10 DEF Serve

LEMMA NextInv == DispatchInv /\ [Next]_vars => DispatchInv'
  <1> SUFFICES ASSUME DispatchInv, [Next]_vars PROVE DispatchInv'  OBVIOUS
  <1>1. ASSUME NEW q \in Requests, Serve(q)  PROVE DispatchInv'  BY <1>1, ServeInv
  <1>2. ASSUME NEW d \in Discoverers, Model(d)  PROVE DispatchInv'  BY <1>2, ModelStep
  <1>3. ASSUME NEW d \in Discoverers, FillModel(d)  PROVE DispatchInv'
    BY <1>3, FillModelStep
  <1>4. ASSUME NEW d \in Discoverers, AddRoute(d)  PROVE DispatchInv'
    BY <1>4, AddRouteStep
  <1>5. CASE Register  BY <1>5, RegisterStep
  <1>6. CASE Deregister  BY <1>6, DeregisterStep
  <1>7. CASE CloseWs  BY <1>7, CloseWsStep
  <1>8. CASE CollectCtxs  BY <1>8, CollectStep
  <1>9. CASE Vacuum  BY <1>9, VacuumStep
  <1>10. CASE UNCHANGED vars
    <2>1. UNCHANGED <<kind, ctrl, stack, inst, pools, ctx, rspPool, rsp, ws, req, got>>
          /\ UNCHANGED <<tree, lastId, model, disc, panics>>
      BY <1>10 DEF vars
    <2>2. /\ CtxHeld' /\ RspHeld' /\ InstHeld' /\ WsInv'
          /\ \A q \in Requests : Own(q)'
      BY <2>1, Unseen
    <2>3. TypeOK'  BY <2>1, Parts DEF TypeOK
    <2>4. Chain' = Chain /\ RouteChain' = RouteChain  BY <2>1 DEF Chain, RouteChain
    <2>5. InstInv'  BY <2>1, <2>4, Parts DEF InstInv
    <2>6. ModelInv'  BY <2>1, Parts DEF ModelInv
    <2> QED  BY <2>2, <2>3, <2>5, <2>6, PartsNext
  <1> QED
    BY <1>1, <1>2, <1>3, <1>4, <1>5, <1>6, <1>7, <1>8, <1>9, <1>10 DEF Next

\* ServeHTTP and ServeRPC, discovery, the pools and the websocket goroutines keep
\* who holds what, what is in it and how far each chain has run.
THEOREM DispatchInvariant == Spec => []DispatchInv
  BY InitInv, NextInv, PTL DEF Spec

\* A context, a response or a handler instance has one holder: what ServeHTTP,
\* ServeRPC and handlerManager have put back is in one pool and with nobody, and
\* what a websocket handler took over is never put back.
THEOREM PooledOnce == Spec => []OneHolder
  <1>1. DispatchInv => OneHolder  BY DEF DispatchInv
  <1> QED  BY <1>1, DispatchInvariant, PTL

\* reset and Apply: an RPC request finds nothing of another one in its pooled
\* context, and an HTTP client is sent no result but that of its own request.
THEOREM NoForeignData == Spec => []OwnData
  <1>1. DispatchInv => OwnData  BY Parts DEF OwnData, Data
  <1> QED  BY <1>1, DispatchInvariant, PTL

\* Connect, reset and Apply: the result that the handlers of a request have left
\* in its context is sent when ServeHTTP ends, if nothing else was answered.
THEOREM ResultSent == Spec => []ResultNotLost
  <1>1. DispatchInv => ResultNotLost  BY Parts DEF ResultNotLost, Data
  <1> QED  BY <1>1, DispatchInvariant, PTL

\* The front of a chain, element by element, is a subsequence of it.
LEMMA FrontIs ==
  ASSUME NEW S, NEW chain \in Seq(S), NEW ran \in Seq(S), Len(ran) <= Len(chain),
         \A k \in 1 .. Len(ran) : ran[k] = chain[k]
  PROVE  ran = SubSeq(chain, 1, Len(ran))
  <1>1. PICK front : front = SubSeq(chain, 1, Len(ran))  OBVIOUS
  <1>2. /\ front \in Seq(S) /\ Len(front) = Len(ran)
        /\ \A k \in 1 .. Len(ran) : front[k] = chain[k]
    BY <1>1
  <1>3. ran = front  BY <1>2
  <1> QED  BY <1>1, <1>3

\* invokeHandler, Next and init: a request runs the functions of its chain in
\* order and each once, all of them unless it was ended or panicked - whatever
\* other requests, panics and rediscovered endpoints did to the pooled handlers,
\* as long as the handler it got was built completely.
THEOREM ChainInOrder == Spec => []ChainRuns
  <1>1. DispatchInv => ChainRuns
    <2> SUFFICES ASSUME DispatchInv, NEW q \in Requests, ~Half(q), ~Torn(q)
                 PROVE  RanInOrder(q)
      BY DEF ChainRuns
    <2>1. /\ Len(req[q].ran) <= Len(Chain)
          /\ \A k \in 1 .. Len(req[q].ran) : req[q].ran[k] = Chain[k]
          /\ req[q].pc = "done" =>
               Ended(q) \/ req[q].ran = <<>> \/ Len(req[q].ran) = Len(Chain)
      BY Parts DEF Runs
    <2>2. Chain \in Seq(Funcs) /\ req[q].ran \in Seq(Funcs)
      BY ChainTypes, Parts, Fields DEF ReqType
    <2>3. req[q].ran = SubSeq(Chain, 1, Len(req[q].ran))  BY <2>1, <2>2, FrontIs
    <2>4. req[q].ran = <<>> => ~(Len(req[q].ran) > 0)  OBVIOUS
    <2> QED  BY <2>1, <2>3, <2>4 DEF RanInOrder, Ended
  <1> QED  BY <1>1, DispatchInvariant, PTL

\* The variables have their types.
THEOREM DispatchTypeCorrect == Spec => []TypeOK
  <1>1. DispatchInv => TypeOK  BY Parts
  <1> QED  BY <1>1, DispatchInvariant, PTL

===========================================================================
