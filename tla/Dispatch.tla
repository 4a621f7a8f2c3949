----------------------------- MODULE Dispatch -----------------------------
(***************************************************************************)
(* How the router serves requests (router/router.go, handler.go, http.go,  *)
(* rpc.go, route.go, group.go addRoute): match a route, take a context     *)
(* from the pool of the route's id, take or clone each handler of the      *)
(* route, run its chain of middlewares, put everything back - while        *)
(* discovery replaces the routes and a websocket handler keeps what it     *)
(* took over.                                                              *)
(*                                                                         *)
(* Objects of a pool (contexts, responses, handler instances) are members  *)
(* of finite sets: a new object is one that nothing refers to.  HTTP and   *)
(* RPC requests meet in none of them (the contexts are pooled by route,    *)
(* the handlers by an id that includes the transport), so a behaviour has  *)
(* one transport, and one path, whose route is `tree'.  What a function of *)
(* a chain does is chosen when it runs.                                    *)
(***************************************************************************)
EXTENDS Naturals, Sequences

CONSTANTS
    Requests,           \* goroutines of ServeHTTP and ServeRPC, one request each
    Ctxs, Rsps, Insts,  \* contexts, THttpResponses, handler instances
    Discoverers,        \* goroutines of store: watch and refresh
    GlobalMids,         \* Use: sequence of "any", "http", "rpc"
    RouteMids,          \* middlewares of the route, alike
    Does,               \* what each function of a chain may do
    CtrlMids, Filtered, \* middlewares of the controller; AddFilter
    MaxRoutes,          \* bound: route ids
    MaxInitPanics,      \* bound: initialisations that panic
    None

Kinds  == {"http", "rpc"}
Ids    == 1 .. MaxRoutes
Served == {"ctx", "get", "run", "put", "end"}
Funcs  == DOMAIN Does
Words  == {"next", "panic", "setctx", "respond", "write", "abort", "upgrade"}
Says   == {"404", "refused", "101", "write", "abort", "error"}

RouteType == [id : Ids, handlers : {<<>>, <<"handler">>}]
ModelType == [full : BOOLEAN, chain : Seq(Funcs)]

ASSUME DispatchAssumption ==
    /\ None \notin Ctxs \cup Rsps \cup Insts \cup Requests
    /\ None \notin RouteType /\ None \notin ModelType
    /\ \A cs \in SUBSET Ctxs : cs # None
    /\ Requests \cap Says = {} /\ None \notin Says
    /\ Does \in [Funcs -> SUBSET Words] /\ "main" \in Funcs
    /\ MaxRoutes \in Nat /\ MaxInitPanics \in Nat

VARIABLES
    kind,       \* the transport of this behaviour
    ctrl,       \* its handler is a method of a controller, registered once
    tree,       \* the route of the path: [id, handlers], or None
    lastId,     \* idQueue
    model,      \* handlerModel: None, or [full, chain], the proxy handler of the
                \* path; full once generateHandler has set funcs
    stack,      \* handlerPool: the instances that wait, the last one first
    inst,       \* instances: [chain, pos, inited, full, torn]; torn: init failed once
    pools,      \* httpCtxPool, rpcCtxPool: id -> None, or the set of its contexts
    ctx,        \* contexts: [val, result, done, hijacked]; val is self.context,
                \* result what else a request sets in it
    rspPool,    \* respPool
    rsp,        \* responses: [writer, status]
    ws,         \* pairs of a context and a response a websocket goroutine holds
    req,        \* per request
    got,        \* what the client of a request has been sent
    disc,       \* per discoverer: where it is in store
    panics      \* counter for the bound

vars == <<kind, ctrl, tree, lastId, model, stack, inst, pools, ctx, rspPool, rsp, ws, req,
          got, disc, panics>>
handlerVars == <<model, stack, inst>>
poolVars    == <<pools, rspPool, ws>>
routeVars   == <<kind, ctrl, tree, lastId>>

Fresh     == [chain |-> <<>>, pos |-> 0, inited |-> FALSE, full |-> FALSE,
              torn |-> FALSE]
FreshCtx  == [val |-> None, result |-> None, done |-> FALSE, hijacked |-> FALSE]
FreshRsp  == [writer |-> None, status |-> 0]
NoRequest == [pc |-> "new", route |-> None, todo |-> <<>>,
              ctx |-> None, rsp |-> None, inst |-> None, stale |-> FALSE,
              depth |-> 0, ran |-> <<>>, half |-> FALSE, said |-> {}]

Init ==
    /\ kind \in Kinds /\ ctrl \in BOOLEAN
    /\ tree = None /\ lastId = 0
    /\ model = None
    /\ stack = <<>>
    /\ inst = [i \in Insts |-> Fresh]
    /\ pools = [n \in Ids |-> None]
    /\ ctx = [c \in Ctxs |-> FreshCtx]
    /\ rspPool = {}
    /\ rsp = [s \in Rsps |-> FreshRsp]
    /\ ws = {}
    /\ req = [q \in Requests |-> NoRequest]
    /\ got = [q \in Requests |-> {}]
    /\ disc = [d \in Discoverers |-> "idle"] /\ panics = 0

---------------------------------------------------------------------------
(* Routes                                                                  *)

\* buildMiddlewares: what does not fit the transport is left out.
buildMiddlewares(mids, transport) ==
    LET fits(m) == m \in {"any", transport} IN SelectSeq(mids, fits)

\* The middlewares of the controller, without those it filters.
filtered == SelectSeq(CtrlMids, LAMBDA m : m \notin Filtered)

ASSUME MiddlewareAssumption ==
    /\ \A t \in Kinds : /\ buildMiddlewares(GlobalMids, t) \in Seq(Funcs)
                        /\ buildMiddlewares(RouteMids, t) \in Seq(Funcs)
    /\ filtered \in Seq(Funcs)

\* Mutated form: Get, which pops an instance that was initialised, in place
\* of Model, and Store of what it returned.
GetAndStore ==
    IF stack = <<>> THEN model ELSE [model EXCEPT !.chain = inst[Head(stack)].chain]

\* generateHandler finds the model of a proxy handler and leaves it as it is.
Reuse == model

\* store finds the endpoint (again): generateHandler up to Store.  A proxy
\* handler is identified by what it is for, so that a model that is there is
\* used.
Model(d) ==
    /\ disc[d] = "idle" /\ lastId < MaxRoutes
    /\ ctrl => model = None
    /\ IF model # None
       THEN disc' = [disc EXCEPT ![d] = "add"] /\ model' = Reuse
       ELSE /\ disc' = [disc EXCEPT ![d] = "fill"]
            /\ model' = [full |-> FALSE, chain |-> <<>>]
    /\ UNCHANGED <<routeVars, stack, inst, poolVars, ctx, rsp, req, got, panics>>

\* generateHandler after Store: transport type, middlewares, main function.
FillModel(d) ==
    /\ disc[d] = "fill"
    /\ model' = [full |-> TRUE, chain |-> buildMiddlewares(RouteMids, kind)
                                          \o IF ctrl THEN <<>> ELSE <<"main">>]
    /\ disc' = [disc EXCEPT ![d] = "add"]
    /\ UNCHANGED <<routeVars, stack, inst, poolVars, ctx, rsp, req, got, panics>>

\* Nothing refers to these contexts any more: the next one that is made may be
\* any of them.
Forget(cs) == [c \in Ctxs |-> IF c \in cs THEN FreshCtx ELSE ctx[c]]

\* onRouteReplaced: the pools of the replaced id go.  A request that has
\* taken a context of it puts it back into a pool nobody finds.
DropPools(r) ==
    IF r = None THEN UNCHANGED <<pools, ctx, req>>
    ELSE /\ pools' = [pools EXCEPT ![r.id] = None]
         /\ ctx' = Forget(IF pools[r.id] = None THEN {} ELSE pools[r.id])
         /\ req' = [q \in Requests |->
                       IF req[q].ctx # None /\ req[q].route.id = r.id
                       THEN [req[q] EXCEPT !.stale = TRUE] ELSE req[q]]

\* Mutated form: an id is taken even when there is none left.
NewRouteAlways(handlers) ==
    /\ lastId' = lastId + 1
    /\ tree' = [id |-> lastId + 1, handlers |-> handlers]
    /\ DropPools(tree)

\* newRoute and addNode: the path has a route with a new id.
NewRoute(handlers) ==
    /\ lastId < MaxRoutes
    /\ lastId' = lastId + 1
    /\ tree' = [id |-> lastId + 1, handlers |-> handlers]
    /\ DropPools(tree)

\* addRoute's tail: the route has the handler.
AddRoute(d) ==
    /\ disc[d] = "add"
    /\ NewRoute(<<"handler">>)
    /\ disc' = [disc EXCEPT ![d] = "idle"]
    /\ UNCHANGED <<kind, ctrl, handlerVars, rspPool, rsp, ws, got, panics>>

\* Register: an endpoint becomes a route without handlers.
Register ==
    /\ NewRoute(<<>>)
    /\ UNCHANGED <<kind, ctrl, handlerVars, rspPool, rsp, ws, got, disc, panics>>

\* Deregister: the pools of the route that matches go, then DelRoute strips
\* the handlers of the endpoint's own route, which has none: only a route
\* without handlers leaves the tree.
Deregister ==
    /\ tree # None
    /\ DropPools(tree)
    /\ tree' = IF tree.handlers = <<>> THEN None ELSE tree
    /\ UNCHANGED <<kind, ctrl, lastId, handlerVars, rspPool, rsp, ws, got, disc, panics>>

---------------------------------------------------------------------------
(* A request: ServeHTTP, ServeRPC                                          *)

InUse(c)    == \/ \E q \in Requests : req[q].ctx = c
               \/ \E n \in Ids : pools[n] # None /\ c \in pools[n]
               \/ \E h \in ws : h.ctx = c
RspInUse(s) == \/ \E q \in Requests : req[q].rsp = s
               \/ s \in rspPool \/ \E h \in ws : h.rsp = s
InstInUse(i) == \/ \E q \in Requests : req[q].inst = i
                \/ \E n \in DOMAIN stack : stack[n] = i

\* What is written goes to the client the response is connected to.
Sends(s, what) == [got EXCEPT ![rsp[s].writer] = @ \cup {what}]

\* The goroutine lets go of everything.
Finished(q) == [NoRequest EXCEPT !.pc = "done", !.ran = req[q].ran, !.half = req[q].half, !.said = req[q].said]

\* Mutated form of Connect: the status of the last request stays.
ConnectOnly(r, q) == [r EXCEPT !.writer = q]

\* THttpResponse.Connect
Connect(r, q) == [r EXCEPT !.writer = q, !.status = 0]

\* ServeHTTP up to Match: respPool.Get, or a new response; Connect; 404 (or
\* the redirect to the path without its last slash) puts the response back.
StartHttp(q) ==
    /\ kind = "http" /\ req[q].pc = "new"
    /\ \E s \in Rsps :
       /\ s \in rspPool \/ (rspPool = {} /\ ~RspInUse(s))
       /\ IF tree # None
          THEN /\ req' = [req EXCEPT ![q].pc = "ctx", ![q].route = tree, ![q].rsp = s]
               /\ rspPool' = rspPool \ {s}
               /\ rsp' = [rsp EXCEPT ![s] = Connect(@, q)]
               /\ UNCHANGED got
          ELSE /\ req' = [req EXCEPT ![q] = [Finished(q) EXCEPT !.said = {"404"}]]
               /\ rspPool' = rspPool \cup {s}
               /\ rsp' = [rsp EXCEPT ![s] = [writer |-> None, status |-> 404]]
               /\ got' = [got EXCEPT ![q] = {"404"}]
    /\ UNCHANGED <<routeVars, handlerVars, pools, ws, ctx, disc, panics>>

\* ServeRPC up to Match.  (A heartbeat, or a codec that is refused, is
\* answered before anything else happens.)
StartRpc(q) ==
    /\ kind = "rpc" /\ req[q].pc = "new"
    /\ IF tree # None
       THEN /\ req' = [req EXCEPT ![q].pc = "ctx", ![q].route = tree]
            /\ UNCHANGED got
       ELSE /\ req' = [req EXCEPT ![q] = [Finished(q) EXCEPT !.said = {"404"}]]
            /\ got' = [got EXCEPT ![q] = {"404"}]
    /\ UNCHANGED <<routeVars, handlerVars, poolVars, ctx, rsp, disc, panics>>

\* Mutated form of THttpContext.reset: what the handlers set stays.
resetHttpKeeps(c) == [c EXCEPT !.done = FALSE, !.hijacked = FALSE]

\* THttpContext.reset: context keeps what the last request has set.
resetHttp(c) == [c EXCEPT !.result = None, !.done = FALSE, !.hijacked = FALSE]

\* Mutated form of TRpcContext.reset: as the HTTP one.
resetRpcKeeps(c) == [c EXCEPT !.result = None, !.done = FALSE]

\* TRpcContext.reset
resetRpc(c) == [c EXCEPT !.result = None, !.done = FALSE, !.val = None]

\* LoadOrStore of the pool of the route's id, Get or a new context, reset.
\* ServeRPC puts the header of the message into the context, if there is one.
TakeCtx(q) ==
    /\ req[q].pc = "ctx"
    /\ LET n == req[q].route.id
           pool == IF pools[n] = None THEN {} ELSE pools[n]
       IN  \E c \in Ctxs, header \in BOOLEAN :
           /\ c \in pool \/ (pool = {} /\ ~InUse(c))
           /\ header => kind = "rpc"
           /\ pools' = [pools EXCEPT ![n] = pool \ {c}]
           /\ LET old  == IF c \in pool THEN ctx[c] ELSE FreshCtx
                  new  == IF kind = "http" THEN resetHttp(old)
                                                  ELSE resetRpc(old)
              IN  ctx' = [ctx EXCEPT ![c] = IF header THEN [new EXCEPT !.val = q] ELSE new]
           /\ req' = [req EXCEPT ![q].pc = "get", ![q].ctx = c,
                                 ![q].todo = req[q].route.handlers]
    /\ UNCHANGED <<routeVars, handlerVars, rspPool, ws, rsp, got, disc, panics>>

\* handler.init as far as the first middleware that has to be made: the global
\* chain goes in front.  A handler whose transport type is not set counts as RPC.
prependMiddlewares(i) ==
    [i EXCEPT !.chain = buildMiddlewares(GlobalMids, IF i.full THEN kind ELSE "rpc") \o @]

\* handler.init, once: the global chain, then what is behind the middlewares of
\* the route: for a controller the middlewares among its fields, without those
\* it filters, and its method.
init(i) ==
    LET own == IF ctrl THEN Append(filtered, "main") ELSE <<>>
    IN  IF i.inited THEN i
        ELSE [prependMiddlewares(i) EXCEPT !.chain = @ \o own, !.inited = TRUE]

\* Invoke
Enter(i) == [i EXCEPT !.pos = @ + 1]

\* handlerManager.Get: the instance that was put back last, or a clone of the
\* model, which is not initialised.
Get(i) ==
    \/ stack # <<>> /\ i = Head(stack) /\ stack' = Tail(stack)
    \/ stack = <<>> /\ ~InstInUse(i) /\ UNCHANGED stack

Popped(i) == IF stack # <<>> THEN inst[i]
             ELSE [Fresh EXCEPT !.chain = model.chain, !.full = model.full]

\* route: the next handler of the route; invokeHandler up to Invoke's loop.
GetHandler(q) ==
    /\ req[q].pc = "get"
    /\ IF req[q].todo = <<>>
       THEN /\ req' = [req EXCEPT ![q].pc = "end"]
            /\ UNCHANGED <<stack, inst>>
       ELSE \E i \in Insts :
            /\ Get(i)
            /\ inst' = [inst EXCEPT ![i] = Enter(init(Popped(i)))]
            /\ req' = [req EXCEPT ![q].pc = "run", ![q].inst = i, ![q].depth = 0]
    /\ UNCHANGED <<routeVars, model, poolVars, ctx, rsp, got, disc, panics>>

\* init panics in a middleware's creator, or because a middleware that the
\* controller needs is not registered: the instance is put back as it is.
InitPanics(q) ==
    /\ req[q].pc = "get" /\ req[q].todo # <<>> /\ panics < MaxInitPanics
    /\ panics' = panics + 1
    /\ \E i \in Insts :
       /\ Get(i) /\ ~Popped(i).inited
       /\ inst' = [inst EXCEPT ![i] = [prependMiddlewares(Popped(i)) EXCEPT !.torn = TRUE]]
       /\ req' = [req EXCEPT ![q].pc = "put", ![q].inst = i, ![q].said = @ \cup {"panic"}]
    /\ UNCHANGED <<routeVars, model, poolVars, ctx, rsp, got, disc>>

\* The loop of invokeHandlers goes on: there is a function left and the
\* request is not done.  A handler whose transport type is not set fails.
More(q) == LET i == inst[req[q].inst] IN
    i.full /\ i.pos <= Len(i.chain) /\ ~ctx[req[q].ctx].done

\* Upgrade: refused, or too late, or the connection is taken over, with the
\* context and the response.
Upgrade(q) ==
    LET c == req[q].ctx
        s == req[q].rsp
    IN  \/ /\ ctx' = [ctx EXCEPT ![c].done = TRUE]
           /\ rsp' = [rsp EXCEPT ![s].status = 400]
           /\ got' = Sends(s, "refused")
           /\ UNCHANGED ws
        \/ rsp[s].status # 0 /\ UNCHANGED <<ctx, rsp, got, ws>>
        \/ /\ rsp[s].status = 0 /\ ~ctx[c].hijacked
           /\ ctx' = [ctx EXCEPT ![c].hijacked = TRUE]
           /\ got' = Sends(s, "101")
           /\ ws' = ws \cup {[ctx |-> c, rsp |-> s]}
           /\ UNCHANGED rsp

\* What a function does with its context: nothing but Next, set a value of the
\* context or the result, write, or end the request (Abort, NotFound, ...).
Effect(q, e) ==
    LET c == req[q].ctx
        s == req[q].rsp
        http == kind = "http"
    IN  \/ e \in {"next", "panic"} /\ UNCHANGED <<ctx, rsp, got, ws>>
        \/ e = "setctx" /\ ctx' = [ctx EXCEPT ![c].val = q] /\ UNCHANGED <<rsp, got, ws>>
        \/ e = "respond" /\ http
           /\ ctx' = [ctx EXCEPT ![c].result = q] /\ UNCHANGED <<rsp, got, ws>>
        \/ /\ e \in {"write", "abort"} /\ ~ctx[c].hijacked
           /\ ctx' = [ctx EXCEPT ![c].done = (e = "abort")]
           /\ rsp' = IF http THEN [rsp EXCEPT ![s].status = 200] ELSE rsp
           /\ got' = IF http THEN Sends(s, e) ELSE [got EXCEPT ![q] = @ \cup {e}]
           /\ UNCHANGED ws
        \/ e = "upgrade" /\ http /\ Upgrade(q)

\* One function of the chain runs.  It returns, or panics, or calls Next,
\* which enters the loop again behind it.
RunFunc(q) ==
    /\ req[q].pc = "run" /\ More(q)
    /\ LET i == req[q].inst IN
       \E e \in Does[inst[i].chain[inst[i].pos]] :
       /\ Effect(q, e)
       /\ inst' = [inst EXCEPT ![i].pos = @ + 1]
       /\ req' = [req EXCEPT
              ![q].said  = @ \cup ({e} \ {"next", "setctx"}),
              ![q].ran   = Append(@, inst[i].chain[inst[i].pos]),
              ![q].depth = IF e = "next" THEN @ + 1 ELSE @,
              ![q].pc    = IF e = "panic" THEN "put" ELSE @]
    /\ UNCHANGED <<routeVars, model, stack, pools, rspPool, disc, panics>>

\* The loop ends.  Next returns into the function that called it, which
\* returns or panics; or Invoke returns.
LeaveLoop(q) ==
    /\ req[q].pc = "run" /\ ~More(q)
    /\ \/ /\ req[q].depth > 0
          /\ inst' = [inst EXCEPT ![req[q].inst].pos = @ + 1]
          /\ req' = [req EXCEPT ![q].depth = @ - 1]
       \/ /\ req[q].depth > 0
          /\ req' = [req EXCEPT ![q].pc = "put", ![q].said = @ \cup {"panic"}]
          /\ UNCHANGED inst
       \/ /\ req[q].depth = 0
          /\ req' = [req EXCEPT ![q].pc = "put"]
          /\ UNCHANGED inst
    /\ UNCHANGED <<routeVars, model, stack, poolVars, ctx, rsp, got, disc, panics>>

\* Mutated form of reset: the position stays.
resetKeeps(i) == i

\* handler.reset
reset(i) == [i EXCEPT !.pos = 0]

\* invokeHandler's deferred part, also when a function has panicked: reset and
\* Put.  route recovers: the rest of the handlers is skipped and RecoverHandler
\* writes an error.
PutHandler(q) ==
    /\ req[q].pc = "put"
    /\ LET i == req[q].inst
           s == req[q].rsp
           panicked == "panic" \in req[q].said
       IN  /\ inst' = [inst EXCEPT ![i] = reset(@)]
           /\ stack' = <<i>> \o stack
           /\ req' = [req EXCEPT ![q].pc = IF panicked THEN "end" ELSE "get",
                                 ![q].todo = Tail(@), ![q].inst = None, ![q].depth = 0,
                                 ![q].half = @ \/ ~inst[i].full \/ inst[i].torn]
           /\ IF ~panicked \/ ctx[req[q].ctx].hijacked THEN UNCHANGED <<rsp, got>>
              ELSE IF kind = "http"
              THEN rsp' = [rsp EXCEPT ![s].status = 500] /\ got' = Sends(s, "error")
              ELSE got' = [got EXCEPT ![q] = @ \cup {"error"}] /\ UNCHANGED rsp
    /\ UNCHANGED <<routeVars, model, poolVars, ctx, disc, panics>>

\* pool.Put: into the pool the context came from, which may be gone.
PutCtx(q, c) ==
    IF req[q].stale THEN ctx' = Forget({req[q].ctx}) /\ UNCHANGED pools
    ELSE /\ pools' = [pools EXCEPT ![req[q].route.id] = @ \cup {req[q].ctx}]
         /\ ctx' = [ctx EXCEPT ![req[q].ctx] = c]

\* Mutated form: what a websocket handler took over is put back as well.
EndHttpPools(q) ==
    /\ req[q].pc = "end" /\ kind = "http"
    /\ PutCtx(q, ctx[req[q].ctx])
    /\ rsp' = [rsp EXCEPT ![req[q].rsp].writer = None]
    /\ rspPool' = rspPool \cup {req[q].rsp}
    /\ req' = [req EXCEPT ![q] = Finished(q)]
    /\ UNCHANGED <<routeVars, handlerVars, ws, got, disc, panics>>

\* The end of ServeHTTP: nothing, if the connection was taken over; Apply, and
\* context and response are put back.
EndHttp(q) ==
    /\ req[q].pc = "end" /\ kind = "http"
    /\ req' = [req EXCEPT ![q] = Finished(q)]
    /\ LET c == req[q].ctx
           s == req[q].rsp
           applies == ~ctx[c].done /\ rsp[s].status = 0
       IN  IF ctx[c].hijacked THEN UNCHANGED <<pools, ctx, rspPool, rsp, got>>
           ELSE /\ got' = IF applies THEN Sends(s, ctx[c].result) ELSE got
                /\ rsp' = [rsp EXCEPT ![s].writer = None,
                                      ![s].status = IF applies THEN 200 ELSE @]
                /\ PutCtx(q, [ctx[c] EXCEPT !.done = TRUE])
                /\ rspPool' = rspPool \cup {s}
    /\ UNCHANGED <<routeVars, handlerVars, ws, disc, panics>>

\* The end of ServeRPC.
EndRpc(q) ==
    /\ req[q].pc = "end" /\ kind = "rpc"
    /\ PutCtx(q, ctx[req[q].ctx])
    /\ req' = [req EXCEPT ![q] = Finished(q)]
    /\ UNCHANGED <<routeVars, handlerVars, rspPool, rsp, ws, got, disc, panics>>

\* The websocket goroutine ends, after the request that it took over.
CloseWs ==
    /\ \E h \in ws :
       /\ \A q \in Requests : req[q].ctx # h.ctx
       /\ ws' = ws \ {h}
       /\ ctx' = Forget({h.ctx})
       /\ rsp' = [rsp EXCEPT ![h.rsp] = FreshRsp]
    /\ UNCHANGED <<routeVars, handlerVars, pools, rspPool, req, got, disc, panics>>

\* A sync.Pool lets go of what it has.
CollectCtxs ==
    /\ \E n \in Ids : /\ pools[n] \notin {None, {}}
                      /\ pools' = [pools EXCEPT ![n] = {}]
                      /\ ctx' = Forget(pools[n])
    /\ UNCHANGED <<routeVars, handlerVars, rspPool, rsp, ws, req, got, disc, panics>>

\* The stack of a handler lets go of what has expired.
Vacuum ==
    /\ stack # <<>>
    /\ stack' = Tail(stack)
    /\ inst' = [inst EXCEPT ![Head(stack)] = Fresh]
    /\ UNCHANGED <<routeVars, model, poolVars, ctx, rsp, req, got, disc, panics>>

Serve(q) ==
    \/ StartHttp(q) \/ StartRpc(q) \/ TakeCtx(q) \/ GetHandler(q)
    \/ InitPanics(q) \/ RunFunc(q) \/ LeaveLoop(q) \/ PutHandler(q)
    \/ EndHttp(q) \/ EndRpc(q)

Next ==
    \/ \E q \in Requests : Serve(q)
    \/ \E d \in Discoverers : Model(d) \/ FillModel(d) \/ AddRoute(d)
    \/ Register \/ Deregister
    \/ CloseWs \/ CollectCtxs \/ Vacuum

Spec == Init /\ [][Next]_vars

---------------------------------------------------------------------------
(* Properties                                                              *)

Chain ==
    buildMiddlewares(GlobalMids, kind) \o buildMiddlewares(RouteMids, kind)
    \o (IF ctrl THEN filtered ELSE <<>>) \o <<"main">>

InstType  == [chain : Seq(Funcs), pos : Nat, inited : BOOLEAN, full : BOOLEAN,
              torn : BOOLEAN]
CtxType   == [val : Requests \cup {None}, result : Requests \cup {None},
              done : BOOLEAN, hijacked : BOOLEAN]
RspType   == [writer : Requests \cup {None}, status : Nat]
ReqType   == [pc : {"new", "done"} \cup Served, route : RouteType \cup {None},
              todo : {<<>>, <<"handler">>}, ctx : Ctxs \cup {None},
              rsp : Rsps \cup {None}, inst : Insts \cup {None}, stale : BOOLEAN,
              depth : Nat, ran : Seq(Funcs), half : BOOLEAN,
              said : SUBSET (Words \cup {"404"})]

TypeOK ==
    /\ kind \in Kinds /\ ctrl \in BOOLEAN
    /\ tree \in RouteType \cup {None}
    /\ lastId \in 0 .. MaxRoutes
    /\ model \in ModelType \cup {None}
    /\ stack \in Seq(Insts)
    /\ inst \in [Insts -> InstType]
    /\ pools \in [Ids -> {None} \cup SUBSET Ctxs]
    /\ ctx \in [Ctxs -> CtxType]
    /\ rspPool \subseteq Rsps
    /\ rsp \in [Rsps -> RspType]
    /\ ws \subseteq [ctx : Ctxs, rsp : Rsps]
    /\ req \in [Requests -> ReqType]
    /\ got \in [Requests -> SUBSET (Requests \cup {None} \cup Says)]
    /\ disc \in [Discoverers -> {"idle", "fill", "add"}]
    /\ panics \in 0 .. MaxInitPanics

\* Whatever is in a pool is nobody's: no request and no websocket goroutine
\* has it, and it is in one pool only.  A context, a response and a handler
\* instance are used by one request at a time.
OneHolder ==
    /\ \A q, p \in Requests : q # p =>
          /\ req[q].ctx = req[p].ctx => req[q].ctx = None
          /\ req[q].rsp = req[p].rsp => req[q].rsp = None
          /\ req[q].inst = req[p].inst => req[q].inst = None
    /\ \A q \in Requests : \A n \in Ids : pools[n] # None => req[q].ctx \notin pools[n]
    /\ \A q \in Requests : req[q].rsp \notin rspPool
    /\ \A h \in ws : h.rsp \notin rspPool /\ \A n \in Ids : pools[n] # None => h.ctx \notin pools[n]
    /\ \A n, m \in Ids : n # m /\ pools[n] # None /\ pools[m] # None => pools[n] \cap pools[m] = {}
    /\ \A n \in DOMAIN stack :
          /\ \A m \in DOMAIN stack : stack[m] = stack[n] => m = n
          /\ \A q \in Requests : req[q].inst # stack[n]

\* What a request has run: the functions of its chain once each and in order -
\* global chain, route, controller, main - and all of them, unless it was
\* ended or panicked.
RanInOrder(q) ==
    LET r == req[q]
        n == Len(r.ran)
    IN  /\ n <= Len(Chain) /\ r.ran = SubSeq(Chain, 1, n)
        /\ (/\ r.pc = "done" /\ n > 0
            /\ r.said \cap {"panic", "abort", "upgrade", "404"} = {}) => n = Len(Chain)

\* The request has met a handler that generateHandler had not filled yet.
Half(q) == req[q].half \/ (req[q].inst # None /\ ~inst[req[q].inst].full)

\* ... or one that a panic has left half initialised.
Torn(q) == req[q].half \/ (req[q].inst # None /\ inst[req[q].inst].torn)

\* However often Next is called, whatever panicked before and however often
\* discovery has found the endpoint again, a request runs its chain in order,
\* once.  Not so with a handler whose init has panicked.
ChainRuns == \A q \in Requests : Half(q) \/ Torn(q) \/ RanInOrder(q)

\* handler.go generateHandler: no middleware runs twice in a request - also when
\* the first init of its handler has panicked.
MiddlewareOnce == \A q \in Requests : \A m, n \in DOMAIN req[q].ran :
    req[q].ran[m] = req[q].ran[n] => m = n

\* An RPC request sees only the metadata and values of its own context, an
\* HTTP client gets only the result of its own request.
OwnData == \A q \in Requests :
    /\ req[q].ctx # None /\ kind = "rpc" => ctx[req[q].ctx].val \in {None, q}
    /\ got[q] \cap Requests \subseteq {q}

\* A result that the last handlers leave in the context reaches the client,
\* unless something else was answered.
ResultNotLost == \A q \in Requests :
    req[q].pc = "done" /\ req[q].said = {"respond"} => q \in got[q]

\* rpc.go: every field of a pooled context is dealt with in reset, so that no
\* request sees what another one has put into its context - for HTTP.
HttpOwnContext == \A q \in Requests :
    req[q].ctx # None /\ kind = "http" => ctx[req[q].ctx].val \in {None, q}

---------------------------------------------------------------------------
(* The inductive invariant                                                 *)

\* A request has its context from Get to Put, its response as long as it is
\* served, its handler's instance from Get to Put.  The response is connected to
\* it, and the pool of its context is there unless it was dropped.
Held(q) ==
    /\ req[q].ctx # None <=> req[q].pc \in Served \ {"ctx"}
    /\ req[q].rsp # None <=> kind = "http" /\ req[q].pc \in Served
    /\ req[q].inst # None <=> req[q].pc \in {"run", "put"}
    /\ req[q].pc \in Served => req[q].route # None
    /\ req[q].rsp # None => rsp[req[q].rsp].writer = q
    /\ req[q].ctx # None /\ ~req[q].stale => pools[req[q].route.id] # None

\* A function has ended the request: it answered for good, or panicked.
Ended(q) == req[q].said \cap {"panic", "abort", "upgrade", "404"} # {}

\* What a request finds in its context and response is its own, and as long as
\* it has only set a result nothing keeps that from being sent.
Data(q) ==
    /\ got[q] \cap Requests \subseteq {q}
    /\ req[q].said = {"respond"} => kind = "http"
    /\ req[q].pc \in {"new", "ctx"} => req[q].said = {}
    /\ req[q].pc = "ctx" /\ kind = "http" => rsp[req[q].rsp].status = 0
    /\ req[q].ctx # None =>
         /\ ctx[req[q].ctx].result \in {None, q}
         /\ kind = "rpc" => ctx[req[q].ctx].val \in {None, q}
         /\ ctx[req[q].ctx].done => Ended(q)
         /\ req[q].said \subseteq {"respond"} =>
              /\ ~ctx[req[q].ctx].done
              /\ kind = "http" => ~ctx[req[q].ctx].hijacked /\ rsp[req[q].rsp].status = 0
              /\ req[q].said # {} => ctx[req[q].ctx].result = q
    /\ req[q].pc = "done" /\ req[q].said = {"respond"} => q \in got[q]

\* A request has run the front of its chain.  The loop ends behind the last
\* function, or when the request is done.
Runs(q) ==
    /\ req[q].pc \in {"new", "ctx"} => req[q].ran = <<>>
    /\ req[q].pc = "get" /\ req[q].todo # <<>> => req[q].ran = <<>>
    /\ req[q].pc \in {"run", "put"} => req[q].todo # <<>>
    /\ req[q].pc = "run" => inst[req[q].inst].pos > 0 /\ inst[req[q].inst].inited
    /\ Half(q) \/ Torn(q) \/
         /\ Len(req[q].ran) <= Len(Chain)
         /\ \A k \in 1 .. Len(req[q].ran) : req[q].ran[k] = Chain[k]
         /\ req[q].pc = "run" =>
              \/ inst[req[q].inst].pos = Len(req[q].ran) + 1
              \/ ctx[req[q].ctx].done
              \/ inst[req[q].inst].pos > Len(Chain) /\ Len(req[q].ran) = Len(Chain)
         /\ req[q].pc \in {"get", "put", "end", "done"} =>
              Ended(q) \/ req[q].ran = <<>> \/ Len(req[q].ran) = Len(Chain)

\* What a websocket goroutine has taken over is the request's that marked it.
WsInv ==
    /\ kind = "rpc" => ws = {}
    /\ \A h \in ws, q \in Requests :
          /\ req[q].rsp = h.rsp => req[q].ctx = h.ctx
          /\ req[q].ctx = h.ctx => ctx[h.ctx].hijacked

\* The chain of the model, and those of the instances that were filled before
\* they were cloned and not left half initialised.
RouteChain == buildMiddlewares(RouteMids, kind) \o IF ctrl THEN <<>> ELSE <<"main">>

InstInv ==
    /\ model # None /\ model.full => model.chain = RouteChain
    /\ \A i \in Insts : inst[i].full /\ ~inst[i].torn =>
          inst[i].chain = IF inst[i].inited THEN Chain ELSE RouteChain
    /\ \A n \in DOMAIN stack : inst[stack[n]].pos = 0

\* A route with a handler, wherever it is known, has a model.
ModelInv == model = None =>
    /\ \A d \in Discoverers : disc[d] = "idle"
    /\ tree # None => tree.handlers = <<>>
    /\ \A q \in Requests : /\ req[q].route # None => req[q].route.handlers = <<>>
                           /\ req[q].todo = <<>>

\* The inductive strengthening of OneHolder, ChainRuns, OwnData and ResultNotLost.
DispatchInv ==
    /\ TypeOK /\ OneHolder /\ WsInv /\ InstInv /\ ModelInv
    /\ \A q \in Requests : Held(q) /\ Data(q) /\ Runs(q)
===========================================================================
