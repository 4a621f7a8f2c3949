------------------------------ MODULE Guards -------------------------------
(***************************************************************************)
(* The CORS and CSRF middlewares (router/middleware/cors.go, csrf.go): what *)
(* one request, under one configuration, is answered with.  An answer is a *)
(* record: the headers set, whether the chain went on to the handler, and  *)
(* the status it was aborted with.                                         *)
(***************************************************************************)
EXTENDS Naturals, FiniteSets

Any == "*"
None == "none"

---------------------------------------------------------------------------
(* CORS.  cfg: origins, credentials, headers, expose; r: http, origin,     *)
(* method, asks (Access-Control-Request-Method), wants (its headers).      *)

allowAny(cfg) == cfg.origins = {} \/ Any \in cfg.origins

\* A configuration Cors refuses at start.
Refused(cfg) == allowAny(cfg) /\ cfg.credentials

\* As if OPTIONS alone made a preflight.
isPreflightMethod(r) == r.method = "OPTIONS"

isPreflight(r) == r.method = "OPTIONS" /\ r.asks

Silent == [origin |-> None, credentials |-> FALSE, vary |-> {}, allow |-> None,
           expose |-> FALSE, next |-> TRUE, status |-> 0]

\* The headers a browser is let in with.
LetIn(cfg, r) ==
    [Silent EXCEPT !.vary = {"Origin"},
                   !.origin = IF ~cfg.credentials /\ allowAny(cfg) THEN Any ELSE r.origin,
                   !.credentials = cfg.credentials]

corsHandler(cfg, r) ==
    IF ~r.http \/ r.origin = None THEN Silent
    ELSE IF r.origin \notin cfg.origins /\ ~allowAny(cfg)
         THEN IF isPreflight(r)
              THEN [Silent EXCEPT !.vary = {"Origin"}, !.next = FALSE, !.status = 204]
              ELSE [Silent EXCEPT !.vary = {"Origin"}]
    ELSE IF ~isPreflight(r) THEN [LetIn(cfg, r) EXCEPT !.expose = cfg.expose]
    ELSE [LetIn(cfg, r) EXCEPT
              !.vary = {"Origin", "Method", "Headers"},
              !.allow = IF cfg.headers # None THEN cfg.headers ELSE r.wants,
              !.next = FALSE, !.status = 204]

---------------------------------------------------------------------------
(* CSRF.  r: http, skip, method, cookie, header, form; `fresh` is the new  *)
(* token, or None when there is no randomness.                             *)

isSafeMethod(m) == m \in {"GET", "HEAD", "OPTIONS", "TRACE"}

\* The token the request carries: the form is read when it is configured and
\* the header is empty.
Sent(r, useForm) == IF r.header = None /\ useForm THEN r.form ELSE r.header

\* The answer: the cookie set, whether the chain goes on, the status.
csrfHandler(r, useForm, fresh) ==
    LET cookie == IF r.cookie = None THEN fresh ELSE r.cookie
        set == IF r.cookie = None THEN fresh ELSE None
    IN IF ~r.http \/ r.skip THEN [set |-> None, next |-> TRUE, status |-> 0]
       ELSE IF cookie = None THEN [set |-> None, next |-> FALSE, status |-> 500]
       ELSE IF isSafeMethod(r.method) THEN [set |-> set, next |-> TRUE, status |-> 0]
       ELSE IF Sent(r, useForm) = None \/ Sent(r, useForm) # cookie
            THEN [set |-> set, next |-> FALSE, status |-> 403]
       ELSE [set |-> set, next |-> TRUE, status |-> 0]

---------------------------------------------------------------------------
\* An origin is let in only when it is listed or all are, credentials are only
\* ever allowed to the very origin that asked, a shared cache is told that
\* the answer depends on the origin, no preflight reaches the handler, and
\* every other request does.
CorsRight(cfg, r) ==
    LET a == corsHandler(cfg, r) IN
    ~Refused(cfg) =>
        /\ a.origin # None => r.origin \in cfg.origins \/ allowAny(cfg)
        /\ a.credentials => a.origin = r.origin /\ r.origin \in cfg.origins
        /\ (r.http /\ r.origin # None) => "Origin" \in a.vary
        /\ a.next <=> ~(r.http /\ r.origin # None /\ r.method = "OPTIONS" /\ r.asks)
        /\ a.next <=> a.status = 0

\* A request that changes something reaches the handler only with the token of
\* its own cookie; a browser that does what it is told, that is, repeats the
\* request with the cookie it was given and the token in the header, is let in.
CsrfRight(r, useForm, fresh) ==
    LET a == csrfHandler(r, useForm, fresh)
        again == [r EXCEPT !.cookie = IF a.set = None THEN @ ELSE a.set,
                           !.header = IF a.set = None THEN r.cookie ELSE a.set]
    IN /\ (a.next /\ r.http /\ ~r.skip /\ ~isSafeMethod(r.method)) =>
             r.cookie # None /\ r.cookie \in {r.header, r.form}
       /\ a.status # 500 => csrfHandler(again, useForm, fresh).next
===========================================================================
