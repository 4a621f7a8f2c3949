---------------------------- MODULE RoutingTree ----------------------------
(***************************************************************************)
(* The routing tree (router/tree.go): parse a pattern into nodes, add,     *)
(* find, delete and combine them, and match the path of a request.         *)
(*                                                                         *)
(* A path is a sequence of characters.  A pattern is a sequence of         *)
(* characters and of the tokens "{x}" (a variable), "{n}" (a number) and   *)
(* "*" (anything); a name in braces is one token, and regular expressions  *)
(* are left out.  A node has its children inside: it is a record of what   *)
(* treeNode holds.  A route is [pat, hd], hd its handlers.                 *)
(***************************************************************************)
EXTENDS Integers, Sequences, FiniteSets

CONSTANTS
    Patterns,   \* the patterns that are registered
    Paths,      \* the paths that are asked for
    Handlers,   \* ids of handlers
    NoRoute

VARIABLES root, live    \* the root's children; pattern -> handlers, NoRoute

treeVars == <<root, live>>

Vars == {"{x}", "{n}"}
Digits == {"1"}

HasPrefix(s, t) == Len(t) <= Len(s) /\ SubSeq(s, 1, Len(t)) = t
Drop(s, n)      == SubSeq(s, n + 1, Len(s))
Has(s, c)       == \E i \in DOMAIN s : s[i] = c
\* Offsets of t in s: strings.Index is the least, LastIndex the greatest.
Offsets(s, t)   == {i \in 0 .. Len(s) : HasPrefix(Drop(s, i), t)}
Index(s, t)     == CHOOSE i \in Offsets(s, t) : \A j \in Offsets(s, t) : i <= j
LastIndex(s, t) == CHOOSE i \in Offsets(s, t) : \A j \in Offsets(s, t) : i >= j

Node(type, text, level) ==
    [type |-> type, text |-> text, level |-> level, route |-> NoRoute, kids |-> <<>>]

---------------------------------------------------------------------------
(* parsePath                                                               *)

\* Where a node begins: at a delimiter, a variable or *, and behind one.
Starts(p) == {i \in DOMAIN p : \/ i = 1 \/ p[i] \in Vars \cup {"/", "*"}
                               \/ p[i - 1] \in Vars \cup {"*"}}
End(p, i) == CHOOSE j \in i .. Len(p) :
    (j = Len(p) \/ j + 1 \in Starts(p)) /\ \A k \in i .. j - 1 : k + 1 \notin Starts(p)

\* Variables of the segment of i: up to i, and all of them.
Segment(p, i) == {j \in DOMAIN p : p[j] \in Vars /\ \A k \in DOMAIN p :
                     (j <= k /\ k <= i) \/ (i <= k /\ k <= j) => p[k] # "/"}
UpTo(p, i)    == {j \in Segment(p, i) : j <= i}
\* A variable is followed by the delimiter or the end of the pattern.
Closes(p, i)  == p[i] \in Vars /\ (i = Len(p) \/ p[i + 1] = "/")

\* Level: the first variable of a segment gets the number of the variables,
\* one more if the last one closes the segment - but if text follows the last
\* one, only in the last segment.
LevelOf(p, i) ==
    LET seg    == Segment(p, i)
        closed == \E j \in seg : Closes(p, j)
        isLast == \A k \in i .. Len(p) : p[k] # "/"
    IN  IF Cardinality(UpTo(p, i)) > 1 THEN Cardinality(UpTo(p, i))
        ELSE IF closed THEN Cardinality(seg) + 1
        ELSE IF isLast THEN Cardinality(seg) ELSE 1

RECURSIVE parseFrom(_, _)
parseFrom(p, i) ==
    IF i > Len(p) THEN <<>>
    ELSE LET j == End(p, i)
             n == IF p[i] \in Vars THEN Node(p[i], <<p[i]>>, LevelOf(p, i))
                  ELSE IF p[i] = "*" THEN Node("any", <<"*">>, -1)
                  ELSE Node("static", SubSeq(p, i, j), 0)
         IN  <<n>> \o parseFrom(p, j + 1)

parsePath(p) == parseFrom(p, 1)

\* validNodes: two that are not static do not follow each other.
validNodes(ns) == \A i \in 1 .. Len(ns) - 1 :
    ns[i].type = "static" \/ ns[i + 1].type = "static"

---------------------------------------------------------------------------
(* The tree                                                                *)

\* treeNode.Equal, without the expressions
Equal(a, b) == a.type = b.type /\ a.text = b.text

\* As if variables were put before texts of their level.
LessByLevel(a, b) ==
    IF a.level # b.level THEN a.level > b.level
    ELSE a.type # "static" /\ b.type = "static"

\* subNodes.Less: static ones first, the longer ones first; the others by level.
Less(a, b) ==
    IF a.type = "static" THEN b.type = "static" => Len(a.text) > Len(b.text)
    ELSE b.type # "static" /\ a.level > b.level

\* sort.Sort of children that were sorted before n was appended.
Sorted(kids, n) ==
    LET at == Cardinality({i \in DOMAIN kids :
                  \E j \in i .. Len(kids) : ~Less(n, kids[j])})
    IN  SubSeq(kids, 1, at) \o <<n>> \o Drop(kids, at)

\* The child that a node equals, if there is one.
Same(kids, n) == {i \in DOMAIN kids : Equal(kids[i], n)}

\* addNodes, addNode: down the equal nodes, then the rest as new ones.
RECURSIVE addNodes(_, _, _)
addNodes(kids, ns, route) ==
    LET n    == Head(ns)
        last == Len(ns) = 1
        grown(k) == IF last THEN [k EXCEPT !.route = route]
                    ELSE [k EXCEPT !.kids = addNodes(k.kids, Tail(ns), route)]
    IN  IF Same(kids, n) = {} THEN Sorted(kids, grown(n))
        ELSE LET i == CHOOSE i \in Same(kids, n) : TRUE
             IN  [kids EXCEPT ![i] = grown(kids[i])]

\* RouteOf: the route of this very pattern.
RECURSIVE routeOf(_, _)
routeOf(kids, ns) ==
    IF Same(kids, Head(ns)) = {} THEN NoRoute
    ELSE LET k == kids[CHOOSE i \in Same(kids, Head(ns)) : TRUE]
         IN  IF Len(ns) = 1 THEN k.route ELSE routeOf(k.kids, Tail(ns))

RouteOf(tree, p) == routeOf(tree, parsePath(p))

Without(kids, i) == SubSeq(kids, 1, i - 1) \o Drop(kids, i)

\* As if a node went with its last handler, whatever is below it.
RECURSIVE delNodeAll(_, _, _)
delNodeAll(kids, ns, hd) ==
    IF Same(kids, Head(ns)) = {} THEN kids
    ELSE LET i == CHOOSE i \in Same(kids, Head(ns)) : TRUE
         IN  IF Len(ns) = 1 THEN Without(kids, i)
             ELSE [kids EXCEPT ![i].kids = delNodeAll(@, Tail(ns), hd)]

\* delNode: the handlers are taken from the route, a node that has no handler
\* and no child left goes, and so do the nodes above it that have neither
\* route nor child.
RECURSIVE delNode(_, _, _)
delNode(kids, ns, hd) ==
    IF Same(kids, Head(ns)) = {} THEN kids
    ELSE LET i == CHOOSE i \in Same(kids, Head(ns)) : TRUE
             k == IF Len(ns) = 1 THEN [kids[i] EXCEPT !.route.hd = @ \ hd]
                  ELSE [kids[i] EXCEPT !.kids = delNode(@, Tail(ns), hd)]
             empty == k.kids = <<>> /\ IF Len(ns) = 1 THEN k.route.hd = {}
                                                      ELSE k.route = NoRoute
         IN  IF empty THEN Without(kids, i) ELSE [kids EXCEPT ![i] = k]

\* Conbine, conbine: children that are new are taken over with all they have;
\* of equal ones the route is taken over, or its handlers.
RECURSIVE conbine(_, _)
conbine(kids, from) ==
    IF from = <<>> THEN kids
    ELSE LET n == Head(from)
             joined(k) ==
                 [k EXCEPT !.kids = conbine(k.kids, n.kids),
                           !.route = IF n.route = NoRoute THEN @
                                     ELSE IF @ = NoRoute THEN n.route
                                     ELSE [@ EXCEPT !.hd = n.route.hd]]
             next == IF Same(kids, n) = {} THEN Sorted(kids, n)
                     ELSE LET i == CHOOSE i \in Same(kids, n) : TRUE
                          IN  [kids EXCEPT ![i] = joined(kids[i])]
         IN  conbine(next, Tail(from))

---------------------------------------------------------------------------
(* Match                                                                   *)

\* What matchNode returns: nothing, a node (its route may be missing) with the
\* parameters captured on the way, or a panic.
Nothing  == [found |-> "no", route |-> NoRoute, params |-> <<>>]
Panicked == [Nothing EXCEPT !.found = "panic"]
Hit(route, params) == [found |-> "yes", route |-> route, params |-> params]

\* The first child that does not return nil.
FirstOf(res) ==
    LET hits == {i \in DOMAIN res : res[i].found # "no"}
    IN  IF hits = {} THEN Nothing ELSE res[CHOOSE i \in hits : \A j \in hits : i <= j]

\* ... with the parameter of this node behind those of the child.
Capture(r, node, value) ==
    IF r.found = "yes" THEN [r EXCEPT !.params = Append(@, <<node.type, value>>)] ELSE r

\* validType
validType(node, value) == node.type = "{n}" => \A i \in DOMAIN value : value[i] \in Digits

RECURSIVE matchNode(_, _)

\* The whole path was consumed by a node that has a route, or the children get
\* the rest, which may be empty.
matchStatic(n, s) ==
    LET rest == Drop(s, Len(n.text)) IN
    IF ~HasPrefix(s, n.text) THEN Nothing
    ELSE IF rest = <<>> /\ n.route # NoRoute THEN Hit(n.route, <<>>)
    ELSE FirstOf([i \in DOMAIN n.kids |-> matchNode(n.kids[i], rest)])

\* The children from where their text occurs last; else everything, with or
\* without a route.
matchAny(n, s) ==
    LET at(i) == IF Offsets(s, n.kids[i].text) = {} THEN Len(s) + 1
                 ELSE LastIndex(s, n.kids[i].text)
        sub == [i \in DOMAIN n.kids |->
                   IF at(i) > Len(s) THEN Nothing
                   ELSE Capture(matchNode(n.kids[i], Drop(s, at(i))), n, SubSeq(s, 1, at(i)))]
    IN  IF FirstOf(sub).found # "no" THEN FirstOf(sub)
        ELSE Hit(n.route, <<<<n.type, s>>>>)

\* Mutated form: the value of a variable is taken as it comes.
matchVariantUntyped(n, s) ==
    IF s = <<>> THEN Panicked
    ELSE IF n.route # NoRoute THEN Hit(n.route, <<<<n.type, s>>>>)
    ELSE FirstOf([i \in DOMAIN n.kids |-> matchNode(n.kids[i], Drop(s, 1))])

\* path[0] is read first.  A delimiter: the children, nothing is captured.
\* The last segment, or no children: the value.  Else the children from where
\* their text occurs first, if that is in this segment.
matchVariant(n, s) ==
    LET at(i) == IF Offsets(s, n.kids[i].text) = {} THEN Len(s) + 1
                 ELSE Index(s, n.kids[i].text)
        value(i) == SubSeq(s, 1, at(i))
    IN  IF s = <<>> THEN Panicked
        ELSE IF s[1] = "/" THEN FirstOf([i \in DOMAIN n.kids |-> matchNode(n.kids[i], s)])
        ELSE IF (~Has(s, "/") \/ n.kids = <<>>) /\ n.route # NoRoute
        THEN IF validType(n, s) THEN Hit(n.route, <<<<n.type, s>>>>) ELSE Nothing
        ELSE FirstOf([i \in DOMAIN n.kids |->
                 IF at(i) > Len(s) \/ Has(value(i), "/") \/ ~validType(n, value(i))
                 THEN Nothing
                 ELSE Capture(matchNode(n.kids[i], Drop(s, at(i))), n, value(i))])

matchNode(n, s) ==
    CASE n.type = "static" -> matchStatic(n, s)
      [] n.type = "any"    -> matchAny(n, s)
      [] OTHER             -> matchVariant(n, s)

\* Match: the first child of the root with a route.
Match(tree, s) ==
    LET res == [i \in DOMAIN tree |-> matchNode(tree[i], s)]
        ok  == {i \in DOMAIN tree : res[i].found = "panic" \/ res[i].route # NoRoute}
    IN  IF ok = {} THEN Nothing ELSE res[CHOOSE i \in ok : \A j \in ok : i <= j]

---------------------------------------------------------------------------
(* The specification: routes come and go                                   *)

TreeInit == root = <<>> /\ live = [p \in Patterns |-> {}]

AddRoute(p, h) ==
    /\ validNodes(parsePath(p))
    /\ root' = addNodes(root, parsePath(p), [pat |-> p, hd |-> {h}])
    /\ live' = [live EXCEPT ![p] = {h}]

\* RegisterGroup: the tree of a group with two routes.
Conbine(p, q, h) ==
    LET group == addNodes(addNodes(<<>>, parsePath(p), [pat |-> p, hd |-> {h}]),
                          parsePath(q), [pat |-> q, hd |-> {h}])
    IN  /\ p # q /\ validNodes(parsePath(p)) /\ validNodes(parsePath(q))
        /\ root' = conbine(root, group)
        /\ live' = [live EXCEPT ![p] = {h}, ![q] = {h}]

\* DelRoute with the handlers of a route.  (A pattern that is only part of
\* others has a node without a route, and DelRoute panics.)
DelRoute(p, h) ==
    /\ live[p] # {}
    /\ root' = delNode(root, parsePath(p), {h})
    /\ live' = [live EXCEPT ![p] = @ \ {h}]

TreeNext ==
    \/ \E p \in Patterns, h \in Handlers : AddRoute(p, h) \/ DelRoute(p, h)
    \/ \E p, q \in Patterns, h \in Handlers : Conbine(p, q, h)

TreeSpec == TreeInit /\ [][TreeNext]_treeVars

---------------------------------------------------------------------------
(* Properties                                                              *)

\* What a pattern says: text is itself, a variable is text without a
\* delimiter (and may be empty before one), a number is digits, the last
\* variable takes the rest, * is anything.
RECURSIVE Accepts(_, _)
Accepts(p, s) ==
    IF p = <<>> THEN s = <<>>
    ELSE CASE Head(p) = "*" -> \E k \in 0 .. Len(s) : Accepts(Tail(p), Drop(s, k))
           [] Head(p) \in Vars ->
                IF Len(p) = 1
                THEN /\ s # <<>> /\ s[1] # "/"
                     /\ Head(p) = "{n}" => \A i \in DOMAIN s : s[i] \in Digits
                ELSE \E k \in 0 .. Len(s) : LET v == SubSeq(s, 1, k) IN
                     /\ ~Has(v, "/")
                     /\ Head(p) = "{n}" => \A i \in DOMAIN v : v[i] \in Digits
                     /\ Accepts(Tail(p), Drop(s, k))
           [] OTHER -> s # <<>> /\ s[1] = Head(p) /\ Accepts(Tail(p), Drop(s, 1))

\* A request is only ever given a route whose pattern accepts its path.
MatchSound == \A s \in Paths : LET r == Match(root, s) IN
    r.found = "yes" /\ r.route # NoRoute => Accepts(r.route.pat, s)

\* A path that is registered as it stands gets its own route, whatever
\* variables and wildcards are registered beside it.
StaticWins == \A p \in Patterns \cap Paths :
    live[p] # {} => Match(root, p).route = [pat |-> p, hd |-> live[p]]

\* RouteOf finds what is registered, by its last handlers, through additions,
\* replacements, combinations and deletions of other routes.
RouteOfExact == \A p \in Patterns :
    IF live[p] = {} THEN RouteOf(root, p) \in {NoRoute, [pat |-> p, hd |-> {}]}
    ELSE RouteOf(root, p) = [pat |-> p, hd |-> live[p]]

\* tree.go matchNode: a path that ends where a node begins goes on to the
\* children with an empty rest.
MatchReturns == \A s \in Paths : Match(root, s).found # "panic"
============================================================================
