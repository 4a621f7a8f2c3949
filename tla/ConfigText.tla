---------------------------- MODULE ConfigText -----------------------------
(***************************************************************************)
(* What the configuration says about its file: where each value stands     *)
(* (config/origin.go), which keys nobody declared and what was meant       *)
(* (config/lint.go), and the report of the sections nobody claims          *)
(* (config/report.go).  A key is a sequence of names, a name a sequence of *)
(* letters.                                                                *)
(***************************************************************************)
EXTENDS Integers, FiniteSets, Sequences, SequencesExt

---------------------------------------------------------------------------
(* jsonLeafOffsets: one pass over the tokens of the file.  A document is a *)
(* sequence of entries [key, val]; a val is a record whose kind is "str",  *)
(* "num", "array" (items) or "object" (entries).                           *)

Tok(t, s) == [t |-> t, s |-> s]

RECURSIVE Tokens(_)
Tokens(val) ==
    CASE val.kind = "str"    -> <<Tok("str", val.text)>>
      [] val.kind = "num"    -> <<Tok("num", "")>>
      [] val.kind = "array"  -> <<Tok("[", "")>>
             \o FlattenSeq([i \in 1..Len(val.items) |-> Tokens(val.items[i])])
             \o <<Tok("]", "")>>
      [] val.kind = "object" -> <<Tok("{", "")>>
             \o FlattenSeq([i \in 1..Len(val.items) |->
                    <<Tok("str", val.items[i].key)>> \o Tokens(val.items[i].val)])
             \o <<Tok("}", "")>>

Scan == [path |-> <<>>, depth |-> 0, pending |-> "", off |-> 0, array |-> 0, out |-> {}]

\* The pending key is a leaf: it goes out with the place of its name.
Consume(sc) ==
    IF sc.pending = "" THEN sc
    ELSE [sc EXCEPT !.out = @ \cup {[path |-> Append(sc.path, sc.pending), off |-> sc.off]},
                    !.pending = ""]

\* As if an array's objects were entered.
scanTokenInside(sc, tok, i) ==
    CASE tok.t = "{" ->
             [sc EXCEPT !.path = IF sc.pending = "" THEN @ ELSE Append(@, sc.pending),
                        !.pending = "", !.depth = @ + 1]
      [] tok.t = "}" ->
             [sc EXCEPT !.depth = IF @ > 0 THEN @ - 1 ELSE @,
                        !.path = IF @ = <<>> THEN @ ELSE Front(@)]
      [] tok.t = "str" /\ sc.depth > 0 /\ sc.pending = "" ->
             [sc EXCEPT !.pending = tok.s, !.off = i]
      [] OTHER -> Consume(sc)

\* One token, the i-th; inside an array only the depth is kept.
scanToken(sc, tok, i) ==
    IF sc.array > 0
    THEN CASE tok.t \in {"[", "{"} -> [sc EXCEPT !.array = @ + 1]
           [] tok.t \in {"]", "}"} -> [sc EXCEPT !.array = @ - 1]
           [] OTHER -> sc
    ELSE CASE tok.t = "{" ->
                  [sc EXCEPT !.path = IF sc.pending = "" THEN @ ELSE Append(@, sc.pending),
                             !.pending = "", !.depth = @ + 1]
           [] tok.t = "}" ->
                  [sc EXCEPT !.depth = IF @ > 0 THEN @ - 1 ELSE @,
                             !.path = IF @ = <<>> THEN @ ELSE Front(@)]
           [] tok.t = "[" -> [Consume(sc) EXCEPT !.array = 1]
           [] tok.t = "str" /\ sc.depth > 0 /\ sc.pending = "" ->
                  [sc EXCEPT !.pending = tok.s, !.off = i]
           [] OTHER -> Consume(sc)

RECURSIVE scanFrom(_, _, _)
scanFrom(sc, toks, i) ==
    IF i > Len(toks) THEN sc.out ELSE scanFrom(scanToken(sc, toks[i], i), toks, i + 1)

jsonLeafOffsets(doc) == scanFrom(Scan, Tokens(doc), 1)

---------------------------------------------------------------------------
(* Lint and its suggestions.                                               *)

Parent(key) == Front(key)
Leaf(key) == Last(key)
Below(key, p) == Len(key) > Len(p) /\ SubSeq(key, 1, Len(p)) = p

isPrefixOfAny(key, known) == \E k \in known : Below(k, key)

\* As if anything below a registered section were reported.
isReportableBelow(key, sections, known) ==
    Len(key) > 1 /\ \E s \in sections : Below(key, s)

isReportable(key, sections, known) ==
    /\ Len(key) > 1
    /\ Parent(key) \in sections \/ isPrefixOfAny(Parent(key), known)

Min3(a, b, c) == IF a <= b /\ a <= c THEN a ELSE IF b <= c THEN b ELSE c

\* One row of the table from the one before it.
Row(prev, a, b, i) ==
    LET cur[j \in 0..Len(b)] ==
            IF j = 0 THEN i
            ELSE Min3(cur[j - 1] + 1, prev[j] + 1,
                      prev[j - 1] + (IF a[i] = b[j] THEN 0 ELSE 1))
    IN cur

editDistance(a, b) ==
    IF a = b THEN 0
    ELSE LET rows[i \in 0..Len(a)] ==
                 IF i = 0 THEN [j \in 0..Len(b) |-> j] ELSE Row(rows[i - 1], a, b, i)
         IN rows[Len(a)][Len(b)]

\* The suggestions nearest may return: the range over a map picks among equals.
nearest(key, known) ==
    LET same == {k \in known : Parent(k) = Parent(key)}
        d(k) == editDistance(Leaf(key), Leaf(k))
        third == Len(Leaf(key)) \div 3
        limit == IF third < 1 THEN 1 ELSE third
    IN {k \in same : d(k) <= limit /\ \A o \in same : d(k) <= d(o)}

Lint(file, sections, known) ==
    IF known = {} THEN {}
    ELSE {key \in file : /\ key \notin known
                         /\ ~isPrefixOfAny(key, known)
                         /\ isReportable(key, sections, known)}

---------------------------------------------------------------------------
(* ReportAll: the sections nobody claims, and the groups of equal shape.   *)

inAnySection(key, sections) == \E s \in sections : key = s \/ Below(key, s)

Sections(file) == {Parent(k) : k \in {f \in file : Len(f) > 1}}
Leaves(file, sec) == {Leaf(k) : k \in {f \in file : Len(f) > 1 /\ Parent(f) = sec}}

Orphans(file, sections, known) ==
    {s \in Sections(file) : ~inAnySection(s, sections) /\ ~isPrefixOfAny(s, known)}

Isomorphs(file) ==
    {g \in {{s \in Sections(file) : Leaves(file, s) = Leaves(file, t)} : t \in Sections(file)} :
        Cardinality(g) > 1 /\ \A s \in g : Cardinality(Leaves(file, s)) > 1}

---------------------------------------------------------------------------
(* What they promise.                                                      *)

\* The leaves of a document: the paths to what is no object.
RECURSIVE LeavesOf(_, _)
LeavesOf(path, val) ==
    IF val.kind # "object" THEN {path}
    ELSE UNION {LeavesOf(Append(path, val.items[i].key), val.items[i].val)
                : i \in 1..Len(val.items)}

\* Every value of the file has a place, and the place is its own name.
LeavesPlaced(doc) ==
    LET found == jsonLeafOffsets(doc) IN
    /\ {l.path : l \in found} = LeavesOf(<<>>, doc)
    /\ \A l \in found : Tokens(doc)[l.off].s = Leaf(l.path)

\* The fewest insertions, deletions and replacements that make b of a.
RECURSIVE Edits(_, _)
Edits(a, b) ==
    IF a = <<>> THEN Len(b)
    ELSE IF b = <<>> THEN Len(a)
    ELSE IF Head(a) = Head(b) THEN Edits(Tail(a), Tail(b))
    ELSE 1 + Min3(Edits(Tail(a), b), Edits(a, Tail(b)), Edits(Tail(a), Tail(b)))

\* A key nobody declared is told of once: as a misspelling when its section is
\* declared, in the report when no model claims its section; what lies in a
\* part of a claimed section that nobody declared is left alone, and so is all
\* that is declared.
LintApart(file, sections, known) ==
    LET told == Lint(file, sections, known)
        orphans == Orphans(file, sections, known)
    IN known # {} =>
       \A key \in file :
          /\ key \in told => key \notin known /\ Parent(key) \notin orphans
          /\ (Len(key) > 1 /\ key \notin known /\ ~isPrefixOfAny(key, known)) =>
                \/ key \in told
                \/ Parent(key) \in orphans
                \/ /\ inAnySection(Parent(key), sections)
                   /\ Parent(key) \notin sections
===========================================================================
