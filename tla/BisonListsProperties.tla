------------------------- MODULE BisonListsProperties -------------------------
(***************************************************************************)
(* The texts of a tree, which the generated parsers have to read, and the   *)
(* stack that they need for it.                                            *)
(***************************************************************************)
EXTENDS BisonLists

CONSTANTS
    Printed(_),    \* the trees of a grammar that are read
    MaxCoercions   \* bound: how often a text of a tree uses rules labelled _

(* The texts of a tree of category c, with up to n uses of rules labelled   *)
(* `_`.  A leaf is a token; white space is none.                            *)
label(t, has) ==
    IF t.fun # "list" THEN t.fun
    ELSE IF t.args = <<>> THEN "[]"
    ELSE IF Len(t.args) = 1 /\ "(:[])" \in has THEN "(:[])"
    ELSE "(:)"
child(t, k) == IF t.fun = "list" /\ k = 2 THEN list(Tail(t.args)) ELSE t.args[k]

RECURSIVE Texts(_, _, _, _), Parts(_, _, _, _, _)
Parts(G, t, rhs, k, n) ==
    IF rhs = <<>> THEN {<<>>}
    ELSE IF ~isNonterm(rhs[1])
    THEN {<<[sym |-> rhs[1], val |-> <<>>]>> \o s : s \in Parts(G, t, Tail(rhs), k, n)}
    ELSE {s \o u : s \in Texts(G, child(t, k), rhs[1], n), u \in Parts(G, t, Tail(rhs), k + 1, n)}
Texts(G, t, c, n) ==
    IF c[1] = "TokenCat" THEN {<<[sym |-> c, val |-> t]>>}
    ELSE LET rs == {r \in G : r.cat = c}
             own == {r \in rs : r.fun = label(t, {q.fun : q \in rs})}
             dummies == {r \in rs : r.fun = "_"}
         IN  UNION {Parts(G, t, r.rhs, 1, n) : r \in own}
             \cup (IF n = 0 THEN {} ELSE UNION {Parts(G, list(<<t>>), r.rhs, 1, n - 1) : r \in dummies})

TreesWithTexts(g) ==
    UNION {{[tree |-> t, text |-> s] : s \in Texts(parsed(g.rules), t, g.start, MaxCoercions)} :
              t \in Printed(g)}

-----------------------------------------------------------------------------
(* Where all lists are left-recursive, the stack grows with the depth of     *)
(* the tree and of parentheses, and not with the length of its lists        *)
(* (docs/lbnf.rst: for "stack-restricted parsers").                         *)
RECURSIVE Depth(_)
Depth(t) ==
    IF t.args = <<>> THEN 1
    ELSE LET depths == {Depth(t.args[k]) : k \in DOMAIN t.args}
             most == CHOOSE d \in depths : \A e \in depths : e <= d
         IN  IF t.fun = "list" THEN most ELSE most + 1
Longest == CHOOSE n \in {Len(r.rhs) : r \in parser.rules} : \A r \in parser.rules : Len(r.rhs) <= n
BoundedStack ==
    LET parens == {k \in DOMAIN stack : stack[k].sym = Terminal("(")}
    IN  {c \in Categories(parser.rules) : isList(c)} \subseteq revs =>
            Len(stack) <= Longest * (Depth(tree) + Cardinality(parens))
=============================================================================
