-------------------------------- MODULE Bison --------------------------------
(***************************************************************************)
(* What Bison makes of a grammar: an automaton that shifts and reduces     *)
(* with one token of lookahead.  P is a set of rules with a category `cat` *)
(* and a right-hand side `rhs`; symbols of P that are no category are      *)
(* tokens.  Lookahead sets are those of SLR, which are larger than those   *)
(* of Bison: where they leave no conflict, Bison has none.                 *)
(***************************************************************************)
EXTENDS Integers, Sequences

End    == <<"$end">>
Accept == <<"$accept">>

Augmented(P, start) ==
    P \cup {[rule |-> Accept, cat |-> Accept, rhs |-> <<start, End>>]}

Categories(P) == {r.cat : r \in P}

(* An item is a rule with a position in its right-hand side, a state a set   *)
(* of items.                                                                *)
Item(r, n)   == [rule |-> r, dot |-> n]
Complete(i)  == i.dot = Len(i.rule.rhs)
Before(i, x) == ~Complete(i) /\ i.rule.rhs[i.dot + 1] = x

(* Sets of pairs: of what is reached from an element of S along the pairs    *)
(* of E, that is, of what is in all sets that have the element and are      *)
(* closed under E; and one set after the other.                             *)
Reachable(S, E) ==
    {p \in S \X S :
        \A X \in SUBSET S :
            p[1] \in X /\ (\A e \in E \cap (S \X S) : e[1] \in X => e[2] \in X) => p[2] \in X}
Join(D, E) == {<<q[1][1], q[2][2]>> : q \in {q \in D \X E : q[1][2] = q[2][1]}}

(* Pairs of a category and one that a text of it can begin with.            *)
Left(P) ==
    Reachable(Categories(P), {<<r.cat, r.rhs[1]>> : r \in {q \in P : q.rhs # <<>>}})

-----------------------------------------------------------------------------
(* The categories with an empty text.                                       *)
Nullable(P) ==
    {c \in Categories(P) :
        \A N \in SUBSET Categories(P) :
            (\A r \in P : (\A k \in DOMAIN r.rhs : r.rhs[k] \in N) => r.cat \in N) => c \in N}

(* The positions between which and n all symbols can be empty; whether all   *)
(* can from n on.                                                           *)
Exposed(rhs, n, N) == {m \in n..Len(rhs) : \A k \in n..(m - 1) : rhs[k] \in N}
Vanishes(rhs, n, N) == \A k \in n..Len(rhs) : rhs[k] \in N

(* Pairs of a category and a token that can begin it.                       *)
First(P) ==
    LET N == Nullable(P)
        begins == UNION {{<<r.cat, r.rhs[k]>> : k \in Exposed(r.rhs, 1, N)} : r \in P}
    IN  {p \in Join(Reachable(Categories(P), begins), begins) : p[2] \notin Categories(P)}

(* Pairs of a category and a token that can stand behind it.                *)
Follow(P) ==
    LET N == Nullable(P)
        last(r) == {k \in DOMAIN r.rhs : Vanishes(r.rhs, k + 1, N)}
        ends    == UNION {{<<r.rhs[k], r.cat>> : k \in last(r)} : r \in P}
        next(r) == UNION {{<<r.rhs[k], r.rhs[m]>> : m \in Exposed(r.rhs, k + 1, N)} : k \in DOMAIN r.rhs}
        behind  == Join(Reachable(Categories(P), ends), UNION {next(r) : r \in P})
    IN  {p \in behind \cup Join(behind, First(P)) : p[2] \notin Categories(P)}

-----------------------------------------------------------------------------
(* The parser: its rules, and what Bison finds of them.                     *)
Generated(P) == [rules |-> P, left |-> Left(P), follow |-> Follow(P)]

Closure(p, I) ==
    LET wanted == {i.rule.rhs[i.dot + 1] : i \in {j \in I : ~Complete(j)}}
    IN  I \cup {Item(r, 0) : r \in {q \in p.rules : \E x \in wanted : <<x, q.cat>> \in p.left}}

Initial(p) == Closure(p, {Item(r, 0) : r \in {q \in p.rules : q.cat = Accept}})

Goto(p, I, x) == Closure(p, {Item(i.rule, i.dot + 1) : i \in {j \in I : Before(j, x)}})
=============================================================================
