------------------------------ MODULE ListRules ------------------------------
(***************************************************************************)
(* What the front end makes of list declarations (GetCF.hs, CF.hs): the    *)
(* macros `terminator` and `separator` become rules, and for the backends  *)
(* with a bounded parser stack the rules of some lists can be turned       *)
(* around: left-recursive rules, of which the value has to be reversed.    *)
(*                                                                         *)
(* A category or a terminal is a sequence of strings, a rule a record of   *)
(* its label, category and right-hand side.                                *)
(***************************************************************************)
EXTENDS Integers, Sequences, FiniteSets, TLC

Cat(x)         == <<"Cat", x>>
CoercCat(x, i) == <<"CoercCat", x, ToString(i)>>
TokenCat(x)    == <<"TokenCat", x>>
ListCat(c)     == <<"ListCat">> \o c
Terminal(s)    == <<"terminal", s>>

isList(c)    == c[1] = "ListCat"
isNonterm(x) == x[1] # "terminal"
White        == {"", " "}

Rule(fun, cat, rhs) == [fun |-> fun, cat |-> cat, rhs |-> rhs]

(* The category without its precedence, and the category of the elements.    *)
normCat(c) ==
    LET n == Len(c) - 2
    IN  IF n > 0 /\ c[n] = "CoercCat" THEN SubSeq(c, 1, n - 1) \o Cat(c[n + 1]) ELSE c
catOfList(c) == Tail(c)

(* The categories of a right-hand side, by position, and the k-th of them.   *)
nonterms(rhs) == {i \in DOMAIN rhs : isNonterm(rhs[i])}
arity(rhs)    == Cardinality(nonterms(rhs))
position(rhs, k) ==
    CHOOSE i \in nonterms(rhs) : Cardinality({j \in nonterms(rhs) : j <= i}) = k
argument(rhs, k) == rhs[position(rhs, k)]

(* What the front end requires of the labels of lists and of `_`; labels     *)
(* `(++)` are left out.                                                     *)
checkRule(r) ==
    LET c  == normCat(r.cat)
        cs == [k \in 1..arity(r.rhs) |-> normCat(argument(r.rhs, k))]
    IN  /\ r.fun = "_"     => cs = <<c>>
        /\ r.fun = "[]"    => isList(c) /\ cs = <<>>
        /\ r.fun = "(:[])" => isList(c) /\ cs = <<catOfList(c)>>
        /\ r.fun = "(:)"   => isList(c) /\ cs = <<catOfList(c), c>>
        /\ isList(c)       => r.fun \in {"_", "[]", "(:[])", "(:)"}

-----------------------------------------------------------------------------
(* `nonempty` says whether the macro has this word; s is its string.        *)
terminatorRules(nonempty, c, s) ==
    LET term == IF s = "" THEN <<>> ELSE <<Terminal(s)>>
    IN  {IF nonempty THEN Rule("(:[])", ListCat(c), <<c>> \o term)
                     ELSE Rule("[]", ListCat(c), <<>>),
         Rule("(:)", ListCat(c), <<c>> \o term \o <<ListCat(c)>>)}

(* A separator of white space is a terminator.                              *)
separatorAlways(nonempty, c, s) ==
    (IF nonempty THEN {} ELSE {Rule("[]", ListCat(c), <<>>)})
    \cup {Rule("(:[])", ListCat(c), <<c>>),
          Rule("(:)", ListCat(c), <<c, Terminal(s), ListCat(c)>>)}
separatorRules(nonempty, c, s) ==
    IF s \in White THEN terminatorRules(nonempty, c, s)
    ELSE separatorAlways(nonempty, c, s)

(* `coercions c n`.                                                          *)
coercionRules(c, n) ==
    {Rule("_", Cat(c), <<CoercCat(c, 1)>>),
     Rule("_", CoercCat(c, n), <<Terminal("("), Cat(c), Terminal(")")>>)}
    \cup {Rule("_", CoercCat(c, i - 1), <<CoercCat(c, i)>>) : i \in 2..n}

removeWhiteSpaceSeparators(r) ==
    [r EXCEPT !.rhs = SelectSeq(r.rhs, LAMBDA x : \A s \in White : x # Terminal(s))]

-----------------------------------------------------------------------------
(* A list category can be made left-recursive if it has two rules, an empty  *)
(* one and one from an element to the rest.                                 *)
tryRev(cons, nil) ==
    /\ nil.fun = "[]" /\ nil.rhs = <<>>
    /\ cons.fun = "(:)" /\ Len(cons.rhs) >= 2
    /\ isNonterm(cons.rhs[1]) /\ isNonterm(cons.rhs[Len(cons.rhs)])

ruleGroup(G, c) == {removeWhiteSpaceSeparators(r) : r \in {q \in G : q.cat = c}}

findAllReversibleCats(G) ==
    {c \in {r.cat : r \in G} :
        isList(c) /\ \E cons, nil \in ruleGroup(G, c) :
                        ruleGroup(G, c) = {cons, nil} /\ tryRev(cons, nil)}

(* They are found before the grammar's token types are told from its other   *)
(* categories, and are not looked up under their new names: lists of such   *)
(* tokens stay right-recursive.                                             *)
cfgReversibleCats(G, tokenTypes) ==
    findAllReversibleCats(G) \ {ListCat(TokenCat(x)) : x \in tokenTypes}

revSepListNever(r) == r
revSepListRule(r) ==
    [r EXCEPT !.rhs = <<r.rhs[Len(r.rhs)], r.rhs[1]>> \o SubSeq(r.rhs, 2, Len(r.rhs) - 1)]
=============================================================================
