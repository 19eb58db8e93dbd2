----------------------------- MODULE MCBisonLists -----------------------------
(***************************************************************************)
(* Small grammars of statements with all the macros for lists, and trees   *)
(* with lists of up to four statements, and lists of expressions.          *)
(***************************************************************************)
EXTENDS BisonListsProperties

Stm  == Cat("Stm")
Stms == ListCat(Stm)
Statements == {Rule("A", Stm, <<Terminal("a")>>), Rule("B", Stm, <<Terminal("b")>>),
               Rule("Block", Stm, <<Terminal("{"), Stms, Terminal("}")>>)}
Program == Rule("Prog", Cat("Prog"), <<Stms>>)

Macros == {terminatorRules(e, Stm, s) : e \in BOOLEAN, s \in {";", "", " "}}
          \cup {separatorRules(e, Stm, s) : e \in BOOLEAN, s \in {";", "", " "}}
(* Lists with terminals around, and with all rules turned around in place.   *)
ByHand == {{Rule("[]", Stms, <<Terminal(".")>>), Rule("(:)", Stms, <<Stm, Terminal(";"), Stms>>)},
           {Rule("(:[])", Stms, <<Terminal("last"), Stm>>),
            Rule("(:)", Stms, <<Stm, Terminal("<"), Stms, Terminal(">")>>)}}

Grammar(G, c) == [rules |-> G, start |-> c, tokenTypes |-> {}]

(* Lists of a token type of the grammar.                                    *)
Foo == TokenCat("Foo")
Tokens == {[rules |-> terminatorRules(FALSE, Foo, s) \cup
                      {Rule("Prog", Cat("Prog"), <<Terminal("of"), ListCat(Foo)>>)},
            start |-> Cat("Prog"), tokenTypes |-> {"Foo"}] : s \in {"", ","}}

(* Lists of expressions of three precedences, or of those of the highest.   *)
Exp == Cat("Exp")
Expressions == coercionRules("Exp", 2) \cup
    {Rule("Plus", Exp, <<Exp, Terminal("+"), CoercCat("Exp", 1)>>),
     Rule("Times", CoercCat("Exp", 1), <<CoercCat("Exp", 1), Terminal("*"), CoercCat("Exp", 2)>>),
     Rule("X", CoercCat("Exp", 2), <<Terminal("x")>>)}
Elements == {Exp, CoercCat("Exp", 2)}
ExpGrammars ==
    {Grammar(Expressions \cup terminatorRules(FALSE, c, ";"), ListCat(c)) : c \in Elements}
    \cup {Grammar(Expressions \cup separatorRules(FALSE, c, ","), ListCat(c)) : c \in Elements}

StatementGrammars ==
    {Grammar(Statements \cup {Program} \cup M, c) : M \in Macros \cup ByHand, c \in {Stms, Cat("Prog")}}
AllGrammars == StatementGrammars \cup Tokens \cup ExpGrammars

ListsOf(S, n) == {list(s) : s \in UNION {[1..k -> S] : k \in 0..n}}
Atoms  == {Node("A", <<>>), Node("B", <<>>)}
Blocks == {Node("Block", <<l>>) : l \in ListsOf(Atoms, 2)}
Bodies == ListsOf(Atoms, 4) \cup ListsOf(Blocks \cup {Node("A", <<>>)}, 2)
NamesLists == ListsOf({Node("x", <<>>), Node("y", <<>>)}, 3)
Sums(S) == {Node(f, <<a, b>>) : f \in {"Plus", "Times"}, a \in S, b \in S}
X       == {Node("X", <<>>)}
ExpLists == ListsOf(X \cup Sums(X), 2) \cup ListsOf(Sums(X \cup Sums(X)), 1)

(* A grammar without the empty list has no tree with one.                   *)
RECURSIVE NoneEmpty(_)
NoneEmpty(t) == (t.fun = "list" => t.args # <<>>) /\ \A k \in DOMAIN t.args : NoneEmpty(t.args[k])
TreesOf(g) ==
    LET whole(S) == IF isList(g.start) THEN S ELSE {Node("Prog", <<l>>) : l \in S}
    IN  IF g \in Tokens THEN whole(NamesLists)
        ELSE IF g \in ExpGrammars THEN ExpLists
        ELSE IF \E r \in g.rules : r.fun = "[]" THEN whole(Bodies)
        ELSE {t \in whole(Bodies) : NoneEmpty(t)}

(* LBNF's own grammar of definitions, BNFC.cf: extra semicolons are allowed. *)
Defs == Rule("_", Stms, <<Terminal(";"), Stms>>)
Dummies == {Grammar({Rule("A", Stm, <<Terminal("a")>>), Rule("B", Stm, <<Terminal("b")>>), Program, Defs}
                        \cup separatorRules(FALSE, Stm, ";"), Cat("Prog"))}
DummyTrees(g) == {Node("Prog", <<l>>) : l \in ListsOf(Atoms, 3)}
=============================================================================
