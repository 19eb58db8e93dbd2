------------------------------ MODULE MCCPrinter ------------------------------
(***************************************************************************)
(* A small language for TLC: expressions with two operators and calls,     *)
(* statements in blocks, and trees of it.                                  *)
(***************************************************************************)
EXTENDS CPrinterProperties, TLC

T(c) == Terminal(<<c>>)
Grammar == {
    [fun |-> "EArrow", cat |-> "Exp", prec |-> 0,
     rhs |-> <<Argument(1, 0), Terminal(<<"-", ">">>), Argument(2, 1)>>],
    [fun |-> "EMul", cat |-> "Exp", prec |-> 1,
     rhs |-> <<Argument(1, 1), T("-"), Argument(2, 2)>>],
    [fun |-> "EVar", cat |-> "Exp", prec |-> 2, rhs |-> <<Argument(1, 0)>>],
    [fun |-> "ECall", cat |-> "Exp", prec |-> 2,
     rhs |-> <<Argument(1, 0), T("["), Argument(2, 0), T("]")>>],
    [fun |-> "SExp", cat |-> "Stm", prec |-> 0, rhs |-> <<Argument(1, 0), T(";")>>],
    [fun |-> "SBlock", cat |-> "Stm", prec |-> 0, rhs |-> <<T("{"), Argument(1, 0), T("}")>>],
    [fun |-> "SIf", cat |-> "Stm", prec |-> 0,
     rhs |-> <<Terminal(<<"i", "f">>), T("("), Argument(1, 0), T(")"), Argument(2, 0)>>],
    [fun |-> "SNames", cat |-> "Stm", prec |-> 0, rhs |-> <<Argument(1, 0), T(";")>>],
    [fun |-> "[]", cat |-> "[Exp]", prec |-> 0, rhs |-> <<>>],
    [fun |-> "(:[])", cat |-> "[Exp]", prec |-> 0, rhs |-> <<Argument(1, 0)>>],
    [fun |-> "(:)", cat |-> "[Exp]", prec |-> 0,
     rhs |-> <<Argument(1, 0), T(","), Argument(2, 0)>>],
    [fun |-> "[]", cat |-> "[Stm]", prec |-> 0, rhs |-> <<>>],
    [fun |-> "(:)", cat |-> "[Stm]", prec |-> 0, rhs |-> <<Argument(1, 0), Argument(2, 0)>>],
    [fun |-> "(:[])", cat |-> "[Ident]", prec |-> 0, rhs |-> <<Argument(1, 0)>>],
    [fun |-> "(:)", cat |-> "[Ident]", prec |-> 0,
     rhs |-> <<Argument(1, 0), Terminal(<<Blank, Blank>>), Argument(2, 0)>>]}

Node(fun, args) == [fun |-> fun, args |-> args]
Leaf(fun, text) == [fun |-> fun, text |-> text]
Name  == Leaf("Ident", <<"a", "i">>)
Texts == {<<>>, <<"a", Blank>>, <<Quote, Backslash, Newline>>, <<"n", "#", Apostrophe, "n">>}
Atoms == {Name} \cup {Leaf("String", s) : s \in Texts}
                \cup {Leaf("Char", <<c>>) : c \in {"a", Quote, Apostrophe, Newline}}

Var   == Node("EVar", <<Name>>)
Vars  == {Node("EVar", <<x>>) : x \in Atoms}
Binary(S) == {Node(f, <<x, y>>) : f \in {"EArrow", "EMul"}, x \in S, y \in S}
Small == {Var} \cup Binary({Var})
Exps2 == Vars \cup Small \cup Binary(Small)
Lists(cat, S, n) == {list(cat, s) : s \in UNION {[1..k -> S] : k \in 0..n}}
ExpLists == Lists("[Exp]", {Var, Node("EArrow", <<Var, Var>>)}, 2)
Calls2   == {Node("ECall", <<Name, l>>) : l \in ExpLists}
Exps  == Exps2 \cup Calls2 \cup Binary({Var, Node("ECall", <<Name, list("[Exp]", <<>>)>>)})

NameLists == Lists("[Ident]", {Name}, 2) \ {list("[Ident]", <<>>)}
Simple == {Node("SExp", <<Var>>), Node("SNames", <<list("[Ident]", <<Name, Name>>)>>)}
Blocks(S, n) == {Node("SBlock", <<l>>) : l \in Lists("[Stm]", S, n)}
If(S)  == {Node("SIf", <<e, s>>) : e \in {Var, Node("ECall", <<Name, list("[Exp]", <<Var>>)>>)}, s \in S}
Inner  == Simple \cup Blocks(Simple, 1) \cup If(Blocks(Simple, 1))
Outer  == Inner \cup Blocks(Inner, 2) \cup If(Inner)

Programs == Exps \cup {Node("SExp", <<e>>) : e \in Exps} \cup Outer \cup Lists("[Stm]", Inner, 1)
                \cup {list("[Exp]", <<>>)}
AllTrees == Programs \cup Atoms \cup Exps \cup ExpLists \cup NameLists \cup Inner
                \cup Lists("[Stm]", Inner, 2)

AllChars == {"a", "i", "f", "n", "-", ">", "#", "{", "}", "(", ")", "[", "]", ",", ";",
             Quote, Apostrophe, Backslash, Newline, Blank}
SmallLetters  == {"a", "i", "f", "n"}
ReservedWords == {<<"i", "f">>}
SymbolSet     == {<<"-">>, <<"-", ">">>} \cup {<<c>> : c \in {"{", "}", "(", ")", "[", "]", ",", ";"}}
Escape  == "n" :> Newline
Control == Newline :> "n"
NoBlocks == <<>>

(* The indentation of its texts says which braces are open.                  *)
ASSUME TidyAssumption == Tidy

(* The second tree is a short one, or the empty list.                       *)
PrintSpec ==
    /\ Init
    /\ [][Next /\ (prints' = 2 /\ prints = 1 => tree' \in {list("[Exp]", <<>>), Var})]_vars
    /\ WF_vars(Printer)
=============================================================================
