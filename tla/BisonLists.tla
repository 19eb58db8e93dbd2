------------------------------ MODULE BisonLists ------------------------------
(***************************************************************************)
(* The parsers that the C and C++ backends generate                        *)
(* (Backend/C/CFtoBisonC.hs), with the front end's rules for lists: the    *)
(* parser reads a text of a tree and builds the tree again.  Lists are     *)
(* linked from the head in C, and vectors that grow at the end in C++ with *)
(* the STL ("STL"), so one of the two reverses what the other does not.    *)
(*                                                                         *)
(* A list is used once, so that reversing it in place is taking the        *)
(* reversed list.  Positions, memory and syntax errors are left out.       *)
(***************************************************************************)
EXTENDS ListRules, Bison, SequencesExt

CONSTANTS
    Declared,      \* grammars: [rules, start, tokenTypes]
    Modes,         \* subset of {"C", "STL"}
    Inputs(_)      \* the trees of a grammar that are read, each with a text

VARIABLES
    grammar,   \* the grammar, with macros expanded
    mode,      \* the kind of parser
    parser,    \* the parser that Bison generates
    tree,      \* the tree of the text
    text,      \* the tokens of the text
    pos,       \* how many of them have been read
    stack,     \* symbols with their values and the parser's states, the top last
    result     \* what the parser returns, <<>> before

vars == <<grammar, mode, parser, tree, text, pos, stack, result>>

Node(fun, args) == [fun |-> fun, args |-> args]
list(elems)     == Node("list", elems)
reverse(l)      == list(Reverse(l.args))

parsed(G) == {removeWhiteSpaceSeparators(r) : r \in G}

Symbol == Seq(STRING) \ {<<>>}
ASSUME ModesAssumption == Modes \subseteq {"C", "STL"}
(* Grammars have been checked; `list` is no label of theirs.                *)
ASSUME DeclaredAssumption ==
    \A g \in Declared :
        /\ g.start \in Symbol \ {Accept, End}
        /\ g.rules \cup parsed(g.rules) \subseteq [fun : STRING, cat : Symbol, rhs : Seq(Symbol)]
        /\ \A r \in parsed(g.rules) :
              /\ checkRule(r) /\ r.fun # "list"
              /\ r.cat \notin {Accept, End} /\ \A k \in DOMAIN r.rhs : r.rhs[k] \notin {Accept, End}
(* The lexer gives the parser no lists.                                     *)
ASSUME InputsAssumption ==
    \A g \in Declared : \A i \in Inputs(g) :
        /\ Len(i.text) \in Nat
        /\ \A k \in 1..Len(i.text) :
              /\ ~isList(i.text[k].sym) /\ i.text[k].sym # End
              /\ isNonterm(i.text[k].sym) => i.text[k].val.fun # "list"

-----------------------------------------------------------------------------
revs == cfgReversibleCats(grammar.rules, grammar.tokenTypes)

(* The rules of the parser; `b`: the rule has been turned around.           *)
constructRules ==
    {LET b == r.fun = "(:)" /\ r.cat \in revs
     IN  [rule |-> r, b |-> b, cat |-> r.cat, fun |-> r.fun,
          rhs |-> IF b THEN revSepListRule(r).rhs ELSE r.rhs] : r \in parsed(grammar.rules)}

(* The values of the categories of a right-hand side, lists of the wrong    *)
(* order reversed, but in the recursive rule of a list.                     *)
reversedC(r, c)   == r.fun # "(:)" /\ c \in revs
reversedSTL(r, c) == r.fun # "(:)" /\ isList(c) /\ c \notin revs

metas(r, vals) ==
    LET value(c, v) ==
            IF (IF mode = "C" THEN reversedC(r, c) ELSE reversedSTL(r, c)) THEN reverse(v) ELSE v
    IN  [k \in 1..arity(r.rhs) |-> value(argument(r.rhs, k), vals[position(r.rhs, k)].val)]

(* The list constructor takes the element first.                            *)
swappedNever(b, ms) == ms
swapped(b, ms)      == IF b THEN Reverse(ms) ELSE ms

generateActionC(r, ms) ==
    CASE r.fun = "_"     -> ms[1]
      [] r.fun = "[]"    -> list(<<>>)
      [] r.fun = "(:[])" -> list(<<ms[1]>>)
      [] r.fun = "(:)"   -> LET m == swapped(r.b, ms) IN list(<<m[1]>> \o m[2].args)
      [] OTHER           -> Node(r.fun, ms)

generateActionSTL(r, ms) ==
    CASE r.fun = "_"     -> ms[1]
      [] r.fun = "[]"    -> list(<<>>)
      [] r.fun = "(:[])" -> list(<<ms[1]>>)
      [] r.fun = "(:)"   -> LET m == swapped(r.b, ms) IN list(Append(m[2].args, m[1]))
      [] OTHER           -> Node(r.fun, ms)

generateAction(r, vals) ==
    IF mode = "C" THEN generateActionC(r, metas(r, vals)) ELSE generateActionSTL(r, metas(r, vals))

(* What the method for the entry point does with the parser's value.        *)
parseMethodPlain(v) == v
parseMethod(v) ==
    IF \/ mode = "C" /\ grammar.start \in revs
       \/ mode = "STL" /\ isList(grammar.start) /\ grammar.start \notin revs
    THEN reverse(v) ELSE v

-----------------------------------------------------------------------------
Init ==
    /\ grammar \in Declared
    /\ parser = Generated(Augmented(constructRules, grammar.start))
    /\ mode \in Modes
    /\ \E i \in Inputs(grammar) : tree = i.tree /\ text = i.text
    /\ pos = 0 /\ stack = <<>> /\ result = <<>>

lookahead  == IF pos = Len(text) THEN End ELSE text[pos + 1].sym
state(s)   == IF s = <<>> THEN Initial(parser) ELSE s[Len(s)].state
push(s, x, v) == Append(s, [sym |-> x, val |-> v, state |-> Goto(parser, state(s), x)])
items      == state(stack)
shifts     == {i \in items : Before(i, lookahead)}
reductions == {i \in items : Complete(i) /\ <<i.rule.cat, lookahead>> \in parser.follow}

Shift ==
    /\ pos < Len(text) /\ shifts # {}
    /\ stack' = push(stack, text[pos + 1].sym, text[pos + 1].val) /\ pos' = pos + 1
    /\ UNCHANGED <<grammar, mode, parser, tree, text, result>>

Reduce ==
    /\ \E i \in reductions :
          LET r == i.rule
              n == Len(stack) - Len(r.rhs)
          IN  stack' = push(SubSeq(stack, 1, n), r.cat,
                            generateAction(r, SubSeq(stack, n + 1, Len(stack))))
    /\ UNCHANGED <<grammar, mode, parser, tree, text, pos, result>>

Return ==
    /\ pos = Len(text) /\ shifts # {} /\ result = <<>>
    /\ result' = parseMethod(stack[1].val)
    /\ UNCHANGED <<grammar, mode, parser, tree, text, pos, stack>>

Next == Shift \/ Reduce \/ Return

Spec     == Init /\ [][Next]_vars
FairSpec == Spec /\ WF_vars(Next)

-----------------------------------------------------------------------------
(* Values of list categories, and only these, are lists: of lists if the    *)
(* category is one of lists of lists.                                       *)
ListOf(v, c) == v.fun = "list" /\ \A j \in DOMAIN v.args : (v.args[j].fun = "list") <=> isList(catOfList(c))
TypeOK ==
    /\ grammar \in Declared /\ mode \in Modes /\ pos \in 0..Len(text)
    /\ \A k \in DOMAIN stack :
          isNonterm(stack[k].sym) =>
              IF isList(stack[k].sym) THEN ListOf(stack[k].val, stack[k].sym)
              ELSE stack[k].val.fun # "list"

(* The rules that the macros expand to, turned around or not, leave the      *)
(* parser never a choice ("to prevent reduce/reduce conflicts", GetCF.hs).  *)
NoConflict ==
    /\ shifts # {} => reductions = {}
    /\ \A i, j \in reductions : i = j

(* The parser accepts each text of each tree, and gives back the tree, with  *)
(* its lists in the order of the text (docs/lbnf.rst, left-recursive lists). *)
Parses == <>(result = tree)
=============================================================================
