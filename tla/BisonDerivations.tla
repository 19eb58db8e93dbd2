--------------------------- MODULE BisonDerivations ---------------------------
(***************************************************************************)
(* What the grammar of a generated parser means, as it is declared: with    *)
(* its lists from the head, not turned around.  And that the parser keeps   *)
(* to it, whatever texts it reads.                                         *)
(***************************************************************************)
EXTENDS BisonLists

(* What a rule makes of the values of its categories.                       *)
built(r, args) ==
    CASE r.fun = "_"     -> args[1]
      [] r.fun = "[]"    -> list(<<>>)
      [] r.fun = "(:[])" -> list(<<args[1]>>)
      [] r.fun = "(:)"   -> list(<<args[1]>> \o args[2].args)
      [] OTHER           -> Node(r.fun, args)

(* Y is a set of readings <<v, c, i, j>>: the text from i to j is one of     *)
(* category c, with value v.  A token is read as itself.                    *)
Reads(Y, x, v, i, j) ==
    \/ j = i + 1 /\ j \in 1..Len(text) /\ text[j].sym = x /\ text[j].val = v
    \/ <<v, x, i, j>> \in Y

(* Y has what the rules derive: where the right-hand side of a rule is read,  *)
(* cut into its symbols, its category is read.                              *)
Derives(Y) ==
    \A r \in parsed(grammar.rules) : \A cut \in [0..Len(r.rhs) -> 0..Len(text)] : \A vals :
        (\A k \in 1..Len(r.rhs) : Reads(Y, r.rhs[k], vals[k], cut[k - 1], cut[k])) =>
            <<built(r, [k \in 1..arity(r.rhs) |-> vals[position(r.rhs, k)]]),
              r.cat, cut[0], cut[Len(r.rhs)]>> \in Y

(* Three things that a grammar can do with lists are not right in all the   *)
(* parsers: lists of lists, a list that ends with one of another category,  *)
(* and, with the STL, a list that is another list (rules labelled _).        *)
Plain ==
    \A r \in parsed(grammar.rules) : isList(r.cat) =>
        /\ ~isList(catOfList(r.cat))
        /\ r.fun = "(:)" => argument(r.rhs, 2) = r.cat
        /\ r.fun = "_" => mode = "C"

(* What the parser returns is derived from the whole text, by the rules as   *)
(* they are declared: it is in each set that has what the rules derive.      *)
(* Neither that some lists are turned around, nor in which order their      *)
(* elements are kept meanwhile, nor the lookahead can make it return         *)
(* another tree (constructRule, generatePatterns, generateAction,           *)
(* parseMethod).                                                            *)
Sound ==
    result # <<>> /\ Plain =>
        \A Y : Derives(Y) => Reads(Y, grammar.start, result, 0, Len(text))
=============================================================================
