---------------------------- MODULE MCEmptyMatches ----------------------------
(***************************************************************************)
(* All grammars of two categories with up to three rules of up to two      *)
(* symbols, and some of a rule of three symbols.                           *)
(***************************************************************************)
EXTENDS EmptyMatchesProperties

MCCats      == {"A", "B"}
MCTerminals == {"a", "b"}
Rhs(n)      == [1..n -> MCCats \cup MCTerminals]
RulesUpTo(n) == {[cat |-> c, rhs |-> s, label |-> "rule"] :
                    c \in MCCats, s \in UNION {Rhs(k) : k \in 0..n}}
Long == {[cat |-> "A", rhs |-> <<x, y, z>>, label |-> "rule"] :
            x \in {"A", "B"}, y \in {"B"}, z \in {"A", "B", "a"}}
Empty(c) == [cat |-> c, rhs |-> <<>>, label |-> "rule"]

Pairs(S) == {{x, y} : x \in S, y \in S}

MCGrammars ==
    Pairs(RulesUpTo(2))
    \cup {G \cup {Empty("B")} : G \in Pairs(RulesUpTo(2))}
    \cup {G \cup {r, Empty("B")} : G \in Pairs(RulesUpTo(1)), r \in Long}
MCEntries == {"A"}
=============================================================================
