------------------------ MODULE EmptyMatchesProperties ------------------------
(***************************************************************************)
(* The grammar that the tree-sitter backend prints, compared with the one  *)
(* it is given: by the texts of each category, and by those that have more *)
(* than one parse tree.                                                    *)
(***************************************************************************)
EXTENDS EmptyMatches

CONSTANT MaxLength   \* bound: the length of texts

ASSUME TextsAssumption == MaxLength \in Nat /\ IsFiniteSet(Terminals)

Words == UNION {[1..n -> Terminals] : n \in 0..MaxLength}

(* A fact <<c, w, n>>: the text w has n parse trees of category c at least.  *)
Facts == NonTerminals \X Words \X {1, 2}

(* By the facts of L, the symbol x of a rule reads the text u in n ways.  An *)
(* optional symbol reads the empty text by being left out.                  *)
Reads(L, x, u, n) ==
    \/ <<x.sym, u, n>> \in L
    \/ u = <<x.sym>> /\ n = 1
    \/ x.optional /\ u = <<>> /\ (n = 1 \/ <<x.sym, u, 1>> \in L)

(* A text of length m is cut into n parts, one for each symbol.             *)
Cuts(n, m) ==
    LET cut(inner) == [i \in 0..n |-> IF i = 0 THEN 0 ELSE IF i = n THEN m ELSE inner[i]]
    IN  {c \in {cut(inner) : inner \in [1..(n - 1) -> 0..m]} :
            c[n] = m /\ \A i \in 1..n : c[i - 1] <= c[i]}
Part(w, cut, i) == SubSeq(w, cut[i - 1] + 1, cut[i])

(* The ways to read w as a text of category c by the rules of G, in what    *)
(* parse trees can differ at the root: a rule, one of its alternatives, and *)
(* a cut.                                                                   *)
Splits(L, s, w) ==
    {cut \in Cuts(Len(s), Len(w)) : \A i \in DOMAIN s : Reads(L, s[i], Part(w, cut, i), 1)}
Ways(G, L, c, w) ==
    UNION {UNION {{<<o, k, cut>> : cut \in Splits(L, o.alternatives[k], w)} :
                     k \in DOMAIN o.alternatives} : o \in {p \in G : p.rule.cat = c}}

(* There are two trees if there are two ways, or two for a part.            *)
Twice(L, y, w) ==
    LET s == y[1].alternatives[y[2]]
    IN  \E i \in DOMAIN s : Reads(L, s[i], Part(w, y[3], i), 2)
Counted(L, ways, w) ==
    {n \in {1, 2} : \E y \in ways : n = 1 \/ Twice(L, y, w) \/ \E z \in ways : z # y}
Follows(G, L) ==
    UNION {{<<p[1], p[2], n>> : n \in Counted(L, Ways(G, L, p[1], p[2]), p[2])} :
              p \in NonTerminals \X Words}

(* All facts that follow by the rules.                                      *)
Trees(G) ==
    LET trees[L \in SUBSET Facts] ==
            IF Follows(G, L) \subseteq L THEN L ELSE trees[L \cup Follows(G, L)]
    IN  trees[{}]

given   == {[rule |-> r, alternatives |-> <<[k \in DOMAIN r.rhs |-> NonOptional(r.rhs[k])]>>] :
               r \in rules}
printed == output \cup
    (IF Start \in knownEmpty
     THEN {[rule |-> [cat |-> Start, rhs |-> <<>>, label |-> "optional"], alternatives |-> <<<<>>>>]}
     ELSE {})

-----------------------------------------------------------------------------
(* The printed grammar accepts the same texts, and each category the same    *)
(* but the empty one, which only the start symbol matches (prRules,         *)
(* transformEmptyMatches).                                                  *)
SameLanguage ==
    output # {} =>
        LET before == Trees(given)
            after  == Trees(printed)
        IN  \A c \in NonTerminals, w \in Words :
               <<c, w, 1>> \in after <=> <<c, w, 1>> \in before /\ (w = <<>> => c = Start)

(* Where the given grammar has one parse tree of a text, the printed one has *)
(* no second (subtractEmptyString: "it should preserve unambiguity").       *)
Unambiguous ==
    output # {} =>
        LET before == Trees(given)
            after  == Trees(printed)
        IN  \A c \in NonTerminals, w \in Words :
               <<c, w, 2>> \in after => <<c, w, 2>> \in before

(* The fixed point is reached, and the grammar printed.                      *)
Ends == <>(output # {})
=============================================================================
