-------------------------- MODULE EmptyMatches_proofs --------------------------
(***************************************************************************)
(* Proofs about the tree-sitter backend's treatment of empty matches, for  *)
(* all grammars: what it takes to match the empty text is exactly what     *)
(* does, no printed alternative consists of optional symbols only, and the *)
(* printed grammar has the language of the given one and is not more       *)
(* ambiguous.                                                              *)
(*                                                                         *)
(* The last two compare the parse trees of two grammars.  The facts about  *)
(* them are the least set that is closed under the rules (TreesLeast), so   *)
(* it is enough to give, for each grammar, a set of facts of the other that *)
(* is: Backed and Carried.                                                 *)
(***************************************************************************)
EXTENDS EmptyMatchesProperties, TLAPS, SequenceTheorems, FiniteSetTheorems,
        WellFoundedInduction

(* Each alternative has a symbol that must be there.                        *)
NoneOptional ==
    \A o \in output : \A k \in DOMAIN o.alternatives :
        \E i \in DOMAIN o.alternatives[k] : ~o.alternatives[k][i].optional

IInv ==
    /\ TypeOK /\ Least /\ NoneOptional
    /\ \A r \in rules : r.cat \in NonTerminals /\ r.rhs \in Seq(Symbols)

-----------------------------------------------------------------------------
(* A sentence marks symbols as optional, and all of them if it matches the   *)
(* empty text.                                                              *)
LEMMA SentenceTyped ==
    ASSUME NEW rhs \in Seq(Symbols)
    PROVE  /\ sentence(rhs) \in Seq(OptSym)
           /\ DOMAIN sentence(rhs) = DOMAIN rhs
           /\ \A k \in DOMAIN rhs : sentence(rhs)[k].optional <=> rhs[k] \in knownEmpty
<1>1. DOMAIN rhs = 1..Len(rhs) /\ Len(rhs) \in Nat /\ \A k \in DOMAIN rhs : rhs[k] \in Symbols
  OBVIOUS
<1>2. \A x \in Symbols : Optional(x) \in OptSym /\ NonOptional(x) \in OptSym
  BY DEF Optional, NonOptional, OptSym
<1>3. \A k \in DOMAIN rhs : possiblyEmptySym(rhs[k]) \in OptSym
  BY <1>1, <1>2 DEF possiblyEmptySym
<1>4. \A k \in DOMAIN rhs : possiblyEmptySym(rhs[k]).optional <=> rhs[k] \in knownEmpty
  BY DEF possiblyEmptySym, Optional, NonOptional
<1> QED
  BY <1>1, <1>3, <1>4 DEF sentence

(* What is left of a sequence without the symbols before the k-th begins     *)
(* with a symbol that must be there.                                        *)
LEMMA HeadTyped ==
    ASSUME NEW s \in Seq(OptSym), NEW k \in DOMAIN s
    PROVE  /\ headNonOptional(s, k) \in Seq(OptSym) \ {<<>>}
           /\ \E i \in DOMAIN headNonOptional(s, k) : ~headNonOptional(s, k)[i].optional
<1> DEFINE n == Len(s) - k + 1
           t == headNonOptional(s, k)
           e(i) == IF i = 1 THEN NonOptional(s[k].sym) ELSE s[k + i - 1]
<1>1. Len(s) \in Nat /\ k \in 1..Len(s) /\ n \in Nat /\ n >= 1
  OBVIOUS
<1>2. \A i \in 1..n : k + i - 1 \in 1..Len(s)
  BY <1>1
<1>3. NonOptional(s[k].sym) \in OptSym /\ ~NonOptional(s[k].sym).optional
  <2>1. s[k] \in OptSym
    BY <1>1
  <2>2. s[k].sym \in Symbols
    BY <2>1 DEF OptSym
  <2> QED
    BY <2>2 DEF NonOptional, OptSym
<1>4. \A i \in 1..n : e(i) \in OptSym
  BY <1>2, <1>3
<1>5. t = [i \in 1..n |-> e(i)]
  BY DEF headNonOptional
<1> HIDE DEF e, t, n
<1>6. t \in Seq(OptSym) /\ Len(t) = n /\ DOMAIN t = 1..n
  BY <1>1, <1>4, <1>5
<1>7. t[1] = e(1) /\ 1 \in DOMAIN t
  BY <1>1, <1>5, <1>6
<1>8. ~t[1].optional
  BY <1>3, <1>7 DEF e
<1>9. t # <<>>
  BY <1>1, <1>6
<1> QED
  BY <1>6, <1>7, <1>8, <1>9 DEF t

(* The alternatives of a rule are sequences of symbols, and each has one     *)
(* that must be there.                                                      *)
LEMMA AlternativesTyped ==
    ASSUME NEW rhs \in Seq(Symbols)
    PROVE  /\ possiblyEmptyRule(rhs) \in Seq(Seq(OptSym) \ {<<>>})
           /\ \A k \in DOMAIN possiblyEmptyRule(rhs) :
                 \E i \in DOMAIN possiblyEmptyRule(rhs)[k] : ~possiblyEmptyRule(rhs)[k][i].optional
<1> DEFINE s == sentence(rhs)
<1>1. s \in Seq(OptSym) /\ DOMAIN s = DOMAIN rhs
  BY SentenceTyped
<1>2. DOMAIN s = 1..Len(s) /\ Len(s) \in Nat
  BY <1>1
<1> HIDE DEF s
<1>3. CASE seqMatchesEmpty(rhs)
  <2> DEFINE a == [k \in DOMAIN s |-> headNonOptional(s, k)]
  <2>1. possiblyEmptyRule(rhs) = a
    BY <1>3 DEF possiblyEmptyRule, subtractEmptyString, s
  <2>2. \A k \in DOMAIN s : headNonOptional(s, k) \in Seq(OptSym) \ {<<>>}
    BY <1>1, HeadTyped
  <2>3. a \in Seq(Seq(OptSym) \ {<<>>})
    BY <1>2, <2>2
  <2>4. \A k \in DOMAIN a : \E i \in DOMAIN a[k] : ~a[k][i].optional
    BY <1>1, HeadTyped
  <2> HIDE DEF a
  <2> QED
    BY <2>1, <2>3, <2>4
<1>4. CASE ~seqMatchesEmpty(rhs)
  <2>1. possiblyEmptyRule(rhs) = <<s>>
    BY <1>4 DEF possiblyEmptyRule, s
  <2>2. PICK i \in DOMAIN s : ~s[i].optional
    BY <1>1, <1>4 DEF seqMatchesEmpty, s
  <2>3. s # <<>>
    BY <1>2, <2>2
  <2>4. <<s>> \in Seq(Seq(OptSym) \ {<<>>})
    BY <1>1, <2>3
  <2>5. \A k \in DOMAIN <<s>> : <<s>>[k] = s
    OBVIOUS
  <2> QED
    BY <2>1, <2>2, <2>4, <2>5
<1> QED
  BY <1>3, <1>4

(* The rules that match the empty text are those all of whose symbols are    *)
(* known to.                                                                *)
LEMMA NewEmpty ==
    ASSUME \A r \in rules : r.cat \in NonTerminals /\ r.rhs \in Seq(Symbols)
    PROVE  newEmptyCats =
              {r.cat : r \in {q \in rules : \A k \in DOMAIN q.rhs : q.rhs[k] \in knownEmpty}}
<1>1. \A q \in rules : seqMatchesEmpty(q.rhs) <=> \A k \in DOMAIN q.rhs : q.rhs[k] \in knownEmpty
  BY SentenceTyped DEF seqMatchesEmpty
<1> QED
  BY <1>1 DEF newEmptyCats

-----------------------------------------------------------------------------
(* At first no category is known to be empty.                               *)
LEMMA Initially == Init => IInv
<1> SUFFICES ASSUME Init PROVE IInv
  OBVIOUS
<1>1. PICK G \in Grammars : rules = G \cup {toVirtRule(c) : c \in Entries}
  BY DEF Init
<1>2. ASSUME NEW r \in G PROVE r.cat \in NonTerminals /\ r.rhs \in Seq(Symbols)
  <2>1. r.cat \in Cats /\ r.rhs \in Seq(Cats \cup Terminals)
    BY GrammarsAssumption
  <2> QED
    BY <2>1 DEF NonTerminals, Symbols
<1>3. ASSUME NEW c \in Entries
      PROVE  toVirtRule(c).cat \in NonTerminals /\ toVirtRule(c).rhs \in Seq(Symbols)
  <2>1. c \in Symbols
    BY SymbolsAssumption DEF Symbols, NonTerminals
  <2> QED
    BY <2>1 DEF toVirtRule, NonTerminals
<1> QED
  BY <1>1, <1>2, <1>3 DEF Init, IInv, TypeOK, Least, NoneOptional

(* Each step of the iteration, and the printing, keep it.                    *)
LEMMA Step == IInv /\ [Next]_vars => IInv'
<1> SUFFICES ASSUME IInv, [Next]_vars PROVE IInv'
  OBVIOUS
<1>1. \A r \in rules : r.cat \in NonTerminals /\ r.rhs \in Seq(Symbols)
  BY DEF IInv
<1>2. newEmptyCats =
        {r.cat : r \in {q \in rules : \A k \in DOMAIN q.rhs : q.rhs[k] \in knownEmpty}}
  BY <1>1, NewEmpty
<1>3. CASE go
  <2>1. rules' = rules /\ output' = {} /\ knownEmpty' = newEmptyCats \cup knownEmpty
    BY <1>3 DEF go, possiblyEmptyCats
  <2>2. ASSUME NEW X \in SUBSET NonTerminals, Closed(X)' PROVE knownEmpty' \subseteq X
    <3>1. Closed(X)
      BY <2>1, <2>2 DEF Closed
    <3>2. knownEmpty \subseteq X
      BY <3>1 DEF IInv, Least
    <3>3. newEmptyCats \subseteq X
      BY <1>2, <3>1, <3>2 DEF Closed
    <3> QED
      BY <2>1, <3>2, <3>3
  <2>3. knownEmpty' \subseteq NonTerminals
    BY <1>1, <1>2, <2>1 DEF IInv, TypeOK
  <2> QED
    BY <1>1, <2>1, <2>2, <2>3 DEF IInv, TypeOK, Least, NoneOptional
<1>4. CASE prRules
  <2>1. rules' = rules /\ knownEmpty' = knownEmpty
        /\ output' = {[rule |-> r, alternatives |-> possiblyEmptyRule(r.rhs)] : r \in rules}
    BY <1>4 DEF prRules
  <2>2. newEmptyCats \subseteq knownEmpty
    BY <1>4 DEF prRules, fixed, possiblyEmptyCats
  <2>3. Closed(knownEmpty)
    BY <1>2, <2>2 DEF Closed
  <2>4. ASSUME NEW o \in output'
        PROVE  /\ o.rule \in rules /\ o.alternatives \in Seq(Seq(OptSym) \ {<<>>})
               /\ \A k \in DOMAIN o.alternatives :
                     \E i \in DOMAIN o.alternatives[k] : ~o.alternatives[k][i].optional
    <3>1. PICK r \in rules : o = [rule |-> r, alternatives |-> possiblyEmptyRule(r.rhs)]
      BY <2>1
    <3>2. o.rule = r /\ o.alternatives = possiblyEmptyRule(r.rhs) /\ r.rhs \in Seq(Symbols)
      BY <1>1, <3>1
    <3> QED
      BY <3>2, AlternativesTyped
  <2>5. TypeOK' /\ NoneOptional'
    BY <2>1, <2>4 DEF IInv, TypeOK, NoneOptional
  <2>6. Least'
    BY <2>1, <2>3 DEF IInv, Least, Closed
  <2> QED
    BY <1>1, <2>1, <2>5, <2>6 DEF IInv
<1>5. CASE UNCHANGED vars
  BY <1>5 DEF vars, IInv, TypeOK, Least, NoneOptional, Closed
<1> QED
  BY <1>3, <1>4, <1>5 DEF Next

(* For every grammar: the inductive invariant.                              *)
THEOREM Invariant == Spec => []IInv
BY Initially, Step, PTL DEF Spec

(* The printed alternatives are sequences of one symbol or more.             *)
THEOREM TypeCorrect == Spec => []TypeOK
<1>1. IInv => TypeOK
  BY DEF IInv
<1> QED
  BY <1>1, Invariant, PTL

(* fixPointKnownEmpty computes exactly the categories that match the empty   *)
(* text.                                                                    *)
THEOREM LeastAlways == Spec => []Least
<1>1. IInv => Least
  BY DEF IInv
<1> QED
  BY <1>1, Invariant, PTL

(* No printed alternative consists of optional symbols only, as tree-sitter  *)
(* demands.                                                                 *)
THEOREM NoneOptionalAlways == Spec => []NoneOptional
<1>1. IInv => NoneOptional
  BY DEF IInv
<1> QED
  BY <1>1, Invariant, PTL
-----------------------------------------------------------------------------
(* Every nonempty set of natural numbers has a least element.               *)
LEMMA LeastNumber ==
    ASSUME NEW S \in SUBSET Nat, S # {}
    PROVE  \E x \in S : \A y \in S : x <= y
<1>1. IsWellFoundedOn(OpToRel(<, Nat), Nat)
  BY NatLessThanWellFounded
<1>2. PICK x \in S : \A y \in S : ~(<<y, x>> \in OpToRel(<, Nat))
  BY <1>1, WFMin
<1>3. \A y \in S : ~(y < x)
  BY <1>2 DEF OpToRel
<1> QED
  BY <1>3

(* Texts are finite in number.                                              *)
LEMMA WordsFinite == IsFiniteSet(Words)
<1> DEFINE OfLength(n) == [1..n -> Terminals]
           S == {n \in Nat : ~IsFiniteSet(OfLength(n))}
<1>1. S = {}
  <2>1. SUFFICES ASSUME S # {} PROVE FALSE
    OBVIOUS
  <2>2. PICK n \in S : \A m \in S : n <= m
    <3>1. S \in SUBSET Nat
      OBVIOUS
    <3> HIDE DEF S
    <3> QED
      BY <2>1, <3>1, LeastNumber
  <2>3. n # 0
    <3>1. OfLength(0) \in SUBSET {<<>>}
      OBVIOUS
    <3>2. IsFiniteSet({<<>>})
      BY FS_Singleton
    <3> HIDE DEF OfLength
    <3>3. IsFiniteSet(OfLength(0))
      BY <3>1, <3>2, FS_Subset
    <3> QED
      BY <2>2, <3>3
  <2>4. n - 1 \in Nat /\ IsFiniteSet(OfLength(n - 1))
    BY <2>2, <2>3
  <2> DEFINE P == OfLength(n - 1) \X Terminals
             f == [p \in P |-> [i \in 1..n |-> IF i = n THEN p[2] ELSE p[1][i]]]
  <2>5. IsFiniteSet(P)
    BY <2>4, TextsAssumption, FS_Product
  <2>6. f \in Surjection(P, OfLength(n))
    <3>1. \A p \in P : f[p] \in OfLength(n)
      <4> TAKE p \in P
      <4>1. \A i \in 1..n : i # n => i \in 1..(n - 1)
        BY <2>4
      <4> QED
        BY <4>1
    <3>2. ASSUME NEW w \in OfLength(n) PROVE \E p \in P : f[p] = w
      <4> DEFINE p == <<[i \in 1..(n - 1) |-> w[i]], w[n]>>
      <4>1. n \in 1..n /\ \A i \in 1..(n - 1) : i \in 1..n
        BY <2>4
      <4>2. p \in P
        BY <4>1
      <4>3. ASSUME NEW i \in 1..n PROVE f[p][i] = w[i]
        <5>1. CASE i = n
          BY <4>2, <5>1
        <5>2. CASE i # n
          <6>1. i \in 1..(n - 1)
            BY <2>4, <5>2
          <6> QED
            BY <4>2, <5>2, <6>1
        <5> QED
          BY <5>1, <5>2
      <4>4. f[p] = w
        <5>1. f[p] = [i \in 1..n |-> f[p][i]]
          <6>1. f[p] = [i \in 1..n |-> IF i = n THEN p[2] ELSE p[1][i]]
            BY <4>2
          <6> HIDE DEF f, p
          <6> QED
            BY <6>1
        <5>2. w = [i \in 1..n |-> w[i]]
          OBVIOUS
        <5> HIDE DEF f, p
        <5> QED
          BY <4>3, <5>1, <5>2
      <4> QED
        BY <4>2, <4>4
    <3>3. f \in [P -> OfLength(n)]
      BY <3>1
    <3> HIDE DEF f, P, OfLength
    <3> QED
      BY <3>2, <3>3 DEF Surjection
  <2>7. IsFiniteSet(OfLength(n))
    <3> HIDE DEF P, OfLength
    <3> QED
      BY <2>5, <2>6, FS_Surjection
  <2> QED
    BY <2>2, <2>7
<1> DEFINE All == {OfLength(n) : n \in 0..MaxLength}
           g == [n \in 0..MaxLength |-> OfLength(n)]
<1>2. IsFiniteSet(0..MaxLength)
  BY TextsAssumption, FS_Interval
<1>3. g \in Surjection(0..MaxLength, All)
  BY DEF Surjection
<1>4. IsFiniteSet(All)
  <2> HIDE DEF g, All
  <2> QED
    BY <1>2, <1>3, FS_Surjection
<1>5. \A T \in All : IsFiniteSet(T)
  BY <1>1, TextsAssumption
<1>6. IsFiniteSet(UNION All)
  <2> HIDE DEF All
  <2> QED
    BY <1>4, <1>5, FS_UNION
<1> QED
  BY <1>6 DEF Words

(* So are facts.                                                            *)
LEMMA FactsFinite == IsFiniteSet(Facts)
<1>1. IsFiniteSet({Start}) /\ IsFiniteSet({1}) /\ IsFiniteSet({2})
  BY FS_Singleton
<1>2. IsFiniteSet(NonTerminals)
  BY <1>1, FiniteAssumption, FS_Union DEF NonTerminals
<1>3. IsFiniteSet({1, 2})
  <2>1. {1, 2} = {1} \cup {2}
    OBVIOUS
  <2> QED
    BY <1>1, <2>1, FS_Union
<1> DEFINE P == (NonTerminals \X Words) \X {1, 2}
           f == [p \in P |-> <<p[1][1], p[1][2], p[2]>>]
<1>4. IsFiniteSet(P)
  BY <1>2, <1>3, WordsFinite, FS_Product
<1>5. f \in Surjection(P, Facts)
  <2>1. \A p \in P : f[p] \in Facts
    BY DEF Facts
  <2>2. ASSUME NEW q \in Facts PROVE \E p \in P : f[p] = q
    <3>1. <<<<q[1], q[2]>>, q[3]>> \in P /\ q = <<q[1], q[2], q[3]>>
      BY DEF Facts
    <3> QED
      BY <3>1
  <2>3. f \in [P -> Facts]
    BY <2>1
  <2> HIDE DEF f, P
  <2> QED
    BY <2>2, <2>3 DEF Surjection
<1> HIDE DEF P, f
<1> QED
  BY <1>4, <1>5, FS_Surjection

-----------------------------------------------------------------------------
(* What follows is a fact; and more follows from more.                      *)
LEMMA FollowsFacts ==
    ASSUME NEW G, NEW L
    PROVE  Follows(G, L) \subseteq Facts
BY DEF Follows, Counted, Facts

LEMMA ReadsMonotone ==
    ASSUME NEW L, NEW M, L \subseteq M, NEW x, NEW u, NEW n, Reads(L, x, u, n)
    PROVE  Reads(M, x, u, n)
BY DEF Reads

LEMMA WaysMonotone ==
    ASSUME NEW G, NEW L, NEW M, L \subseteq M, NEW c, NEW w
    PROVE  Ways(G, L, c, w) \subseteq Ways(G, M, c, w)
<1>1. \A s : Splits(L, s, w) \subseteq Splits(M, s, w)
  BY ReadsMonotone DEF Splits
<1> QED
  BY <1>1 DEF Ways

LEMMA FollowsMonotone ==
    ASSUME NEW G, NEW L, NEW M, L \subseteq M
    PROVE  Follows(G, L) \subseteq Follows(G, M)
<1> SUFFICES ASSUME NEW p \in NonTerminals \X Words,
                    NEW n \in Counted(L, Ways(G, L, p[1], p[2]), p[2])
             PROVE  n \in Counted(M, Ways(G, M, p[1], p[2]), p[2])
  BY DEF Follows
<1> DEFINE ways == Ways(G, L, p[1], p[2])
           more == Ways(G, M, p[1], p[2])
<1>1. ways \subseteq more
  BY WaysMonotone
<1>2. \A y : Twice(L, y, p[2]) => Twice(M, y, p[2])
  BY ReadsMonotone DEF Twice
<1> HIDE DEF ways, more
<1>3. n \in {1, 2} /\ \E y \in ways : n = 1 \/ Twice(L, y, p[2]) \/ \E z \in ways : z # y
  BY DEF Counted, ways
<1>4. n \in Counted(M, more, p[2])
  BY <1>1, <1>2, <1>3 DEF Counted
<1> QED
  BY <1>4 DEF more

(* The facts in every set that has L and is closed under the rules.         *)
Keeps(G, X) == X \subseteq Facts /\ Follows(G, X) \subseteq X
Hull(G, L) == {f \in Facts : \A X \in SUBSET Facts : L \subseteq X /\ Keeps(G, X) => f \in X}
IsTrees(G, trees) ==
    trees = [L \in SUBSET Facts |->
                IF Follows(G, L) \subseteq L THEN L ELSE trees[L \cup Follows(G, L)]]

(* There is a function as Trees defines it, as hulls are one.               *)
LEMMA HullIsTrees ==
    ASSUME NEW G
    PROVE  IsTrees(G, [L \in SUBSET Facts |-> Hull(G, L)])
<1>1. ASSUME NEW L \in SUBSET Facts, Follows(G, L) \subseteq L PROVE Hull(G, L) = L
  BY <1>1 DEF Hull, Keeps
<1>2. ASSUME NEW L \in SUBSET Facts
      PROVE  L \cup Follows(G, L) \in SUBSET Facts /\ Hull(G, L) = Hull(G, L \cup Follows(G, L))
  <2>1. Follows(G, L) \subseteq Facts
    BY FollowsFacts
  <2>2. ASSUME NEW X \in SUBSET Facts, Keeps(G, X)
        PROVE  L \subseteq X <=> L \cup Follows(G, L) \subseteq X
    BY <2>2, FollowsMonotone DEF Keeps
  <2> QED
    BY <2>1, <2>2 DEF Hull
<1> DEFINE trees == [L \in SUBSET Facts |-> Hull(G, L)]
<1>3. ASSUME NEW L \in SUBSET Facts
      PROVE  trees[L] = IF Follows(G, L) \subseteq L THEN L ELSE trees[L \cup Follows(G, L)]
  BY <1>1, <1>2
<1>4. trees = [L \in SUBSET Facts |-> trees[L]]
  OBVIOUS
<1> HIDE DEF trees
<1>5. trees = [L \in SUBSET Facts |->
                  IF Follows(G, L) \subseteq L THEN L ELSE trees[L \cup Follows(G, L)]]
  BY <1>3, <1>4
<1>6. IsTrees(G, trees)
  BY <1>5 DEF IsTrees
<1> QED
  BY <1>6 DEF trees

(* Any such function gives the hull, as facts are finite in number: take a   *)
(* set where it does not, and from which the fewest facts are missing.      *)
LEMMA TreesAreHull ==
    ASSUME NEW G, NEW trees, IsTrees(G, trees), NEW L \in SUBSET Facts
    PROVE  trees[L] = Hull(G, L)
<1> DEFINE missing(M) == Cardinality(Facts \ M)
           wrong == {M \in SUBSET Facts : trees[M] # Hull(G, M)}
           S == {missing(M) : M \in wrong}
<1>1. ASSUME NEW M \in SUBSET Facts PROVE missing(M) \in Nat
  BY FactsFinite, FS_Subset, FS_CardinalityType
<1>2. SUFFICES ASSUME wrong # {} PROVE FALSE
  OBVIOUS
<1>3. S \in SUBSET Nat /\ S # {}
  BY <1>1, <1>2
<1>4. PICK M \in wrong : \A N \in wrong : missing(M) <= missing(N)
  <2> HIDE DEF S
  <2>1. PICK n \in S : \A m \in S : n <= m
    BY <1>3, LeastNumber
  <2> QED
    BY <2>1 DEF S
<1> DEFINE N == M \cup Follows(G, M)
<1>5. M \in SUBSET Facts /\ trees[M] # Hull(G, M)
  OBVIOUS
<1>6. N \in SUBSET Facts
  BY <1>5, FollowsFacts
<1>7. trees[M] = IF Follows(G, M) \subseteq M THEN M ELSE trees[N]
  BY <1>5 DEF IsTrees
<1>8. Hull(G, M) = IF Follows(G, M) \subseteq M THEN M ELSE Hull(G, N)
  <2> DEFINE hulls == [K \in SUBSET Facts |-> Hull(G, K)]
  <2>1. IsTrees(G, hulls)
    BY HullIsTrees
  <2>2. hulls[M] = IF Follows(G, M) \subseteq M THEN M ELSE hulls[N]
    <3> HIDE DEF hulls
    <3> QED
      BY <1>5, <2>1 DEF IsTrees
  <2> QED
    BY <1>5, <1>6, <2>2
<1>9. ~(Follows(G, M) \subseteq M) /\ N \in wrong
  BY <1>5, <1>6, <1>7, <1>8
<1>10. PICK f \in Follows(G, M) : f \notin M
  BY <1>9
<1>11. Facts \ N \subseteq (Facts \ M) \ {f} /\ f \in Facts \ M
  BY <1>6, <1>10
<1>12. missing(N) < missing(M)
  <2>1. IsFiniteSet(Facts \ M)
    BY FactsFinite, FS_Difference
  <2>2. Cardinality((Facts \ M) \ {f}) = missing(M) - 1 /\ IsFiniteSet((Facts \ M) \ {f})
    BY <1>11, <2>1, FS_RemoveElement
  <2>3. missing(N) <= Cardinality((Facts \ M) \ {f})
    BY <1>11, <2>2, FS_Subset
  <2>4. missing(N) \in Nat /\ missing(M) \in Nat
    BY <1>1, <1>5, <1>6
  <2> HIDE DEF missing
  <2> QED
    BY <2>2, <2>3, <2>4
<1>13. missing(N) \in Nat /\ missing(M) \in Nat
  BY <1>1, <1>5, <1>6
<1> HIDE DEF missing, wrong, N
<1> QED
  BY <1>4, <1>9, <1>12, <1>13

(* So the facts of the parse trees are closed under the rules, and contained *)
(* in every set of facts that is.                                           *)
LEMMA TreesLeast ==
    ASSUME NEW G
    PROVE  /\ Keeps(G, Trees(G))
           /\ \A X : Keeps(G, X) => Trees(G) \subseteq X
<1> DEFINE trees == CHOOSE f : IsTrees(G, f)
<1>1. IsTrees(G, trees)
  BY HullIsTrees
<1>2. Trees(G) = trees[{}]
  BY DEF Trees, IsTrees
<1> HIDE DEF trees
<1>3. Trees(G) = Hull(G, {})
  BY <1>1, <1>2, TreesAreHull
<1>4. ASSUME NEW X, Keeps(G, X) PROVE Hull(G, {}) \subseteq X
  BY <1>4 DEF Hull, Keeps
<1>5. Keeps(G, Hull(G, {}))
  <2>1. Hull(G, {}) \subseteq Facts
    BY DEF Hull
  <2>2. ASSUME NEW f \in Follows(G, Hull(G, {})), NEW X \in SUBSET Facts, Keeps(G, X)
        PROVE  f \in X
    <3>1. Hull(G, {}) \subseteq X
      BY <1>4, <2>2
    <3>2. f \in Follows(G, X)
      BY <2>2, <3>1, FollowsMonotone
    <3> QED
      BY <2>2, <3>2 DEF Keeps
  <2>3. Follows(G, Hull(G, {})) \subseteq Hull(G, {})
    BY <2>2, FollowsFacts DEF Hull
  <2> QED
    BY <2>1, <2>3 DEF Keeps
<1> QED
  BY <1>3, <1>4, <1>5
-----------------------------------------------------------------------------
(* When the rules have been printed, all of them have been, and by what is   *)
(* known then.  Start stands in no right-hand side.                         *)
Rules == \A r \in rules : r.cat \in NonTerminals /\ r.rhs \in Seq(Cats \cup Terminals)
AllPrinted ==
    output # {} =>
        output = {[rule |-> r, alternatives |-> possiblyEmptyRule(r.rhs)] : r \in rules}

(* This is inductive, together with the rest.                               *)
LEMMA PrintedInit == Init => Rules /\ AllPrinted
<1> SUFFICES ASSUME Init PROVE Rules /\ AllPrinted
  OBVIOUS
<1>1. PICK G \in Grammars : rules = G \cup {toVirtRule(c) : c \in Entries}
  BY DEF Init
<1>2. ASSUME NEW r \in G PROVE r.cat \in NonTerminals /\ r.rhs \in Seq(Cats \cup Terminals)
  BY GrammarsAssumption DEF NonTerminals
<1>3. ASSUME NEW c \in Entries
      PROVE  toVirtRule(c).cat \in NonTerminals /\ toVirtRule(c).rhs \in Seq(Cats \cup Terminals)
  <2>1. c \in Cats \cup Terminals
    BY SymbolsAssumption
  <2> QED
    BY <2>1 DEF toVirtRule, NonTerminals
<1> QED
  BY <1>1, <1>2, <1>3 DEF Init, Rules, AllPrinted

LEMMA PrintedStep == Rules /\ AllPrinted /\ [Next]_vars => Rules' /\ AllPrinted'
<1> SUFFICES ASSUME Rules, AllPrinted, [Next]_vars PROVE Rules' /\ AllPrinted'
  OBVIOUS
<1>1. rules' = rules
  BY DEF Next, go, prRules, vars
<1>2. CASE go
  BY <1>1, <1>2 DEF go, Rules, AllPrinted
<1>3. CASE prRules \/ UNCHANGED vars
  <2>1. knownEmpty' = knownEmpty
    BY <1>3 DEF prRules, vars
  <2>2. \A s : possiblyEmptyRule(s)' = possiblyEmptyRule(s)
    BY <2>1 DEF possiblyEmptyRule, seqMatchesEmpty, sentence, possiblyEmptySym
  <2> QED
    BY <1>1, <1>3, <2>2 DEF prRules, vars, Rules, AllPrinted
<1> QED
  BY <1>2, <1>3 DEF Next

LEMMA Printing == Spec => [](Rules /\ AllPrinted)
BY PrintedInit, PrintedStep, PTL DEF Spec

-----------------------------------------------------------------------------
(* Cuts.  From a cut a position can be read off, each lies in the text, and  *)
(* they grow.                                                               *)
LEMMA CutTyped ==
    ASSUME NEW n \in Nat, NEW m \in Nat
    PROVE  Cuts(n, m) = {cut \in [0..n -> 0..m] :
              cut[0] = 0 /\ cut[n] = m /\ \A i \in 1..n : cut[i - 1] <= cut[i]}
<1> DEFINE whole(inner) == [i \in 0..n |-> IF i = 0 THEN 0 ELSE IF i = n THEN m ELSE inner[i]]
<1>1. ASSUME NEW cut \in Cuts(n, m)
      PROVE  cut \in [0..n -> 0..m] /\ cut[0] = 0 /\ cut[n] = m
             /\ \A i \in 1..n : cut[i - 1] <= cut[i]
  <2>1. PICK inner \in [1..(n - 1) -> 0..m] : cut = whole(inner)
    BY DEF Cuts
  <2>2. ASSUME NEW i \in 0..n, i # 0, i # n PROVE i \in 1..(n - 1)
    BY <2>2
  <2>3. whole(inner) \in [0..n -> 0..m]
    BY <2>2
  <2>4. cut[0] = 0
    BY <2>1
  <2>5. cut[n] = m /\ \A i \in 1..n : cut[i - 1] <= cut[i]
    BY DEF Cuts
  <2> HIDE DEF whole
  <2> QED
    BY <2>1, <2>3, <2>4, <2>5
<1>2. ASSUME NEW cut \in [0..n -> 0..m], cut[0] = 0, cut[n] = m,
             \A i \in 1..n : cut[i - 1] <= cut[i]
      PROVE  cut \in Cuts(n, m)
  <2> DEFINE inner == [i \in 1..(n - 1) |-> cut[i]]
  <2>1. inner \in [1..(n - 1) -> 0..m]
    BY <1>2
  <2>2. ASSUME NEW i \in 0..n
        PROVE  (IF i = 0 THEN 0 ELSE IF i = n THEN m ELSE inner[i]) = cut[i]
    BY <1>2
  <2>3. whole(inner) = [i \in 0..n |-> cut[i]]
    BY <2>2
  <2>4. cut = [i \in 0..n |-> cut[i]]
    OBVIOUS
  <2>5. cut = whole(inner)
    BY <2>3, <2>4
  <2> HIDE DEF inner
  <2>6. cut \in {whole(x) : x \in [1..(n - 1) -> 0..m]}
    BY <2>1, <2>5
  <2>7. Cuts(n, m) = {c \in {whole(x) : x \in [1..(n - 1) -> 0..m]} :
                        c[n] = m /\ \A i \in 1..n : c[i - 1] <= c[i]}
    BY DEF Cuts
  <2> HIDE DEF whole
  <2> QED
    BY <1>2, <2>6, <2>7
<1> QED
  BY <1>1, <1>2

LEMMA CutGrows ==
    ASSUME NEW n \in Nat, NEW m \in Nat, NEW cut \in Cuts(n, m),
           NEW i \in 0..n, NEW j \in i..n
    PROVE  cut[i] <= cut[j]
<1>1. /\ cut \in [0..n -> 0..m]
      /\ \A k \in 1..n : cut[k - 1] <= cut[k]
  BY CutTyped
<1> DEFINE S == {k \in i..n : cut[k] < cut[i]}
<1>2. SUFFICES ASSUME S # {} PROVE FALSE
  <2>1. cut[i] \in Int /\ cut[j] \in Int /\ j \in i..n
    BY <1>1
  <2> QED
    BY <2>1
<1>3. PICK k \in S : \A l \in S : k <= l
  <2>1. S \in SUBSET Nat
    OBVIOUS
  <2> HIDE DEF S
  <2> QED
    BY <1>2, <2>1, LeastNumber
<1>4. k # i /\ k - 1 \in i..n /\ k \in 1..n /\ k - 1 \in 0..n /\ k \in 0..n
  BY <1>1
<1>5. k - 1 \notin S
  BY <1>3
<1>6. cut[i] <= cut[k - 1] /\ cut[k - 1] <= cut[k] /\ cut[k] < cut[i]
  BY <1>1, <1>4, <1>5
<1>7. cut[i] \in Int /\ cut[k] \in Int /\ cut[k - 1] \in Int
  BY <1>1, <1>4
<1> HIDE DEF S
<1> QED
  BY <1>6, <1>7

(* The parts of a text are texts, as long as the cut says.                   *)
LEMMA WordTyped ==
    ASSUME NEW w \in Words
    PROVE  w \in Seq(Terminals) /\ Len(w) \in Nat /\ Len(w) <= MaxLength
<1>1. PICK n \in 0..MaxLength : w \in [1..n -> Terminals]
  BY DEF Words
<1>2. n \in Nat /\ n <= MaxLength
  BY TextsAssumption
<1> QED
  BY <1>1, <1>2

LEMMA PartTyped ==
    ASSUME NEW w \in Words, NEW n \in Nat, NEW cut \in Cuts(n, Len(w)), NEW i \in 1..n
    PROVE  /\ Part(w, cut, i) \in Words
           /\ Len(Part(w, cut, i)) = cut[i] - cut[i - 1]
           /\ cut[i - 1] \in Nat /\ cut[i] \in Nat /\ cut[i - 1] <= cut[i] /\ cut[i] <= Len(w)
           /\ Part(w, cut, i) = <<>> <=> cut[i - 1] = cut[i]
<1>1. w \in Seq(Terminals) /\ Len(w) \in Nat /\ Len(w) <= MaxLength
  BY WordTyped
<1>2. cut \in [0..n -> 0..Len(w)] /\ cut[i - 1] <= cut[i] /\ i \in 0..n /\ i - 1 \in 0..n
  BY <1>1, CutTyped
<1>3. cut[i - 1] \in Nat /\ cut[i] \in Nat /\ cut[i] <= Len(w)
  BY <1>1, <1>2
<1> DEFINE a == cut[i - 1]
           b == cut[i]
           u == SubSeq(w, a + 1, b)
<1>4. a \in Nat /\ b \in Nat /\ a <= b /\ b <= Len(w) /\ Part(w, cut, i) = u
  BY <1>2, <1>3 DEF Part
<1> HIDE DEF a, b
<1>5. \A k \in (a + 1)..b : w[k] \in Terminals
  BY <1>1, <1>4
<1>6. u \in Seq(Terminals) /\ Len(u) = IF a + 1 <= b THEN b - (a + 1) + 1 ELSE 0
  <2>1. a + 1 \in Int /\ b \in Int
    BY <1>4
  <2> QED
    BY <1>5, <2>1, SubSeqProperties
<1>7. Len(u) = b - a
  BY <1>4, <1>6
<1> HIDE DEF u
<1>8. u \in [1..Len(u) -> Terminals] /\ Len(u) \in 0..MaxLength
  <2>1. Len(u) \in Nat /\ Len(u) <= MaxLength
    BY <1>1, <1>4, <1>7, TextsAssumption
  <2> QED
    BY <1>6, <2>1, TextsAssumption
<1>9. u \in Words
  BY <1>8 DEF Words
<1>10. u = <<>> <=> a = b
  BY <1>4, <1>6, <1>7
<1> QED
  BY <1>2, <1>3, <1>4, <1>7, <1>9, <1>10 DEF a, b

(* The empty text is one, and all its parts are empty.                       *)
LEMMA EmptyText ==
    ASSUME NEW n \in Nat
    PROVE  /\ <<>> \in Words /\ Len(<<>>) = 0
           /\ [i \in 0..n |-> 0] \in Cuts(n, 0)
           /\ \A cut \in Cuts(n, 0) : \A i \in 1..n : Part(<<>>, cut, i) = <<>>
<1>1. <<>> \in [1..0 -> Terminals]
  OBVIOUS
<1>2. <<>> \in Words
  BY <1>1, TextsAssumption DEF Words
<1>3. [i \in 0..n |-> 0] \in Cuts(n, 0)
  <2> DEFINE cut == [i \in 0..n |-> 0]
  <2>1. cut \in [0..n -> 0..0] /\ cut[0] = 0 /\ cut[n] = 0 /\ \A i \in 1..n : cut[i - 1] <= cut[i]
    OBVIOUS
  <2> HIDE DEF cut
  <2>2. cut \in Cuts(n, 0)
    BY <2>1, CutTyped
  <2> QED
    BY <2>2 DEF cut
<1>4. ASSUME NEW cut \in Cuts(n, 0), NEW i \in 1..n PROVE Part(<<>>, cut, i) = <<>>
  <2>1. Len(<<>>) = 0
    OBVIOUS
  <2>2. cut[i - 1] \in Nat /\ cut[i] \in Nat /\ cut[i] <= 0 /\ cut[i - 1] <= cut[i]
    BY <1>2, <2>1, PartTyped
  <2>3. cut[i - 1] = cut[i]
    BY <2>2
  <2> QED
    BY <1>2, <2>1, <2>3, PartTyped
<1> QED
  BY <1>2, <1>3, <1>4
-----------------------------------------------------------------------------
(* Ways to read a text, and what follows from them.                         *)
LEMMA WayIs ==
    ASSUME NEW G, NEW L, NEW c, NEW w, NEW y
    PROVE  y \in Ways(G, L, c, w) <=>
              \E o \in G : \E k \in DOMAIN o.alternatives :
                 \E cut \in Splits(L, o.alternatives[k], w) : o.rule.cat = c /\ y = <<o, k, cut>>
BY DEF Ways

LEMMA FollowsIs ==
    ASSUME NEW G, NEW L, NEW c \in NonTerminals, NEW w \in Words, NEW n \in {1, 2}
    PROVE  <<c, w, n>> \in Follows(G, L) <=>
              \E y \in Ways(G, L, c, w) :
                 n = 1 \/ Twice(L, y, w) \/ \E z \in Ways(G, L, c, w) : z # y
<1>1. ASSUME <<c, w, n>> \in Follows(G, L) PROVE n \in Counted(L, Ways(G, L, c, w), w)
  <2>1. PICK p \in NonTerminals \X Words : \E m \in Counted(L, Ways(G, L, p[1], p[2]), p[2]) :
           <<c, w, n>> = <<p[1], p[2], m>>
    BY <1>1 DEF Follows
  <2> QED
    BY <2>1
<1>2. ASSUME n \in Counted(L, Ways(G, L, c, w), w) PROVE <<c, w, n>> \in Follows(G, L)
  <2>1. <<c, w>> \in NonTerminals \X Words /\ <<c, w>>[1] = c /\ <<c, w>>[2] = w
    OBVIOUS
  <2> QED
    BY <1>2, <2>1 DEF Follows
<1> DEFINE ways == Ways(G, L, c, w)
<1>3. n \in Counted(L, ways, w) <=>
         \E y \in ways : n = 1 \/ Twice(L, y, w) \/ \E z \in ways : z # y
  BY DEF Counted
<1> HIDE DEF ways
<1> QED
  BY <1>1, <1>2, <1>3 DEF ways

(* By a rule as it is given, each symbol reads its part.                     *)
givenOf(r) == [rule |-> r, alternatives |-> <<[k \in DOMAIN r.rhs |-> NonOptional(r.rhs[k])]>>]
Read(L, x, u) == <<x, u, 1>> \in L \/ u = <<x>>
Fits(L, r, cut, w) ==
    cut \in Cuts(Len(r.rhs), Len(w)) /\ \A i \in 1..Len(r.rhs) : Read(L, r.rhs[i], Part(w, cut, i))

LEMMA GivenSymbols ==
    ASSUME NEW r, r.rhs \in Seq(Cats \cup Terminals)
    PROVE  /\ Len(givenOf(r).alternatives) = 1 /\ DOMAIN givenOf(r).alternatives = {1}
           /\ givenOf(r).rule = r
           /\ Len(givenOf(r).alternatives[1]) = Len(r.rhs)
           /\ DOMAIN givenOf(r).alternatives[1] = 1..Len(r.rhs)
           /\ \A i \in 1..Len(r.rhs) : /\ givenOf(r).alternatives[1][i].sym = r.rhs[i]
                                       /\ givenOf(r).alternatives[1][i].optional = FALSE
<1> DEFINE s == [k \in DOMAIN r.rhs |-> NonOptional(r.rhs[k])]
<1>1. DOMAIN r.rhs = 1..Len(r.rhs) /\ Len(r.rhs) \in Nat
  OBVIOUS
<1>2. DOMAIN s = 1..Len(r.rhs) /\ s \in Seq({NonOptional(x) : x \in Cats \cup Terminals})
  BY <1>1
<1>3. Len(s) = Len(r.rhs)
  BY <1>1, <1>2
<1>4. \A i \in 1..Len(r.rhs) : s[i].sym = r.rhs[i] /\ s[i].optional = FALSE
  BY <1>1 DEF NonOptional
<1>5. givenOf(r).alternatives = <<s>> /\ givenOf(r).rule = r
  BY DEF givenOf
<1> HIDE DEF s
<1> QED
  BY <1>2, <1>3, <1>4, <1>5

LEMMA GivenWays ==
    ASSUME Rules, NEW L, NEW c, NEW w, NEW y
    PROVE  y \in Ways(given, L, c, w) <=>
              \E r \in rules : \E cut : r.cat = c /\ Fits(L, r, cut, w) /\ y = <<givenOf(r), 1, cut>>
<1>1. given = {givenOf(r) : r \in rules}
  BY DEF given, givenOf
<1>2. ASSUME NEW r \in rules, NEW cut
      PROVE  cut \in Splits(L, givenOf(r).alternatives[1], w) <=> Fits(L, r, cut, w)
  <2> DEFINE s == givenOf(r).alternatives[1]
  <2>1. /\ Len(s) = Len(r.rhs) /\ DOMAIN s = 1..Len(r.rhs)
        /\ \A i \in 1..Len(r.rhs) : s[i].sym = r.rhs[i] /\ s[i].optional = FALSE
    BY GivenSymbols DEF Rules
  <2> HIDE DEF s
  <2>2. \A i \in 1..Len(r.rhs) : \A u : Reads(L, s[i], u, 1) <=> Read(L, r.rhs[i], u)
    BY <2>1 DEF Reads, Read
  <2>3. cut \in Splits(L, s, w) <=> Fits(L, r, cut, w)
    BY <2>1, <2>2 DEF Splits, Fits
  <2> QED
    BY <2>3 DEF s
<1>3. \A r \in rules : DOMAIN givenOf(r).alternatives = {1} /\ givenOf(r).rule = r
  BY GivenSymbols DEF Rules
<1>4. ASSUME y \in Ways(given, L, c, w)
      PROVE  \E r \in rules : \E cut : r.cat = c /\ Fits(L, r, cut, w) /\ y = <<givenOf(r), 1, cut>>
  <2>1. PICK o \in given : \E k \in DOMAIN o.alternatives :
                 \E cut \in Splits(L, o.alternatives[k], w) : o.rule.cat = c /\ y = <<o, k, cut>>
    BY <1>4, WayIs
  <2>2. PICK r \in rules : o = givenOf(r)
    BY <1>1
  <2> QED
    BY <1>2, <1>3, <2>1, <2>2
<1>5. ASSUME NEW r \in rules, NEW cut, r.cat = c, Fits(L, r, cut, w), y = <<givenOf(r), 1, cut>>
      PROVE  y \in Ways(given, L, c, w)
  <2>1. givenOf(r) \in given /\ 1 \in DOMAIN givenOf(r).alternatives
        /\ cut \in Splits(L, givenOf(r).alternatives[1], w) /\ givenOf(r).rule.cat = c
    BY <1>1, <1>2, <1>3, <1>5
  <2> QED
    BY <1>5, <2>1, WayIs
<1> QED
  BY <1>4, <1>5

LEMMA GivenTwice ==
    ASSUME Rules, NEW L, NEW r \in rules, NEW cut, NEW w
    PROVE  Twice(L, <<givenOf(r), 1, cut>>, w) <=>
              \E i \in 1..Len(r.rhs) : <<r.rhs[i], Part(w, cut, i), 2>> \in L
<1> DEFINE s == givenOf(r).alternatives[1]
<1>1. /\ DOMAIN s = 1..Len(r.rhs)
      /\ \A i \in 1..Len(r.rhs) : s[i].sym = r.rhs[i] /\ s[i].optional = FALSE
  BY GivenSymbols DEF Rules
<1>2. Twice(L, <<givenOf(r), 1, cut>>, w) <=> \E i \in DOMAIN s : Reads(L, s[i], Part(w, cut, i), 2)
  BY DEF Twice
<1> HIDE DEF s
<1>3. \A i \in 1..Len(r.rhs) : \A u : Reads(L, s[i], u, 2) <=> <<r.rhs[i], u, 2>> \in L
  BY <1>1 DEF Reads
<1> QED
  BY <1>1, <1>2, <1>3

(* By the given rules, the categories known to match the empty text do, and  *)
(* no others.                                                               *)
Done == Rules /\ AllPrinted /\ IInv /\ output # {}

LEMMA EmptyRead ==
    ASSUME Done, NEW c \in NonTerminals
    PROVE  <<c, <<>>, 1>> \in Trees(given) <=> c \in knownEmpty
<1> DEFINE B == Trees(given)
<1>1. Keeps(given, B) /\ \A X : Keeps(given, X) => B \subseteq X
  BY TreesLeast
<1> HIDE DEF B
<1>2. Closed(knownEmpty) /\ knownEmpty \subseteq NonTerminals /\ Rules
  BY DEF Done, IInv, Least, TypeOK
<1>3. <<>> \in Words /\ Len(<<>>) = 0
  BY EmptyText
<1>4. ASSUME c \in knownEmpty PROVE <<c, <<>>, 1>> \in B
  <2> DEFINE E == {x \in NonTerminals : <<x, <<>>, 1>> \in B}
  <2>1. ASSUME NEW r \in rules, \A k \in DOMAIN r.rhs : r.rhs[k] \in E PROVE r.cat \in E
    <3>1. r.cat \in NonTerminals /\ r.rhs \in Seq(Cats \cup Terminals)
      BY <1>2 DEF Rules
    <3>2. Len(r.rhs) \in Nat /\ DOMAIN r.rhs = 1..Len(r.rhs)
      BY <3>1
    <3> DEFINE cut == [i \in 0..Len(r.rhs) |-> 0]
    <3>3. cut \in Cuts(Len(r.rhs), 0)
      BY <3>2, EmptyText
    <3> HIDE DEF cut
    <3>4. \A i \in 1..Len(r.rhs) : Part(<<>>, cut, i) = <<>>
      BY <3>2, <3>3, EmptyText
    <3>5. Fits(B, r, cut, <<>>)
      BY <1>3, <2>1, <3>2, <3>3, <3>4 DEF Fits, Read
    <3>6. <<givenOf(r), 1, cut>> \in Ways(given, B, r.cat, <<>>)
      BY <1>2, <3>5, GivenWays
    <3>7. <<r.cat, <<>>, 1>> \in Follows(given, B)
      <4>1. 1 \in {1, 2}
        OBVIOUS
      <4> QED
        BY <1>3, <3>1, <3>6, <4>1, FollowsIs
    <3> QED
      BY <1>1, <3>1, <3>7 DEF Keeps
  <2>2. Closed(E)
    BY <2>1 DEF Closed
  <2>3. E \in SUBSET NonTerminals
    OBVIOUS
  <2> HIDE DEF E
  <2>4. knownEmpty \subseteq E
    BY <2>2, <2>3 DEF Done, IInv, Least
  <2> QED
    BY <1>4, <2>4 DEF E
<1>5. ASSUME <<c, <<>>, 1>> \in B PROVE c \in knownEmpty
  <2> DEFINE X == {f \in Facts : f[2] = <<>> => f[1] \in knownEmpty}
  <2>1. ASSUME NEW f \in Follows(given, X) PROVE f \in X
    <3>1. f \in Facts
      BY FollowsFacts
    <3>2. SUFFICES ASSUME f[2] = <<>> PROVE f[1] \in knownEmpty
      BY <3>1
    <3>3. PICK d \in NonTerminals, n \in {1, 2} : f = <<d, <<>>, n>>
      BY <3>1, <3>2 DEF Facts
    <3>4. PICK y \in Ways(given, X, d, <<>>) : TRUE
      <4> HIDE DEF X
      <4> QED
        BY <1>3, <3>3, FollowsIs
    <3>9. PICK r \in rules : \E cut : r.cat = d /\ Fits(X, r, cut, <<>>)
      <4> HIDE DEF X
      <4> QED
        BY <1>2, <3>4, GivenWays
    <3>5. PICK cut : r.cat = d /\ Fits(X, r, cut, <<>>)
      BY <3>9
    <3>6. Len(r.rhs) \in Nat /\ DOMAIN r.rhs = 1..Len(r.rhs)
      BY <1>2 DEF Rules
    <3>7. cut \in Cuts(Len(r.rhs), 0)
      BY <1>3, <3>5 DEF Fits
    <3>8. ASSUME NEW k \in DOMAIN r.rhs PROVE r.rhs[k] \in knownEmpty
      <4>1. Part(<<>>, cut, k) = <<>>
        BY <3>6, <3>7, EmptyText
      <4>2. Read(X, r.rhs[k], <<>>)
        BY <3>5, <3>6, <3>8, <4>1 DEF Fits
      <4>3. <<r.rhs[k], <<>>, 1>> \in X
        <5> HIDE DEF X
        <5> QED
          BY <4>2 DEF Read
      <4> QED
        BY <4>3
    <3> QED
      BY <1>2, <3>3, <3>5, <3>8 DEF Closed
  <2>2. X \subseteq Facts /\ <<c, <<>>, 1>>[2] = <<>> /\ <<c, <<>>, 1>>[1] = c
    OBVIOUS
  <2>3. \A f \in X : f[2] = <<>> => f[1] \in knownEmpty
    OBVIOUS
  <2> HIDE DEF X
  <2>4. Keeps(given, X)
    BY <2>1, <2>2 DEF Keeps
  <2>5. <<c, <<>>, 1>> \in X
    BY <1>1, <1>5, <2>4
  <2> QED
    BY <2>2, <2>3, <2>5
<1> QED
  BY <1>4, <1>5 DEF B
-----------------------------------------------------------------------------
(* What is printed for a rule. *)

printedOf(r) == [rule |-> r, alternatives |-> possiblyEmptyRule(r.rhs)]
optionalRule == [rule |-> [cat |-> Start, rhs |-> <<>>, label |-> "optional"], alternatives |-> <<<<>>>>]

(* The k-th alternative is without the first symbols of the rule, all of     *)
(* which match the empty text.                                              *)
Shift(rhs, k) == IF seqMatchesEmpty(rhs) THEN k - 1 ELSE 0

LEMMA Alternatives ==
    ASSUME NEW rhs \in Seq(Symbols), NEW k, NEW n, n = Shift(rhs, k),
           k \in DOMAIN possiblyEmptyRule(rhs)
    PROVE  LET a == possiblyEmptyRule(rhs)[k]
           IN  /\ n \in 0..Len(rhs) /\ Len(a) = Len(rhs) - n /\ DOMAIN a = 1..Len(a)
               /\ n = k - 1
               /\ \A j \in 1..Len(a) : /\ a[j].sym = rhs[j + n]
                                       /\ a[j].optional => rhs[j + n] \in knownEmpty
                                       /\ rhs[j + n] \in knownEmpty => a[j].optional \/ (j = 1 /\ seqMatchesEmpty(rhs))
               /\ \A i \in 1..n : rhs[i] \in knownEmpty
               /\ \E j \in 1..Len(a) : ~a[j].optional
               /\ seqMatchesEmpty(rhs) => 1 \in DOMAIN a /\ ~a[1].optional
<1> DEFINE s == sentence(rhs)
           a == possiblyEmptyRule(rhs)[k]
<1>1. /\ s \in Seq(OptSym) /\ DOMAIN s = DOMAIN rhs
      /\ \A i \in DOMAIN rhs : s[i].optional <=> rhs[i] \in knownEmpty
  BY SentenceTyped
<1>2. \A i \in DOMAIN rhs : s[i].sym = rhs[i]
  BY DEF sentence, possiblyEmptySym, Optional, NonOptional
<1>3. Len(rhs) \in Nat /\ DOMAIN rhs = 1..Len(rhs) /\ Len(s) = Len(rhs)
  BY <1>1
<1>4. seqMatchesEmpty(rhs) <=> \A i \in DOMAIN rhs : s[i].optional
  BY DEF seqMatchesEmpty
<1>5. possiblyEmptyRule(rhs) = IF seqMatchesEmpty(rhs) THEN [i \in DOMAIN s |-> headNonOptional(s, i)] ELSE <<s>>
  BY DEF possiblyEmptyRule, subtractEmptyString
<1> HIDE DEF s
<1>6. CASE seqMatchesEmpty(rhs)
  <2>1. k \in 1..Len(rhs) /\ n = k - 1 /\ a = headNonOptional(s, k)
    BY <1>1, <1>3, <1>5, <1>6 DEF Shift
  <2> HIDE DEF a
  <2>2. /\ a \in Seq(OptSym) \ {<<>>}
    BY <1>1, <1>3, <2>1, HeadTyped
  <2>3. a = [i \in 1..(Len(s) - k + 1) |-> IF i = 1 THEN NonOptional(s[k].sym) ELSE s[k + i - 1]]
    BY <2>1 DEF headNonOptional
  <2>4. Len(rhs) - n \in Nat /\ Len(s) - k + 1 = Len(rhs) - n
    BY <1>3, <2>1
  <2>5. Len(a) = Len(rhs) - n /\ DOMAIN a = 1..Len(a)
    BY <2>2, <2>3, <2>4
  <2>6. a[1].sym = rhs[k] /\ a[1].optional = FALSE /\ 1 \in DOMAIN a
    BY <1>2, <1>3, <2>1, <2>3, <2>4, <2>5 DEF NonOptional
  <2>7. ASSUME NEW j \in 1..Len(a), j # 1 PROVE a[j] = s[j + n] /\ j + n \in DOMAIN rhs
    BY <1>3, <2>1, <2>3, <2>4, <2>5, <2>7
  <2>8. \A j \in 1..Len(a) : /\ a[j].sym = rhs[j + n]
                             /\ a[j].optional => rhs[j + n] \in knownEmpty
                             /\ rhs[j + n] \in knownEmpty => a[j].optional \/ j = 1
    <3> TAKE j \in 1..Len(a)
    <3>1. CASE j = 1
      <4>1. j + n = k
        BY <2>1, <3>1
      <4> QED
        BY <2>6, <3>1, <4>1
    <3>2. CASE j # 1
      BY <1>1, <1>2, <2>7, <3>2
    <3> QED
      BY <3>1, <3>2
  <2>9. \A i \in 1..n : rhs[i] \in knownEmpty
    BY <1>1, <1>3, <1>4, <1>6, <2>1
  <2> QED
    BY <1>3, <1>6, <2>1, <2>5, <2>6, <2>8, <2>9 DEF a
<1>7. CASE ~seqMatchesEmpty(rhs)
  <2>1. k = 1 /\ a = s /\ n = 0
    BY <1>5, <1>7 DEF Shift
  <2>2. DOMAIN a = 1..Len(a) /\ Len(a) = Len(rhs) - 0
    BY <1>1, <1>3, <2>1
  <2>3. \A j \in 1..Len(a) : j + 0 = j
    BY <1>3, <2>2
  <2>4. PICK i \in 1..Len(a) : ~a[i].optional
    BY <1>1, <1>3, <1>4, <1>7, <2>1
  <2> HIDE DEF a
  <2> QED
    BY <1>1, <1>2, <1>3, <1>7, <2>1, <2>2, <2>3, <2>4 DEF a
<1> QED
  BY <1>6, <1>7

(* A cut for an alternative, with empty parts for the symbols that it is     *)
(* without; and the other way.                                              *)
Fill(n, len, cut) == [i \in 0..len |-> IF i <= n THEN 0 ELSE cut[i - n]]
Drop(n, len, cut) == [j \in 0..(len - n) |-> cut[j + n]]

LEMMA FillCut ==
    ASSUME NEW len \in Nat, NEW n \in 0..len, NEW w \in Words, NEW cut \in Cuts(len - n, Len(w))
    PROVE  /\ Fill(n, len, cut) \in Cuts(len, Len(w))
           /\ \A i \in 1..n : Part(w, Fill(n, len, cut), i) = <<>>
           /\ \A j \in 1..(len - n) : Part(w, Fill(n, len, cut), j + n) = Part(w, cut, j)
<1> DEFINE fill == Fill(n, len, cut)
<1>1. Len(w) \in Nat /\ len - n \in Nat /\ n \in Nat
  BY WordTyped
<1>2. /\ cut \in [0..(len - n) -> 0..Len(w)] /\ cut[0] = 0 /\ cut[len - n] = Len(w)
      /\ \A j \in 1..(len - n) : cut[j - 1] <= cut[j]
  BY <1>1, CutTyped
<1>3. \A i \in 0..n : fill[i] = 0
  BY <1>1 DEF Fill
<1>4. \A j \in 0..(len - n) : fill[j + n] = cut[j]
  BY <1>1, <1>2 DEF Fill
<1>5. ASSUME NEW i \in 0..len PROVE i \in 0..n \/ \E j \in 1..(len - n) : i = j + n
  <2>1. CASE i > n
    <3>1. i - n \in 1..(len - n) /\ i = (i - n) + n
      BY <1>1, <2>1
    <3> QED
      BY <3>1
  <2> QED
    BY <1>1, <2>1
<1>6. fill \in [0..len -> 0..Len(w)]
  <2>1. ASSUME NEW i \in 0..len PROVE fill[i] \in 0..Len(w)
    <3> HIDE DEF fill
    <3>1. CASE i \in 0..n
      BY <1>1, <1>3, <3>1
    <3>2. ASSUME NEW j \in 1..(len - n), i = j + n PROVE fill[i] \in 0..Len(w)
      <4>1. j \in 0..(len - n)
        BY <1>1
      <4> QED
        BY <1>2, <1>4, <3>2, <4>1
    <3> QED
      BY <1>5, <3>1, <3>2
  <2>2. fill = [i \in 0..len |-> fill[i]]
    BY DEF Fill
  <2> HIDE DEF fill
  <2> QED
    BY <2>1, <2>2
<1>7. fill[0] = 0 /\ fill[len] = Len(w)
  <2>1. len = (len - n) + n /\ len - n \in 0..(len - n) /\ 0 \in 0..n
    BY <1>1
  <2> QED
    BY <1>2, <1>3, <1>4, <2>1
<1>8. ASSUME NEW i \in 1..len PROVE fill[i - 1] <= fill[i]
  <2>1. CASE i <= n
    BY <1>1, <1>3, <2>1
  <2>2. CASE i > n
    <3> DEFINE j == i - n
    <3>1. j \in 1..(len - n) /\ j - 1 \in 0..(len - n) /\ i = j + n /\ i - 1 = (j - 1) + n
      BY <1>1, <2>2
    <3>2. fill[i] = cut[j] /\ fill[i - 1] = cut[j - 1]
      BY <1>4, <3>1
    <3> HIDE DEF fill, j
    <3> QED
      BY <1>2, <3>1, <3>2
  <2> QED
    BY <1>1, <2>1, <2>2
<1>9. \A i \in 1..n : Part(w, fill, i) = <<>>
  <2> TAKE i \in 1..n
  <2>1. fill[i - 1] = 0 /\ fill[i] = 0
    BY <1>1, <1>3
  <2> HIDE DEF fill
  <2>2. Part(w, fill, i) = SubSeq(w, 1, 0)
    BY <2>1 DEF Part
  <2> QED
    BY <2>2, SubSeqEmpty
<1>10. \A j \in 1..(len - n) : Part(w, fill, j + n) = Part(w, cut, j)
  <2> TAKE j \in 1..(len - n)
  <2>1. (j + n) - 1 = (j - 1) + n /\ j - 1 \in 0..(len - n) /\ j \in 0..(len - n)
    BY <1>1
  <2>2. fill[j + n] = cut[j] /\ fill[(j + n) - 1] = cut[j - 1]
    BY <1>4, <2>1
  <2> HIDE DEF fill
  <2> QED
    BY <2>2 DEF Part
<1> HIDE DEF fill
<1>11. fill \in Cuts(len, Len(w))
  <2>1. Cuts(len, Len(w)) = {c \in [0..len -> 0..Len(w)] :
           c[0] = 0 /\ c[len] = Len(w) /\ \A i \in 1..len : c[i - 1] <= c[i]}
    BY <1>1, CutTyped
  <2> QED
    BY <1>6, <1>7, <1>8, <2>1
<1> QED
  BY <1>9, <1>10, <1>11 DEF fill

LEMMA DropCut ==
    ASSUME NEW len \in Nat, NEW n \in 0..len, NEW w \in Words, NEW cut \in Cuts(len, Len(w)),
           cut[n] = 0
    PROVE  /\ Drop(n, len, cut) \in Cuts(len - n, Len(w))
           /\ \A j \in 1..(len - n) : Part(w, Drop(n, len, cut), j) = Part(w, cut, j + n)
<1> DEFINE drop == Drop(n, len, cut)
<1>1. Len(w) \in Nat /\ len - n \in Nat /\ n \in Nat
  BY WordTyped
<1>2. /\ cut \in [0..len -> 0..Len(w)] /\ cut[0] = 0 /\ cut[len] = Len(w)
      /\ \A i \in 1..len : cut[i - 1] <= cut[i]
  BY <1>1, CutTyped
<1>3. \A j \in 0..(len - n) : drop[j] = cut[j + n] /\ j + n \in 0..len
  BY <1>1 DEF Drop
<1>4. drop \in [0..(len - n) -> 0..Len(w)]
  <2>1. \A j \in 0..(len - n) : drop[j] \in 0..Len(w)
    BY <1>2, <1>3
  <2>2. drop = [j \in 0..(len - n) |-> drop[j]]
    BY DEF Drop
  <2> HIDE DEF drop
  <2> QED
    BY <2>1, <2>2
<1>5. drop[0] = 0 /\ drop[len - n] = Len(w)
  <2>1. 0 + n = n /\ (len - n) + n = len /\ 0 \in 0..(len - n) /\ len - n \in 0..(len - n)
    BY <1>1
  <2> QED
    BY <1>2, <1>3, <2>1
<1>6. ASSUME NEW j \in 1..(len - n)
      PROVE  /\ drop[j - 1] = cut[(j + n) - 1] /\ drop[j] = cut[j + n] /\ j + n \in 1..len
  <2>1. j - 1 \in 0..(len - n) /\ j \in 0..(len - n) /\ (j - 1) + n = (j + n) - 1 /\ j + n \in 1..len
    BY <1>1
  <2> QED
    BY <1>3, <2>1
<1> HIDE DEF drop
<1>7. \A j \in 1..(len - n) : drop[j - 1] <= drop[j]
  BY <1>2, <1>6
<1>8. drop \in Cuts(len - n, Len(w))
  <2> DEFINE k == len - n
  <2>1. k \in Nat
    BY <1>1
  <2> HIDE DEF k
  <2>2. Cuts(k, Len(w)) = {c \in [0..k -> 0..Len(w)] :
           c[0] = 0 /\ c[k] = Len(w) /\ \A i \in 1..k : c[i - 1] <= c[i]}
    BY <1>1, <2>1, CutTyped
  <2>3. Cuts(len - n, Len(w)) = {c \in [0..(len - n) -> 0..Len(w)] :
           c[0] = 0 /\ c[len - n] = Len(w) /\ \A i \in 1..(len - n) : c[i - 1] <= c[i]}
    BY <2>2 DEF k
  <2> QED
    BY <1>4, <1>5, <1>7, <2>3
<1>9. \A j \in 1..(len - n) : Part(w, drop, j) = Part(w, cut, j + n)
  BY <1>6 DEF Part
<1> QED
  BY <1>8, <1>9 DEF drop

(* The ways of the printed rules: those of the alternatives, and the empty   *)
(* text of the start symbol.                                                *)
Alternative(L, r, k, cut, w) ==
    k \in DOMAIN possiblyEmptyRule(r.rhs) /\ cut \in Splits(L, possiblyEmptyRule(r.rhs)[k], w)

LEMMA PrintedWays ==
    ASSUME Done, NEW L, NEW c, NEW w, NEW y
    PROVE  y \in Ways(printed, L, c, w) <=>
              \/ \E r \in rules : \E k, cut : r.cat = c /\ Alternative(L, r, k, cut, w)
                                              /\ y = <<printedOf(r), k, cut>>
              \/ /\ Start \in knownEmpty /\ c = Start
                 /\ \E cut \in Splits(L, <<>>, w) : y = <<optionalRule, 1, cut>>
<1>1. printed = {printedOf(r) : r \in rules} \cup (IF Start \in knownEmpty THEN {optionalRule} ELSE {})
  BY DEF printed, printedOf, optionalRule, Done, AllPrinted
<1>2. \A r : printedOf(r).rule = r /\ printedOf(r).alternatives = possiblyEmptyRule(r.rhs)
  BY DEF printedOf
<1>3. /\ optionalRule.rule.cat = Start /\ DOMAIN optionalRule.alternatives = {1}
      /\ optionalRule.alternatives[1] = <<>>
  BY DEF optionalRule
<1>4. ASSUME y \in Ways(printed, L, c, w)
      PROVE  \/ \E r \in rules : \E k, cut : r.cat = c /\ Alternative(L, r, k, cut, w)
                                              /\ y = <<printedOf(r), k, cut>>
             \/ /\ Start \in knownEmpty /\ c = Start
                /\ \E cut \in Splits(L, <<>>, w) : y = <<optionalRule, 1, cut>>
  <2>1. PICK o \in printed : \E k \in DOMAIN o.alternatives :
                 \E cut \in Splits(L, o.alternatives[k], w) : o.rule.cat = c /\ y = <<o, k, cut>>
    BY <1>4, WayIs
  <2>2. CASE \E r \in rules : o = printedOf(r)
    <3>1. PICK r \in rules : o = printedOf(r)
      BY <2>2
    <3> QED
      BY <1>2, <2>1, <3>1 DEF Alternative
  <2>3. CASE Start \in knownEmpty /\ o = optionalRule
    BY <1>3, <2>1, <2>3
  <2> QED
    BY <1>1, <2>2, <2>3
<1>5. ASSUME NEW r \in rules, NEW k, NEW cut, r.cat = c, Alternative(L, r, k, cut, w),
             y = <<printedOf(r), k, cut>>
      PROVE  y \in Ways(printed, L, c, w)
  <2>1. printedOf(r) \in printed
    BY <1>1
  <2>2. k \in DOMAIN printedOf(r).alternatives /\ cut \in Splits(L, printedOf(r).alternatives[k], w)
        /\ printedOf(r).rule.cat = c
    BY <1>2, <1>5 DEF Alternative
  <2> HIDE DEF printedOf
  <2> QED
    BY <1>5, <2>1, <2>2, WayIs
<1>6. ASSUME Start \in knownEmpty, c = Start, NEW cut \in Splits(L, <<>>, w),
             y = <<optionalRule, 1, cut>>
      PROVE  y \in Ways(printed, L, c, w)
  <2>1. optionalRule \in printed
    BY <1>1, <1>6
  <2>2. 1 \in DOMAIN optionalRule.alternatives /\ cut \in Splits(L, optionalRule.alternatives[1], w)
        /\ optionalRule.rule.cat = c
    BY <1>3, <1>6
  <2> QED
    BY <1>6, <2>1, <2>2, WayIs
<1> QED
  BY <1>4, <1>5, <1>6

-----------------------------------------------------------------------------
(* From the printed rules to the given ones.  As no category but Start      *)
(* matches the empty text by the printed ones, an alternative reads no empty *)
(* text, and the first symbol left of it reads some of the text.            *)
StartOnly(L) == \A f \in L : f[2] = <<>> => f[1] = Start

LEMMA FillFits ==
    ASSUME Done, NEW L \in SUBSET Trees(given), StartOnly(L), NEW w \in Words,
           NEW r \in rules, NEW k, NEW cut, Alternative(L, r, k, cut, w),
           NEW n, n = Shift(r.rhs, k)
    PROVE  /\ w # <<>> /\ n \in 0..Len(r.rhs) /\ n = k - 1 /\ cut \in Cuts(Len(r.rhs) - n, Len(w))
           /\ Fits(Trees(given), r, Fill(n, Len(r.rhs), cut), w)
           /\ Twice(L, <<printedOf(r), k, cut>>, w) =>
                 Twice(Trees(given), <<givenOf(r), 1, Fill(n, Len(r.rhs), cut)>>, w)
           /\ seqMatchesEmpty(r.rhs) => n < Len(r.rhs) /\ cut[1] > 0
<1> DEFINE a == possiblyEmptyRule(r.rhs)[k]
           B == Trees(given)
           len == Len(r.rhs)
           fill == Fill(n, len, cut)
<1>1. Rules /\ knownEmpty \subseteq NonTerminals
  BY DEF Done, IInv, TypeOK
<1>2. r.rhs \in Seq(Cats \cup Terminals) /\ r.rhs \in Seq(Symbols) /\ len \in Nat
      /\ \A i \in 1..len : r.rhs[i] \in Cats \cup Terminals
  <2>1. r.rhs \in Seq(Cats \cup Terminals)
    BY <1>1 DEF Rules
  <2> QED
    BY <2>1 DEF Symbols, NonTerminals
<1>3. k \in DOMAIN possiblyEmptyRule(r.rhs)
  BY DEF Alternative
<1>4. /\ n \in 0..len /\ n = k - 1 /\ Len(a) = len - n /\ DOMAIN a = 1..Len(a)
      /\ \A j \in 1..Len(a) : a[j].sym = r.rhs[j + n] /\ (a[j].optional => r.rhs[j + n] \in knownEmpty)
      /\ \A i \in 1..n : r.rhs[i] \in knownEmpty
      /\ \E j \in 1..Len(a) : ~a[j].optional
      /\ seqMatchesEmpty(r.rhs) => 1 \in DOMAIN a /\ ~a[1].optional
  BY <1>2, <1>3, Alternatives
<1>5. cut \in Splits(L, a, w)
  BY DEF Alternative
<1> HIDE DEF a, B, len
<1>6. Len(a) \in Nat /\ Len(w) \in Nat
  BY <1>2, <1>4, WordTyped
<1>7. cut \in Cuts(Len(a), Len(w)) /\ \A j \in 1..Len(a) : Reads(L, a[j], Part(w, cut, j), 1)
  BY <1>4, <1>5 DEF Splits
<1>8. ASSUME NEW j \in 1..Len(a) PROVE a[j].sym \in Cats \cup Terminals /\ a[j].sym # Start
  <2>1. j + n \in 1..len
    BY <1>2, <1>4, <1>6
  <2> QED
    BY <1>2, <1>4, <2>1, SymbolsAssumption
<1>9. ASSUME NEW j \in 1..Len(a), ~a[j].optional PROVE Part(w, cut, j) # <<>>
  <2>1. CASE <<a[j].sym, Part(w, cut, j), 1>> \in L
    BY <1>8, <2>1 DEF StartOnly
  <2>2. CASE Part(w, cut, j) = <<a[j].sym>>
    BY <2>2
  <2> QED
    BY <1>7, <1>9, <2>1, <2>2 DEF Reads
<1>10. w # <<>>
  <2>1. PICK j \in 1..Len(a) : ~a[j].optional
    BY <1>4
  <2>2. w = <<>> => Part(w, cut, j) = <<>>
    BY <1>6, <1>7, EmptyText
  <2> QED
    BY <1>9, <2>1, <2>2
<1>11. seqMatchesEmpty(r.rhs) => n < len /\ cut[1] > 0
  <2> SUFFICES ASSUME seqMatchesEmpty(r.rhs) PROVE n < len /\ cut[1] > 0
    OBVIOUS
  <2>1. 1 \in 1..Len(a) /\ ~a[1].optional
    BY <1>4
  <2>2. Part(w, cut, 1) # <<>>
    BY <1>9, <2>1
  <2>3. cut[0] = 0 /\ cut[1 - 1] = cut[0]
    BY <1>6, <1>7, CutTyped
  <2>4. cut[1] \in Nat /\ cut[1 - 1] # cut[1]
    BY <1>6, <1>7, <2>1, <2>2, PartTyped
  <2> QED
    BY <1>2, <1>4, <1>6, <2>1, <2>3, <2>4
<1>12. /\ fill \in Cuts(len, Len(w))
       /\ \A i \in 1..n : Part(w, fill, i) = <<>>
       /\ \A j \in 1..(len - n) : Part(w, fill, j + n) = Part(w, cut, j)
  <2>1. cut \in Cuts(len - n, Len(w))
    BY <1>4, <1>7
  <2> QED
    BY <1>2, <1>4, <2>1, FillCut
<1> HIDE DEF fill
<1>13. \A x \in knownEmpty : <<x, <<>>, 1>> \in B
  BY <1>1, EmptyRead DEF B
<1>14. ASSUME NEW i \in 1..len PROVE Read(B, r.rhs[i], Part(w, fill, i))
  <2>1. CASE i <= n
    <3>1. i \in 1..n
      BY <1>2, <1>4, <2>1
    <3> QED
      BY <1>4, <1>12, <1>13, <3>1 DEF Read
  <2>2. CASE i > n
    <3> DEFINE j == i - n
    <3>1. j \in 1..(len - n) /\ j \in 1..Len(a) /\ j + n = i
      BY <1>2, <1>4, <2>2
    <3> HIDE DEF j
    <3>2. Part(w, fill, i) = Part(w, cut, j) /\ a[j].sym = r.rhs[i]
          /\ (a[j].optional => r.rhs[i] \in knownEmpty)
      BY <1>4, <1>12, <3>1
    <3>3. Reads(L, a[j], Part(w, cut, j), 1)
      BY <1>7, <3>1
    <3> QED
      BY <1>13, <3>2, <3>3 DEF Reads, Read, B
  <2> QED
    BY <1>2, <1>4, <2>1, <2>2
<1>15. Fits(B, r, fill, w)
  BY <1>12, <1>14 DEF Fits, len
<1>16. ASSUME Twice(L, <<printedOf(r), k, cut>>, w) PROVE Twice(B, <<givenOf(r), 1, fill>>, w)
  <2>1. PICK j \in 1..Len(a) : Reads(L, a[j], Part(w, cut, j), 2)
    <3>1. printedOf(r).alternatives[k] = a
      BY DEF printedOf, a
    <3> QED
      BY <1>4, <1>16, <3>1 DEF Twice
  <2>2. <<a[j].sym, Part(w, cut, j), 2>> \in L
    <3>1. ~(<<a[j].sym, <<>>, 1>> \in L)
      BY <1>8 DEF StartOnly
    <3> QED
      BY <2>1, <3>1 DEF Reads
  <2>3. j + n \in 1..len /\ j \in 1..(len - n)
    BY <1>2, <1>4
  <2>4. a[j].sym = r.rhs[j + n] /\ Part(w, fill, j + n) = Part(w, cut, j)
    BY <1>4, <1>12, <2>3
  <2>5. <<r.rhs[j + n], Part(w, fill, j + n), 2>> \in B
    BY <2>2, <2>4 DEF B
  <2> QED
    BY <1>1, <2>3, <2>5, GivenTwice DEF len
<1> QED
  BY <1>4, <1>7, <1>10, <1>11, <1>15, <1>16 DEF len, B, fill

(* The ways stay different.                                                  *)
LEMMA FillDiffers ==
    ASSUME Done, NEW L \in SUBSET Trees(given), StartOnly(L), NEW w \in Words, NEW r \in rules,
           NEW k, NEW cut, Alternative(L, r, k, cut, w),
           NEW m, NEW sep, Alternative(L, r, m, sep, w),
           Fill(Shift(r.rhs, k), Len(r.rhs), cut) = Fill(Shift(r.rhs, m), Len(r.rhs), sep)
    PROVE  k = m /\ cut = sep
<1> DEFINE n == Shift(r.rhs, k)
           p == Shift(r.rhs, m)
           len == Len(r.rhs)
           Says(j, c, q) == /\ q \in 0..len /\ q = j - 1 /\ c \in Cuts(len - q, Len(w))
                            /\ seqMatchesEmpty(r.rhs) => q < len /\ c[1] > 0
<1>0. ASSUME NEW j, NEW c, NEW q, Alternative(L, r, j, c, w), q = Shift(r.rhs, j)
      PROVE  Says(j, c, q)
  <2>1. Alternative(L, r, j, c, w) /\ q = Shift(r.rhs, j)
    BY <1>0
  <2>2. /\ q \in 0..Len(r.rhs) /\ q = j - 1 /\ c \in Cuts(Len(r.rhs) - q, Len(w))
        /\ seqMatchesEmpty(r.rhs) => q < Len(r.rhs) /\ c[1] > 0
    <3> HIDE DEF Says, len, n, p
    <3> QED
      BY <2>1, FillFits, ZenonT(60)
  <2> QED
    BY <2>2
<1> HIDE DEF Says
<1>1. /\ n \in 0..len /\ n = k - 1 /\ cut \in Cuts(len - n, Len(w))
      /\ seqMatchesEmpty(r.rhs) => n < len /\ cut[1] > 0
  <2>1. Says(k, cut, n)
    BY <1>0
  <2> QED
    BY <2>1 DEF Says
<1>2. /\ p \in 0..len /\ p = m - 1 /\ sep \in Cuts(len - p, Len(w))
      /\ seqMatchesEmpty(r.rhs) => p < len /\ sep[1] > 0
  <2>1. Says(m, sep, p)
    BY <1>0
  <2> QED
    BY <2>1 DEF Says
<1>3. len \in Nat /\ Len(w) \in Nat
  <2>1. r.rhs \in Seq(Cats \cup Terminals)
    BY DEF Done, Rules
  <2> QED
    BY <2>1, WordTyped
<1>4. ~seqMatchesEmpty(r.rhs) => n = 0 /\ p = 0
  BY DEF Shift
<1>5. Fill(n, len, cut) = Fill(p, len, sep)
  OBVIOUS
<1>6. k \in DOMAIN possiblyEmptyRule(r.rhs) /\ m \in DOMAIN possiblyEmptyRule(r.rhs)
  BY DEF Alternative
<1>7. k \in Int /\ m \in Int
  <2>1. r.rhs \in Seq(Symbols)
    BY DEF Done, IInv
  <2>2. possiblyEmptyRule(r.rhs) \in Seq(Seq(OptSym) \ {<<>>})
    BY <2>1, AlternativesTyped
  <2>3. DOMAIN possiblyEmptyRule(r.rhs) = 1..Len(possiblyEmptyRule(r.rhs))
    BY <2>2
  <2> QED
    BY <1>6, <2>3
<1> HIDE DEF n, p, len
<1>8. n = p
  <2>1. CASE ~seqMatchesEmpty(r.rhs)
    BY <1>4, <2>1
  <2>2. CASE seqMatchesEmpty(r.rhs)
    <3>1. n + 1 \in 0..len /\ p + 1 \in 0..len
      BY <1>1, <1>2, <1>3, <2>2
    <3>2. Fill(n, len, cut)[n + 1] = cut[1] /\ Fill(p, len, sep)[p + 1] = sep[1]
      <4>1. ~(n + 1 <= n) /\ (n + 1) - n = 1 /\ ~(p + 1 <= p) /\ (p + 1) - p = 1
        BY <1>1, <1>2
      <4> QED
        BY <3>1, <4>1 DEF Fill
    <3>3. CASE n < p
      <4>1. n + 1 <= p
        BY <1>1, <1>2, <3>3
      <4>2. Fill(p, len, sep)[n + 1] = 0
        BY <3>1, <4>1 DEF Fill
      <4> QED
        BY <1>1, <1>5, <2>2, <3>2, <4>2
    <3>4. CASE p < n
      <4>1. p + 1 <= n
        BY <1>1, <1>2, <3>4
      <4>2. Fill(n, len, cut)[p + 1] = 0
        BY <3>1, <4>1 DEF Fill
      <4> QED
        BY <1>2, <1>5, <2>2, <3>2, <4>2
    <3> QED
      BY <1>1, <1>2, <3>3, <3>4
  <2> QED
    BY <2>1, <2>2
<1>9. k = m
  BY <1>1, <1>2, <1>7, <1>8
<1>10. cut = sep
  <2>1. len - n \in Nat
    BY <1>1, <1>3
  <2>2. cut \in [0..(len - n) -> 0..Len(w)] /\ sep \in [0..(len - n) -> 0..Len(w)]
        /\ cut[0] = 0 /\ sep[0] = 0
    <3>1. cut \in Cuts(len - n, Len(w)) /\ sep \in Cuts(len - n, Len(w))
      BY <1>1, <1>2, <1>8
    <3>2. Len(w) \in Nat
      BY <1>3
    <3>3. cut \in [0..(len - n) -> 0..Len(w)] /\ cut[0] = 0
      BY <2>1, <3>1, <3>2, CutTyped
    <3>4. sep \in [0..(len - n) -> 0..Len(w)] /\ sep[0] = 0
      BY <2>1, <3>1, <3>2, CutTyped
    <3> QED
      BY <3>3, <3>4
  <2>3. ASSUME NEW j \in 0..(len - n) PROVE cut[j] = sep[j]
    <3>1. CASE j = 0
      BY <2>2, <3>1
    <3>2. CASE j # 0
      <4>1. j + n \in 0..len /\ ~(j + n <= n) /\ (j + n) - n = j
        BY <1>1, <1>3, <3>2
      <4>2. Fill(n, len, cut)[j + n] = cut[j] /\ Fill(n, len, sep)[j + n] = sep[j]
        BY <4>1 DEF Fill
      <4> QED
        BY <1>5, <1>8, <4>2
    <3> QED
      BY <3>1, <3>2
  <2>4. cut = [j \in 0..(len - n) |-> cut[j]] /\ sep = [j \in 0..(len - n) |-> sep[j]]
    BY <2>2
  <2> QED
    BY <2>3, <2>4
<1> QED
  BY <1>9, <1>10

(* What the printed rules say of a text is said by the given ones, and of    *)
(* the empty text it is said of Start only, and once.                       *)
Backed == {f \in Trees(given) : f[2] = <<>> => f[1] = Start /\ f[3] = 1}

LEMMA Backward ==
    ASSUME Done
    PROVE  Trees(printed) \subseteq Backed
<1> DEFINE B == Trees(given)
           X == Backed
<1>1. Keeps(given, B)
  BY TreesLeast
<1>2. X \in SUBSET Trees(given) /\ StartOnly(X) /\ X \subseteq Facts
  BY <1>1 DEF Backed, StartOnly, Keeps
<1>3. Rules
  BY DEF Done
<1>4. ASSUME NEW c \in NonTerminals, NEW w \in Words, NEW n \in {1, 2},
             <<c, w, n>> \in Follows(printed, X)
      PROVE  <<c, w, n>> \in X
  <2> HIDE DEF X
  <2> DEFINE ways == Ways(printed, X, c, w)
             fill(r, k, cut) == <<givenOf(r), 1, Fill(Shift(r.rhs, k), Len(r.rhs), cut)>>
  <2>1. PICK y \in ways : n = 1 \/ Twice(X, y, w) \/ \E z \in ways : z # y
    BY <1>4, FollowsIs
  <2>2. CASE w = <<>>
    <3>1. ASSUME NEW z \in ways
          PROVE  /\ Start \in knownEmpty /\ c = Start
                 /\ z = <<optionalRule, 1, [i \in 0..0 |-> 0]>>
      <4>1. ASSUME NEW r \in rules, NEW k, NEW cut, Alternative(X, r, k, cut, w) PROVE FALSE
        BY <1>2, <2>2, <4>1, FillFits
      <4>2. /\ Start \in knownEmpty /\ c = Start
            /\ \E cut \in Splits(X, <<>>, w) : z = <<optionalRule, 1, cut>>
        BY <4>1, PrintedWays
      <4>3. PICK cut \in Splits(X, <<>>, w) : z = <<optionalRule, 1, cut>>
        BY <4>2
      <4>4. cut \in Cuts(0, 0)
        <5>1. Len(<<>>) = 0
          OBVIOUS
        <5> QED
          BY <2>2, <5>1 DEF Splits
      <4>5. cut \in [0..0 -> 0..0]
        <5>1. 0 \in Nat
          OBVIOUS
        <5>2. Cuts(0, 0) = {x \in [0..0 -> 0..0] :
                 x[0] = 0 /\ x[0] = 0 /\ \A i \in 1..0 : x[i - 1] <= x[i]}
          BY <5>1, CutTyped
        <5> QED
          BY <4>4, <5>2
      <4>6. cut = [i \in 0..0 |-> 0]
        BY <4>5
      <4> QED
        BY <4>2, <4>3, <4>6
    <3>2. Start \in knownEmpty /\ c = Start /\ \A z \in ways : z = y
      BY <3>1
    <3>3. ~Twice(X, y, w)
      <4>1. y = <<optionalRule, 1, [i \in 0..0 |-> 0]>>
        BY <3>1
      <4>2. y[1].alternatives[y[2]] = <<>>
        BY <4>1 DEF optionalRule
      <4> QED
        BY <4>2 DEF Twice
    <3>4. n = 1
      BY <2>1, <3>2, <3>3
    <3>5. <<c, w, n>> \in B
      BY <2>2, <3>2, <3>4, EmptyRead
    <3> QED
      BY <3>2, <3>4, <3>5 DEF X, Backed
  <2>3. CASE w # <<>>
    <3>1. ASSUME NEW z \in ways
          PROVE  \E r \in rules : \E k, cut : r.cat = c /\ Alternative(X, r, k, cut, w)
                                              /\ z = <<printedOf(r), k, cut>>
      <4>1. ASSUME NEW cut \in Splits(X, <<>>, w) PROVE FALSE
        <5>1. Len(<<>>) = 0 /\ Len(w) \in Nat /\ w \in Seq(Terminals)
          BY WordTyped
        <5>2. cut \in Cuts(0, Len(w))
          BY <5>1 DEF Splits
        <5>3. cut[0] = 0 /\ cut[0] = Len(w)
          BY <5>1, <5>2, CutTyped
        <5> QED
          BY <2>3, <5>1, <5>3
      <4> QED
        BY <4>1, PrintedWays
    <3>2. PICK r \in rules : \E k, cut : r.cat = c /\ Alternative(X, r, k, cut, w)
                                         /\ y = <<printedOf(r), k, cut>>
      BY <3>1
    <3>3. PICK k, cut : r.cat = c /\ Alternative(X, r, k, cut, w) /\ y = <<printedOf(r), k, cut>>
      BY <3>2
    <3>4. ASSUME NEW q \in rules, NEW m, NEW sep, q.cat = c, Alternative(X, q, m, sep, w)
          PROVE  fill(q, m, sep) \in Ways(given, B, c, w)
      <4>1. Fits(B, q, Fill(Shift(q.rhs, m), Len(q.rhs), sep), w)
        BY <1>2, <3>4, FillFits
      <4> QED
        BY <1>3, <3>4, <4>1, GivenWays
    <3>5. Twice(X, y, w) => Twice(B, fill(r, k, cut), w)
      BY <1>2, <3>3, FillFits
    <3>6. ASSUME NEW z \in ways, z # y
          PROVE  \E x \in Ways(given, B, c, w) : x # fill(r, k, cut)
      <4>1. PICK q \in rules : \E m, sep : q.cat = c /\ Alternative(X, q, m, sep, w)
                                           /\ z = <<printedOf(q), m, sep>>
        BY <3>1
      <4>2. PICK m, sep : q.cat = c /\ Alternative(X, q, m, sep, w) /\ z = <<printedOf(q), m, sep>>
        BY <4>1
      <4>3. fill(q, m, sep) \in Ways(given, B, c, w)
        BY <3>4, <4>2
      <4>4. ASSUME fill(q, m, sep) = fill(r, k, cut) PROVE FALSE
        <5>1. givenOf(q) = givenOf(r)
              /\ Fill(Shift(q.rhs, m), Len(q.rhs), sep) = Fill(Shift(r.rhs, k), Len(r.rhs), cut)
          BY <4>4
        <5>2. q = r
          BY <5>1 DEF givenOf
        <5>3. m = k /\ sep = cut
          BY <1>2, <3>3, <4>2, <5>1, <5>2, FillDiffers
        <5> QED
          BY <3>3, <3>6, <4>2, <5>2, <5>3
      <4> QED
        BY <4>3, <4>4
    <3>7. fill(r, k, cut) \in Ways(given, B, c, w)
      BY <3>3, <3>4
    <3> HIDE DEF ways, fill
    <3>8. <<c, w, n>> \in Follows(given, B)
      BY <2>1, <3>5, <3>6, <3>7, FollowsIs
    <3>9. <<c, w, n>> \in B
      BY <1>1, <3>8 DEF Keeps
    <3> QED
      BY <2>3, <3>9 DEF X, Backed
  <2> QED
    BY <2>2, <2>3
<1>5. Follows(printed, X) \subseteq X
  <2> HIDE DEF X
  <2>1. ASSUME NEW f \in Follows(printed, X) PROVE f \in X
    <3>1. PICK c \in NonTerminals, w \in Words, n \in {1, 2} : f = <<c, w, n>>
      BY FollowsFacts DEF Facts
    <3> QED
      BY <1>4, <3>1
  <2> QED
    BY <2>1
<1>6. Keeps(printed, X)
  BY <1>2, <1>5 DEF Keeps
<1> QED
  BY <1>6, TreesLeast

-----------------------------------------------------------------------------
(* From the given rules to the printed ones.  What the given rules say of a  *)
(* text that is not empty, the printed ones say too.                        *)
Carried ==
    {f \in Facts : f[3] = 1 => IF f[2] = <<>> THEN f[1] \in knownEmpty ELSE f \in Trees(printed)}

(* If all symbols can be empty, take the alternative of the first one that   *)
(* reads some of the text.                                                  *)
LEMMA DropFits ==
    ASSUME Done, NEW w \in Words, w # <<>>, NEW r \in rules, NEW cut, Fits(Carried, r, cut, w)
    PROVE  \E k : Alternative(Trees(printed), r, k,
                              Drop(Shift(r.rhs, k), Len(r.rhs), cut), w)
<1> DEFINE A == Trees(printed)
           len == Len(r.rhs)
<1>1. r.rhs \in Seq(Cats \cup Terminals) /\ r.rhs \in Seq(Symbols) /\ len \in Nat
      /\ DOMAIN r.rhs = 1..len
  BY DEF Done, Rules, Symbols, NonTerminals
<1>2. Len(w) \in Nat /\ Len(w) # 0
  BY WordTyped
<1>3. cut \in Cuts(len, Len(w)) /\ \A i \in 1..len : Read(Carried, r.rhs[i], Part(w, cut, i))
  BY DEF Fits
<1>4. cut \in [0..len -> 0..Len(w)] /\ cut[0] = 0 /\ cut[len] = Len(w)
  BY <1>1, <1>2, <1>3, CutTyped
<1>5. ASSUME NEW i \in 1..len
      PROVE  IF Part(w, cut, i) = <<>> THEN r.rhs[i] \in knownEmpty
             ELSE <<r.rhs[i], Part(w, cut, i), 1>> \in A \/ Part(w, cut, i) = <<r.rhs[i]>>
  <2>1. <<r.rhs[i], Part(w, cut, i), 1>> \in Carried \/ Part(w, cut, i) = <<r.rhs[i]>>
    BY <1>3 DEF Read
  <2>2. <<r.rhs[i]>> # <<>>
    OBVIOUS
  <2> QED
    BY <2>1, <2>2 DEF Carried
<1>6. PICK k : /\ k \in DOMAIN possiblyEmptyRule(r.rhs)
               /\ LET n == Shift(r.rhs, k)
                  IN  cut[n] = 0 /\ (seqMatchesEmpty(r.rhs) => Part(w, cut, n + 1) # <<>>)
  <2>1. CASE seqMatchesEmpty(r.rhs)
    <3> DEFINE S == {i \in 0..len : cut[i] # 0}
    <3>1. S \in SUBSET Nat /\ len \in S
      BY <1>1, <1>2, <1>4
    <3>2. PICK k \in S : \A j \in S : k <= j
      <4> HIDE DEF S
      <4> QED
        BY <3>1, LeastNumber
    <3>3. k \in 1..len /\ k - 1 \in 0..len /\ (k - 1) + 1 = k
      BY <1>1, <1>4
    <3>4. cut[k] # 0 /\ cut[k - 1] = 0
      BY <3>2, <3>3
    <3>5. Part(w, cut, k) # <<>>
      BY <1>1, <1>3, <3>3, <3>4, PartTyped
    <3>6. Shift(r.rhs, k) = k - 1
      BY <2>1 DEF Shift
    <3>7. k \in DOMAIN possiblyEmptyRule(r.rhs)
      <4>1. DOMAIN sentence(r.rhs) = 1..len
        BY <1>1 DEF sentence
      <4>2. DOMAIN possiblyEmptyRule(r.rhs) = DOMAIN sentence(r.rhs)
        BY <2>1 DEF possiblyEmptyRule, subtractEmptyString
      <4> QED
        BY <3>3, <4>1, <4>2
    <3> HIDE DEF S
    <3>8. k \in DOMAIN possiblyEmptyRule(r.rhs)
          /\ LET n == Shift(r.rhs, k)
             IN  cut[n] = 0 /\ (seqMatchesEmpty(r.rhs) => Part(w, cut, n + 1) # <<>>)
      BY <3>3, <3>4, <3>5, <3>6, <3>7
    <3> QED
      BY <3>8
  <2>2. CASE ~seqMatchesEmpty(r.rhs)
    <3>1. 1 \in DOMAIN possiblyEmptyRule(r.rhs)
      BY <2>2 DEF possiblyEmptyRule
    <3>2. Shift(r.rhs, 1) = 0
      BY <2>2 DEF Shift
    <3> QED
      BY <1>4, <2>2, <3>1, <3>2
  <2> QED
    BY <2>1, <2>2
<1> DEFINE n == Shift(r.rhs, k)
           a == possiblyEmptyRule(r.rhs)[k]
           drop == Drop(n, len, cut)
<1>7. cut[n] = 0 /\ (seqMatchesEmpty(r.rhs) => Part(w, cut, n + 1) # <<>>)
  BY <1>6
<1>8. /\ n \in 0..len /\ Len(a) = len - n /\ DOMAIN a = 1..Len(a)
      /\ \A j \in 1..Len(a) :
            /\ a[j].sym = r.rhs[j + n]
            /\ r.rhs[j + n] \in knownEmpty => a[j].optional \/ (j = 1 /\ seqMatchesEmpty(r.rhs))
  BY <1>1, <1>6, Alternatives
<1> HIDE DEF n, a, len, A
<1>9. /\ drop \in Cuts(len - n, Len(w))
      /\ \A j \in 1..(len - n) : Part(w, drop, j) = Part(w, cut, j + n)
  BY <1>1, <1>3, <1>7, <1>8, DropCut
<1> HIDE DEF drop
<1>10. ASSUME NEW j \in 1..Len(a) PROVE Reads(A, a[j], Part(w, drop, j), 1)
  <2>1. j + n \in 1..len
    BY <1>1, <1>8
  <2>2. Part(w, drop, j) = Part(w, cut, j + n) /\ a[j].sym = r.rhs[j + n]
    BY <1>8, <1>9
  <2>3. CASE Part(w, cut, j + n) = <<>>
    <3>1. r.rhs[j + n] \in knownEmpty
      BY <1>5, <2>1, <2>3
    <3>2. ~(j = 1 /\ seqMatchesEmpty(r.rhs))
      <4>1. j = 1 => j + n = n + 1
        BY <1>1, <1>8
      <4> QED
        BY <1>7, <2>3, <4>1
    <3>3. a[j].optional
      BY <1>8, <3>1, <3>2
    <3> QED
      BY <2>2, <2>3, <3>3 DEF Reads
  <2>4. CASE Part(w, cut, j + n) # <<>>
    BY <1>5, <2>1, <2>2, <2>4 DEF Reads
  <2> QED
    BY <2>3, <2>4
<1>11. drop \in Splits(A, a, w)
  BY <1>8, <1>9, <1>10 DEF Splits
<1>12. Alternative(A, r, k, drop, w)
  BY <1>6, <1>11 DEF Alternative, a
<1> QED
  BY <1>12 DEF A, drop, n, len

LEMMA Forward ==
    ASSUME Done
    PROVE  Trees(given) \subseteq Carried
<1> DEFINE X == Carried
<1>1. ASSUME NEW c \in NonTerminals, NEW w \in Words, <<c, w, 1>> \in Follows(given, X)
      PROVE  IF w = <<>> THEN c \in knownEmpty ELSE <<c, w, 1>> \in Trees(printed)
  <2> HIDE DEF X
  <2>1. PICK y \in Ways(given, X, c, w) : TRUE
    <3>1. 1 \in {1, 2}
      OBVIOUS
    <3> QED
      BY <1>1, <3>1, FollowsIs
  <2>2. Rules
    BY DEF Done
  <2>3. PICK r \in rules : \E cut : r.cat = c /\ Fits(X, r, cut, w)
    BY <2>1, <2>2, GivenWays
  <2>4. PICK cut : r.cat = c /\ Fits(X, r, cut, w)
    BY <2>3
  <2>5. Len(r.rhs) \in Nat /\ DOMAIN r.rhs = 1..Len(r.rhs)
    BY <2>2 DEF Rules
  <2>6. CASE w = <<>>
    <3>1. cut \in Cuts(Len(r.rhs), 0)
      <4>1. Len(<<>>) = 0
        OBVIOUS
      <4> QED
        BY <2>4, <2>6, <4>1 DEF Fits
    <3>2. ASSUME NEW i \in DOMAIN r.rhs PROVE r.rhs[i] \in knownEmpty
      <4>1. Part(w, cut, i) = <<>>
        BY <2>5, <2>6, <3>1, EmptyText
      <4>2. Read(X, r.rhs[i], <<>>)
        BY <2>4, <2>5, <4>1 DEF Fits
      <4>3. <<r.rhs[i], <<>>, 1>> \in X
        BY <4>2 DEF Read
      <4> QED
        BY <4>3 DEF X, Carried
    <3>3. Closed(knownEmpty)
      BY DEF Done, IInv, Least
    <3> QED
      BY <2>4, <2>6, <3>2, <3>3 DEF Closed
  <2>7. CASE w # <<>>
    <3>1. PICK k : Alternative(Trees(printed), r, k, Drop(Shift(r.rhs, k), Len(r.rhs), cut), w)
      BY <2>4, <2>7, DropFits DEF X
    <3>2. <<printedOf(r), k, Drop(Shift(r.rhs, k), Len(r.rhs), cut)>>
             \in Ways(printed, Trees(printed), c, w)
      BY <2>4, <3>1, PrintedWays
    <3>3. <<c, w, 1>> \in Follows(printed, Trees(printed))
      <4>1. 1 \in {1, 2}
        OBVIOUS
      <4> QED
        BY <3>2, <4>1, FollowsIs
    <3>4. Keeps(printed, Trees(printed))
      BY TreesLeast
    <3> QED
      BY <2>7, <3>3, <3>4 DEF Keeps
  <2> QED
    BY <2>6, <2>7
<1>2. Follows(given, X) \subseteq X
  <2>1. ASSUME NEW f \in Follows(given, X) PROVE f \in X
    <3> HIDE DEF X
    <3>1. f \in Facts
      BY FollowsFacts
    <3>2. PICK c \in NonTerminals, w \in Words, n \in {1, 2} : f = <<c, w, n>>
      BY <3>1 DEF Facts
    <3>3. f[1] = c /\ f[2] = w /\ f[3] = n
      BY <3>2
    <3>4. n = 1 => IF w = <<>> THEN c \in knownEmpty ELSE <<c, w, 1>> \in Trees(printed)
      BY <1>1, <3>2
    <3> QED
      BY <3>1, <3>2, <3>3, <3>4 DEF X, Carried
  <2> QED
    BY <2>1
<1>3. Keeps(given, X)
  BY <1>2 DEF Keeps, Carried
<1> QED
  BY <1>3, TreesLeast

-----------------------------------------------------------------------------
(* So, when the rules have been printed: a text that is not empty is read    *)
(* by the same categories, and the empty one by Start, if by any.           *)
LEMMA Languages == Done => SameLanguage /\ Unambiguous
<1> SUFFICES ASSUME Done PROVE SameLanguage /\ Unambiguous
  OBVIOUS
<1> DEFINE B == Trees(given)
           A == Trees(printed)
<1>1. A \subseteq Backed /\ B \subseteq Carried
  BY Backward, Forward
<1>2. Start \in NonTerminals
  BY DEF NonTerminals
<1>3. ASSUME <<Start, <<>>, 1>> \in B PROVE <<Start, <<>>, 1>> \in A
  <2>1. Start \in knownEmpty
    BY <1>2, <1>3, EmptyRead
  <2> DEFINE cut == [i \in 0..0 |-> 0]
  <2>2. cut \in Splits(A, <<>>, <<>>)
    <3>1. Len(<<>>) = 0 /\ DOMAIN <<>> = {}
      OBVIOUS
    <3>2. cut \in Cuts(0, 0)
      BY EmptyText
    <3> HIDE DEF cut
    <3> QED
      BY <3>1, <3>2 DEF Splits
  <2> HIDE DEF cut
  <2>3. <<optionalRule, 1, cut>> \in Ways(printed, A, Start, <<>>)
    BY <2>1, <2>2, PrintedWays
  <2>4. <<Start, <<>>, 1>> \in Follows(printed, A)
    <3>1. 1 \in {1, 2} /\ <<>> \in Words
      BY EmptyText
    <3> HIDE DEF A
    <3> QED
      BY <1>2, <2>3, <3>1, FollowsIs
  <2>5. Keeps(printed, A)
    BY TreesLeast
  <2> QED
    BY <2>4, <2>5 DEF Keeps
<1> HIDE DEF A, B
<1>4. ASSUME NEW c \in NonTerminals, NEW w \in Words
      PROVE  /\ <<c, w, 1>> \in A <=> <<c, w, 1>> \in B /\ (w = <<>> => c = Start)
             /\ <<c, w, 2>> \in A => <<c, w, 2>> \in B
  <2>1. \A n \in {1, 2} : <<c, w, n>> \in A => <<c, w, n>> \in B /\ (w = <<>> => c = Start)
    BY <1>1 DEF Backed, B
  <2>2. <<c, w, 1>> \in B /\ w # <<>> => <<c, w, 1>> \in A
    BY <1>1 DEF Carried, A
  <2> QED
    BY <1>3, <2>1, <2>2
<1> QED
  BY <1>4 DEF SameLanguage, Unambiguous, A, B

LEMMA Compared == Rules /\ AllPrinted /\ IInv => SameLanguage /\ Unambiguous
BY Languages DEF Done, SameLanguage, Unambiguous

(* For every grammar: the printed one accepts the same texts, and each       *)
(* category the same but the empty one, which only the start symbol matches *)
(* (prRules, transformEmptyMatches).                                        *)
THEOREM SameLanguageAlways == Spec => []SameLanguage
<1>1. Rules /\ AllPrinted /\ IInv => SameLanguage
  BY Compared
<1> QED
  BY <1>1, Invariant, Printing, PTL

(* Taking the empty matches out of the rules makes no text ambiguous        *)
(* (subtractEmptyString: "it should preserve unambiguity").                 *)
THEOREM UnambiguousAlways == Spec => []Unambiguous
<1>1. Rules /\ AllPrinted /\ IInv => Unambiguous
  BY Compared
<1> QED
  BY <1>1, Invariant, Printing, PTL
=============================================================================
