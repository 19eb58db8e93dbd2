-------------------------- MODULE BisonLists_proofs --------------------------
(***************************************************************************)
(* Proofs about the parsers that the C and C++ backends generate, for all  *)
(* grammars and texts: the values on the stack are well typed, and a tree   *)
(* that is returned is one that the grammar derives from the text.          *)
(***************************************************************************)
EXTENDS BisonDerivations, TLAPS, FiniteSetTheorems, SequenceTheorems, WellFoundedInduction

IsSequence(s) == \E S : s \in Seq(S)

(* The order of a list is the wrong one while it is on the stack.           *)
wrong(x) == IF mode = "C" THEN x \in revs ELSE isList(x) /\ x \notin revs
inOrder(x, v) == IF wrong(x) THEN reverse(v) ELSE v

(* Values of symbols.                                                       *)
KindOK(x, v) ==
    isNonterm(x) =>
        IF isList(x) THEN ListOf(v, x) /\ IsSequence(v.args) /\ v = list(v.args)
        ELSE v.fun # "list"

(* What a symbol with its value on the stack stands for, between two         *)
(* positions.  A list that is turned around is the beginning of each list   *)
(* whose rest can be read behind it.                                        *)
Begins(Y, x, v, i, j) ==
    \A l, k : IsSequence(l) /\ k \in 0..Len(text) /\ <<list(l), x, j, k>> \in Y =>
                  <<list(inOrder(x, v).args \o l), x, i, k>> \in Y
Stands(Y, x, v, i, j) ==
    IF x \in revs THEN Begins(Y, x, v, i, j) ELSE Reads(Y, x, inOrder(x, v), i, j)

(* The state at height n of a stack, and what an item in it says of the      *)
(* symbols below.                                                           *)
stateAt(s, n) == IF n = 0 THEN Initial(parser) ELSE s[n].state
Fits(s, n, i) ==
    /\ i.rule \in parser.rules /\ i.dot \in 0..Len(i.rule.rhs) /\ i.dot <= n
    /\ \A d \in 1..i.dot : s[n - i.dot + d].sym = i.rule.rhs[d]
    /\ i.rule.cat = Accept => i.dot = n
Viable(s) == \A n \in 0..Len(s) : \A i \in stateAt(s, n) : Fits(s, n, i)

Given ==
    /\ grammar \in Declared /\ mode \in Modes
    /\ parser = Generated(Augmented(constructRules, grammar.start))
    /\ \E i \in Inputs(grammar) : text = i.text

Typed ==
    /\ IsSequence(stack) /\ pos \in 0..Len(text)
    /\ \A k \in 1..Len(stack) : stack[k].sym # End /\ KindOK(stack[k].sym, stack[k].val)

(* The stack stands for the text that has been read, cut into its symbols.   *)
Spans(Y, s, p, cut) ==
    /\ cut \in [0..Len(s) -> 0..Len(text)] /\ cut[0] = 0 /\ cut[Len(s)] = p
    /\ \A k \in 1..Len(s) : Stands(Y, s[k].sym, s[k].val, cut[k - 1], cut[k])
Spanned == Plain => \A Y : Derives(Y) => \E cut : Spans(Y, stack, pos, cut)

IInv == Given /\ Typed /\ Viable(stack) /\ Spanned /\ Sound

-----------------------------------------------------------------------------
(* Numbers and sequences. *)

(* Every nonempty set of natural numbers has a least element.               *)
LEMMA LeastNumber ==
    ASSUME NEW S \in SUBSET Nat, S # {}
    PROVE  \E x \in S : \A y \in S : x <= y
<1>1. IsWellFoundedOn(OpToRel(<, Nat), Nat)
  BY NatLessThanWellFounded
<1>2. PICK x \in S : \A y \in S : ~(<<y, x>> \in OpToRel(<, Nat))
  BY <1>1, WFMin
<1>3. \A y \in S : ~(y < x)
  BY <1>2 DEF OpToRel
<1> QED
  BY <1>3

LEMMA ReverseFacts ==
    ASSUME NEW S, NEW s \in Seq(S)
    PROVE  /\ Reverse(s) \in Seq(S) /\ Len(Reverse(s)) = Len(s)
           /\ \A k \in 1..Len(s) : Reverse(s)[k] = s[Len(s) - k + 1]
<1>1. Len(s) \in Nat /\ \A k \in 1..Len(s) : Len(s) - k + 1 \in 1..Len(s)
  OBVIOUS
<1> QED
  BY <1>1 DEF Reverse

(* An element put at the end comes first in the reversed sequence.          *)
LEMMA ReverseAppend ==
    ASSUME NEW S, NEW s \in Seq(S), NEW e \in S
    PROVE  Reverse(Append(s, e)) = <<e>> \o Reverse(s)
<1> DEFINE c == Append(s, e)
<1>1. c \in Seq(S) /\ Len(c) = Len(s) + 1 /\ Len(s) \in Nat
      /\ c[Len(s) + 1] = e /\ \A k \in 1..Len(s) : c[k] = s[k]
  OBVIOUS
<1> HIDE DEF c
<1> DEFINE a == Reverse(c)
           b == <<e>> \o Reverse(s)
<1>2. a \in Seq(S) /\ Len(a) = Len(c) /\ \A k \in 1..Len(c) : a[k] = c[Len(c) - k + 1]
  BY <1>1, ReverseFacts
<1>3. Reverse(s) \in Seq(S) /\ Len(Reverse(s)) = Len(s)
      /\ \A k \in 1..Len(s) : Reverse(s)[k] = s[Len(s) - k + 1]
  BY ReverseFacts
<1>4. b \in Seq(S) /\ Len(b) = Len(s) + 1 /\ b[1] = e
      /\ \A k \in 2..(Len(s) + 1) : b[k] = Reverse(s)[k - 1]
  BY <1>3
<1> HIDE DEF a, b
<1>5. ASSUME NEW k \in 1..(Len(s) + 1) PROVE a[k] = b[k]
  <2>1. CASE k = 1
    BY <1>1, <1>2, <1>4, <2>1
  <2>2. CASE k > 1
    <3>1. k - 1 \in 1..Len(s) /\ Len(c) - k + 1 \in 1..Len(s) /\ k \in 2..(Len(s) + 1)
      BY <1>1, <2>2
    <3>2. a[k] = s[Len(c) - k + 1]
      BY <1>1, <1>2, <3>1
    <3>3. Len(s) - (k - 1) + 1 = Len(c) - k + 1
      BY <1>1
    <3> QED
      BY <1>3, <1>4, <3>1, <3>2, <3>3
  <2> QED
    BY <1>1, <2>1, <2>2
<1>6. a = b
  BY <1>1, <1>2, <1>4, <1>5, SeqEqual
<1> QED
  BY <1>6 DEF a, b, c

(* An element put in front comes last.                                      *)
LEMMA ReversePrepend ==
    ASSUME NEW S, NEW s \in Seq(S), NEW e \in S
    PROVE  Reverse(<<e>> \o s) = Reverse(s) \o <<e>>
<1> DEFINE c == <<e>> \o s
<1>1. c \in Seq(S) /\ Len(c) = Len(s) + 1 /\ Len(s) \in Nat
      /\ c[1] = e /\ \A k \in 2..(Len(s) + 1) : c[k] = s[k - 1]
  OBVIOUS
<1> HIDE DEF c
<1> DEFINE a == Reverse(c)
           b == Reverse(s) \o <<e>>
<1>2. a \in Seq(S) /\ Len(a) = Len(c) /\ \A k \in 1..Len(c) : a[k] = c[Len(c) - k + 1]
  BY <1>1, ReverseFacts
<1>3. Reverse(s) \in Seq(S) /\ Len(Reverse(s)) = Len(s)
      /\ \A k \in 1..Len(s) : Reverse(s)[k] = s[Len(s) - k + 1]
  BY ReverseFacts
<1>4. b \in Seq(S) /\ Len(b) = Len(s) + 1
      /\ b[Len(s) + 1] = e /\ \A k \in 1..Len(s) : b[k] = Reverse(s)[k]
  BY <1>1, <1>3
<1> HIDE DEF a, b
<1>5. ASSUME NEW k \in 1..(Len(s) + 1) PROVE a[k] = b[k]
  <2>1. CASE k = Len(s) + 1
    <3>1. Len(c) - k + 1 = 1
      BY <1>1, <2>1
    <3> QED
      BY <1>1, <1>2, <1>4, <2>1, <3>1
  <2>2. CASE k <= Len(s)
    <3>1. k \in 1..Len(s) /\ Len(c) - k + 1 \in 2..(Len(s) + 1)
          /\ (Len(c) - k + 1) - 1 = Len(s) - k + 1
      BY <1>1, <2>2
    <3> QED
      BY <1>1, <1>2, <1>3, <1>4, <3>1
  <2> QED
    BY <1>1, <2>1, <2>2
<1>6. a = b
  BY <1>1, <1>2, <1>4, <1>5, SeqEqual
<1> QED
  BY <1>6 DEF a, b, c

LEMMA ReverseShort ==
    /\ Reverse(<<>>) = <<>>
    /\ \A e : Reverse(<<e>>) = <<e>>
    /\ \A e, f : Reverse(<<e, f>>) = <<f, e>>
BY DEF Reverse

LEMMA Associative ==
    ASSUME NEW a, NEW b, NEW c, IsSequence(a), IsSequence(b), IsSequence(c)
    PROVE  (a \o b) \o c = a \o (b \o c) /\ IsSequence(a \o b)
<1>1. PICK A, B, C : a \in Seq(A) /\ b \in Seq(B) /\ c \in Seq(C)
  BY DEF IsSequence
<1> DEFINE S == A \cup B \cup C
<1>2. a \in Seq(S) /\ b \in Seq(S) /\ c \in Seq(S)
  BY <1>1, SeqMonotonic
<1> HIDE DEF S
<1>3. (a \o b) \o c = a \o (b \o c) /\ a \o b \in Seq(S)
  BY <1>2
<1> QED
  BY <1>3 DEF IsSequence

(* A sequence with one more element is a sequence.                          *)
LEMMA LongerSequence ==
    ASSUME NEW s, NEW e, IsSequence(s)
    PROVE  \E S : s \in Seq(S) /\ e \in S
<1>1. PICK A : s \in Seq(A)
  BY DEF IsSequence
<1>2. s \in Seq(A \cup {e})
  BY <1>1, SeqMonotonic
<1> QED
  BY <1>2

-----------------------------------------------------------------------------
(* The positions of the categories of a right-hand side. *)

LEMMA NontermsFinite ==
    ASSUME NEW S, NEW rhs \in Seq(S)
    PROVE  IsFiniteSet(nonterms(rhs)) /\ nonterms(rhs) \subseteq 1..Len(rhs) /\ arity(rhs) \in Nat
<1>1. Len(rhs) \in Nat /\ DOMAIN rhs = 1..Len(rhs)
  OBVIOUS
<1>2. nonterms(rhs) \subseteq 1..Len(rhs)
  BY <1>1 DEF nonterms
<1>3. IsFiniteSet(1..Len(rhs))
  BY <1>1, FS_Interval
<1>4. IsFiniteSet(nonterms(rhs))
  BY <1>2, <1>3, FS_Subset
<1> QED
  BY <1>2, <1>4, FS_CardinalityType DEF arity

(* There is a k-th category for each k up to their number.                  *)
LEMMA PositionExists ==
    ASSUME NEW S, NEW rhs \in Seq(S), NEW k \in 1..arity(rhs)
    PROVE  position(rhs, k) \in nonterms(rhs) /\ position(rhs, k) \in 1..Len(rhs)
<1> DEFINE N == nonterms(rhs)
           n == Len(rhs)
<1>1. IsFiniteSet(N) /\ n \in Nat /\ Cardinality(N) \in Nat /\ k <= Cardinality(N)
      /\ k \in Nat /\ k > 0 /\ \A x \in N : x \in Nat /\ 1 <= x /\ x <= n
  BY NontermsFinite DEF arity
<1> HIDE DEF N, n
<1> DEFINE upTo(i) == {j \in N : j <= i}
<1>2. \A i : IsFiniteSet(upTo(i)) /\ Cardinality(upTo(i)) \in Nat
  BY <1>1, FS_Subset, FS_CardinalityType
<1>3. upTo(n) = N
  BY <1>1
<1>6. Cardinality(upTo(0)) = 0
  <2>1. upTo(0) = {}
    BY <1>1
  <2> QED
    BY <2>1, FS_EmptySet
<1>7. ASSUME NEW i \in Nat, i >= 1, i \notin N PROVE upTo(i) = upTo(i - 1)
  <2>1. \A j \in N : j <= i <=> j <= i - 1
    BY <1>1, <1>7
  <2> QED
    BY <2>1
<1>8. ASSUME NEW i \in Nat, i >= 1, i \in N PROVE upTo(i) = upTo(i - 1) \cup {i} /\ i \notin upTo(i - 1)
  <2>1. \A j \in N : j <= i <=> (j <= i - 1 \/ j = i)
    BY <1>1, <1>8
  <2>2. ~(i <= i - 1)
    BY <1>8
  <2> QED
    BY <1>8, <2>1, <2>2
<1> HIDE DEF upTo
<1> DEFINE S0 == {i \in 0..n : k <= Cardinality(upTo(i))}
<1>4. n \in S0 /\ S0 \in SUBSET Nat
  BY <1>1, <1>3
<1>5. PICK i \in S0 : \A j \in S0 : i <= j
  BY <1>4, LeastNumber
<1>9. i \in Nat /\ i <= n /\ k <= Cardinality(upTo(i))
  BY <1>1, <1>5
<1>10. i >= 1
  BY <1>1, <1>6, <1>9
<1>11. i - 1 \in 0..n /\ i - 1 \notin S0
  BY <1>1, <1>5, <1>9, <1>10
<1>12. Cardinality(upTo(i - 1)) < k
  BY <1>1, <1>2, <1>11
<1>13. i \in N
  BY <1>1, <1>2, <1>7, <1>9, <1>10, <1>12
<1>14. Cardinality(upTo(i)) = Cardinality(upTo(i - 1)) + 1
  BY <1>2, <1>8, <1>9, <1>10, <1>13, FS_AddElement
<1>15. Cardinality(upTo(i)) = k
  BY <1>1, <1>2, <1>9, <1>12, <1>14
<1>16. \E m \in N : Cardinality({j \in N : j <= m}) = k
  BY <1>13, <1>15 DEF upTo
<1>17. position(rhs, k) \in N
  BY <1>16 DEF position, N
<1> QED
  BY <1>1, <1>17 DEF N, n

LEMMA PairCardinality ==
    ASSUME NEW m \in Nat, NEW n \in Nat, m < n
    PROVE  Cardinality({m}) = 1 /\ Cardinality({m, n}) = 2 /\ IsFiniteSet({m, n})
<1>1. n \notin {m}
  OBVIOUS
<1>2. Cardinality({m}) = 1 /\ IsFiniteSet({m})
  BY FS_Singleton
<1>3. Cardinality({m} \cup {n}) = Cardinality({m}) + 1 /\ IsFiniteSet({m} \cup {n})
  BY <1>1, <1>2, FS_AddElement
<1>4. {m} \cup {n} = {m, n}
  OBVIOUS
<1> QED
  BY <1>2, <1>3, <1>4

(* With two categories, the first and the last stand where they do.         *)
LEMMA TwoPositions ==
    ASSUME NEW rhs, NEW m \in Nat, NEW n \in Nat, m < n, nonterms(rhs) = {m, n}
    PROVE  arity(rhs) = 2 /\ position(rhs, 1) = m /\ position(rhs, 2) = n
<1>1. Cardinality({m}) = 1 /\ Cardinality({m, n}) = 2
  BY PairCardinality
<1>2. {j \in {m, n} : j <= m} = {m} /\ {j \in {m, n} : j <= n} = {m, n}
  OBVIOUS
<1>3. \A i \in {m, n} : Cardinality({j \in {m, n} : j <= i}) = 1 <=> i = m
  BY <1>1, <1>2
<1>4. \A i \in {m, n} : Cardinality({j \in {m, n} : j <= i}) = 2 <=> i = n
  BY <1>1, <1>2
<1>5. position(rhs, 1) = CHOOSE i \in {m, n} : Cardinality({j \in {m, n} : j <= i}) = 1
  BY DEF position
<1>6. position(rhs, 2) = CHOOSE i \in {m, n} : Cardinality({j \in {m, n} : j <= i}) = 2
  BY DEF position
<1>7. position(rhs, 1) = m
  BY <1>3, <1>5
<1>8. position(rhs, 2) = n
  BY <1>4, <1>6
<1> QED
  BY <1>1, <1>7, <1>8 DEF arity

LEMMA PairFacts ==
    ASSUME NEW S, NEW x \in S, NEW y \in S
    PROVE  <<x, y>> \in Seq(S) /\ Len(<<x, y>>) = 2 /\ <<x, y>>[1] = x
OBVIOUS

(* Precedences do not make a list something else.                           *)
LEMMA NormKind ==
    ASSUME NEW c \in Symbol
    PROVE  /\ isList(normCat(c)) <=> isList(c)
           /\ isList(c) => (isList(catOfList(normCat(c))) <=> isList(catOfList(c)))
<1> DEFINE n == Len(c) - 2
           Strings == STRING \cup {"Cat"}
<1>1. c \in Seq(Strings) /\ Len(c) \in Nat /\ Len(c) > 0
  <2>1. c \in Seq(STRING) /\ c # <<>>
    BY DEF Symbol
  <2>2. c \in Seq(Strings)
    BY <2>1, SeqMonotonic
  <2> QED
    BY <2>1, <2>2
<1>4. "Cat" \in Strings
  OBVIOUS
<1> HIDE DEF Strings
<1>2. CASE ~(n > 0 /\ c[n] = "CoercCat")
  BY <1>2 DEF normCat
<1>3. CASE n > 0 /\ c[n] = "CoercCat"
  <2>1. normCat(c) = SubSeq(c, 1, n - 1) \o <<"Cat", c[n + 1]>>
    BY <1>3 DEF normCat, Cat
  <2>2. n + 1 \in 1..Len(c) /\ n - 1 \in Nat /\ n \in Nat /\ n - 1 <= Len(c) /\ Len(c) = n + 2
    BY <1>1, <1>3
  <2> DEFINE a == SubSeq(c, 1, n - 1)
             b == <<"Cat", c[n + 1]>>
             d == a \o b
  <2>3. c[n + 1] \in Strings
    BY <1>1, <2>2
  <2>4. b \in Seq(Strings) /\ Len(b) = 2 /\ b[1] = "Cat"
    BY <1>4, <2>3, PairFacts
  <2>8. a \in Seq(Strings) /\ Len(a) = n - 1 /\ \A k \in 1..(n - 1) : a[k] = c[k]
    BY <1>1, <2>2, SubSeqProperties
  <2> HIDE DEF a, b, n
  <2>5. d \in Seq(Strings) /\ Len(d) = n + 1
        /\ (\A k \in 1..(n - 1) : d[k] = c[k]) /\ d[n] = "Cat"
    <3>1. /\ d \in Seq(Strings) /\ Len(d) = Len(a) + Len(b)
          /\ \A i \in 1..(Len(a) + Len(b)) : d[i] = IF i <= Len(a) THEN a[i] ELSE b[i - Len(a)]
      BY <2>4, <2>8, ConcatProperties
    <3>2. n \in 1..(Len(a) + Len(b)) /\ ~(n <= Len(a)) /\ n - Len(a) = 1
      BY <2>2, <2>4, <2>8
    <3>3. \A k \in 1..(n - 1) : k \in 1..(Len(a) + Len(b)) /\ k <= Len(a)
      BY <2>2, <2>4, <2>8
    <3>4. d[n] = b[1]
      BY <3>1, <3>2
    <3>5. \A k \in 1..(n - 1) : d[k] = a[k]
      BY <3>1, <3>3
    <3>6. Len(d) = n + 1
      BY <2>2, <2>4, <2>8, <3>1
    <3> QED
      BY <2>4, <2>8, <3>1, <3>4, <3>5, <3>6
  <2> HIDE DEF d
  <2>6. isList(d) <=> isList(c)
    <3>1. CASE n = 1
      BY <1>3, <2>5, <3>1 DEF isList
    <3>2. CASE n > 1
      BY <2>2, <2>5, <3>2 DEF isList
    <3> QED
      BY <1>3, <2>2, <3>1, <3>2
  <2>7. ASSUME isList(c) PROVE isList(Tail(d)) <=> isList(Tail(c))
    <3>1. n # 1
      BY <1>3, <2>7 DEF isList
    <3>2. n > 1 /\ Len(d) > 1 /\ Len(c) > 1
      BY <1>3, <2>2, <2>5, <3>1
    <3>3. Tail(d)[1] = d[2] /\ Tail(c)[1] = c[2]
      BY <1>1, <2>5, <3>2, HeadTailProperties
    <3>4. CASE n = 2
      BY <1>3, <2>5, <3>3, <3>4 DEF isList
    <3>5. CASE n > 2
      BY <2>2, <2>5, <3>3, <3>5 DEF isList
    <3> QED
      BY <2>2, <3>2, <3>4, <3>5
  <2> QED
    BY <2>1, <2>6, <2>7 DEF a, b, d, catOfList
<1> QED
  BY <1>2, <1>3

-----------------------------------------------------------------------------
(* The rules of the grammar. *)

LEMMA Declares ==
    ASSUME Given, NEW q \in parsed(grammar.rules)
    PROVE  /\ q.cat \in Symbol /\ q.rhs \in Seq(Symbol) /\ Len(q.rhs) \in Nat
           /\ q = [fun |-> q.fun, cat |-> q.cat, rhs |-> q.rhs]
           /\ checkRule(q) /\ q.fun # "list" /\ q.cat \notin {Accept, End}
           /\ \A k \in 1..Len(q.rhs) : q.rhs[k] \notin {Accept, End} /\ q.rhs[k] \in Symbol
<1>1. q \in [fun : STRING, cat : Symbol, rhs : Seq(Symbol)]
      /\ checkRule(q) /\ q.fun # "list" /\ q.cat \notin {Accept, End}
      /\ \A k \in DOMAIN q.rhs : q.rhs[k] \notin {Accept, End}
  BY DeclaredAssumption DEF Given
<1>2. q.rhs \in Seq(Symbol) /\ DOMAIN q.rhs = 1..Len(q.rhs) /\ Len(q.rhs) \in Nat
  BY <1>1
<1>3. \A k \in 1..Len(q.rhs) : q.rhs[k] \in Symbol
  BY <1>2
<1> QED
  BY <1>1, <1>2, <1>3

(* Of which kind the categories of a rule are, by its label.                 *)
SameKind(c, d) == isList(c) <=> isList(d)
LEMMA Checked ==
    ASSUME Given, NEW q \in parsed(grammar.rules)
    PROVE  /\ q.fun = "_" => /\ arity(q.rhs) = 1 /\ SameKind(argument(q.rhs, 1), q.cat)
                             /\ isList(q.cat) => SameKind(catOfList(argument(q.rhs, 1)), catOfList(q.cat))
           /\ q.fun \in {"[]", "(:[])", "(:)"} => isList(q.cat)
           /\ q.fun = "(:[])" => arity(q.rhs) = 1 /\ SameKind(argument(q.rhs, 1), catOfList(q.cat))
           /\ q.fun = "(:)" => /\ arity(q.rhs) = 2 /\ SameKind(argument(q.rhs, 1), catOfList(q.cat))
                               /\ isList(argument(q.rhs, 2))
                               /\ SameKind(catOfList(argument(q.rhs, 2)), catOfList(q.cat))
           /\ isList(q.cat) => q.fun \in {"_", "[]", "(:[])", "(:)"}
<1> DEFINE c  == normCat(q.cat)
           n  == arity(q.rhs)
           cs == [k \in 1..n |-> normCat(argument(q.rhs, k))]
<1>1. q.cat \in Symbol /\ q.rhs \in Seq(Symbol) /\ checkRule(q)
      /\ \A k \in 1..Len(q.rhs) : q.rhs[k] \in Symbol
  BY Declares
<1>2. n \in Nat
  BY <1>1, NontermsFinite
<1>3. \A k \in 1..n : argument(q.rhs, k) \in Symbol
  BY <1>1, PositionExists DEF argument
<1>4. /\ q.fun = "_"     => cs = <<c>>
      /\ q.fun = "[]"    => isList(c)
      /\ q.fun = "(:[])" => isList(c) /\ cs = <<catOfList(c)>>
      /\ q.fun = "(:)"   => isList(c) /\ cs = <<catOfList(c), c>>
      /\ isList(c)       => q.fun \in {"_", "[]", "(:[])", "(:)"}
  BY <1>1 DEF checkRule
<1>5. SameKind(c, q.cat) /\ (isList(q.cat) => SameKind(catOfList(c), catOfList(q.cat)))
  BY <1>1, NormKind DEF SameKind
<1>6. \A k \in 1..n : /\ SameKind(normCat(argument(q.rhs, k)), argument(q.rhs, k))
                      /\ isList(argument(q.rhs, k)) =>
                            SameKind(catOfList(normCat(argument(q.rhs, k))), catOfList(argument(q.rhs, k)))
  BY <1>3, NormKind DEF SameKind
<1>7. cs \in [1..n -> {normCat(argument(q.rhs, k)) : k \in 1..n}] /\ DOMAIN cs = 1..n
  OBVIOUS
<1>8. ASSUME NEW a, cs = <<a>> PROVE n = 1 /\ normCat(argument(q.rhs, 1)) = a
  <2>1. DOMAIN <<a>> = 1..1 /\ <<a>>[1] = a
    OBVIOUS
  <2>2. 1..n = 1..1
    BY <1>7, <1>8, <2>1
  <2>3. n = 1
    BY <1>2, <2>2
  <2>4. cs[1] = normCat(argument(q.rhs, 1))
    BY <2>3
  <2> QED
    BY <1>8, <2>1, <2>3, <2>4
<1>9. ASSUME NEW a, NEW b, cs = <<a, b>>
      PROVE  n = 2 /\ normCat(argument(q.rhs, 1)) = a /\ normCat(argument(q.rhs, 2)) = b
  <2>1. DOMAIN <<a, b>> = 1..2 /\ <<a, b>>[1] = a /\ <<a, b>>[2] = b
    OBVIOUS
  <2>2. 1..n = 1..2
    BY <1>7, <1>9, <2>1
  <2>3. n = 2
    BY <1>2, <2>2
  <2>4. cs[1] = normCat(argument(q.rhs, 1)) /\ cs[2] = normCat(argument(q.rhs, 2))
    BY <2>3
  <2> QED
    BY <1>9, <2>1, <2>3, <2>4
<1> HIDE DEF cs, n, c
<1>10. q.fun \in {"[]", "(:[])", "(:)"} => isList(q.cat)
  BY <1>4, <1>5 DEF SameKind
<1>11. isList(q.cat) => q.fun \in {"_", "[]", "(:[])", "(:)"}
  BY <1>4, <1>5 DEF SameKind
<1>12. ASSUME q.fun = "_"
       PROVE  /\ n = 1 /\ SameKind(argument(q.rhs, 1), q.cat)
              /\ isList(q.cat) => SameKind(catOfList(argument(q.rhs, 1)), catOfList(q.cat))
  <2>1. n = 1 /\ normCat(argument(q.rhs, 1)) = c
    BY <1>4, <1>8, <1>12
  <2> QED
    BY <1>5, <1>6, <2>1 DEF SameKind
<1>13. ASSUME q.fun = "(:[])"
       PROVE  n = 1 /\ SameKind(argument(q.rhs, 1), catOfList(q.cat))
  <2>1. n = 1 /\ normCat(argument(q.rhs, 1)) = catOfList(c)
    BY <1>4, <1>8, <1>13
  <2> QED
    BY <1>5, <1>6, <1>10, <1>13, <2>1 DEF SameKind
<1>14. ASSUME q.fun = "(:)"
       PROVE  /\ n = 2 /\ SameKind(argument(q.rhs, 1), catOfList(q.cat))
              /\ isList(argument(q.rhs, 2))
              /\ SameKind(catOfList(argument(q.rhs, 2)), catOfList(q.cat))
  <2>1. n = 2 /\ normCat(argument(q.rhs, 1)) = catOfList(c) /\ normCat(argument(q.rhs, 2)) = c
    BY <1>4, <1>9, <1>14
  <2> QED
    BY <1>5, <1>6, <1>10, <1>14, <2>1 DEF SameKind
<1> QED
  BY <1>10, <1>11, <1>12, <1>13, <1>14 DEF n

(* A list category that is turned around has two rules.                     *)
LEMMA Reversible ==
    ASSUME Given, NEW c \in revs
    PROVE  /\ isList(c)
           /\ \E cons, nil \in parsed(grammar.rules) :
                 /\ cons.cat = c /\ nil.cat = c
                 /\ nil.fun = "[]" /\ nil.rhs = <<>>
                 /\ cons.fun = "(:)" /\ Len(cons.rhs) >= 2
                 /\ isNonterm(cons.rhs[1]) /\ isNonterm(cons.rhs[Len(cons.rhs)])
                 /\ \A r \in parsed(grammar.rules) : r.cat = c => r \in {cons, nil}
<1> DEFINE G == grammar.rules
<1>1. c \in findAllReversibleCats(G)
  BY DEF revs, cfgReversibleCats
<1>2. isList(c) /\ \E cons, nil \in ruleGroup(G, c) : ruleGroup(G, c) = {cons, nil} /\ tryRev(cons, nil)
  BY <1>1 DEF findAllReversibleCats
<1>3. \A q \in G : q \in [fun : STRING, cat : Symbol, rhs : Seq(Symbol)]
  BY DeclaredAssumption DEF Given
<1>4. \A q \in G : removeWhiteSpaceSeparators(q).cat = q.cat
  BY <1>3 DEF removeWhiteSpaceSeparators
<1>5. ruleGroup(G, c) = {r \in parsed(G) : r.cat = c}
  BY <1>4 DEF ruleGroup, parsed
<1> QED
  BY <1>2, <1>5 DEF tryRev

(* The rules of the parser. *)
LEMMA Constructed ==
    ASSUME Given, NEW r \in constructRules
    PROVE  \E q \in parsed(grammar.rules) :
              /\ r = [rule |-> q, b |-> r.b, cat |-> q.cat, fun |-> q.fun, rhs |-> r.rhs]
              /\ r.b <=> (q.fun = "(:)" /\ q.cat \in revs)
              /\ r.b \in BOOLEAN
              /\ r.rhs = IF r.b THEN revSepListRule(q).rhs ELSE q.rhs
<1> DEFINE b(q) == q.fun = "(:)" /\ q.cat \in revs
           Made(q) == [rule |-> q, b |-> b(q), cat |-> q.cat, fun |-> q.fun,
                       rhs |-> IF b(q) THEN revSepListRule(q).rhs ELSE q.rhs]
<1>1. constructRules = {Made(q) : q \in parsed(grammar.rules)}
  BY DEF constructRules
<1>2. PICK q \in parsed(grammar.rules) : r = Made(q)
  BY <1>1
<1>3. r.b = b(q) /\ b(q) \in BOOLEAN
  BY <1>2
<1> HIDE DEF b
<1>4. /\ r = [rule |-> q, b |-> r.b, cat |-> q.cat, fun |-> q.fun, rhs |-> r.rhs]
      /\ r.rhs = IF r.b THEN revSepListRule(q).rhs ELSE q.rhs
  BY <1>2, <1>3
<1>5. r.b <=> (q.fun = "(:)" /\ q.cat \in revs)
  BY <1>3 DEF b
<1> QED
  BY <1>3, <1>4, <1>5

(* The recursive rule of a list that is turned around: the list and an       *)
(* element, with what stood between them behind.                            *)
LEMMA TurnedAround ==
    ASSUME Given, NEW q \in parsed(grammar.rules), q.fun = "(:)", q.cat \in revs,
           NEW rhs, rhs = revSepListRule(q).rhs
    PROVE  LET n == Len(q.rhs) IN
           /\ n \in Nat /\ n >= 2
           /\ rhs \in Seq(Symbol) /\ Len(rhs) = n
           /\ rhs[1] = q.rhs[n] /\ rhs[2] = q.rhs[1] /\ \A k \in 3..n : rhs[k] = q.rhs[k - 1]
           /\ arity(q.rhs) = 2 /\ position(q.rhs, 1) = 1 /\ position(q.rhs, 2) = n
           /\ arity(rhs) = 2 /\ position(rhs, 1) = 1 /\ position(rhs, 2) = 2
<1> DEFINE n == Len(q.rhs)
<1>1. q.rhs \in Seq(Symbol) /\ q = [fun |-> q.fun, cat |-> q.cat, rhs |-> q.rhs]
  BY Declares
<1>2. n \in Nat /\ n >= 2 /\ isNonterm(q.rhs[1]) /\ isNonterm(q.rhs[n])
  <2>1. PICK cons, nil \in parsed(grammar.rules) :
            /\ nil.fun = "[]" /\ Len(cons.rhs) >= 2
            /\ isNonterm(cons.rhs[1]) /\ isNonterm(cons.rhs[Len(cons.rhs)])
            /\ \A r \in parsed(grammar.rules) : r.cat = q.cat => r \in {cons, nil}
    BY Reversible
  <2>2. q = cons
    BY <2>1
  <2> QED
    BY <1>1, <2>1, <2>2
<1>3. arity(q.rhs) = 2
  BY Checked
<1>4. nonterms(q.rhs) = {1, n}
  <2>1. IsFiniteSet(nonterms(q.rhs)) /\ Cardinality(nonterms(q.rhs)) = 2
    BY <1>1, <1>3, NontermsFinite DEF arity
  <2>2. {1, n} \subseteq nonterms(q.rhs)
    <3>1. DOMAIN q.rhs = 1..n /\ 1 \in 1..n /\ n \in 1..n
      BY <1>1, <1>2
    <3> QED
      BY <1>2, <3>1 DEF nonterms
  <2>3. Cardinality({1, n}) = 2
    <3>1. 1 \in Nat /\ 1 < n
      BY <1>2
    <3> QED
      BY <1>2, <3>1, PairCardinality
  <2> QED
    BY <2>1, <2>2, <2>3, FS_Subset
<1>5. arity(q.rhs) = 2 /\ position(q.rhs, 1) = 1 /\ position(q.rhs, 2) = n
  BY <1>2, <1>4, TwoPositions
<1> DEFINE mid == SubSeq(q.rhs, 2, n - 1)
           front == <<q.rhs[n], q.rhs[1]>>
<1>6. rhs = front \o mid
  BY <1>1 DEF revSepListRule
<1>7. mid \in Seq(Symbol) /\ Len(mid) = n - 2 /\ \A k \in 1..(n - 2) : mid[k] = q.rhs[k + 1]
  <2>1. 2 \in 1..(Len(q.rhs) + 1) /\ n - 1 \in 1..Len(q.rhs)
    BY <1>2
  <2> DEFINE a == n - 1
  <2>2. a \in 1..Len(q.rhs) /\ a + 1 = n /\ a \in Nat
    BY <1>2, <2>1
  <2> HIDE DEF a, n
  <2>3. /\ SubSeq(q.rhs, 2, a) \in Seq(Symbol)
        /\ Len(SubSeq(q.rhs, 2, a)) = IF 2 <= a THEN a - 2 + 1 ELSE 0
        /\ \A k \in 1..(a - 2 + 1) : SubSeq(q.rhs, 2, a)[k] = q.rhs[2 + k - 1]
    BY <1>1, <2>2, SubSeqProperties
  <2>4. (IF 2 <= a THEN a - 2 + 1 ELSE 0) = n - 2 /\ a - 2 + 1 = n - 2
    BY <1>2, <2>2
  <2>5. \A k \in 1..(n - 2) : 2 + k - 1 = k + 1
    BY <1>2
  <2> QED
    BY <2>3, <2>4, <2>5 DEF a
<1>8. front \in Seq(Symbol) /\ Len(front) = 2 /\ front[1] = q.rhs[n] /\ front[2] = q.rhs[1]
  <2>1. q.rhs[n] \in Symbol /\ q.rhs[1] \in Symbol
    BY <1>1, <1>2
  <2> HIDE DEF n
  <2> QED
    BY <2>1
<1> HIDE DEF mid, front, n
<1>9. rhs \in Seq(Symbol) /\ Len(rhs) = n
      /\ rhs[1] = front[1] /\ rhs[2] = front[2] /\ \A k \in 3..n : rhs[k] = mid[k - 2]
  <2>1. /\ front \o mid \in Seq(Symbol) /\ Len(front \o mid) = Len(front) + Len(mid)
        /\ \A i \in 1..(Len(front) + Len(mid)) :
              (front \o mid)[i] = IF i <= Len(front) THEN front[i] ELSE mid[i - Len(front)]
    BY <1>7, <1>8, ConcatProperties
  <2>2. Len(front) + Len(mid) = n
    BY <1>2, <1>7, <1>8
  <2>3. \A i \in 1..n : rhs[i] = IF i <= 2 THEN front[i] ELSE mid[i - 2]
    BY <1>6, <1>8, <2>1, <2>2
  <2>4. 1 \in 1..n /\ 2 \in 1..n /\ \A k \in 3..n : k \in 1..n /\ ~(k <= 2)
    BY <1>2
  <2> QED
    BY <1>6, <2>1, <2>2, <2>3, <2>4
<1>10. \A k \in 3..n : rhs[k] = q.rhs[k - 1]
  <2>1. \A k \in 3..n : k - 2 \in 1..(n - 2) /\ (k - 2) + 1 = k - 1
    BY <1>2
  <2> QED
    BY <1>7, <1>9, <2>1
<1>11. \A k \in 3..n : ~isNonterm(rhs[k])
  <2>1. SUFFICES ASSUME NEW k \in 3..n PROVE ~isNonterm(q.rhs[k - 1])
    BY <1>10
  <2>2. k - 1 \in 1..n /\ k - 1 \notin {1, n}
    BY <1>2
  <2>3. k - 1 \in DOMAIN q.rhs
    BY <1>1, <2>2 DEF n
  <2> QED
    BY <1>4, <2>2, <2>3 DEF nonterms
<1>12. nonterms(rhs) = {1, 2}
  <2>1. DOMAIN rhs = 1..n
    BY <1>9
  <2>2. \A k : k \in 1..n <=> (k \in {1, 2} \/ k \in 3..n)
    BY <1>2
  <2>3. isNonterm(rhs[1]) /\ isNonterm(rhs[2])
    BY <1>2, <1>8, <1>9
  <2> QED
    BY <1>11, <2>1, <2>2, <2>3 DEF nonterms
<1>13. arity(rhs) = 2 /\ position(rhs, 1) = 1 /\ position(rhs, 2) = 2
  BY <1>12, TwoPositions
<1> QED
  BY <1>2, <1>5, <1>8, <1>9, <1>10, <1>13 DEF n

(* The rules of the parser, and the one that Bison adds.                    *)
LEMMA ParserRules ==
    ASSUME Given, NEW r \in parser.rules
    PROVE  /\ IsSequence(r.rhs) /\ Len(r.rhs) \in Nat
           /\ \A k \in 1..Len(r.rhs) : r.rhs[k] # Accept
           /\ r.cat # Accept => r \in constructRules /\ \A k \in 1..Len(r.rhs) : r.rhs[k] # End
           /\ r.cat = Accept => r.rhs = <<grammar.start, End>>
<1>1. grammar.start \notin {Accept, End} /\ Accept # End
  BY DeclaredAssumption DEF Given, Accept, End
<1>2. parser.rules = constructRules \cup {[rule |-> Accept, cat |-> Accept, rhs |-> <<grammar.start, End>>]}
  BY DEF Given, Generated, Augmented
<1>3. CASE r = [rule |-> Accept, cat |-> Accept, rhs |-> <<grammar.start, End>>]
  <2>1. r.cat = Accept /\ r.rhs = <<grammar.start, End>>
    BY <1>3
  <2>2. \A a, b : <<a, b>> \in Seq({a, b}) /\ Len(<<a, b>>) = 2
    OBVIOUS
  <2>3. r.rhs[1] # Accept /\ r.rhs[2] # Accept
    BY <1>1, <2>1
  <2>4. Len(r.rhs) = 2 /\ \A k \in 1..2 : k = 1 \/ k = 2
    BY <2>1, <2>2
  <2>5. \A k \in 1..Len(r.rhs) : r.rhs[k] # Accept
    BY <2>3, <2>4
  <2>6. IsSequence(r.rhs)
    <3>1. r.rhs \in Seq({grammar.start, End})
      BY <2>1, <2>2
    <3> QED
      BY <3>1 DEF IsSequence
  <2> QED
    BY <2>1, <2>4, <2>5, <2>6
<1>4. CASE r \in constructRules
  <2>1. PICK q \in parsed(grammar.rules) :
              /\ r.cat = q.cat /\ r.fun = q.fun
              /\ r.b <=> (q.fun = "(:)" /\ q.cat \in revs)
              /\ r.rhs = IF r.b THEN revSepListRule(q).rhs ELSE q.rhs
    BY <1>4, Constructed
  <2>2. /\ q.rhs \in Seq(Symbol) /\ Len(q.rhs) \in Nat /\ q.cat # Accept
        /\ \A k \in 1..Len(q.rhs) : q.rhs[k] \notin {Accept, End}
    BY Declares
  <2>3. CASE ~r.b
    BY <1>4, <2>1, <2>2, <2>3 DEF IsSequence
  <2>4. CASE r.b
    <3> DEFINE n == Len(q.rhs)
    <3>1. r.rhs = revSepListRule(q).rhs /\ q.fun = "(:)" /\ q.cat \in revs
      BY <2>1, <2>4
    <3>2. /\ n >= 2 /\ r.rhs \in Seq(Symbol) /\ Len(r.rhs) = n
          /\ r.rhs[1] = q.rhs[n] /\ r.rhs[2] = q.rhs[1] /\ \A k \in 3..n : r.rhs[k] = q.rhs[k - 1]
      BY <3>1, TurnedAround
    <3> HIDE DEF n
    <3>3. ASSUME NEW k \in 1..n PROVE r.rhs[k] \notin {Accept, End}
      <4>1. k = 1 \/ k = 2 \/ (k \in 3..n /\ k - 1 \in 1..n)
        BY <2>2, <3>2 DEF n
      <4>2. 1 \in 1..n /\ n \in 1..n
        BY <2>2, <3>2 DEF n
      <4> QED
        BY <2>2, <3>2, <4>1, <4>2 DEF n
    <3> QED
      BY <1>4, <2>1, <2>2, <3>2, <3>3 DEF n, IsSequence
  <2> QED
    BY <2>3, <2>4
<1> QED
  BY <1>2, <1>3, <1>4

-----------------------------------------------------------------------------
(* The states of the automaton. *)

(* No text begins with the rule that Bison adds, but the whole one.          *)
LEMMA LeftAccept ==
    ASSUME Given, NEW x, <<x, Accept>> \in parser.left
    PROVE  x = Accept
<1> DEFINE P == parser.rules
           S == Categories(P)
           E == {<<r.cat, r.rhs[1]>> : r \in {q \in P : q.rhs # <<>>}}
           X == S \ {Accept}
<1>1. <<x, Accept>> \in Reachable(S, E)
  BY DEF Given, Generated, Left
<1>2. \A e \in E : e[2] # Accept
  <2>1. SUFFICES ASSUME NEW r \in P, r.rhs # <<>> PROVE r.rhs[1] # Accept
    OBVIOUS
  <2>2. IsSequence(r.rhs) /\ Len(r.rhs) \in Nat /\ \A k \in 1..Len(r.rhs) : r.rhs[k] # Accept
    BY ParserRules
  <2>3. Len(r.rhs) # 0
    BY <2>1, <2>2, EmptySeq DEF IsSequence
  <2>4. 1 \in 1..Len(r.rhs)
    BY <2>2, <2>3
  <2> QED
    BY <2>2, <2>4
<1> HIDE DEF P, S, E
<1>3. X \in SUBSET S
  OBVIOUS
<1>4. \A e \in E \cap (S \X S) : e[1] \in X => e[2] \in X
  BY <1>2
<1>5. x \in S /\ (x \in X => Accept \in X)
  BY <1>1, <1>3, <1>4 DEF Reachable
<1> QED
  BY <1>5

LEMMA ClosureItems ==
    ASSUME Given, NEW I, NEW i \in Closure(parser, I), i \notin I
    PROVE  /\ i.rule \in parser.rules /\ i.dot = 0
           /\ i.rule.cat = Accept => \E j \in I : ~Complete(j) /\ j.rule.rhs[j.dot + 1] = Accept
<1> DEFINE wanted == {j.rule.rhs[j.dot + 1] : j \in {k \in I : ~Complete(k)}}
<1>1. PICK r \in parser.rules : i = Item(r, 0) /\ \E x \in wanted : <<x, r.cat>> \in parser.left
  BY DEF Closure
<1>2. i.rule = r /\ i.dot = 0
  BY <1>1 DEF Item
<1>3. ASSUME r.cat = Accept PROVE Accept \in wanted
  BY <1>1, <1>3, LeftAccept
<1> QED
  BY <1>2, <1>3

LEMMA ViableAtFirst ==
    ASSUME Given
    PROVE  Viable(<<>>)
<1> DEFINE I == {Item(r, 0) : r \in {q \in parser.rules : q.cat = Accept}}
<1>1. \A i \in I : i.rule \in parser.rules /\ i.dot = 0
  BY DEF Item
<1>2. ASSUME NEW i \in I PROVE ~(i.rule.rhs[i.dot + 1] = Accept /\ ~Complete(i))
  <2>1. Len(i.rule.rhs) \in Nat /\ \A k \in 1..Len(i.rule.rhs) : i.rule.rhs[k] # Accept
    BY <1>1, ParserRules
  <2>2. i.dot # Len(i.rule.rhs) => i.dot + 1 \in 1..Len(i.rule.rhs)
    BY <1>1, <2>1
  <2> QED
    BY <2>1, <2>2 DEF Complete
<1>3. \A i \in Initial(parser) : i.rule \in parser.rules /\ i.dot = 0
  BY <1>1, ClosureItems DEF Initial
<1>4. \A i \in Initial(parser) : Len(i.rule.rhs) \in Nat
  BY <1>3, ParserRules
<1>5. SUFFICES ASSUME NEW i \in Initial(parser) PROVE Fits(<<>>, 0, i)
  <2>1. Len(<<>>) = 0
    OBVIOUS
  <2>2. \A n \in 0..0 : n = 0
    OBVIOUS
  <2> QED
    BY <1>5, <2>1, <2>2 DEF Viable, stateAt
<1> QED
  BY <1>3, <1>4 DEF Fits

(* Each state says of the symbols below it what its items have in front of   *)
(* their positions.                                                        *)
LEMMA ViablePush ==
    ASSUME Given, NEW s, IsSequence(s), Viable(s), NEW x, NEW v
    PROVE  Viable(push(s, x, v))
<1> DEFINE n == Len(s)
           e == [sym |-> x, val |-> v, state |-> Goto(parser, state(s), x)]
           t == Append(s, e)
           I == stateAt(s, n)
           J == {Item(i.rule, i.dot + 1) : i \in {j \in I : Before(j, x)}}
<1>1. /\ n \in Nat /\ Len(t) = n + 1 /\ t[n + 1] = e
      /\ \A k \in 1..n : t[k] = s[k]
  BY DEF IsSequence
<1>2. push(s, x, v) = t
  BY DEF push
<1>3. state(s) = I
  <2>1. s = <<>> <=> n = 0
    BY EmptySeq DEF IsSequence
  <2> QED
    BY <2>1 DEF state, stateAt
<1>4. t[n + 1].sym = x /\ t[n + 1].state = Closure(parser, J)
  BY <1>1, <1>3 DEF Goto
<1>5. \A i \in I : Fits(s, n, i)
  BY <1>1 DEF Viable
<1>6. stateAt(t, n + 1) = Closure(parser, J) /\ \A m \in 0..n : stateAt(t, m) = stateAt(s, m)
  BY <1>1, <1>4 DEF stateAt
<1> HIDE DEF n, e, t, I
<1>7. ASSUME NEW m \in 0..n, NEW i \in stateAt(s, m) PROVE Fits(t, m, i)
  <2>1. Fits(s, m, i)
    BY <1>7 DEF Viable, n
  <2>2. Len(i.rule.rhs) \in Nat
    BY <2>1, ParserRules DEF Fits
  <2>3. \A d \in 1..i.dot : m - i.dot + d \in 1..n
    BY <1>1, <2>1, <2>2 DEF Fits
  <2> QED
    BY <1>1, <2>1, <2>3 DEF Fits
<1>8. ASSUME NEW i \in J
      PROVE  Fits(t, n + 1, i) /\ (~Complete(i) => i.rule.rhs[i.dot + 1] # Accept)
  <2>1. PICK j \in I : Before(j, x) /\ i = Item(j.rule, j.dot + 1)
    OBVIOUS
  <2>2. i.rule = j.rule /\ i.dot = j.dot + 1
    BY <2>1 DEF Item
  <2>3. Fits(s, n, j)
    BY <1>5
  <2>4. Len(j.rule.rhs) \in Nat /\ \A k \in 1..Len(j.rule.rhs) : j.rule.rhs[k] # Accept
    BY <2>3, ParserRules DEF Fits
  <2>5. j.dot # Len(j.rule.rhs) /\ j.rule.rhs[j.dot + 1] = x
    BY <2>1 DEF Before, Complete
  <2>6. i.rule \in parser.rules /\ i.dot \in 0..Len(i.rule.rhs) /\ i.dot <= n + 1
        /\ (i.rule.cat = Accept => i.dot = n + 1)
    BY <1>1, <2>2, <2>3, <2>4, <2>5 DEF Fits
  <2>7. ASSUME NEW d \in 1..i.dot PROVE t[(n + 1) - i.dot + d].sym = i.rule.rhs[d]
    <3>1. CASE d = i.dot
      <4>1. (n + 1) - i.dot + d = n + 1 /\ d = j.dot + 1
        BY <1>1, <2>2, <2>3, <2>4, <3>1 DEF Fits
      <4> QED
        BY <1>4, <2>2, <2>5, <4>1
    <3>2. CASE d # i.dot
      <4>1. d \in 1..j.dot /\ (n + 1) - i.dot + d = n - j.dot + d /\ n - j.dot + d \in 1..n
        <5>1. n \in Nat /\ j.dot \in Nat /\ j.dot <= n /\ i.dot = j.dot + 1 /\ d \in 1..i.dot /\ d # i.dot
          BY <1>1, <2>2, <2>3, <2>4, <3>2 DEF Fits
        <5> HIDE DEF J
        <5> QED
          BY <5>1
      <4>2. s[n - j.dot + d].sym = j.rule.rhs[d]
        BY <2>3, <4>1 DEF Fits
      <4> QED
        BY <1>1, <2>2, <4>1, <4>2
    <3> QED
      BY <3>1, <3>2
  <2>8. ~Complete(i) => i.rule.rhs[i.dot + 1] # Accept
    <3>1. i.dot # Len(i.rule.rhs) => i.dot + 1 \in 1..Len(j.rule.rhs)
      BY <2>2, <2>4, <2>6
    <3> QED
      BY <2>2, <2>4, <3>1 DEF Complete
  <2>9. Fits(t, n + 1, i)
    BY <2>6, <2>7 DEF Fits
  <2> QED
    BY <2>8, <2>9
<1> HIDE DEF J
<1>9. ASSUME NEW i \in Closure(parser, J) PROVE Fits(t, n + 1, i)
  <2>1. CASE i \in J
    BY <1>8, <2>1
  <2>2. CASE i \notin J
    <3>1. i.rule \in parser.rules /\ i.dot = 0 /\ i.rule.cat # Accept
      BY <1>8, <2>2, ClosureItems
    <3>2. Len(i.rule.rhs) \in Nat
      BY <3>1, ParserRules
    <3> QED
      BY <1>1, <3>1, <3>2 DEF Fits
  <2> QED
    BY <2>1, <2>2
<1>10. ASSUME NEW m \in 0..(n + 1), NEW i \in stateAt(t, m) PROVE Fits(t, m, i)
  <2>1. CASE m = n + 1
    BY <1>6, <1>9, <2>1
  <2>2. CASE m # n + 1
    <3>1. m \in 0..n
      BY <1>1, <2>2
    <3> QED
      BY <1>6, <1>7, <3>1
  <2> QED
    BY <2>1, <2>2
<1> QED
  BY <1>1, <1>2, <1>10 DEF Viable

(* What is left of a sequence when its end is taken off.                    *)
LEMMA PrefixFacts ==
    ASSUME NEW s, IsSequence(s), NEW n \in 0..Len(s)
    PROVE  /\ IsSequence(SubSeq(s, 1, n)) /\ Len(SubSeq(s, 1, n)) = n
           /\ \A k \in 1..n : SubSeq(s, 1, n)[k] = s[k]
<1>1. PICK S : s \in Seq(S)
  BY DEF IsSequence
<1>2. Len(s) \in Nat
  BY <1>1
<1>3. n \in Nat /\ n <= Len(s) /\ 1 \in 1..(Len(s) + 1) /\ n \in 0..Len(s)
  BY <1>2
<1>4. SubSeq(s, 1, n) \in Seq(S) /\ Len(SubSeq(s, 1, n)) = n
      /\ \A k \in 1..n : SubSeq(s, 1, n)[k] = s[k]
  BY <1>1, <1>2, <1>3, SubSeqProperties
<1> QED
  BY <1>4 DEF IsSequence

LEMMA ViablePrefix ==
    ASSUME Given, NEW s, IsSequence(s), Viable(s), NEW n \in 0..Len(s)
    PROVE  Viable(SubSeq(s, 1, n))
<1> DEFINE t == SubSeq(s, 1, n)
<1>1. IsSequence(t) /\ Len(t) = n /\ \A k \in 1..n : t[k] = s[k]
  BY PrefixFacts
<1> HIDE DEF t
<1>2. Len(s) \in Nat
  BY DEF IsSequence
<1>3. ASSUME NEW m \in 0..n, NEW i \in stateAt(t, m) PROVE Fits(t, m, i)
  <2>1. m \in 0..Len(s) /\ i \in stateAt(s, m)
    BY <1>1, <1>2 DEF stateAt
  <2>2. Fits(s, m, i)
    BY <2>1 DEF Viable
  <2>3. Len(i.rule.rhs) \in Nat
    BY <2>2, ParserRules DEF Fits
  <2>4. \A d \in 1..i.dot : m - i.dot + d \in 1..n
    <3>1. i.dot \in Nat /\ i.dot <= m /\ m \in Nat /\ m <= n /\ n \in Nat
      BY <1>2, <2>2, <2>3 DEF Fits
    <3> QED
      BY <3>1
  <2> QED
    BY <1>1, <2>2, <2>4 DEF Fits
<1> QED
  BY <1>1, <1>3 DEF Viable, t

-----------------------------------------------------------------------------
(* The values that actions make. *)

LEMMA ReverseKind ==
    ASSUME NEW x, NEW v, isList(x), KindOK(x, v)
    PROVE  KindOK(x, reverse(v)) /\ reverse(v).args = Reverse(v.args)
<1>1. ListOf(v, x) /\ IsSequence(v.args)
  BY DEF KindOK, isList, isNonterm
<1>2. PICK S : v.args \in Seq(S)
  BY <1>1 DEF IsSequence
<1> DEFINE s == v.args
           t == Reverse(s)
<1>3. t \in Seq(S) /\ Len(t) = Len(s) /\ Len(s) \in Nat
      /\ \A k \in 1..Len(s) : t[k] = s[Len(s) - k + 1]
  BY <1>2, ReverseFacts
<1>4. reverse(v) = [fun |-> "list", args |-> t]
  BY DEF reverse, list, Node
<1>5. \A k \in 1..Len(s) : (s[k].fun = "list") <=> isList(catOfList(x))
  BY <1>1, <1>2 DEF ListOf
<1> HIDE DEF s, t
<1>6. ASSUME NEW k \in DOMAIN t PROVE (t[k].fun = "list") <=> isList(catOfList(x))
  <2>1. k \in 1..Len(s) /\ Len(s) - k + 1 \in 1..Len(s)
    BY <1>3
  <2> QED
    BY <1>3, <1>5, <2>1
<1>7. reverse(v).fun = "list" /\ reverse(v).args = t /\ reverse(v) = list(t)
  BY <1>4 DEF list, Node
<1>8. ListOf(reverse(v), x)
  BY <1>6, <1>7 DEF ListOf
<1>9. IsSequence(t)
  BY <1>3 DEF IsSequence
<1> QED
  BY <1>7, <1>8, <1>9 DEF KindOK, t, s

LEMMA WrongIsList ==
    ASSUME Given, NEW x, wrong(x)
    PROVE  isList(x)
BY Reversible DEF wrong

LEMMA InOrderKind ==
    ASSUME Given, NEW x, NEW v, KindOK(x, v)
    PROVE  KindOK(x, inOrder(x, v))
BY WrongIsList, ReverseKind DEF inOrder

(* The arguments of an action: all but those of the list constructor are     *)
(* put in order.                                                           *)
LEMMA MetasAre ==
    ASSUME NEW r, NEW vals
    PROVE  metas(r, vals) =
               [k \in 1..arity(r.rhs) |->
                   IF r.fun = "(:)" THEN vals[position(r.rhs, k)].val
                   ELSE inOrder(argument(r.rhs, k), vals[position(r.rhs, k)].val)]
BY DEF metas, inOrder, wrong, reversedC, reversedSTL

LEMMA OtherAction ==
    ASSUME NEW r, NEW vals, r.fun # "(:)"
    PROVE  generateAction(r, vals) =
               built(r, [k \in 1..arity(r.rhs) |->
                            inOrder(argument(r.rhs, k), vals[position(r.rhs, k)].val)])
<1> DEFINE ms == metas(r, vals)
<1>1. generateAction(r, vals) = IF mode = "C" THEN generateActionC(r, ms) ELSE generateActionSTL(r, ms)
  BY DEF generateAction
<1>2. ms = [k \in 1..arity(r.rhs) |-> inOrder(argument(r.rhs, k), vals[position(r.rhs, k)].val)]
  BY MetasAre
<1> HIDE DEF ms
<1>3. generateActionC(r, ms) = built(r, ms)
  BY DEF generateActionC, built
<1>4. generateActionSTL(r, ms) = built(r, ms)
  BY DEF generateActionSTL, built
<1> QED
  BY <1>1, <1>2, <1>3, <1>4

LEMMA SwappedPair ==
    ASSUME NEW f, f = [k \in 1..2 |-> f[k]]
    PROVE  Reverse(f)[1] = f[2] /\ Reverse(f)[2] = f[1]
<1>1. f = <<f[1], f[2]>>
  OBVIOUS
<1>2. Reverse(<<f[1], f[2]>>) = <<f[2], f[1]>>
  BY ReverseShort
<1> QED
  BY <1>1, <1>2

(* A list with an element at its head, as it is kept.  A list constructor    *)
(* makes it of the element and the list, at positions e and l of the        *)
(* parser's rule.                                                          *)
ConsOf(x, e, l) == IF mode = "C" THEN list(<<e>> \o l.args) ELSE list(Append(l.args, e))
MakesCons(r, vals, q, e, l) ==
    /\ q = r.rule /\ q.fun = "(:)" /\ r.cat = q.cat
    /\ r.b <=> q.cat \in revs
    /\ r.rhs[e] = argument(q.rhs, 1) /\ r.rhs[l] = argument(q.rhs, 2)
    /\ e \in nonterms(r.rhs) /\ l \in nonterms(r.rhs)
    /\ r.b => r.rhs = revSepListRule(q).rhs /\ e = 2 /\ l = 1
    /\ ~r.b => r.rhs = q.rhs /\ e = position(q.rhs, 1) /\ l = position(q.rhs, 2)
    /\ generateAction(r, vals) = ConsOf(r.cat, vals[e].val, vals[l].val)
LEMMA ConsAction ==
    ASSUME Given, NEW r \in constructRules, NEW vals, r.fun = "(:)"
    PROVE  \E q \in parsed(grammar.rules) : \E e, l \in 1..Len(r.rhs) : MakesCons(r, vals, q, e, l)
<1>1. PICK q \in parsed(grammar.rules) :
              /\ r.rule = q /\ r.cat = q.cat /\ r.fun = q.fun
              /\ r.b <=> (q.fun = "(:)" /\ q.cat \in revs)
              /\ r.b \in BOOLEAN
              /\ r.rhs = IF r.b THEN revSepListRule(q).rhs ELSE q.rhs
  BY Constructed
<1>2. arity(q.rhs) = 2
  BY <1>1, Checked
<1>3. q.rhs \in Seq(Symbol)
  BY Declares
<1> DEFINE ms == metas(r, vals)
           m  == swapped(r.b, ms)
<1>4. generateAction(r, vals) = ConsOf(r.cat, m[1], m[2])
  BY DEF generateAction, generateActionC, generateActionSTL, ConsOf
<1>5. CASE ~r.b
  <2>1. r.rhs = q.rhs
    BY <1>1, <1>5
  <2>2. ms = [k \in 1..2 |-> vals[position(r.rhs, k)].val]
    BY <1>2, <2>1, MetasAre
  <2>3. m = ms
    BY <1>5 DEF swapped
  <2>4. m[1] = vals[position(r.rhs, 1)].val /\ m[2] = vals[position(r.rhs, 2)].val
    BY <2>2, <2>3
  <2>5. /\ position(q.rhs, 1) \in nonterms(q.rhs) /\ position(q.rhs, 1) \in 1..Len(q.rhs)
        /\ position(q.rhs, 2) \in nonterms(q.rhs) /\ position(q.rhs, 2) \in 1..Len(q.rhs)
    <3>1. 1 \in 1..arity(q.rhs) /\ 2 \in 1..arity(q.rhs)
      BY <1>2
    <3> QED
      BY <1>3, <3>1, PositionExists
  <2> HIDE DEF m, ms
  <2> QED
    BY <1>1, <1>4, <1>5, <2>1, <2>4, <2>5 DEF argument, MakesCons
<1>6. CASE r.b
  <2> DEFINE n == Len(q.rhs)
  <2>1. q.fun = "(:)" /\ q.cat \in revs /\ r.rhs = revSepListRule(q).rhs
    BY <1>1, <1>6
  <2>2. /\ n \in Nat /\ n >= 2 /\ r.rhs \in Seq(Symbol) /\ Len(r.rhs) = n
        /\ r.rhs[1] = q.rhs[n] /\ r.rhs[2] = q.rhs[1]
        /\ position(q.rhs, 1) = 1 /\ position(q.rhs, 2) = n
        /\ arity(r.rhs) = 2 /\ position(r.rhs, 1) = 1 /\ position(r.rhs, 2) = 2
    BY <2>1, TurnedAround
  <2>3. ms = [k \in 1..2 |-> vals[position(r.rhs, k)].val]
    BY <1>1, <2>1, <2>2, MetasAre
  <2>4. ms[1] = vals[1].val /\ ms[2] = vals[2].val /\ ms = [k \in 1..2 |-> ms[k]]
    BY <2>2, <2>3
  <2>5. m = Reverse(ms)
    BY <1>6 DEF swapped
  <2> HIDE DEF ms, m
  <2>6. m[1] = vals[2].val /\ m[2] = vals[1].val
    BY <2>4, <2>5, SwappedPair
  <2>7. r.rhs[2] = argument(q.rhs, 1) /\ r.rhs[1] = argument(q.rhs, 2)
    BY <2>2 DEF argument
  <2>8. 1 \in nonterms(r.rhs) /\ 2 \in nonterms(r.rhs)
    <3>1. 1 \in 1..arity(r.rhs) /\ 2 \in 1..arity(r.rhs)
      BY <2>2
    <3> QED
      BY <2>2, <3>1, PositionExists
  <2>9. 1 \in 1..Len(r.rhs) /\ 2 \in 1..Len(r.rhs)
    BY <2>2
  <2> QED
    BY <1>1, <1>4, <1>6, <2>1, <2>6, <2>7, <2>8, <2>9 DEF MakesCons
<1> QED
  BY <1>1, <1>5, <1>6

(* The arguments of a rule that is not turned around.                       *)
LEMMA Straight ==
    ASSUME Given, NEW r \in constructRules, r.fun # "(:)"
    PROVE  \E q \in parsed(grammar.rules) :
              q = r.rule /\ r.cat = q.cat /\ r.fun = q.fun /\ r.rhs = q.rhs /\ ~r.b
<1>1. PICK q \in parsed(grammar.rules) :
              /\ r = [rule |-> q, b |-> r.b, cat |-> q.cat, fun |-> q.fun, rhs |-> r.rhs]
              /\ r.b <=> (q.fun = "(:)" /\ q.cat \in revs)
              /\ r.rhs = IF r.b THEN revSepListRule(q).rhs ELSE q.rhs
  BY Constructed
<1>2. r.rule = q /\ r.cat = q.cat /\ r.fun = q.fun
  BY <1>1
<1> QED
  BY <1>1, <1>2

(* The actions make values of the kinds of their categories.                *)
LEMMA ReduceKind ==
    ASSUME Given, NEW r \in constructRules, NEW vals,
           \A k \in 1..Len(r.rhs) : KindOK(r.rhs[k], vals[k].val)
    PROVE  KindOK(r.cat, generateAction(r, vals))
<1> DEFINE w == generateAction(r, vals)
<1>1. CASE r.fun = "(:)"
  <2>1. PICK q \in parsed(grammar.rules), e \in 1..Len(r.rhs), l \in 1..Len(r.rhs) :
            MakesCons(r, vals, q, e, l)
    BY <1>1, ConsAction
  <2>2. /\ r.rhs[e] = argument(q.rhs, 1) /\ r.rhs[l] = argument(q.rhs, 2)
        /\ e \in nonterms(r.rhs) /\ l \in nonterms(r.rhs)
        /\ w = ConsOf(r.cat, vals[e].val, vals[l].val)
        /\ q.fun = "(:)" /\ r.cat = q.cat
    BY <2>1 DEF MakesCons
  <2> DEFINE a == vals[e].val
             b == vals[l].val.args
  <2> HIDE DEF w
  <2>3. /\ isList(q.cat) /\ SameKind(argument(q.rhs, 1), catOfList(q.cat))
        /\ isList(argument(q.rhs, 2)) /\ SameKind(catOfList(argument(q.rhs, 2)), catOfList(q.cat))
    BY <2>2, Checked
  <2>4. isNonterm(r.rhs[e]) /\ KindOK(r.rhs[e], a) /\ KindOK(r.rhs[l], vals[l].val) /\ isNonterm(r.rhs[l])
    BY <2>2 DEF nonterms
  <2>5. (a.fun = "list") <=> isList(catOfList(q.cat))
    BY <2>2, <2>3, <2>4 DEF KindOK, ListOf, SameKind
  <2>6. IsSequence(b) /\ \A j \in DOMAIN b : (b[j].fun = "list") <=> isList(catOfList(q.cat))
    BY <2>2, <2>3, <2>4 DEF KindOK, ListOf, SameKind
  <2>7. w = IF mode = "C" THEN list(<<a>> \o b) ELSE list(Append(b, a))
    BY <2>2 DEF ConsOf
  <2> HIDE DEF a, b
  <2>8. PICK S : b \in Seq(S) /\ a \in S
    BY <2>6, LongerSequence
  <2>9. ASSUME NEW s, s = <<a>> \o b \/ s = Append(b, a)
        PROVE  IsSequence(s) /\ \A j \in DOMAIN s : (s[j].fun = "list") <=> isList(catOfList(q.cat))
    <3>1. Len(b) \in Nat /\ DOMAIN b = 1..Len(b)
      BY <2>8
    <3>2. CASE s = <<a>> \o b
      <4>1. s \in Seq(S) /\ DOMAIN s = 1..(Len(b) + 1) /\ s[1] = a
            /\ \A k \in 2..(Len(b) + 1) : s[k] = b[k - 1]
        BY <2>8, <3>2
      <4>2. \A k \in DOMAIN s : k = 1 \/ (k \in 2..(Len(b) + 1) /\ k - 1 \in DOMAIN b)
        BY <3>1, <4>1
      <4> QED
        BY <2>5, <2>6, <4>1, <4>2 DEF IsSequence
    <3>3. CASE s = Append(b, a)
      <4>1. s \in Seq(S) /\ DOMAIN s = 1..(Len(b) + 1) /\ s[Len(b) + 1] = a
            /\ \A k \in 1..Len(b) : s[k] = b[k]
        BY <2>8, <3>3
      <4>2. \A k \in DOMAIN s : k = Len(b) + 1 \/ k \in DOMAIN b
        BY <3>1, <4>1
      <4> QED
        BY <2>5, <2>6, <3>1, <4>1, <4>2 DEF IsSequence
    <3> QED
      BY <2>9, <3>2, <3>3
  <2>10. PICK s : w = list(s) /\ (s = <<a>> \o b \/ s = Append(b, a))
    BY <2>7
  <2>11. w.fun = "list" /\ w.args = s
    BY <2>10 DEF list, Node
  <2>12. ListOf(w, q.cat) /\ IsSequence(w.args) /\ w = list(w.args)
    BY <2>9, <2>10, <2>11 DEF ListOf
  <2> QED
    BY <2>2, <2>3, <2>12 DEF KindOK, w
<1>2. CASE r.fun # "(:)"
  <2>1. PICK q \in parsed(grammar.rules) : q = r.rule /\ r.cat = q.cat /\ r.fun = q.fun /\ r.rhs = q.rhs
    BY <1>2, Straight
  <2> DEFINE n == arity(r.rhs)
             ms == [k \in 1..n |-> inOrder(argument(r.rhs, k), vals[position(r.rhs, k)].val)]
  <2>2. w = built(r, ms)
    BY <1>2, OtherAction
  <2>3. r.rhs \in Seq(Symbol)
    BY <2>1, Declares
  <2>4. ASSUME NEW k \in 1..n
        PROVE  isNonterm(argument(r.rhs, k)) /\ KindOK(argument(r.rhs, k), ms[k])
    <3> DEFINE p == position(r.rhs, k)
    <3>1. p \in nonterms(r.rhs) /\ p \in 1..Len(r.rhs)
      BY <2>3, PositionExists
    <3>2. KindOK(r.rhs[p], inOrder(r.rhs[p], vals[p].val))
      BY <3>1, InOrderKind
    <3>3. isNonterm(r.rhs[p])
      BY <3>1 DEF nonterms
    <3> QED
      BY <3>2, <3>3 DEF argument
  <2> HIDE DEF ms, w, n
  <2>5. CASE q.fun = "_"
    <3>1. n = 1 /\ SameKind(argument(r.rhs, 1), q.cat)
          /\ (isList(q.cat) => SameKind(catOfList(argument(r.rhs, 1)), catOfList(q.cat)))
      BY <2>1, <2>5, Checked DEF n
    <3>2. w = ms[1]
      BY <2>1, <2>2, <2>5 DEF built
    <3>3. isNonterm(argument(r.rhs, 1)) /\ KindOK(argument(r.rhs, 1), ms[1])
      BY <2>4, <3>1
    <3> QED
      BY <2>1, <3>1, <3>2, <3>3 DEF KindOK, SameKind, ListOf, w
  <2>6. CASE q.fun = "[]"
    <3>1. w = list(<<>>)
      BY <2>1, <2>2, <2>6 DEF built
    <3>2. isList(q.cat)
      BY <2>6, Checked
    <3>3. w.fun = "list" /\ w.args = <<>>
      BY <3>1 DEF list, Node
    <3>4. IsSequence(<<>>)
      <4>1. <<>> \in Seq({})
        OBVIOUS
      <4> QED
        BY <4>1 DEF IsSequence
    <3>5. DOMAIN <<>> = {}
      OBVIOUS
    <3> QED
      BY <2>1, <3>1, <3>2, <3>3, <3>4, <3>5 DEF KindOK, ListOf, w
  <2>7. CASE q.fun = "(:[])"
    <3>1. n = 1 /\ SameKind(argument(r.rhs, 1), catOfList(q.cat)) /\ isList(q.cat)
      BY <2>1, <2>7, Checked DEF n
    <3>2. w = list(<<ms[1]>>)
      BY <2>1, <2>2, <2>7 DEF built
    <3>3. (ms[1].fun = "list") <=> isList(catOfList(q.cat))
      BY <2>4, <3>1 DEF KindOK, SameKind, ListOf
    <3>4. w.fun = "list" /\ w.args = <<ms[1]>>
      BY <3>2 DEF list, Node
    <3>5. DOMAIN <<ms[1]>> = {1} /\ <<ms[1]>>[1] = ms[1] /\ <<ms[1]>> \in Seq({ms[1]})
      OBVIOUS
    <3>6. ListOf(w, q.cat)
      BY <3>3, <3>4, <3>5 DEF ListOf
    <3>7. IsSequence(w.args) /\ w = list(w.args)
      BY <3>2, <3>4, <3>5 DEF IsSequence
    <3> QED
      BY <2>1, <3>1, <3>6, <3>7 DEF KindOK, w
  <2>8. CASE q.fun \notin {"_", "[]", "(:[])"}
    <3>1. ~isList(q.cat) /\ q.fun # "list"
      BY <1>2, <2>1, <2>8, Checked, Declares
    <3>2. w = Node(q.fun, ms)
      BY <1>2, <2>1, <2>2, <2>8 DEF built
    <3>3. w.fun = q.fun
      BY <3>2 DEF Node
    <3> QED
      BY <2>1, <3>1, <3>3 DEF KindOK, w
  <2> QED
    BY <2>5, <2>6, <2>7, <2>8
<1> QED
  BY <1>1, <1>2

-----------------------------------------------------------------------------
(* What the values that actions make stand for. *)

LEMMA ListFields ==
    ASSUME NEW s
    PROVE  list(s).fun = "list" /\ list(s).args = s /\ reverse(list(s)) = list(Reverse(s))
BY DEF list, Node, reverse

LEMMA StandsReads ==
    ASSUME Given, NEW Y, Derives(Y), NEW x, NEW v, NEW i \in 0..Len(text), NEW j \in 0..Len(text),
           KindOK(x, v), Stands(Y, x, v, i, j)
    PROVE  Reads(Y, x, inOrder(x, v), i, j)
<1>1. CASE x \notin revs
  BY <1>1 DEF Stands
<1>2. CASE x \in revs
  <2>1. PICK nil \in parsed(grammar.rules) : nil.cat = x /\ nil.fun = "[]" /\ nil.rhs = <<>>
    BY <1>2, Reversible
  <2> DEFINE cut == [k \in 0..0 |-> j]
  <2>2. Len(nil.rhs) = 0 /\ 1..Len(nil.rhs) = {}
    BY <2>1
  <2>3. cut \in [0..Len(nil.rhs) -> 0..Len(text)]
    BY <2>2
  <2>4. cut[0] = j /\ cut[Len(nil.rhs)] = j
    BY <2>2
  <2> HIDE DEF cut
  <2>5. <<built(nil, [k \in 1..arity(nil.rhs) |-> <<>>[position(nil.rhs, k)]]), nil.cat,
          cut[0], cut[Len(nil.rhs)]>> \in Y
    BY <2>2, <2>3 DEF Derives
  <2>6. <<list(<<>>), x, j, j>> \in Y
    BY <2>1, <2>4, <2>5 DEF built
  <2> DEFINE u == inOrder(x, v)
  <2>7. KindOK(x, u) /\ isList(x)
    BY <1>2, InOrderKind, Reversible
  <2> HIDE DEF u
  <2>8. IsSequence(u.args) /\ u = list(u.args)
    BY <2>7 DEF KindOK, isList, isNonterm
  <2>9. IsSequence(<<>>)
    <3>1. <<>> \in Seq({})
      OBVIOUS
    <3> QED
      BY <3>1 DEF IsSequence
  <2>10. <<list(u.args \o <<>>), x, i, j>> \in Y
    BY <1>2, <2>6, <2>9 DEF Stands, Begins, u
  <2>11. u.args \o <<>> = u.args
    BY <2>8, ConcatEmptySeq DEF IsSequence
  <2> QED
    BY <2>8, <2>10, <2>11 DEF Reads, u
<1> QED
  BY <1>1, <1>2

(* Elements of lists are no lists: they are in order.                       *)
LEMMA PlainElement ==
    ASSUME Given, Plain, NEW q \in parsed(grammar.rules), q.fun = "(:)"
    PROVE  /\ isList(q.cat) /\ argument(q.rhs, 2) = q.cat
           /\ \A v : inOrder(argument(q.rhs, 1), v) = v
<1>1. isList(q.cat) /\ SameKind(argument(q.rhs, 1), catOfList(q.cat))
  BY Checked
<1>2. ~isList(catOfList(q.cat)) /\ argument(q.rhs, 2) = q.cat
  BY <1>1 DEF Plain
<1>3. ~wrong(argument(q.rhs, 1))
  BY <1>1, <1>2, WrongIsList DEF SameKind
<1> QED
  BY <1>1, <1>2, <1>3 DEF inOrder

(* A rule whose symbols are where they were declared makes what it derives.  *)
LEMMA Derived ==
    ASSUME Given, NEW Y, Derives(Y), NEW q \in parsed(grammar.rules), NEW vals,
           NEW cut \in [0..Len(q.rhs) -> 0..Len(text)],
           \A k \in 1..Len(q.rhs) : KindOK(q.rhs[k], vals[k].val)
                                    /\ Stands(Y, q.rhs[k], vals[k].val, cut[k - 1], cut[k])
    PROVE  <<built(q, [k \in 1..arity(q.rhs) |->
                          inOrder(argument(q.rhs, k), vals[position(q.rhs, k)].val)]),
             q.cat, cut[0], cut[Len(q.rhs)]>> \in Y
<1> DEFINE n == Len(q.rhs)
           vv == [k \in 1..n |-> inOrder(q.rhs[k], vals[k].val)]
<1>1. q.rhs \in Seq(Symbol) /\ n \in Nat
  BY Declares
<1>2. ASSUME NEW k \in 1..n PROVE Reads(Y, q.rhs[k], vv[k], cut[k - 1], cut[k])
  <2>1. cut[k - 1] \in 0..Len(text) /\ cut[k] \in 0..Len(text)
    <3>1. k - 1 \in 0..n /\ k \in 0..n
      BY <1>1
    <3> QED
      BY <3>1
  <2>2. Reads(Y, q.rhs[k], inOrder(q.rhs[k], vals[k].val), cut[k - 1], cut[k])
    BY <2>1, StandsReads
  <2> QED
    BY <2>2
<1>3. [k \in 1..arity(q.rhs) |-> vv[position(q.rhs, k)]] =
          [k \in 1..arity(q.rhs) |-> inOrder(argument(q.rhs, k), vals[position(q.rhs, k)].val)]
  <2>1. ASSUME NEW k \in 1..arity(q.rhs)
        PROVE  vv[position(q.rhs, k)] = inOrder(argument(q.rhs, k), vals[position(q.rhs, k)].val)
    <3>1. position(q.rhs, k) \in 1..n
      BY <1>1, PositionExists
    <3> QED
      BY <3>1 DEF argument
  <2> QED
    BY <2>1
<1> HIDE DEF vv
<1>4. <<built(q, [k \in 1..arity(q.rhs) |-> vv[position(q.rhs, k)]]), q.cat, cut[0], cut[n]>> \in Y
  BY <1>2 DEF Derives
<1> QED
  BY <1>3, <1>4

LEMMA StraightStands ==
    ASSUME Given, Plain, NEW Y, Derives(Y), NEW r \in constructRules, NEW vals, r.fun # "(:)",
           NEW cut \in [0..Len(r.rhs) -> 0..Len(text)],
           \A k \in 1..Len(r.rhs) : KindOK(r.rhs[k], vals[k].val)
                                    /\ Stands(Y, r.rhs[k], vals[k].val, cut[k - 1], cut[k])
    PROVE  Stands(Y, r.cat, generateAction(r, vals), cut[0], cut[Len(r.rhs)])
<1>1. PICK q \in parsed(grammar.rules) : q = r.rule /\ r.cat = q.cat /\ r.fun = q.fun /\ r.rhs = q.rhs
  BY Straight
<1> DEFINE n == arity(q.rhs)
           ms == [k \in 1..n |-> inOrder(argument(q.rhs, k), vals[position(q.rhs, k)].val)]
           w == generateAction(r, vals)
           i == cut[0]
           j == cut[Len(q.rhs)]
           c == q.cat
<1>2. w = built(q, ms)
  <2>1. w = built(r, ms)
    BY <1>1, OtherAction
  <2>2. built(r, ms) = built(q, ms)
    BY <1>1 DEF built
  <2> QED
    BY <2>1, <2>2
<1>3. <<built(q, ms), c, i, j>> \in Y
  BY <1>1, Derived
<1> HIDE DEF ms, w, i, j, n
<1>4. CASE c \in revs
  <2>1. q.fun = "[]" /\ q.rhs = <<>>
    BY <1>1, <1>4, Reversible
  <2>2. w = list(<<>>) /\ i = j
    BY <1>2, <2>1 DEF built, i, j
  <2>3. inOrder(c, w).args = <<>>
    BY <2>2, ListFields, ReverseShort DEF inOrder
  <2>4. \A l : IsSequence(l) => <<>> \o l = l
    BY ConcatEmptySeq DEF IsSequence
  <2> QED
    BY <1>1, <1>4, <2>2, <2>3, <2>4 DEF Stands, Begins, w, i, j
<1>5. CASE c \notin revs
  <2>1. inOrder(c, w) = w
    <3>1. CASE ~wrong(c)
      BY <3>1 DEF inOrder
    <3>2. CASE wrong(c)
      <4>1. mode # "C" /\ isList(c)
        BY <1>5, <3>2 DEF wrong
      <4>2. q.fun \in {"[]", "(:[])"}
        BY <1>1, <4>1, Checked DEF Plain
      <4>3. CASE q.fun = "[]"
        <5>1. w = list(<<>>)
          BY <1>2, <4>3 DEF built
        <5> QED
          BY <5>1, ListFields, ReverseShort DEF inOrder
      <4>4. CASE q.fun = "(:[])"
        <5>1. w = list(<<ms[1]>>)
          BY <1>2, <4>4 DEF built
        <5> QED
          BY <5>1, ListFields, ReverseShort DEF inOrder
      <4> QED
        BY <4>2, <4>3, <4>4
    <3> QED
      BY <3>1, <3>2
  <2>2. Reads(Y, c, w, i, j)
    BY <1>2, <1>3 DEF Reads
  <2> QED
    BY <1>1, <1>5, <2>1, <2>2 DEF Stands, w, i, j
<1> QED
  BY <1>4, <1>5

LEMMA OneMore ==
    ASSUME NEW s, NEW e, IsSequence(s)
    PROVE  Append(s, e) = s \o <<e>> /\ IsSequence(<<e>> \o s) /\ IsSequence(<<e>>)
<1>1. PICK S : s \in Seq(S) /\ e \in S
  BY LongerSequence
<1>2. <<e>> \o s \in Seq(S) /\ <<e>> \in Seq(S)
  BY <1>1
<1>3. Append(s, e) = s \o <<e>>
  BY <1>1, AppendIsConcat
<1> QED
  BY <1>2, <1>3 DEF IsSequence

(* A list with an element at its head, in the right order.                  *)
LEMMA ConsInOrder ==
    ASSUME Given, NEW x, NEW e, NEW l, isList(x), KindOK(x, l)
    PROVE  inOrder(x, ConsOf(x, e, l)).args =
               IF x \in revs THEN inOrder(x, l).args \o <<e>> ELSE <<e>> \o inOrder(x, l).args
<1> DEFINE s == l.args
<1>1. IsSequence(s) /\ l = list(s)
  BY DEF KindOK, isList, isNonterm
<1>2. PICK S : s \in Seq(S) /\ e \in S
  BY <1>1, LongerSequence
<1> HIDE DEF s
<1>3. Reverse(<<e>> \o s) = Reverse(s) \o <<e>> /\ Reverse(Append(s, e)) = <<e>> \o Reverse(s)
  BY <1>2, ReversePrepend, ReverseAppend
<1>4. Append(s, e) = s \o <<e>>
  BY <1>1, OneMore
<1>5. inOrder(x, l).args = IF wrong(x) THEN Reverse(s) ELSE s
  BY <1>1, ListFields DEF inOrder
<1>6. CASE mode = "C"
  <2>1. ConsOf(x, e, l) = list(<<e>> \o s) /\ (wrong(x) <=> x \in revs)
    BY <1>6 DEF ConsOf, wrong, s
  <2>2. inOrder(x, ConsOf(x, e, l)).args = IF wrong(x) THEN Reverse(<<e>> \o s) ELSE <<e>> \o s
    BY <2>1, ListFields DEF inOrder
  <2> QED
    BY <1>3, <1>5, <2>1, <2>2
<1>7. CASE mode # "C"
  <2>1. ConsOf(x, e, l) = list(Append(s, e)) /\ (wrong(x) <=> x \notin revs)
    BY <1>7 DEF ConsOf, wrong, s
  <2>2. inOrder(x, ConsOf(x, e, l)).args = IF wrong(x) THEN Reverse(Append(s, e)) ELSE Append(s, e)
    BY <2>1, ListFields DEF inOrder
  <2> QED
    BY <1>3, <1>4, <1>5, <2>1, <2>2
<1> QED
  BY <1>6, <1>7

LEMMA ConsIsList ==
    ASSUME NEW x, NEW e, NEW l
    PROVE  inOrder(x, ConsOf(x, e, l)) = list(inOrder(x, ConsOf(x, e, l)).args)
BY ListFields DEF inOrder, ConsOf

LEMMA ConsStands ==
    ASSUME Given, Plain, NEW Y, Derives(Y), NEW r \in constructRules, NEW vals, r.fun = "(:)", ~r.b,
           NEW cut \in [0..Len(r.rhs) -> 0..Len(text)],
           \A k \in 1..Len(r.rhs) : KindOK(r.rhs[k], vals[k].val)
                                    /\ Stands(Y, r.rhs[k], vals[k].val, cut[k - 1], cut[k])
    PROVE  Stands(Y, r.cat, generateAction(r, vals), cut[0], cut[Len(r.rhs)])
<1>0. PICK q \in parsed(grammar.rules), e \in 1..Len(r.rhs), l \in 1..Len(r.rhs) :
          MakesCons(r, vals, q, e, l)
  BY ConsAction
<1>1. /\ q.fun = "(:)" /\ r.cat = q.cat /\ q.cat \notin revs /\ r.rhs = q.rhs
      /\ r.rhs[l] = argument(q.rhs, 2)
      /\ e = position(q.rhs, 1) /\ l = position(q.rhs, 2)
      /\ generateAction(r, vals) = ConsOf(r.cat, vals[e].val, vals[l].val)
  BY <1>0 DEF MakesCons
<1> DEFINE c == q.cat
           n == arity(q.rhs)
           ms == [k \in 1..n |-> inOrder(argument(q.rhs, k), vals[position(q.rhs, k)].val)]
           i == cut[0]
           j == cut[Len(q.rhs)]
           a == vals[e].val
           b == vals[l].val
<1>2. isList(c) /\ argument(q.rhs, 2) = c /\ \A v : inOrder(argument(q.rhs, 1), v) = v
  BY <1>1, PlainElement
<1>3. n = 2
  BY <1>1, Checked
<1>4. ms[1] = a /\ ms[2] = inOrder(c, b)
  BY <1>1, <1>2, <1>3
<1>5. <<built(q, ms), c, i, j>> \in Y
  BY <1>1, Derived
<1>6. KindOK(c, b)
  BY <1>1, <1>2
<1> HIDE DEF ms, a, b, i, j, n
<1>7. built(q, ms) = list(<<a>> \o inOrder(c, b).args)
  BY <1>1, <1>4 DEF built
<1>8. inOrder(c, ConsOf(c, a, b)) = list(<<a>> \o inOrder(c, b).args)
  BY <1>1, <1>2, <1>6, ConsInOrder, ConsIsList
<1>9. Reads(Y, c, inOrder(c, ConsOf(c, a, b)), i, j)
  BY <1>5, <1>7, <1>8 DEF Reads
<1> QED
  BY <1>1, <1>9 DEF Stands, a, b, i, j

(* A list that is turned around gets its next element: what can be read      *)
(* behind it can be read behind the element.                               *)
LEMMA TurnedStands ==
    ASSUME Given, Plain, NEW Y, Derives(Y), NEW r \in constructRules, NEW vals, r.fun = "(:)", r.b,
           NEW cut \in [0..Len(r.rhs) -> 0..Len(text)],
           \A k \in 1..Len(r.rhs) : KindOK(r.rhs[k], vals[k].val)
                                    /\ Stands(Y, r.rhs[k], vals[k].val, cut[k - 1], cut[k])
    PROVE  Stands(Y, r.cat, generateAction(r, vals), cut[0], cut[Len(r.rhs)])
<1>0. PICK q \in parsed(grammar.rules) :
          MakesCons(r, vals, q, 2, 1)
  <2>1. PICK q \in parsed(grammar.rules), e \in 1..Len(r.rhs), l \in 1..Len(r.rhs) :
            MakesCons(r, vals, q, e, l)
    BY ConsAction
  <2>2. e = 2 /\ l = 1
    BY <2>1 DEF MakesCons
  <2> QED
    BY <2>1, <2>2
<1>1. /\ q.fun = "(:)" /\ r.cat = q.cat /\ q.cat \in revs /\ r.rhs = revSepListRule(q).rhs
      /\ generateAction(r, vals) = ConsOf(r.cat, vals[2].val, vals[1].val)
  BY <1>0 DEF MakesCons
<1> DEFINE c == q.cat
           n == Len(q.rhs)
           a == vals[2].val
           b == vals[1].val
           w == ConsOf(c, a, b)
<1>2. /\ n \in Nat /\ n >= 2 /\ Len(r.rhs) = n
      /\ r.rhs[1] = q.rhs[n] /\ r.rhs[2] = q.rhs[1] /\ \A k \in 3..n : r.rhs[k] = q.rhs[k - 1]
      /\ arity(q.rhs) = 2 /\ position(q.rhs, 1) = 1 /\ position(q.rhs, 2) = n
  BY <1>1, TurnedAround
<1>3. isList(c) /\ q.rhs[n] = c /\ \A v : inOrder(q.rhs[1], v) = v
  BY <1>1, <1>2, PlainElement DEF argument
<1>4. KindOK(c, b) /\ Begins(Y, c, b, cut[0], cut[1])
  <2>1. 1 \in 1..Len(r.rhs) /\ 1 - 1 = 0
    BY <1>2
  <2>2. KindOK(r.rhs[1], b) /\ Stands(Y, r.rhs[1], b, cut[0], cut[1])
    BY <2>1
  <2> QED
    BY <1>1, <1>2, <1>3, <2>2 DEF Stands
<1>5. cut \in [0..n -> 0..Len(text)]
  BY <1>2
<1>6. ASSUME NEW k \in 1..(n - 1)
      PROVE  Reads(Y, q.rhs[k], inOrder(q.rhs[k], vals[k + 1].val), cut[k], cut[k + 1])
  <2>1. k + 1 \in 1..Len(r.rhs) /\ (k + 1) - 1 = k /\ k \in 0..n /\ k + 1 \in 0..n
    BY <1>2
  <2>2. r.rhs[k + 1] = q.rhs[k]
    <3>1. CASE k = 1
      BY <1>2, <3>1
    <3>2. CASE k # 1
      <4>1. k + 1 \in 3..n
        BY <1>2, <3>2
      <4> QED
        BY <1>2, <2>1, <4>1
    <3> QED
      BY <3>1, <3>2
  <2>3. KindOK(q.rhs[k], vals[k + 1].val) /\ Stands(Y, q.rhs[k], vals[k + 1].val, cut[k], cut[k + 1])
    BY <2>1, <2>2
  <2>4. cut[k] \in 0..Len(text) /\ cut[k + 1] \in 0..Len(text)
    BY <1>5, <2>1
  <2> QED
    BY <2>3, <2>4, StandsReads
<1>7. ASSUME NEW l, NEW z \in 0..Len(text), IsSequence(l), <<list(l), c, cut[n], z>> \in Y
      PROVE  <<list(inOrder(c, w).args \o l), c, cut[0], z>> \in Y
  <2> DEFINE at == [m \in 0..n |-> IF m < n THEN cut[m + 1] ELSE z]
             vv == [m \in 1..n |-> IF m < n THEN inOrder(q.rhs[m], vals[m + 1].val) ELSE list(l)]
             args == [k \in 1..arity(q.rhs) |-> vv[position(q.rhs, k)]]
  <2>1. at \in [0..n -> 0..Len(text)]
    <3>1. ASSUME NEW m \in 0..n, m < n PROVE cut[m + 1] \in 0..Len(text)
      <4>1. m + 1 \in 0..n
        BY <1>2, <3>1
      <4> QED
        BY <1>5, <4>1
    <3> QED
      BY <3>1
  <2>2. ASSUME NEW m \in 1..n PROVE Reads(Y, q.rhs[m], vv[m], at[m - 1], at[m])
    <3>1. m - 1 \in 0..n /\ m \in 0..n /\ m - 1 < n /\ (m - 1) + 1 = m
      BY <1>2
    <3>2. at[m - 1] = cut[m]
      BY <3>1
    <3>3. CASE m < n
      <4>1. m \in 1..(n - 1)
        BY <1>2, <3>3
      <4>2. at[m] = cut[m + 1] /\ vv[m] = inOrder(q.rhs[m], vals[m + 1].val)
        BY <3>1, <3>3
      <4> HIDE DEF at, vv
      <4> QED
        BY <1>6, <3>2, <4>1, <4>2
    <3>4. CASE m = n
      <4>1. at[m] = z /\ vv[m] = list(l)
        BY <1>2, <3>1, <3>4
      <4> HIDE DEF at, vv
      <4> QED
        BY <1>3, <1>7, <3>2, <3>4, <4>1 DEF Reads
    <3> QED
      BY <1>2, <3>3, <3>4
  <2>3. at[0] = cut[1] /\ at[n] = z
    BY <1>2
  <2>4. vv[1] = a /\ vv[n] = list(l)
    BY <1>2, <1>3
  <2>5. args[1] = a /\ args[2] = list(l)
    <3>1. 1 \in 1..arity(q.rhs) /\ 2 \in 1..arity(q.rhs)
      BY <1>2
    <3> HIDE DEF vv
    <3> QED
      BY <1>2, <2>4, <3>1
  <2> HIDE DEF at, vv
  <2>6. <<built(q, args), c, at[0], at[n]>> \in Y
    BY <2>1, <2>2 DEF Derives
  <2> HIDE DEF args, a, b
  <2>7. built(q, args) = list(<<a>> \o l)
    BY <1>1, <2>5, ListFields DEF built
  <2>8. <<list(<<a>> \o l), c, cut[1], z>> \in Y
    BY <2>3, <2>6, <2>7
  <2>9. IsSequence(<<a>> \o l) /\ IsSequence(<<a>>)
    BY <1>7, OneMore
  <2>10. <<list(inOrder(c, b).args \o (<<a>> \o l)), c, cut[0], z>> \in Y
    BY <1>4, <2>8, <2>9 DEF Begins
  <2>11. inOrder(c, w).args = inOrder(c, b).args \o <<a>>
    <3>1. isList(c) /\ KindOK(c, b) /\ c \in revs
      BY <1>1, <1>3, <1>4
    <3> HIDE DEF c
    <3>2. inOrder(c, ConsOf(c, a, b)).args =
              IF c \in revs THEN inOrder(c, b).args \o <<a>> ELSE <<a>> \o inOrder(c, b).args
      BY <3>1, ConsInOrder
    <3> QED
      BY <3>1, <3>2
  <2>12. IsSequence(inOrder(c, b).args)
    <3>1. KindOK(c, inOrder(c, b))
      BY <1>4, InOrderKind
    <3> QED
      BY <1>3, <3>1 DEF KindOK, isList, isNonterm
  <2>13. (inOrder(c, b).args \o <<a>>) \o l = inOrder(c, b).args \o (<<a>> \o l)
    <3> DEFINE u == inOrder(c, b).args
               s == <<a>>
    <3>1. IsSequence(u) /\ IsSequence(s) /\ IsSequence(l)
      BY <1>7, <2>9, <2>12
    <3> HIDE DEF u, s
    <3>2. (u \o s) \o l = u \o (s \o l)
      BY <3>1, Associative
    <3> QED
      BY <3>2 DEF u, s
  <2> QED
    BY <2>10, <2>11, <2>13
<1>8. Begins(Y, c, w, cut[0], cut[n])
  BY <1>7 DEF Begins
<1> HIDE DEF n, w, a, b
<1> QED
  BY <1>1, <1>2, <1>8 DEF Stands, w, a, b, n

LEMMA ReduceStands ==
    ASSUME Given, Plain, NEW Y, Derives(Y), NEW r \in constructRules, NEW vals,
           NEW cut \in [0..Len(r.rhs) -> 0..Len(text)],
           \A k \in 1..Len(r.rhs) : KindOK(r.rhs[k], vals[k].val)
                                    /\ Stands(Y, r.rhs[k], vals[k].val, cut[k - 1], cut[k])
    PROVE  Stands(Y, r.cat, generateAction(r, vals), cut[0], cut[Len(r.rhs)])
<1>1. r.b \in BOOLEAN
  BY Constructed
<1> QED
  BY <1>1, StraightStands, ConsStands, TurnedStands

-----------------------------------------------------------------------------
(* The stack. *)

LEMMA TextFacts ==
    ASSUME Given
    PROVE  /\ Len(text) \in Nat
           /\ \A k \in 1..Len(text) :
                 /\ ~isList(text[k].sym) /\ text[k].sym # End
                 /\ KindOK(text[k].sym, text[k].val)
<1>1. PICK i \in Inputs(grammar) : text = i.text
  BY DEF Given
<1>2. grammar \in Declared
  BY DEF Given
<1> QED
  BY <1>1, <1>2, InputsAssumption DEF KindOK

LEMMA PushFacts ==
    ASSUME NEW s, IsSequence(s), NEW x, NEW v
    PROVE  LET t == push(s, x, v)
               n == Len(s) IN
           /\ IsSequence(t) /\ n \in Nat /\ Len(t) = n + 1
           /\ \A k \in 1..n : t[k] = s[k]
           /\ t[n + 1].sym = x /\ t[n + 1].val = v
<1> DEFINE e == [sym |-> x, val |-> v, state |-> Goto(parser, state(s), x)]
<1>1. e.sym = x /\ e.val = v
  OBVIOUS
<1>2. push(s, x, v) = Append(s, e)
  BY DEF push
<1> HIDE DEF e
<1>3. PICK S : s \in Seq(S) /\ e \in S
  BY LongerSequence
<1>4. /\ Append(s, e) \in Seq(S) /\ Len(s) \in Nat /\ Len(Append(s, e)) = Len(s) + 1
      /\ \A k \in 1..Len(s) : Append(s, e)[k] = s[k]
      /\ Append(s, e)[Len(s) + 1] = e
  BY <1>3
<1> QED
  BY <1>1, <1>2, <1>4 DEF IsSequence

LEMMA PushSpans ==
    ASSUME Given, NEW Y, NEW s, IsSequence(s), NEW p, NEW cut, Spans(Y, s, p, cut),
           NEW m \in 0..Len(text), NEW x, NEW v, Stands(Y, x, v, p, m)
    PROVE  \E c : Spans(Y, push(s, x, v), m, c)
<1> DEFINE t == push(s, x, v)
           n == Len(s)
           c == [k \in 0..(n + 1) |-> IF k <= n THEN cut[k] ELSE m]
<1>1. /\ n \in Nat /\ Len(t) = n + 1
      /\ \A k \in 1..n : t[k] = s[k]
      /\ t[n + 1].sym = x /\ t[n + 1].val = v
  BY PushFacts
<1>2. /\ cut \in [0..n -> 0..Len(text)] /\ cut[0] = 0 /\ cut[n] = p
      /\ \A k \in 1..n : Stands(Y, s[k].sym, s[k].val, cut[k - 1], cut[k])
  BY DEF Spans
<1> HIDE DEF t, n
<1>3. (\A k \in 0..n : c[k] = cut[k]) /\ c[n + 1] = m
  BY <1>1
<1>4. c \in [0..(n + 1) -> 0..Len(text)]
  <2>1. \A k \in 0..(n + 1) : k <= n => k \in 0..n
    BY <1>1
  <2>2. \A k \in 0..(n + 1) : (IF k <= n THEN cut[k] ELSE m) \in 0..Len(text)
    BY <1>2, <2>1
  <2> QED
    BY <2>2
<1> HIDE DEF c
<1>5. c[0] = 0
  BY <1>1, <1>2, <1>3
<1>6. ASSUME NEW k \in 1..(n + 1) PROVE Stands(Y, t[k].sym, t[k].val, c[k - 1], c[k])
  <2>1. CASE k = n + 1
    <3>1. k - 1 = n /\ n \in 0..n
      BY <1>1, <2>1
    <3>2. c[k - 1] = p /\ c[k] = m
      BY <1>2, <1>3, <2>1, <3>1
    <3> QED
      BY <1>1, <2>1, <3>2
  <2>2. CASE k # n + 1
    <3>1. k \in 1..n /\ k - 1 \in 0..n /\ k \in 0..n
      BY <1>1, <2>2
    <3>2. c[k - 1] = cut[k - 1] /\ c[k] = cut[k] /\ t[k] = s[k]
      BY <1>1, <1>3, <3>1
    <3> QED
      BY <1>2, <3>1, <3>2
  <2> QED
    BY <2>1, <2>2
<1>7. Spans(Y, t, m, c)
  BY <1>1, <1>3, <1>4, <1>5, <1>6 DEF Spans
<1> QED
  BY <1>7 DEF t

LEMMA PrefixSpans ==
    ASSUME NEW Y, NEW s, IsSequence(s), NEW p, NEW cut, Spans(Y, s, p, cut), NEW n \in 0..Len(s)
    PROVE  Spans(Y, SubSeq(s, 1, n), cut[n], [k \in 0..n |-> cut[k]])
<1> DEFINE t == SubSeq(s, 1, n)
           c == [k \in 0..n |-> cut[k]]
<1>1. Len(t) = n /\ \A k \in 1..n : t[k] = s[k]
  BY PrefixFacts
<1>2. Len(s) \in Nat
  BY DEF IsSequence
<1>3. cut \in [0..Len(s) -> 0..Len(text)] /\ cut[0] = 0
      /\ \A k \in 1..Len(s) : Stands(Y, s[k].sym, s[k].val, cut[k - 1], cut[k])
  BY DEF Spans
<1> HIDE DEF t
<1>4. \A k \in 0..n : k \in 0..Len(s)
  BY <1>2
<1>5. c \in [0..n -> 0..Len(text)] /\ c[0] = 0 /\ c[n] = cut[n]
  BY <1>2, <1>3, <1>4
<1>6. ASSUME NEW k \in 1..n PROVE Stands(Y, t[k].sym, t[k].val, c[k - 1], c[k])
  <2>1. k - 1 \in 0..n /\ k \in 0..n /\ k \in 1..Len(s)
    BY <1>2
  <2>2. c[k - 1] = cut[k - 1] /\ c[k] = cut[k]
    BY <2>1
  <2> HIDE DEF c
  <2> QED
    BY <1>1, <1>3, <2>1, <2>2
<1> HIDE DEF c
<1>7. Spans(Y, t, cut[n], c)
  BY <1>1, <1>5, <1>6 DEF Spans
<1> QED
  BY <1>7 DEF t, c

-----------------------------------------------------------------------------
(* The steps of the parser. *)

(* What the invariant says of another stack, position and result.           *)
TypedAs(s, p) ==
    /\ IsSequence(s) /\ p \in 0..Len(text)
    /\ \A k \in 1..Len(s) : s[k].sym # End /\ KindOK(s[k].sym, s[k].val)
SpannedAs(s, p) == Plain => \A Y : Derives(Y) => \E cut : Spans(Y, s, p, cut)
SoundAs(w) == w # <<>> /\ Plain => \A Y : Derives(Y) => Reads(Y, grammar.start, w, 0, Len(text))

LEMMA Unchanged ==
    ASSUME Given, UNCHANGED <<grammar, mode, parser, text>>,
           TypedAs(stack', pos'), Viable(stack'), SpannedAs(stack', pos'), SoundAs(result')
    PROVE  IInv'
<1>1. grammar' = grammar /\ mode' = mode /\ parser' = parser /\ text' = text
  OBVIOUS
<1>2. revs' = revs /\ parsed(grammar.rules)' = parsed(grammar.rules)
  BY <1>1 DEF revs
<1>3. Given'
  <2>1. constructRules' = constructRules
    BY <1>1, <1>2 DEF constructRules
  <2> QED
    BY <1>1, <2>1 DEF Given
<1>4. Typed'
  BY <1>1 DEF TypedAs, Typed, KindOK
<1>5. Viable(stack)'
  BY <1>1 DEF Viable, Fits, stateAt
<1>6. Plain' <=> Plain
  BY <1>1, <1>2 DEF Plain
<1>7. \A Y : Derives(Y)' <=> Derives(Y)
  BY <1>1, <1>2 DEF Derives, Reads
<1>8. Sound'
  BY <1>1, <1>6, <1>7 DEF Sound, SoundAs, Reads
<1>9. \A x : wrong(x)' <=> wrong(x)
  BY <1>1, <1>2 DEF wrong
<1>10. \A x, v : inOrder(x, v)' = inOrder(x, v)
  BY <1>9 DEF inOrder
<1>11. \A Y, x, v, i, j : Stands(Y, x, v, i, j)' <=> Stands(Y, x, v, i, j)
  BY <1>1, <1>2, <1>10 DEF Stands, Begins, Reads
<1>12. \A Y, s, p, cut : Spans(Y, s, p, cut)' <=> Spans(Y, s, p, cut)
  BY <1>1, <1>11 DEF Spans
<1>13. Spanned'
  BY <1>6, <1>7, <1>12 DEF Spanned, SpannedAs
<1> QED
  BY <1>3, <1>4, <1>5, <1>8, <1>13 DEF IInv

LEMMA PushTyped ==
    ASSUME NEW s, NEW p, TypedAs(s, p), NEW m \in 0..Len(text), NEW x, NEW v, x # End, KindOK(x, v)
    PROVE  TypedAs(push(s, x, v), m)
<1> DEFINE t == push(s, x, v)
           n == Len(s)
<1>1. IsSequence(t) /\ n \in Nat /\ Len(t) = n + 1
      /\ (\A k \in 1..n : t[k] = s[k]) /\ t[n + 1].sym = x /\ t[n + 1].val = v
  BY PushFacts DEF TypedAs
<1>2. \A k \in 1..n : s[k].sym # End /\ KindOK(s[k].sym, s[k].val)
  BY DEF TypedAs
<1> HIDE DEF t, n
<1>3. \A k \in 1..(n + 1) : k = n + 1 \/ k \in 1..n
  BY <1>1
<1>4. \A k \in 1..(n + 1) : t[k].sym # End /\ KindOK(t[k].sym, t[k].val)
  BY <1>1, <1>2, <1>3
<1> QED
  BY <1>1, <1>4 DEF TypedAs, t

LEMMA StateIs ==
    ASSUME NEW s, IsSequence(s)
    PROVE  state(s) = stateAt(s, Len(s)) /\ Len(s) \in Nat
<1>1. Len(s) \in Nat /\ (s = <<>> <=> Len(s) = 0)
  BY EmptySeq DEF IsSequence
<1> QED
  BY <1>1 DEF state, stateAt

LEMMA ShiftKeeps ==
    ASSUME IInv, Shift
    PROVE  IInv'
<1> DEFINE x == text[pos + 1].sym
           v == text[pos + 1].val
           t == push(stack, x, v)
<1>1. /\ pos < Len(text) /\ stack' = t /\ pos' = pos + 1
      /\ UNCHANGED <<grammar, mode, parser, text, result>>
  BY DEF Shift
<1>2. Given /\ TypedAs(stack, pos) /\ Viable(stack) /\ Spanned /\ Sound
  BY DEF IInv, Typed, TypedAs
<1>3. IsSequence(stack) /\ pos \in 0..Len(text)
  BY <1>2 DEF TypedAs
<1>4. Len(text) \in Nat /\ pos + 1 \in 1..Len(text) /\ pos + 1 \in 0..Len(text)
  BY <1>1, <1>2, <1>3, TextFacts
<1>5. ~isList(x) /\ x # End /\ KindOK(x, v)
  BY <1>2, <1>4, TextFacts
<1>6. x \notin revs /\ ~wrong(x)
  BY <1>2, <1>5, Reversible, WrongIsList
<1>7. \A Y : Stands(Y, x, v, pos, pos + 1)
  <2>1. \A Y : Reads(Y, x, v, pos, pos + 1)
    BY <1>4 DEF Reads
  <2> HIDE DEF x, v
  <2> QED
    BY <1>6, <2>1 DEF Stands, inOrder
<1> HIDE DEF x, v
<1>8. TypedAs(t, pos + 1)
  BY <1>2, <1>4, <1>5, PushTyped
<1>9. Viable(t)
  BY <1>2, <1>3, ViablePush
<1>10. SpannedAs(t, pos + 1)
  <2>1. SUFFICES ASSUME Plain, NEW Y, Derives(Y) PROVE \E cut : Spans(Y, t, pos + 1, cut)
    BY DEF SpannedAs
  <2>2. PICK cut : Spans(Y, stack, pos, cut)
    BY <1>2, <2>1 DEF Spanned
  <2> QED
    BY <1>2, <1>3, <1>4, <1>7, <2>2, PushSpans
<1>11. SoundAs(result)
  BY <1>2 DEF Sound, SoundAs
<1> HIDE DEF t
<1> QED
  BY <1>1, <1>2, <1>8, <1>9, <1>10, <1>11, Unchanged

(* What an action finds on the stack: the symbols of its rule.              *)
LEMMA Reduced ==
    ASSUME IInv, NEW i \in reductions
    PROVE  LET r == i.rule
               m == Len(r.rhs)
               h == Len(stack) IN
           /\ r \in constructRules /\ r.cat # End /\ IsSequence(r.rhs)
           /\ m \in Nat /\ h \in Nat /\ m <= h
           /\ \A k \in 1..m : stack[(h - m) + k].sym = r.rhs[k]
<1> DEFINE r == i.rule
           m == Len(r.rhs)
           h == Len(stack)
<1>1. Given /\ Viable(stack) /\ IsSequence(stack) /\ \A k \in 1..h : stack[k].sym # End
  BY DEF IInv, Typed
<1>2. i \in stateAt(stack, h) /\ i.dot = m /\ h \in Nat
  BY <1>1, StateIs DEF reductions, items, Complete
<1>3. Fits(stack, h, i)
  BY <1>1, <1>2 DEF Viable
<1>4. r \in parser.rules /\ m <= h /\ (\A d \in 1..m : stack[h - m + d].sym = r.rhs[d])
  BY <1>2, <1>3 DEF Fits
<1>5. IsSequence(r.rhs) /\ m \in Nat
  BY <1>1, <1>4, ParserRules
<1>6. r.cat # Accept
  <2>1. SUFFICES ASSUME r.cat = Accept PROVE FALSE
    OBVIOUS
  <2>2. r.rhs = <<grammar.start, End>>
    BY <1>1, <1>4, <2>1, ParserRules
  <2>3. m = 2 /\ r.rhs[2] = End
    BY <2>2
  <2> HIDE DEF m, r, h
  <2>4. h - m + 2 = h /\ h \in 1..h /\ 2 \in 1..m
    BY <1>2, <1>4, <2>3
  <2> QED
    BY <1>1, <1>4, <2>3, <2>4
<1>7. r \in constructRules
  BY <1>1, <1>4, <1>6, ParserRules
<1>8. r.cat # End
  <2>1. PICK q \in parsed(grammar.rules) : r = [rule |-> q, b |-> r.b, cat |-> q.cat, fun |-> q.fun, rhs |-> r.rhs]
    BY <1>1, <1>7, Constructed
  <2>2. r.cat = q.cat
    BY <2>1
  <2> QED
    BY <1>1, <2>2, Declares
<1> QED
  BY <1>2, <1>4, <1>5, <1>7, <1>8

LEMMA SuffixFacts ==
    ASSUME NEW s, IsSequence(s), NEW n \in 0..Len(s)
    PROVE  \A k \in 1..(Len(s) - n) : SubSeq(s, n + 1, Len(s))[k] = s[n + k]
<1>1. PICK S : s \in Seq(S)
  BY DEF IsSequence
<1> DEFINE h == Len(s)
           f == n + 1
<1>2. h \in Nat /\ n \in Nat /\ n <= h
  BY <1>1
<1>3. f \in 1..(h + 1) /\ h \in 0..h
  BY <1>2
<1> HIDE DEF f
<1>4. \A k \in 1..(h - f + 1) : SubSeq(s, f, h)[k] = s[f + k - 1]
  BY <1>1, <1>3, SubSeqProperties
<1>5. h - f + 1 = h - n /\ \A k \in 1..(h - n) : f + k - 1 = n + k
  BY <1>2 DEF f
<1> QED
  BY <1>4, <1>5 DEF f

LEMMA ReduceKeeps ==
    ASSUME IInv, Reduce
    PROVE  IInv'
<1>1. PICK i \in reductions :
          LET r == i.rule
              n == Len(stack) - Len(r.rhs)
          IN  stack' = push(SubSeq(stack, 1, n), r.cat,
                            generateAction(r, SubSeq(stack, n + 1, Len(stack))))
  BY DEF Reduce
<1> DEFINE r == i.rule
           m == Len(r.rhs)
           h == Len(stack)
           n == h - m
           vals == SubSeq(stack, n + 1, h)
           base == SubSeq(stack, 1, n)
           w == generateAction(r, vals)
           t == push(base, r.cat, w)
<1>2. stack' = t /\ UNCHANGED <<grammar, mode, parser, text, pos, result>>
  BY <1>1 DEF Reduce
<1>3. Given /\ TypedAs(stack, pos) /\ Viable(stack) /\ Spanned /\ Sound
  BY DEF IInv, Typed, TypedAs
<1>4. /\ r \in constructRules /\ r.cat # End /\ IsSequence(r.rhs)
      /\ m \in Nat /\ h \in Nat /\ m <= h
      /\ \A k \in 1..m : stack[n + k].sym = r.rhs[k]
  BY Reduced
<1>5. IsSequence(stack) /\ pos \in 0..Len(text)
      /\ \A k \in 1..h : stack[k].sym # End /\ KindOK(stack[k].sym, stack[k].val)
  BY <1>3 DEF TypedAs
<1> HIDE DEF r
<1>6. n \in 0..h /\ h - n = m /\ n \in Nat
  BY <1>4
<1>7. \A k \in 1..m : vals[k] = stack[n + k]
  BY <1>5, <1>6, SuffixFacts
<1>8. IsSequence(base) /\ Len(base) = n /\ \A k \in 1..n : base[k] = stack[k]
  BY <1>5, <1>6, PrefixFacts
<1>9. Viable(base)
  BY <1>3, <1>5, <1>6, ViablePrefix
<1>10. \A k \in 1..m : n + k \in 1..h
  BY <1>4, <1>6
<1> HIDE DEF n, vals, base, m, h
<1>11. \A k \in 1..m : KindOK(r.rhs[k], vals[k].val)
  BY <1>4, <1>5, <1>7, <1>10
<1>12. KindOK(r.cat, w)
  BY <1>3, <1>4, <1>11, ReduceKind DEF m
<1>13. TypedAs(base, pos)
  <2>1. \A k \in 1..n : k \in 1..h
    BY <1>4, <1>6
  <2> QED
    BY <1>5, <1>8, <2>1 DEF TypedAs
<1> HIDE DEF w
<1>14. TypedAs(t, pos)
  BY <1>4, <1>5, <1>12, <1>13, PushTyped
<1>15. Viable(t)
  BY <1>3, <1>8, <1>9, ViablePush
<1>16. SpannedAs(t, pos)
  <2>1. SUFFICES ASSUME Plain, NEW Y, Derives(Y) PROVE \E c : Spans(Y, t, pos, c)
    BY DEF SpannedAs
  <2>2. PICK cut : Spans(Y, stack, pos, cut)
    BY <1>3, <2>1 DEF Spanned
  <2>3. /\ cut \in [0..h -> 0..Len(text)] /\ cut[h] = pos
        /\ \A k \in 1..h : Stands(Y, stack[k].sym, stack[k].val, cut[k - 1], cut[k])
    BY <2>2 DEF Spans, h
  <2> DEFINE sub == [k \in 0..m |-> cut[n + k]]
  <2>4. \A k \in 0..m : n + k \in 0..h
    BY <1>4, <1>6
  <2>5. sub \in [0..m -> 0..Len(text)]
    BY <2>3, <2>4
  <2>6. sub[0] = cut[n] /\ sub[m] = pos
    <3>1. 0 \in 0..m /\ m \in 0..m /\ n + 0 = n /\ n + m = h
      BY <1>4, <1>6
    <3> QED
      BY <2>3, <3>1
  <2>7. ASSUME NEW k \in 1..m PROVE Stands(Y, r.rhs[k], vals[k].val, sub[k - 1], sub[k])
    <3>1. k - 1 \in 0..m /\ k \in 0..m /\ n + (k - 1) = (n + k) - 1
      BY <1>4, <1>6
    <3>2. sub[k - 1] = cut[(n + k) - 1] /\ sub[k] = cut[n + k]
      BY <3>1
    <3> HIDE DEF sub
    <3> QED
      BY <1>4, <1>7, <1>10, <2>3, <3>2
  <2> HIDE DEF sub
  <2>8. Stands(Y, r.cat, w, cut[n], pos)
    BY <1>3, <1>4, <1>11, <2>1, <2>5, <2>6, <2>7, ReduceStands DEF m, w
  <2>9. Spans(Y, base, cut[n], [k \in 0..n |-> cut[k]])
    BY <1>5, <1>6, <2>2, PrefixSpans DEF base, h
  <2> QED
    BY <1>3, <1>5, <1>8, <2>8, <2>9, PushSpans
<1>17. SoundAs(result)
  BY <1>3 DEF Sound, SoundAs
<1> HIDE DEF t
<1> QED
  BY <1>2, <1>3, <1>14, <1>15, <1>16, <1>17, Unchanged

(* The parser accepts where the stack is the entry point's category.        *)
LEMMA ReturnKeeps ==
    ASSUME IInv, Return
    PROVE  IInv'
<1> DEFINE v == stack[1].val
           s == grammar.start
<1>1. /\ pos = Len(text) /\ shifts # {} /\ result' = parseMethod(v)
      /\ UNCHANGED <<grammar, mode, parser, text, pos, stack>>
  BY DEF Return
<1>2. Given /\ TypedAs(stack, pos) /\ Viable(stack) /\ Spanned
  BY DEF IInv, Typed, TypedAs
<1>3. IsSequence(stack) /\ \A k \in 1..Len(stack) : KindOK(stack[k].sym, stack[k].val)
  BY <1>2 DEF TypedAs
<1>4. Len(stack) = 1 /\ stack[1].sym = s
  <2>1. PICK i \in items : Before(i, End)
    BY <1>1 DEF shifts, lookahead
  <2> DEFINE r == i.rule
  <2>2. Fits(stack, Len(stack), i) /\ Len(stack) \in Nat
    BY <1>2, <1>3, StateIs DEF Viable, items
  <2>3. r \in parser.rules /\ i.dot \in 0..Len(r.rhs) /\ (r.cat = Accept => i.dot = Len(stack))
        /\ \A d \in 1..i.dot : stack[Len(stack) - i.dot + d].sym = r.rhs[d]
    BY <2>2 DEF Fits
  <2>4. i.dot # Len(r.rhs) /\ r.rhs[i.dot + 1] = End
    BY <2>1 DEF Before, Complete
  <2>5. Len(r.rhs) \in Nat
    BY <1>2, <2>3, ParserRules
  <2>6. i.dot \in Nat /\ i.dot + 1 \in 1..Len(r.rhs)
    BY <2>3, <2>4, <2>5
  <2>7. r.cat = Accept /\ r.rhs = <<s, End>>
    BY <1>2, <2>3, <2>4, <2>6, ParserRules
  <2>8. s # End
    BY <1>2, DeclaredAssumption DEF Given
  <2>9. Len(r.rhs) = 2 /\ r.rhs[1] = s
    BY <2>7
  <2> HIDE DEF r, s
  <2>10. i.dot = 1
    BY <2>4, <2>6, <2>8, <2>9
  <2>11. Len(stack) = 1 /\ Len(stack) - i.dot + 1 = 1 /\ 1 \in 1..i.dot
    BY <2>3, <2>7, <2>10
  <2> QED
    BY <2>3, <2>9, <2>11 DEF s
<1>5. KindOK(s, v)
  <2>1. 1 \in 1..Len(stack)
    BY <1>4
  <2> QED
    BY <1>3, <1>4, <2>1
<1>6. parseMethod(v) = inOrder(s, v)
  <2>1. mode \in {"C", "STL"}
    BY <1>2, ModesAssumption DEF Given
  <2> HIDE DEF v
  <2> QED
    BY <2>1 DEF parseMethod, inOrder, wrong
<1> HIDE DEF v
<1>7. SoundAs(result')
  <2>1. SUFFICES ASSUME Plain, NEW Y, Derives(Y) PROVE Reads(Y, s, inOrder(s, v), 0, Len(text))
    BY <1>1, <1>6 DEF SoundAs
  <2>2. PICK cut : Spans(Y, stack, pos, cut)
    BY <1>2, <2>1 DEF Spanned
  <2>3. cut[0] = 0 /\ cut[1] = Len(text) /\ \A k \in 1..1 : Stands(Y, stack[k].sym, stack[k].val, cut[k - 1], cut[k])
    BY <1>1, <1>4, <2>2 DEF Spans
  <2>4. Stands(Y, s, v, 0, Len(text))
    <3>1. 1 \in 1..1 /\ 1 - 1 = 0
      OBVIOUS
    <3> QED
      BY <1>4, <2>3, <3>1 DEF v
  <2>5. 0 \in 0..Len(text) /\ Len(text) \in 0..Len(text)
    BY <1>2, TextFacts
  <2> QED
    BY <1>2, <1>5, <2>1, <2>4, <2>5, StandsReads
<1>8. SpannedAs(stack, pos)
  BY <1>2 DEF Spanned, SpannedAs
<1> QED
  BY <1>1, <1>2, <1>7, <1>8, Unchanged

LEMMA InitEstablishes ==
    ASSUME Init
    PROVE  IInv
<1>1. /\ grammar \in Declared /\ mode \in Modes
      /\ parser = Generated(Augmented(constructRules, grammar.start))
      /\ pos = 0 /\ stack = <<>> /\ result = <<>>
  BY DEF Init
<1>2. Given
  <2>1. \E i \in Inputs(grammar) : text = i.text
    BY DEF Init
  <2> QED
    BY <1>1, <2>1 DEF Given
<1>3. Len(text) \in Nat /\ Len(<<>>) = 0 /\ <<>> \in Seq({})
  BY <1>2, TextFacts
<1>4. Typed
  BY <1>1, <1>3 DEF Typed, IsSequence
<1>5. Viable(stack)
  BY <1>1, <1>2, ViableAtFirst
<1>6. Spanned
  <2>1. SUFFICES ASSUME NEW Y PROVE \E cut : Spans(Y, <<>>, 0, cut)
    BY <1>1 DEF Spanned
  <2> DEFINE cut == [k \in 0..0 |-> 0]
  <2>2. cut \in [0..0 -> 0..Len(text)] /\ cut[0] = 0
    BY <1>3
  <2> HIDE DEF cut
  <2>3. Spans(Y, <<>>, 0, cut)
    BY <1>3, <2>2 DEF Spans
  <2> QED
    BY <2>3
<1>7. Sound
  BY <1>1 DEF Sound
<1> QED
  BY <1>2, <1>4, <1>5, <1>6, <1>7 DEF IInv

LEMMA StepKeeps ==
    ASSUME IInv, [Next]_vars
    PROVE  IInv'
<1>1. CASE Shift
  BY <1>1, ShiftKeeps
<1>2. CASE Reduce
  BY <1>2, ReduceKeeps
<1>3. CASE Return
  BY <1>3, ReturnKeeps
<1>4. CASE UNCHANGED vars
  <2>1. UNCHANGED <<grammar, mode, parser, text, pos, stack, result>>
    BY <1>4 DEF vars
  <2>2. Given /\ TypedAs(stack, pos) /\ Viable(stack) /\ SpannedAs(stack, pos) /\ SoundAs(result)
    BY DEF IInv, Typed, TypedAs, Spanned, SpannedAs, Sound, SoundAs
  <2> QED
    BY <2>1, <2>2, Unchanged
<1> QED
  BY <1>1, <1>2, <1>3, <1>4 DEF Next

-----------------------------------------------------------------------------
(* The inductive invariant: the stack is one that the automaton allows, its  *)
(* values are of the kinds of their categories, and stand for the text that *)
(* has been read.                                                          *)
THEOREM Invariant == Spec => []IInv
<1>1. Init => IInv
  BY InitEstablishes
<1>2. IInv /\ [Next]_vars => IInv'
  BY StepKeeps
<1> QED
  BY <1>1, <1>2, PTL DEF Spec

(* The actions give each category a value of its kind: lists, of lists or    *)
(* not, or none (generatePatterns, generateAction).                         *)
THEOREM TypeCorrect == Spec => []TypeOK
<1>1. IInv => TypeOK
  <2>1. SUFFICES ASSUME IInv PROVE TypeOK
    OBVIOUS
  <2>2. DOMAIN stack = 1..Len(stack)
    BY DEF IInv, Typed, IsSequence
  <2> QED
    BY <2>1, <2>2 DEF IInv, Given, Typed, KindOK, TypeOK
<1> QED
  BY <1>1, Invariant, PTL

(* A parser returns only trees that the grammar, as it was declared, derives *)
(* from the whole text: neither lists that are turned around, nor the order *)
(* that their elements are kept in, nor the lookahead make it return        *)
(* another one (constructRule, generatePatterns, generateAction,            *)
(* parseMethod).                                                           *)
THEOREM SoundAlways == Spec => []Sound
<1>1. IInv => Sound
  BY DEF IInv
<1> QED
  BY <1>1, Invariant, PTL
=============================================================================
