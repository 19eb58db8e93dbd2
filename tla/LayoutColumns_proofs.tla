-------------------------- MODULE LayoutColumns_proofs --------------------------
(***************************************************************************)
(* Proofs about the columns of the layout resolver, for all grammars, files *)
(* and token lengths: elements that begin lines are separated on any input, *)
(* and on tidy input the columns of the stack stay in order.                *)
(***************************************************************************)
EXTENDS LayoutColumns, LayoutResolver_proofs

-----------------------------------------------------------------------------
(* The order of the columns on a stack.                                     *)

(* Dropping the n innermost blocks keeps the order.                         *)
LEMMA SuffixOrdered ==
    ASSUME NEW bs \in Seq(Block), NEW cs \in Seq(Block), NEW n \in Nat,
           Len(bs) = Len(cs) + n, \A i \in 1..Len(cs) : cs[i] = bs[i + n]
    PROVE  /\ OverConfirmed(bs) => OverConfirmed(cs)
           /\ OverTentative(bs) => OverTentative(cs)
<1>1. \A i \in 1..Len(cs) : i + n \in 1..Len(bs)
  OBVIOUS
<1>2. \A i, j \in 1..Len(cs) : Together(cs, i, j) => Together(bs, i + n, j + n)
  <2> SUFFICES ASSUME NEW i \in 1..Len(cs), NEW j \in 1..Len(cs), Together(cs, i, j),
                      NEW k \in (i + n)..(j + n)
               PROVE  isImplicit(bs[k])
    BY DEF Together
  <2>1. k - n \in i..j /\ k - n \in 1..Len(cs) /\ (k - n) + n = k
    OBVIOUS
  <2> QED
    BY <2>1 DEF Together
<1>3. \A i, j \in 1..Len(cs) :
        Unconfirmed(cs, i, j) => Unconfirmed(bs, i + n, j + n)
  <2> SUFFICES ASSUME NEW i \in 1..Len(cs), NEW j \in 1..Len(cs), Unconfirmed(cs, i, j),
                      NEW k \in (i + n)..(j + n)
               PROVE  isTentative(bs[k])
    BY DEF Unconfirmed
  <2>1. k - n \in i..j /\ k - n \in 1..Len(cs) /\ (k - n) + n = k
    OBVIOUS
  <2> QED
    BY <2>1 DEF Unconfirmed
<1>4. ASSUME OverConfirmed(bs) PROVE OverConfirmed(cs)
  <2> SUFFICES ASSUME NEW i \in DOMAIN cs, NEW j \in DOMAIN cs, i < j,
                      Together(cs, i, j), ~isTentative(cs[j])
               PROVE  cs[i].col > cs[j].col
    BY DEF OverConfirmed
  <2>1. i + n \in DOMAIN bs /\ j + n \in DOMAIN bs /\ i + n < j + n
        /\ cs[i] = bs[i + n] /\ cs[j] = bs[j + n]
    BY <1>1
  <2>2. Together(bs, i + n, j + n)
    BY <1>2
  <2> QED
    BY <1>4, <2>1, <2>2 DEF OverConfirmed
<1>5. ASSUME OverTentative(bs) PROVE OverTentative(cs)
  <2> SUFFICES ASSUME NEW i \in DOMAIN cs, NEW j \in DOMAIN cs, i < j,
                      Together(cs, i, j), Unconfirmed(cs, i, j)
               PROVE  cs[i].col > cs[j].col
    BY DEF OverTentative
  <2>1. i + n \in DOMAIN bs /\ j + n \in DOMAIN bs /\ i + n < j + n
        /\ cs[i] = bs[i + n] /\ cs[j] = bs[j + n]
    BY <1>1
  <2>2. Together(bs, i + n, j + n) /\ Unconfirmed(bs, i + n, j + n)
    BY <1>2, <1>3
  <2> QED
    BY <1>5, <2>1, <2>2 DEF OverTentative
<1> QED
  BY <1>4, <1>5

LEMMA FromOrdered ==
    ASSUME NEW bs \in Seq(Block), NEW i \in 1..Len(bs)
    PROVE  /\ OverConfirmed(bs) => OverConfirmed(From(bs, i))
           /\ OverTentative(bs) => OverTentative(From(bs, i))
<1> DEFINE cs == From(bs, i)
           n  == i - 1
<1>1. cs \in Seq(Block) /\ Len(cs) = Len(bs) - i + 1
      /\ \A j \in 1..Len(cs) : cs[j] = bs[i + j - 1]
  BY SubSeqProperties DEF From
<1>2. n \in Nat /\ Len(bs) = Len(cs) + n /\ \A j \in 1..Len(cs) : cs[j] = bs[j + n]
  BY <1>1
<1> HIDE DEF cs, n
<1>3. cs \in Seq(Block)
  BY <1>1
<1>4. (OverConfirmed(bs) => OverConfirmed(cs)) /\ (OverTentative(bs) => OverTentative(cs))
  BY <1>2, <1>3, SuffixOrdered
<1> QED
  BY <1>4 DEF cs

LEMMA TailOrdered ==
    ASSUME NEW bs \in Seq(Block), bs # <<>>
    PROVE  /\ OverConfirmed(bs) => OverConfirmed(Tail(bs))
           /\ OverTentative(bs) => OverTentative(Tail(bs))
<1> DEFINE cs == Tail(bs)
<1>1. cs \in Seq(Block) /\ Len(bs) = Len(cs) + 1 /\ \A j \in 1..Len(cs) : cs[j] = bs[j + 1]
  BY HeadTailProperties
<1> HIDE DEF cs
<1>2. (OverConfirmed(bs) => OverConfirmed(cs)) /\ (OverTentative(bs) => OverTentative(cs))
  BY <1>1, SuffixOrdered
<1> QED
  BY <1>2 DEF cs

(* A block on top of a stack keeps the order if it is more indented than    *)
(* those that count.                                                        *)
LEMMA PushOrdered ==
    ASSUME NEW bs \in Seq(Block), NEW b \in Block, OverConfirmed(bs)
    PROVE  LET cs == <<b>> \o bs
               Under(j) == isImplicit(b) /\ Together(bs, 1, j)
           IN  /\ (\A j \in 1..Len(bs) : Under(j) /\ ~isTentative(bs[j]) => b.col > bs[j].col)
                     => OverConfirmed(cs)
               /\ OverTentative(bs)
                  /\ (\A j \in 1..Len(bs) : 
                        Under(j) /\ isTentative(b) /\ Unconfirmed(bs, 1, j)
                           => b.col > bs[j].col)
                     => OverTentative(cs)
<1> DEFINE cs == <<b>> \o bs
           Under(j) == isImplicit(b) /\ Together(bs, 1, j)
<1>1. cs \in Seq(Block) /\ Len(cs) = Len(bs) + 1
      /\ cs[1] = b /\ (\A j \in 2..Len(cs) : cs[j] = bs[j - 1])
  BY ConcatProperties
<1> HIDE DEF cs
<1>2. \A j \in 2..Len(cs) : j - 1 \in 1..Len(bs)
  BY <1>1
<1>3. \A i, j \in 2..Len(cs) : Together(cs, i, j) => Together(bs, i - 1, j - 1)
  <2> SUFFICES ASSUME NEW i \in 2..Len(cs), NEW j \in 2..Len(cs), Together(cs, i, j),
                      NEW k \in (i - 1)..(j - 1)
               PROVE  isImplicit(bs[k])
    BY DEF Together
  <2>1. k + 1 \in i..j /\ k + 1 \in 2..Len(cs) /\ (k + 1) - 1 = k
    BY <1>1
  <2> QED
    BY <1>1, <2>1 DEF Together
<1>4. \A i, j \in 2..Len(cs) :
        Unconfirmed(cs, i, j) => Unconfirmed(bs, i - 1, j - 1)
  <2> SUFFICES ASSUME NEW i \in 2..Len(cs), NEW j \in 2..Len(cs),
                      Unconfirmed(cs, i, j), NEW k \in (i - 1)..(j - 1)
               PROVE  isTentative(bs[k])
    BY DEF Unconfirmed
  <2>1. k + 1 \in i..j /\ k + 1 \in 2..Len(cs) /\ (k + 1) - 1 = k
    BY <1>1
  <2> QED
    BY <1>1, <2>1 DEF Unconfirmed
<1>5. \A j \in 2..Len(cs) : Together(cs, 1, j) => Under(j - 1)
  <2> SUFFICES ASSUME NEW j \in 2..Len(cs), Together(cs, 1, j)
               PROVE  Under(j - 1)
    OBVIOUS
  <2>1. isImplicit(cs[1]) /\ Together(cs, 2, j)
    BY <1>1 DEF Together
  <2>2. Together(bs, 2 - 1, j - 1)
    BY <1>1, <1>3, <2>1
  <2> QED
    BY <1>1, <2>1, <2>2
<1>6. \A j \in 2..Len(cs) :
        Unconfirmed(cs, 1, j) => isTentative(b) /\ Unconfirmed(bs, 1, j - 1)
  <2> SUFFICES ASSUME NEW j \in 2..Len(cs), Unconfirmed(cs, 1, j)
               PROVE  isTentative(b) /\ Unconfirmed(bs, 1, j - 1)
    OBVIOUS
  <2>1. isTentative(cs[1]) /\ Unconfirmed(cs, 2, j)
    BY DEF Unconfirmed
  <2>2. Unconfirmed(bs, 2 - 1, j - 1)
    BY <1>1, <1>4, <2>1
  <2> QED
    BY <1>1, <2>1, <2>2
<1> HIDE DEF Under
<1>7. ASSUME \A j \in 1..Len(bs) : Under(j) /\ ~isTentative(bs[j]) => b.col > bs[j].col
      PROVE  OverConfirmed(cs)
  <2> SUFFICES ASSUME NEW i \in DOMAIN cs, NEW j \in DOMAIN cs, i < j,
                      Together(cs, i, j), ~isTentative(cs[j])
               PROVE  cs[i].col > cs[j].col
    BY DEF OverConfirmed
  <2>1. j \in 2..Len(cs) /\ cs[j] = bs[j - 1] /\ j - 1 \in 1..Len(bs)
    BY <1>1, <1>2
  <2>2. CASE i = 1
    BY <1>1, <1>5, <1>7, <2>1, <2>2
  <2>3. CASE i # 1
    <3>1. i \in 2..Len(cs) /\ cs[i] = bs[i - 1] /\ i - 1 \in 1..Len(bs) /\ i - 1 < j - 1
      BY <1>1, <1>2, <2>3
    <3>2. Together(bs, i - 1, j - 1)
      BY <1>3, <2>1, <3>1
    <3> QED
      BY <2>1, <3>1, <3>2 DEF OverConfirmed
  <2> QED
    BY <2>2, <2>3
<1>8. ASSUME OverTentative(bs),
             \A j \in 1..Len(bs) :
                Under(j) /\ isTentative(b) /\ Unconfirmed(bs, 1, j)
                   => b.col > bs[j].col
      PROVE  OverTentative(cs)
  <2> SUFFICES ASSUME NEW i \in DOMAIN cs, NEW j \in DOMAIN cs, i < j,
                      Together(cs, i, j), Unconfirmed(cs, i, j)
               PROVE  cs[i].col > cs[j].col
    BY DEF OverTentative
  <2>1. j \in 2..Len(cs) /\ cs[j] = bs[j - 1] /\ j - 1 \in 1..Len(bs)
    BY <1>1, <1>2
  <2>2. CASE i = 1
    BY <1>1, <1>5, <1>6, <1>8, <2>1, <2>2
  <2>3. CASE i # 1
    <3>1. i \in 2..Len(cs) /\ cs[i] = bs[i - 1] /\ i - 1 \in 1..Len(bs) /\ i - 1 < j - 1
      BY <1>1, <1>2, <2>3
    <3>2. Together(bs, i - 1, j - 1) /\ Unconfirmed(bs, i - 1, j - 1)
      BY <1>3, <1>4, <2>1, <3>1
    <3> QED
      BY <1>8, <2>1, <3>1, <3>2 DEF OverTentative
  <2> QED
    BY <2>2, <2>3
<1> QED
  BY <1>7, <1>8 DEF cs, Under

(* confirm keeps the order: what it confirms was in order already.          *)
LEMMA ConfirmOrdered ==
    ASSUME NEW bs \in Seq(Block), NEW c0, OverConfirmed(bs), OverTentative(bs)
    PROVE  OverConfirmed(confirm(c0, bs)) /\ OverTentative(confirm(c0, bs))
<1> DEFINE cs == confirm(c0, bs)
<1>1. cs \in Seq(Block) /\ Len(cs) = Len(bs)
      /\ \A i \in 1..Len(bs) : cs[i].kind = bs[i].kind /\ cs[i].col = bs[i].col
  BY ConfirmProperties
<1>2. \A i \in 1..Len(bs) :
        /\ isTentative(cs[i]) => isTentative(bs[i])
        /\ isTentative(bs[i]) /\ ~isTentative(cs[i]) => \A k \in 1..i : isTentative(bs[k])
  BY DEF confirm, definitive, isTentative
<1> HIDE DEF cs
<1>3. \A i, j \in 1..Len(bs) : Together(cs, i, j) => Together(bs, i, j)
  <2> SUFFICES ASSUME NEW i \in 1..Len(bs), NEW j \in 1..Len(bs), Together(cs, i, j),
                      NEW k \in i..j
               PROVE  isImplicit(bs[k])
    BY DEF Together
  <2>1. k \in 1..Len(bs)
    OBVIOUS
  <2> QED
    BY <1>1, <2>1 DEF Together, isImplicit
<1>4. OverConfirmed(cs)
  <2> SUFFICES ASSUME NEW i \in 1..Len(bs), NEW j \in 1..Len(bs), i < j,
                      Together(cs, i, j), ~isTentative(cs[j])
               PROVE  cs[i].col > cs[j].col
    BY <1>1 DEF OverConfirmed
  <2>1. Together(bs, i, j) /\ cs[i].col = bs[i].col /\ cs[j].col = bs[j].col
    BY <1>1, <1>3
  <2>2. CASE ~isTentative(bs[j])
    BY <2>1, <2>2 DEF OverConfirmed
  <2>3. CASE isTentative(bs[j])
    <3>1. Unconfirmed(bs, i, j)
      BY <1>2, <2>3 DEF Unconfirmed
    <3> QED
      BY <2>1, <3>1 DEF OverTentative
  <2> QED
    BY <2>2, <2>3
<1>5. OverTentative(cs)
  <2> SUFFICES ASSUME NEW i \in 1..Len(bs), NEW j \in 1..Len(bs), i < j,
                      Together(cs, i, j), Unconfirmed(cs, i, j)
               PROVE  cs[i].col > cs[j].col
    BY <1>1 DEF OverTentative
  <2>1. Together(bs, i, j) /\ cs[i].col = bs[i].col /\ cs[j].col = bs[j].col
    BY <1>1, <1>3
  <2>2. Unconfirmed(bs, i, j)
    BY <1>2 DEF Unconfirmed
  <2> QED
    BY <2>1, <2>2 DEF OverTentative
<1> QED
  BY <1>4, <1>5 DEF cs

(* To confirm the innermost block is to confirm the stack up to its column. *)
LEMMA ConfirmInnermost ==
    ASSUME NEW bs \in Seq(Block), bs # <<>>, isTentative(bs[1])
    PROVE  <<definitive(bs[1])>> \o confirm(bs[1].col, Tail(bs)) = confirm(bs[1].col, bs)
<1> DEFINE c  == bs[1].col
           tl == Tail(bs)
           s  == <<definitive(bs[1])>> \o confirm(c, tl)
<1>1. tl \in Seq(Block) /\ Len(bs) = Len(tl) + 1 /\ \A i \in 1..Len(tl) : tl[i] = bs[i + 1]
  BY HeadTailProperties
<1>2. bs[1] \in Block /\ c \in Nat /\ c <= c
  <2>1. bs[1] \in Block
    OBVIOUS
  <2> QED
    BY <2>1 DEF Block
<1>3. definitive(bs[1]) \in Block
  BY <1>2, DefinitiveBlock
<1> HIDE DEF c, tl
<1>4. confirm(c, tl) \in Seq(Block) /\ Len(confirm(c, tl)) = Len(tl)
  BY <1>1, ConfirmProperties
<1>5. s \in Seq(Block) /\ Len(s) = Len(bs) /\ s[1] = definitive(bs[1])
      /\ \A i \in 2..Len(bs) : s[i] = confirm(c, tl)[i - 1]
  BY <1>1, <1>3, <1>4, ConcatProperties
<1>6. confirm(c, bs) \in Seq(Block) /\ Len(confirm(c, bs)) = Len(bs)
  BY ConfirmProperties
<1>7. confirm(c, bs)[1] = definitive(bs[1])
  BY <1>2 DEF confirm, c
<1>8. ASSUME NEW i \in 2..Len(bs)
      PROVE  confirm(c, tl)[i - 1] = confirm(c, bs)[i]
  <2>1. i - 1 \in 1..Len(tl) /\ tl[i - 1] = bs[i]
    BY <1>1
  <2>2. (\A j \in 1..(i - 1) : isTentative(tl[j]) /\ tl[j].col <= c)
           <=> (\A j \in 1..i : isTentative(bs[j]) /\ bs[j].col <= c)
    <3>1. ASSUME \A j \in 1..(i - 1) : isTentative(tl[j]) /\ tl[j].col <= c, NEW j \in 1..i
          PROVE  isTentative(bs[j]) /\ bs[j].col <= c
      <4>1. CASE j = 1
        BY <1>2, <4>1 DEF c
      <4>2. CASE j # 1
        <5>1. j - 1 \in 1..(i - 1) /\ j - 1 \in 1..Len(tl) /\ (j - 1) + 1 = j
          BY <2>1, <4>2
        <5> QED
          BY <1>1, <3>1, <5>1
      <4> QED
        BY <4>1, <4>2
    <3>2. ASSUME \A j \in 1..i : isTentative(bs[j]) /\ bs[j].col <= c, NEW j \in 1..(i - 1)
          PROVE  isTentative(tl[j]) /\ tl[j].col <= c
      <4>1. j + 1 \in 1..i /\ j \in 1..Len(tl)
        BY <2>1
      <4> QED
        BY <1>1, <3>2, <4>1
    <3> QED
      BY <3>1, <3>2
  <2>3. i \in 1..Len(bs)
    OBVIOUS
  <2>4. i - 1 \in DOMAIN tl /\ i \in DOMAIN bs
    BY <2>1, <2>3
  <2>5. confirm(c, tl)[i - 1] =
          IF \A j \in 1..(i - 1) : isTentative(tl[j]) /\ tl[j].col <= c
          THEN definitive(tl[i - 1]) ELSE tl[i - 1]
    BY <2>4 DEF confirm
  <2>6. confirm(c, bs)[i] =
          IF \A j \in 1..i : isTentative(bs[j]) /\ bs[j].col <= c
          THEN definitive(bs[i]) ELSE bs[i]
    BY <2>4 DEF confirm
  <2> QED
    BY <2>1, <2>2, <2>5, <2>6
<1>9. \A i \in 1..Len(bs) : s[i] = confirm(c, bs)[i]
  BY <1>5, <1>7, <1>8
<1> HIDE DEF s
<1>10. s = confirm(c, bs)
  BY <1>5, <1>6, <1>9, SeqEqual
<1> QED
  BY <1>10 DEF s, c, tl

(* The first number from 1 to n that is not in T, as FirstNot finds it.     *)
LEMMA FirstOutside ==
    ASSUME NEW n \in Nat, NEW T, NEW f,
           LET D == {i \in 1..n : i \notin T /\ \A j \in 1..(i-1) : j \in T}
           IN  f = IF D = {} THEN n + 1 ELSE CHOOSE i \in D : TRUE
    PROVE  /\ f \in 1..(n + 1)
           /\ f <= n => f \notin T
           /\ \A k \in 1..n : k < f => k \in T
<1> DEFINE D == {i \in 1..n : i \notin T /\ \A j \in 1..(i-1) : j \in T}
           S == {i \in 1..n : i \notin T}
<1>1. f = IF D = {} THEN n + 1 ELSE CHOOSE i \in D : TRUE
  OBVIOUS
<1>2. CASE S = {}
  <2>1. D = {} /\ \A k \in 1..n : k \in T
    BY <1>2
  <2> QED
    BY <1>1, <2>1
<1>3. CASE S # {}
  <2>1. PICK i \in S : \A j \in S : i <= j
    <3>1. S \in SUBSET Nat
      OBVIOUS
    <3> HIDE DEF S
    <3> QED
      BY <1>3, <3>1, LeastElement
  <2>2. \A j \in 1..(i - 1) : j \in 1..n /\ ~(i <= j)
    OBVIOUS
  <2>3. i \in D
    BY <2>1, <2>2
  <2>4. f \in D
    BY <1>1, <2>3
  <2> HIDE DEF S
  <2>5. f \in 1..n /\ f \notin T /\ \A j \in 1..(f-1) : j \in T
    BY <2>4
  <2>6. \A k \in 1..n : k < f => k \in 1..(f-1)
    BY <2>5
  <2> QED
    BY <2>5, <2>6
<1> QED
  BY <1>2, <1>3

(* FirstNot is the first index whose block fails the test, if any.          *)
LEMMA FirstNotIs ==
    ASSUME NEW bs \in Seq(Block)
    PROVE  LET f == FirstNot(bs, isTentative)
           IN  /\ f \in 1..(Len(bs) + 1)
               /\ f <= Len(bs) => ~isTentative(bs[f])
               /\ \A k \in 1..Len(bs) : k < f => isTentative(bs[k])
<1> DEFINE f == FirstNot(bs, isTentative)
           T == {i \in DOMAIN bs : isTentative(bs[i])}
           D == {i \in 1..Len(bs) : i \notin T /\ \A j \in 1..(i-1) : j \in T}
           F == {i \in DOMAIN bs : /\ ~isTentative(bs[i])
                                   /\ \A j \in 1..(i-1) : isTentative(bs[j])}
<1>1. DOMAIN bs = 1..Len(bs) /\ Len(bs) \in Nat
  OBVIOUS
<1>2. D = F
  <2>1. \A i \in DOMAIN bs : \A j \in 1..(i-1) : j \in DOMAIN bs
    BY <1>1
  <2> QED
    BY <1>1, <2>1
<1>3. f = IF F = {} THEN Len(bs) + 1 ELSE CHOOSE i \in F : TRUE
  BY DEF FirstNot
<1>4. f = IF D = {} THEN Len(bs) + 1 ELSE CHOOSE i \in D : TRUE
  BY <1>2, <1>3
<1> HIDE DEF f, T, F
<1>5. /\ f \in 1..(Len(bs) + 1)
      /\ f <= Len(bs) => f \notin T
      /\ \A k \in 1..Len(bs) : k < f => k \in T
  BY <1>1, <1>4, FirstOutside
<1>6. f <= Len(bs) => ~isTentative(bs[f])
  BY <1>1, <1>5 DEF T
<1>7. \A k \in 1..Len(bs) : k < f => isTentative(bs[k])
  BY <1>1, <1>5 DEF T
<1> QED
  BY <1>5, <1>6, <1>7 DEF f

(* The indentation of a stack in order: all confirmed blocks inside the      *)
(* innermost brackets are within it, and it is within the innermost block.  *)
LEMMA IndentationIs ==
    ASSUME NEW bs \in Seq(Block), bs # <<>>, OverConfirmed(bs),
           Known(bs)
    PROVE  /\ definiteIndentation(bs) \in Nat
           /\ \A j \in 1..Len(bs) : Together(bs, 1, j) /\ ~isTentative(bs[j])
                                       => bs[j].col <= definiteIndentation(bs)
           /\ definiteIndentation(bs) <= bs[1].col
<1> DEFINE f == FirstNot(bs, isTentative)
           d == definiteIndentation(bs)
<1>1. /\ f \in 1..(Len(bs) + 1)
      /\ f <= Len(bs) => ~isTentative(bs[f])
      /\ \A k \in 1..Len(bs) : k < f => isTentative(bs[k])
  BY FirstNotIs
<1>2. DOMAIN bs = 1..Len(bs) /\ Len(bs) \in Nat /\ Len(bs) >= 1
  OBVIOUS
<1>3. \A i \in 1..Len(bs) : bs[i].col \in Nat
  <2>1. \A i \in 1..Len(bs) : bs[i] \in Block
    OBVIOUS
  <2> QED
    BY <2>1 DEF Block
<1>4. d = IF f \in 1..Len(bs) THEN bs[f].col ELSE 0
  BY <1>2 DEF definiteIndentation
<1> HIDE DEF f, d
<1>5. d \in Nat
  BY <1>3, <1>4
<1>6. ASSUME NEW j \in 1..Len(bs), Together(bs, 1, j), ~isTentative(bs[j])
      PROVE  bs[j].col <= d
  <2>1. f \in 1..Len(bs) /\ f <= j
    BY <1>1, <1>2, <1>6
  <2>2. CASE f = j
    BY <1>3, <1>4, <2>1, <2>2
  <2>3. CASE f < j
    <3>1. Together(bs, f, j)
      BY <1>6, <2>1 DEF Together
    <3>2. bs[f].col > bs[j].col
      BY <1>2, <1>6, <2>1, <2>3, <3>1 DEF OverConfirmed
    <3> QED
      BY <1>3, <1>4, <2>1, <3>2
  <2> QED
    BY <2>1, <2>2, <2>3
<1>7. d <= bs[1].col
  <2>1. CASE f \notin 1..Len(bs)
    BY <1>2, <1>3, <1>4, <2>1
  <2>2. CASE f = 1
    BY <1>2, <1>3, <1>4, <2>2
  <2>3. CASE f \in 1..Len(bs) /\ f # 1 /\ ~isImplicit(bs[f])
    BY <1>2, <1>3, <1>4, <2>3 DEF Known
  <2>4. CASE f \in 1..Len(bs) /\ f # 1 /\ isImplicit(bs[f])
    <3>1. \A k \in 1..f : k \in DOMAIN bs /\ (k < f => isTentative(bs[k]))
      BY <1>1, <1>2, <2>4
    <3>2. Together(bs, 1, f)
      BY <2>4, <3>1 DEF Together, Known
    <3>3. 1 \in DOMAIN bs /\ f \in DOMAIN bs /\ 1 < f /\ ~isTentative(bs[f])
      BY <1>1, <1>2, <2>4
    <3>4. bs[1].col > bs[f].col
      BY <3>2, <3>3 DEF OverConfirmed
    <3> QED
      BY <1>2, <1>3, <1>4, <2>4, <3>4
  <2> QED
    BY <1>1, <2>1, <2>2, <2>3, <2>4
<1> QED
  BY <1>5, <1>6, <1>7 DEF d

(* Where an implicit block may be pushed: above the indentation, and for a   *)
(* tentative one also right of the innermost block, at c at most.           *)
LEMMA ColumnIs ==
    ASSUME NEW bs \in Seq(Block), NEW c \in Nat, definiteIndentation(bs) \in Nat
    PROVE  /\ newColumn(c, bs) \in Nat
           /\ newColumn(c, bs) >= c /\ newColumn(c, bs) > definiteIndentation(bs)
           /\ definiteIndentation(bs) < c => newColumn(c, bs) = c
BY DEF newColumn

LEMMA ImplicitOrdered ==
    ASSUME NEW bs \in Seq(Block), bs # <<>>, OverConfirmed(bs),
           Known(bs),
           NEW s \in Statuses, NEW c \in Nat, c > definiteIndentation(bs)
    PROVE  LET cs == <<ImplicitBlock(s, c)>> \o bs
           IN  /\ OverConfirmed(cs)
               /\ OverTentative(bs) /\ (s = "Definitive" \/ c > bs[1].col)
                     => OverTentative(cs)
<1> DEFINE b  == ImplicitBlock(s, c)
           cs == <<b>> \o bs
           Under(j) == isImplicit(b) /\ Together(bs, 1, j)
<1>1. b \in Block /\ b.col = c /\ isImplicit(b) /\ (isTentative(b) <=> s = "Tentative")
  BY DEF ImplicitBlock, Block, Kinds, isImplicit, isTentative
<1>2. \A i \in 1..Len(bs) : bs[i].col \in Nat
  <2>1. \A i \in 1..Len(bs) : bs[i] \in Block
    OBVIOUS
  <2> QED
    BY <2>1 DEF Block
<1>3. \A j \in 1..Len(bs) : Under(j) /\ ~isTentative(bs[j]) => b.col > bs[j].col
  BY <1>1, <1>2, IndentationIs
<1>4. ASSUME OverTentative(bs), c > bs[1].col, NEW j \in 1..Len(bs),
             Under(j), Unconfirmed(bs, 1, j)
      PROVE  b.col > bs[j].col
  <2>1. CASE j = 1
    BY <1>1, <1>4, <2>1
  <2>2. CASE j # 1
    <3>1. 1 \in DOMAIN bs /\ j \in DOMAIN bs /\ 1 < j
      BY <1>4, <2>2
    <3>2. bs[1].col > bs[j].col
      BY <1>4, <3>1 DEF OverTentative
    <3> QED
      BY <1>1, <1>2, <1>4, <3>1, <3>2
  <2> QED
    BY <2>1, <2>2
<1> HIDE DEF b
<1>5. OverConfirmed(cs)
  BY <1>1, <1>3, PushOrdered
<1>6. ASSUME OverTentative(bs), s = "Definitive" \/ c > bs[1].col
      PROVE  OverTentative(cs)
  <2>1. \A j \in 1..Len(bs) :
           Under(j) /\ isTentative(b) /\ Unconfirmed(bs, 1, j) => b.col > bs[j].col
    BY <1>1, <1>4, <1>6
  <2> HIDE DEF Under
  <2> QED
    BY <1>1, <1>6, <2>1, PushOrdered DEF Under
<1> QED
  BY <1>5, <1>6 DEF b

LEMMA ExplicitOrdered ==
    ASSUME NEW bs \in Seq(Block), OverConfirmed(bs)
    PROVE  LET cs == <<ExplicitBlock>> \o bs
           IN  OverConfirmed(cs) /\ (OverTentative(bs) => OverTentative(cs))
<1>1. ExplicitBlock \in Block /\ ~isImplicit(ExplicitBlock)
  BY DEF ExplicitBlock, Block, Kinds, Statuses, isImplicit
<1> QED
  BY <1>1, PushOrdered

-----------------------------------------------------------------------------
(* What is known of the blocks.                                             *)

LEMMA SuffixKnown ==
    ASSUME NEW bs \in Seq(Block), Known(bs)
    PROVE  /\ \A i \in 1..Len(bs) : Known(From(bs, i))
           /\ bs # <<>> => Known(Tail(bs))
<1>1. ASSUME NEW i \in 1..Len(bs) PROVE Known(From(bs, i))
  <2> DEFINE cs == From(bs, i)
  <2>1. Len(cs) = Len(bs) - i + 1 /\ cs \in Seq(Block)
        /\ \A j \in 1..Len(cs) : cs[j] = bs[i + j - 1]
    BY SubSeqProperties DEF From
  <2> HIDE DEF cs
  <2>2. \A j \in 1..Len(cs) : i + j - 1 \in DOMAIN bs
    BY <2>1
  <2>3. Known(cs)
    BY <2>1, <2>2 DEF Known
  <2> QED
    BY <2>3 DEF cs
<1>2. ASSUME bs # <<>> PROVE Known(Tail(bs))
  <2> DEFINE cs == Tail(bs)
  <2>1. Len(bs) = Len(cs) + 1 /\ cs \in Seq(Block) /\ \A j \in 1..Len(cs) : cs[j] = bs[j + 1]
    BY <1>2, HeadTailProperties
  <2> HIDE DEF cs
  <2>2. \A j \in 1..Len(cs) : j + 1 \in DOMAIN bs
    BY <2>1
  <2>3. Known(cs)
    BY <2>1, <2>2 DEF Known
  <2> QED
    BY <2>3 DEF cs
<1> QED
  BY <1>1, <1>2

LEMMA PushKnown ==
    ASSUME NEW bs \in Seq(Block), Known(bs), NEW b \in Block,
           IF isImplicit(b) THEN layoutSep # {} ELSE b.col = 0 /\ ~isTentative(b)
    PROVE  Known(<<b>> \o bs)
<1> DEFINE cs == <<b>> \o bs
<1>1. cs \in Seq(Block) /\ Len(cs) = Len(bs) + 1
      /\ cs[1] = b /\ (\A j \in 2..Len(cs) : cs[j] = bs[j - 1])
  BY ConcatProperties
<1> HIDE DEF cs
<1>2. \A j \in 2..Len(cs) : j - 1 \in DOMAIN bs
  BY <1>1
<1>3. \A j \in DOMAIN cs : j = 1 \/ j \in 2..Len(cs)
  BY <1>1
<1>4. Known(cs)
  BY <1>1, <1>2, <1>3 DEF Known
<1> QED
  BY <1>4 DEF cs

LEMMA ConfirmKnown ==
    ASSUME NEW bs \in Seq(Block), Known(bs), NEW c0
    PROVE  Known(confirm(c0, bs))
<1> DEFINE cs == confirm(c0, bs)
<1>1. cs \in Seq(Block) /\ Len(cs) = Len(bs)
      /\ \A i \in 1..Len(bs) : cs[i].kind = bs[i].kind /\ cs[i].col = bs[i].col
  BY ConfirmProperties
<1>2. \A i \in 1..Len(bs) : isTentative(cs[i]) => isTentative(bs[i])
  BY DEF confirm, definitive, isTentative
<1> HIDE DEF cs
<1>3. Known(cs)
  BY <1>1, <1>2 DEF Known, isImplicit
<1> QED
  BY <1>3 DEF cs

LEMMA AddImplicitKnown ==
    ASSUME NEW bs \in Seq(Block), Known(bs), NEW t0, NEW t1 \in Token, layoutSep # {}
    PROVE  Known(addImplicit(t0, t1, bs))
<1>1. t1.col \in Nat
  BY DEF Token
<1>2. \A s \in Statuses, c \in Nat :
        ImplicitBlock(s, c) \in Block /\ isImplicit(ImplicitBlock(s, c))
  BY DEF ImplicitBlock, Block, Kinds, isImplicit
<1>3. CASE t1.line > t0.line
  <2> DEFINE cs == confirm(t1.col, bs)
             b  == ImplicitBlock("Definitive", newColumn(t1.col, cs))
  <2>1. cs \in Seq(Block) /\ Known(cs)
    BY ConfirmProperties, ConfirmKnown
  <2> HIDE DEF cs
  <2>2. b \in Block /\ isImplicit(b)
    BY <1>1, <1>2, <2>1, ColumnIsNat DEF Statuses
  <2> HIDE DEF b
  <2>3. Known(<<b>> \o cs)
    BY <2>1, <2>2, PushKnown
  <2> QED
    BY <1>3, <2>3 DEF addImplicit, cs, b
<1>4. CASE ~(t1.line > t0.line)
  <2> DEFINE b  == ImplicitBlock("Tentative", newColumn(t1.col, bs))
  <2>2. b \in Block /\ isImplicit(b)
    BY <1>1, <1>2, ColumnIsNat DEF Statuses
  <2> HIDE DEF b
  <2>3. Known(<<b>> \o bs)
    BY <2>2, PushKnown
  <2> QED
    BY <1>4, <2>3 DEF addImplicit, b
<1> QED
  BY <1>3, <1>4

-----------------------------------------------------------------------------
(* Lines and blocks, on any input.                                          *)

LEMMA EmptyLen ==
    ASSUME NEW S, NEW s \in Seq(S)
    PROVE  Len(s) \in Nat /\ (s = <<>> <=> Len(s) = 0)
BY EmptySeq

LEMMA InputTokens ==
    ASSUME IInv
    PROVE  /\ \A i \in 1..Len(ts) : ts[i] \in Token /\ ts[i].col \in Nat /\ ts[i].line \in Nat
           /\ ts # <<>> => Len(ts) = 1 \/ Len(ts) = 2
           /\ Len(ts) = 2 => ts # <<>> /\ Tail(ts) # <<>> /\ Tail(ts)[1] = ts[2]
                             /\ Len(Tail(ts)) = 1
           /\ Len(ts) = 1 => ts # <<>> /\ Tail(ts) = <<>> /\ Len(Tail(ts)) = 0
           /\ pt # NoTok => pt \in Token /\ pt.line \in Nat /\ pt.col \in Nat
<1>1. ts \in Seq(Token) /\ Len(ts) <= 2 /\ Len(ts) \in Nat /\ pt \in Token \cup {NoTok}
  BY DEF IInv, TypeOK
<1>2. \A i \in 1..Len(ts) : ts[i] \in Token
  BY <1>1
<1>3. ts # <<>> => Len(ts) # 0
  BY <1>1, EmptySeq
<1>4. ASSUME ts # <<>>
      PROVE  /\ Tail(ts) \in Seq(Token) /\ Len(Tail(ts)) = Len(ts) - 1
             /\ \A i \in 1..(Len(ts) - 1) : Tail(ts)[i] = ts[i + 1]
  BY <1>1, <1>4, HeadTailProperties
<1>5. ASSUME Len(ts) = 2
      PROVE  ts # <<>> /\ Tail(ts) # <<>> /\ Tail(ts)[1] = ts[2] /\ Len(Tail(ts)) = 1
  <2>1. ts # <<>>
    BY <1>5
  <2>2. Len(Tail(ts)) = 1 /\ Tail(ts)[1] = ts[2]
    BY <1>4, <1>5, <2>1
  <2> DEFINE tl == Tail(ts)
  <2>3. tl \in Seq(Token) /\ Len(tl) = 1
    BY <1>4, <2>1, <2>2
  <2> HIDE DEF tl
  <2>4. tl # <<>>
    BY <2>3, EmptyLen
  <2> QED
    BY <2>1, <2>2, <2>4 DEF tl
<1>6. ASSUME Len(ts) = 1
      PROVE  ts # <<>> /\ Tail(ts) = <<>> /\ Len(Tail(ts)) = 0
  <2>1. ts # <<>>
    BY <1>6
  <2>2. Len(Tail(ts)) = 0 /\ Tail(ts) \in Seq(Token)
    BY <1>4, <1>6, <2>1
  <2>3. Tail(ts) = <<>>
    BY <2>2, EmptySeq
  <2> QED
    BY <2>1, <2>2, <2>3
<1>7. pt # NoTok => pt \in Token /\ pt.line \in Nat /\ pt.col \in Nat
  BY <1>1 DEF Token
<1>8. \A i \in 1..Len(ts) : ts[i] \in Token /\ ts[i].col \in Nat /\ ts[i].line \in Nat
  BY <1>2 DEF Token
<1>9. ts # <<>> => Len(ts) = 1 \/ Len(ts) = 2
  <2>1. \A n \in Nat : n <= 2 /\ n # 0 => n = 1 \/ n = 2
    OBVIOUS
  <2> QED
    BY <1>1, <1>3, <2>1
<1> QED
  BY <1>5, <1>6, <1>7, <1>8, <1>9

LEMMA InitLines == Init => LinesInv
<1> SUFFICES ASSUME Init PROVE LinesInv
  OBVIOUS
<1>1. ts = <<>> /\ eof = FALSE /\ pt = NoTok /\ Len(ts) = 0
  BY DEF Init
<1>2. HeadsKnown
  BY <1>1 DEF HeadsKnown
<1>3. ASSUME NEW b, IF isImplicit(b) THEN layoutSep # {} ELSE b.col = 0 /\ ~isTentative(b),
             st = <<b>>
      PROVE  BlocksKnown
  <2>1. DOMAIN st = {1} /\ st[1] = b /\ Len(st) = 1
    BY <1>3
  <2> QED
    BY <1>3, <2>1 DEF BlocksKnown, Known
<1>4. CASE st = <<ExplicitBlock>>
  <2>1. ~isImplicit(ExplicitBlock) /\ ExplicitBlock.col = 0 /\ ~isTentative(ExplicitBlock)
    BY DEF ExplicitBlock, isImplicit, isTentative
  <2> QED
    BY <1>2, <1>3, <1>4, <2>1 DEF LinesInv
<1>5. CASE st = <<ToplevelBlock>> /\ HasTop
  <2>1. isImplicit(ToplevelBlock) /\ layoutSep # {}
    BY <1>5 DEF ToplevelBlock, isImplicit, layoutSep
  <2> QED
    BY <1>2, <1>3, <1>5, <2>1 DEF LinesInv
<1> QED
  BY <1>4, <1>5 DEF Init

LEMMA LexLines ==
    ASSUME IInv, LinesInv, Lex \/ LexEof
    PROVE  LinesInv'
<1>1. BlocksKnown'
  BY DEF Lex, LexEof, LinesInv, BlocksKnown, Known
<1>2. ASSUME LexEof PROVE HeadsKnown'
  BY <1>2 DEF LexEof, LinesInv, HeadsKnown
<1>3. ASSUME Lex PROVE HeadsKnown'
  <2>1. PICK s \in Sym, line \in 1..MaxLine, col \in 1..MaxCol :
          /\ ts # <<>> => Follows(ts[Len(ts)], line, col)
          /\ ts' = Append(ts, [sym |-> s, line |-> line, col |-> col,
                               head |-> ts = <<>> \/ line > ts[Len(ts)].line,
                               virtual |-> FALSE])
    BY <1>3 DEF Lex
  <2> DEFINE h == ts = <<>> \/ line > ts[Len(ts)].line
             t == [sym |-> s, line |-> line, col |-> col, head |-> h, virtual |-> FALSE]
  <2>2. line \in Nat /\ col \in Nat /\ h \in BOOLEAN
    BY BoundAssumption
  <2>3. t.line = line /\ t.col = col /\ t.head = h
    OBVIOUS
  <2>4. ts' = Append(ts, t)
    BY <2>1
  <2>h. h <=> (ts = <<>> \/ line > ts[Len(ts)].line)
    OBVIOUS
  <2> HIDE DEF h
  <2>t. t \in Token
    BY <2>2 DEF Token
  <2> HIDE DEF t
  <2>5. ts \in Seq(Token) /\ Len(ts) < 2 /\ ~eof /\ UNCHANGED <<eof, pt>>
    BY <1>3 DEF Lex, IInv, TypeOK
  <2>a. /\ ts' \in Seq(Token) /\ Len(ts') = Len(ts) + 1
        /\ ts'[Len(ts) + 1] = t
        /\ \A i \in 1..Len(ts) : ts'[i] = ts[i]
    BY <2>4, <2>5, <2>t, AppendProperties
  <2>b. ts' # <<>>
    BY <2>5, <2>a
  <2>6. CASE ts = <<>>
    <3>1. ts'[1] = t /\ Len(ts') = 1
      BY <2>6, <2>a
    <3>2. pt = NoTok
      BY <2>5, <2>6 DEF LinesInv, HeadsKnown
    <3>3. ts'[1].head
      BY <2>3, <2>6, <2>h, <3>1
    <3>4. pt' = NoTok /\ Len(ts') # 2
      BY <2>5, <3>1, <3>2
    <3> QED
      BY <2>b, <3>3, <3>4 DEF HeadsKnown
  <2>7. CASE ts # <<>>
    <3>1. Len(ts) = 1
      BY <2>5, <2>7, InputTokens
    <3>2. ts[1] \in Token /\ ts[1].line \in Nat /\ ts[1].col \in Nat
      BY <3>1, InputTokens
    <3>3. SymLen[ts[1].sym] \in Nat \ {0}
      BY <3>2, SymAssumption DEF Token
    <3>5. ts'[1] = ts[1] /\ ts'[2] = t
      BY <2>a, <3>1
    <3>6. (t.head <=> t.line > ts[1].line) /\ (~t.head => t.col > ts[1].col)
      BY <2>1, <2>2, <2>3, <2>7, <2>h, <3>1, <3>2, <3>3 DEF Follows
    <3>7. /\ pt = NoTok => ts[1].head
          /\ pt # NoTok => (ts[1].head <=> ts[1].line > pt.line)
      BY <2>7 DEF LinesInv, HeadsKnown
    <3> QED
      BY <2>5, <2>b, <3>5, <3>6, <3>7 DEF HeadsKnown
  <2> QED
    BY <2>6, <2>7
<1> QED
  BY <1>1, <1>2, <1>3 DEF LinesInv

(* Putting out the next token of the input.                                 *)
LEMMA PassedHeads ==
    ASSUME IInv, LinesInv, Ready, ts # <<>>, ts' = Tail(ts), UNCHANGED eof,
           pt' # NoTok, pt'.line = ts[1].line
    PROVE  HeadsKnown'
<1>1. CASE Len(ts) = 1
  <2>1. ts' = <<>> /\ Len(ts') = 0
    BY <1>1, InputTokens
  <2>2. eof'
    BY <1>1 DEF Ready
  <2>3. Len(ts') # 2
    BY <2>1
  <2> QED
    BY <2>1, <2>2, <2>3, Zenon DEF HeadsKnown
<1>2. CASE Len(ts) = 2
  <2>1. ts' # <<>> /\ ts'[1] = ts[2] /\ Len(ts') # 2
    BY <1>2, InputTokens
  <2>2. ts[2].head <=> ts[2].line > ts[1].line
    BY <1>2 DEF LinesInv, HeadsKnown
  <2>3. ts'[1].head <=> ts'[1].line > pt'.line
    BY <2>1, <2>2
  <2>4. ~(ts' = <<>> /\ ~eof') /\ ~(ts' # <<>> /\ pt' = NoTok) /\ ~(Len(ts') = 2)
    BY <2>1
  <2> QED
    BY <2>3, <2>4, Zenon DEF HeadsKnown
<1> QED
  BY <1>1, <1>2, InputTokens

LEMMA TopInput ==
    ASSUME IInv, ts # <<>>
    PROVE  ts[1] \in Token /\ ts[1].col \in Nat /\ ts[1].line \in Nat /\ ts[1] # NoTok
<1>1. 1 \in 1..Len(ts)
  BY InputTokens
<1> QED
  BY <1>1, InputTokens, NoTokAssumption

LEMMA Stack ==
    ASSUME IInv
    PROVE  /\ st \in Seq(Block) /\ st # <<>> /\ Len(st) \in Nat /\ Len(st) >= 1
           /\ closing \in 0..Len(st)
BY Columns, ClosingIsNat DEF IInv, Based

(* The ways the stack changes.                                              *)
LEMMA StackSteps ==
    ASSUME IInv, LinesInv, res
    PROVE  Known(st')
<1> st \in Seq(Block) /\ st # <<>> /\ Len(st) \in Nat /\ Len(st) >= 1 /\ closing \in 0..Len(st)
  BY Stack
<1>k. Known(st)
  BY DEF LinesInv, BlocksKnown
<1>1. CASE st' = st
  BY <1>k, <1>1
<1>2. CASE OpenExplicit
  <2>1. ExplicitBlock \in Block /\ ~isImplicit(ExplicitBlock) /\ ExplicitBlock.col = 0
        /\ ~isTentative(ExplicitBlock)
    BY DEF ExplicitBlock, Block, Kinds, Statuses, isImplicit, isTentative
  <2>2. st' = <<ExplicitBlock>> \o st
    BY <1>2 DEF OpenExplicit, Pass
  <2> QED
    BY <1>k, <2>1, <2>2, PushKnown
<1>3. CASE CloseExplicit
  <2>1. AtTok /\ ~unmatched
    BY <1>3, OnlyUnmatched DEF CloseExplicit, Pass, AtClose, layoutError, AtTok
  <2>2. closing + 2 \in 1..Len(st)
    BY <1>3, <2>1 DEF unmatched, CloseExplicit
  <2>3. st' = From(st, closing + 2)
    BY <1>3 DEF CloseExplicit, Pass
  <2> QED
    BY <1>k, <2>2, <2>3, SuffixKnown
<1>5. CASE StopBlock
  <2>1. closing + 1 \in 1..Len(st)
    BY <1>5, StopLeavesBase DEF StopBlock
  <2>2. st' = From(st, closing + 1)
    BY <1>5 DEF StopBlock, Pass
  <2> QED
    BY <1>k, <2>1, <2>2, SuffixKnown
<1>6. CASE st' = Tail(st)
  BY <1>k, <1>6, SuffixKnown
<1>7. CASE Confirm
  <2>1. st' = confirm(st[1].col, st)
    BY <1>7, ConfirmInnermost DEF Confirm, AtConfirm, Restack
  <2> QED
    BY <1>k, <2>1, ConfirmKnown
<1>8. CASE StartImplicit
  <2> DEFINE t1 == IF Len(ts) > 1 THEN ts[2] ELSE ts[1]
  <2>1. st' = addImplicit(ts[1], t1, st)
    BY <1>8 DEF StartImplicit
  <2>2. ts # <<>> /\ ts[1].sym \in LayoutWords
    BY <1>8 DEF StartImplicit, Settled, AtWord, AtTok
  <2>3. t1 \in Token
    BY <2>2, InputTokens
  <2>4. layoutSep # {}
    BY <2>2 DEF layoutSep
  <2> HIDE DEF t1
  <2> QED
    BY <1>k, <2>1, <2>3, <2>4, AddImplicitKnown
<1> QED
  BY <1>1, <1>2, <1>3, <1>5, <1>6, <1>7, <1>8
     DEF res, Fail, StopAtTop, Dedent, StartExplicit, Plain, EndEmptyInput,
         EndExplicit, EndTop, EndImplicit, Pass, Insert, Restack, Finish

LEMMA ResLines ==
    ASSUME IInv, LinesInv, res
    PROVE  LinesInv'
<1> DEFINE Passing == /\ Ready /\ ts # <<>> /\ ts' = Tail(ts) /\ UNCHANGED eof
                      /\ pt' # NoTok /\ pt'.line = ts[1].line
           Inserting == /\ pt # NoTok /\ pt' # NoTok /\ pt'.line = pt.line
                        /\ UNCHANGED <<ts, eof>>
<1>1. Known(st')
  BY StackSteps
<1>2. ASSUME Passing PROVE LinesInv'
  <2>1. HeadsKnown'
    BY <1>2, PassedHeads
  <2> QED
    BY <1>1, <1>2, <2>1 DEF LinesInv, BlocksKnown
<1>3. ASSUME UNCHANGED <<ts, eof, pt>>, Len(st') = Len(st) PROVE LinesInv'
  BY <1>1, <1>3 DEF LinesInv, HeadsKnown, BlocksKnown
<1>4. ASSUME Inserting PROVE LinesInv'
  BY <1>1, <1>4 DEF LinesInv, HeadsKnown, BlocksKnown
<1>5. ASSUME NEW chunk, NEW s, Ready, ts # <<>>, Pass(chunk, s) PROVE Passing
  BY <1>5, TopInput DEF Pass
<1>a. Len(st) \in Nat /\ Len(st) >= 1 /\ st # <<>>
  BY Stack
<1> HIDE DEF Passing, Inserting
<1>6. CASE Fail
  BY <1>3, <1>6 DEF Fail
<1>7. CASE OpenExplicit \/ CloseExplicit \/ StopAtTop \/ StopBlock
           \/ StartExplicit \/ Plain
  BY <1>2, <1>5, <1>7 DEF OpenExplicit, CloseExplicit, StopAtTop, StopBlock,
     StartExplicit, Plain, AtClose, AtStop, Settled, AtWord, AtTok
<1>8. CASE Dedent
  <2>1. pt # NoTok
    <3>1. Len(st) # 1
      <4>1. st[1].col > 1 /\ st[1].col \in Nat
        BY <1>8, DedentIsIndented DEF Dedent
      <4>2. st[Len(st)].col <= 1
        BY DEF IInv, Based
      <4> QED
        BY <4>1, <4>2
    <3> QED
      BY <3>1 DEF LinesInv, BlocksKnown
  <2>2. pt' = sToken(afterPrev(pt), "}") /\ UNCHANGED <<ts, eof>>
    BY <1>8 DEF Dedent, Insert
  <2>3. pt'.line = pt.line
    BY <2>1, <2>2 DEF sToken, afterPrev, nextPos
  <2>4. pt' # NoTok
    <3>1. pt' \in Token
      BY <2>2, PositionAfterPrev, BracesAreSymbols, InsertedToken DEF IInv, TypeOK
    <3> QED
      BY <3>1, NoTokAssumption
  <2> QED
    BY <1>4, <2>1, <2>2, <2>3, <2>4 DEF Inserting
<1>9. CASE Confirm
  <2>1. st' = confirm(st[1].col, st) /\ UNCHANGED <<ts, eof, pt>>
    <3>1. isTentative(st[1]) /\ st \in Seq(Block) /\ st # <<>>
      BY <1>9, Stack DEF Confirm, AtConfirm
    <3> QED
      BY <1>9, <3>1, ConfirmInnermost DEF Confirm, Restack
  <2>2. Len(st') = Len(st)
    BY <2>1, ConfirmProperties, Stack
  <2> QED
    BY <1>3, <2>1, <2>2
<1>10. CASE StartImplicit
  <2>1. Ready /\ ts # <<>> /\ ts' = Tail(ts) /\ UNCHANGED eof
        /\ pt' = sToken(nextPos(ts[1]), "{")
    BY <1>10 DEF StartImplicit, Settled, AtWord, AtTok
  <2>2. pt'.line = ts[1].line
    BY <2>1 DEF sToken, nextPos
  <2>3. pt' # NoTok
    <3>1. pt' \in Token
      BY <2>1, TopInput, PositionAfter, BracesAreSymbols, InsertedToken
    <3> QED
      BY <3>1, NoTokAssumption
  <2> QED
    BY <1>2, <2>1, <2>2, <2>3 DEF Passing
<1>11. CASE EndEmptyInput \/ EndTop
  BY <1>3, <1>11 DEF EndEmptyInput, EndTop, Finish
<1>12. CASE EndExplicit
  <2>1. CASE Len(st) = 1
    BY <1>3, <1>12, <2>1 DEF EndExplicit, Finish
  <2>2. CASE Len(st) # 1
    <3>1. pt # NoTok /\ UNCHANGED <<ts, eof, pt>>
      BY <1>12, <2>2 DEF EndExplicit, Restack
    <3> QED
      BY <1>1, <3>1 DEF LinesInv, HeadsKnown, BlocksKnown
  <2> QED
    BY <2>1, <2>2
<1>13. CASE EndImplicit
  <2>1. pt # NoTok /\ pt' = sToken(nextPos(pt), "}") /\ UNCHANGED <<ts, eof>>
    BY <1>13 DEF EndImplicit, Insert
  <2>2. pt'.line = pt.line
    BY <2>1 DEF sToken, nextPos
  <2>3. pt' # NoTok
    <3>1. pt' \in Token
      BY <2>1, PositionAfter, BracesAreSymbols, InsertedToken, InputTokens
    <3> QED
      BY <3>1, NoTokAssumption
  <2> QED
    BY <1>4, <2>1, <2>2, <2>3 DEF Inserting
<1> QED
  BY <1>6, <1>7, <1>8, <1>9, <1>10, <1>11, <1>12, <1>13 DEF res

LEMMA NextLines == IInv /\ LinesInv /\ [Next]_vars => LinesInv'
  BY LexLines, ResLines DEF Next, vars, LinesInv, HeadsKnown, BlocksKnown, Known

(* In every state, on any input: a token is known to begin a line exactly    *)
(* when the previous token, which may be an inserted one, is on an earlier  *)
(* line, and blocks are what their kind says (newLine, afterPrev).          *)
THEOREM LinesKnown == Spec => [](IInv /\ LinesInv)
<1>1. Init => LinesInv
  BY InitLines
<1>2. IInv /\ LinesInv /\ [Next]_vars => LinesInv'
  BY NextLines
<1> QED
  BY <1>1, <1>2, Invariant, PTL DEF Spec

(* A line head inside an implicit block is passed on by an equation for     *)
(* words that are neither stop words nor out of line with their block.      *)
LEMMA LineHeadStep ==
    ASSUME IInv, LinesInv, Next, PassesLineHead, isImplicit(st[1])
    PROVE  /\ newLine(pt, ts[1])
           /\ Settled /\ (StartExplicit \/ StartImplicit \/ Plain)
<1>1. newLine(pt, ts[1])
  BY DEF LinesInv, HeadsKnown, PassesLineHead, newLine
<1>2. Len(ts') # Len(ts) /\ ts # <<>> /\ Ready
  BY InputTokens DEF PassesLineHead, IInv, TypeOK
<1>3. ~Lex
  <2>1. ASSUME Lex PROVE Len(ts') = Len(ts) + 1
    <3>1. PICK t : ts' = Append(ts, t)
      BY <2>1 DEF Lex
    <3> QED
      BY <3>1 DEF IInv, TypeOK
  <2>2. Len(ts) \in Nat
    BY DEF IInv, TypeOK
  <2> QED
    BY <2>1, <2>2 DEF PassesLineHead
<1>4. ~LexEof /\ ~Fail /\ ~Dedent /\ ~Confirm /\ ~EndExplicit /\ ~EndImplicit
      /\ ~EndTop /\ ~EndEmptyInput
  BY <1>2 DEF LexEof, Fail, Dedent, Confirm, EndExplicit, EndImplicit, EndTop,
     EndEmptyInput, Insert, Restack, Finish
<1>5. ~OpenExplicit /\ ~CloseExplicit /\ ~StopAtTop /\ ~StopBlock
  BY DEF PassesLineHead, IsBracket, OpenExplicit, CloseExplicit, StopAtTop, StopBlock,
     AtClose, AtStop
<1>6. StartExplicit \/ StartImplicit \/ Plain
  BY <1>3, <1>4, <1>5 DEF Next, res
<1> QED
  BY <1>1, <1>6 DEF StartExplicit, StartImplicit, Plain

(* Every element of a layout block that begins a line is separated from     *)
(* what is in front of it, on any input.                                    *)
THEOREM ElementsAlwaysSeparated == Spec => ElementsSeparated
<1> DEFINE Separated ==
        PassesLineHead /\ isImplicit(st[1]) /\ st[1].col = ts[1].col =>
          \/ pt = NoTok
          \/ pt.sym \in layoutSep \cup layoutOpen
          \/ out'[1].sym \in layoutSep
<1>1. ASSUME IInv, LinesInv, Next PROVE Separated
  <2> SUFFICES ASSUME PassesLineHead, isImplicit(st[1]), st[1].col = ts[1].col,
                      pt # NoTok, pt.sym \notin layoutSep \cup layoutOpen
               PROVE  out'[1].sym \in layoutSep
    OBVIOUS
  <2>1. newLine(pt, ts[1]) /\ (StartExplicit \/ StartImplicit \/ Plain)
    BY <1>1, LineHeadStep
  <2> DEFINE sep == sToken(afterPrev(pt), ";")
  <2>2. separator(pt, ts[1], st) = <<sep>>
    BY <2>1 DEF separator
  <2>3. sep.sym = ";"
    BY DEF sToken
  <2>4. layoutSep = {";"}
    <3>1. 1 \in DOMAIN st
      BY <1>1, Stack
    <3>2. layoutSep # {}
      BY <1>1, <3>1 DEF LinesInv, BlocksKnown, Known
    <3> QED
      BY <3>2 DEF layoutSep
  <2> HIDE DEF sep
  <2>5. out'[1] = sep
    <3>1. CASE StartExplicit \/ Plain
      <4>1. out' = Append(<<sep>>, ts[1])
        BY <2>2, <3>1 DEF StartExplicit, Plain, Pass
      <4> QED
        BY <4>1
    <3>2. CASE StartImplicit
      <4> DEFINE b == sToken(nextPos(ts[1]), "{")
      <4>1. out' = <<sep>> \o <<ts[1], b>>
        BY <2>2, <3>2 DEF StartImplicit
      <4> HIDE DEF b
      <4>2. (<<sep>> \o <<ts[1], b>>)[1] = sep
        OBVIOUS
      <4> QED
        BY <4>1, <4>2, Zenon
    <3> QED
      BY <2>1, <3>1, <3>2
  <2> QED
    BY <2>3, <2>4, <2>5
<1>2. IInv /\ LinesInv /\ [Next]_vars => [Separated]_vars
  BY <1>1
<1> HIDE DEF Separated
<1>3. Spec => [][Separated]_vars
  BY <1>2, LinesKnown, PTL DEF Spec
<1> QED
  BY <1>3 DEF ElementsSeparated, Separated

-----------------------------------------------------------------------------
(* Finding a block.                                                         *)

(* The blocks inside the innermost explicit block.                          *)
LEMMA ScopeIs ==
    ASSUME NEW bs \in Seq(Block)
    PROVE  LET f == FirstNot(bs, isImplicit)
           IN  /\ f \in 1..(Len(bs) + 1)
               /\ f <= Len(bs) => ~isImplicit(bs[f])
               /\ \A i \in Scope(bs) : i \in DOMAIN bs /\ i < f /\ Together(bs, 1, i)
<1> DEFINE f == FirstNot(bs, isImplicit)
           T == {i \in DOMAIN bs : isImplicit(bs[i])}
           D == {i \in 1..Len(bs) : i \notin T /\ \A j \in 1..(i-1) : j \in T}
           F == {i \in DOMAIN bs : /\ ~isImplicit(bs[i])
                                   /\ \A j \in 1..(i-1) : isImplicit(bs[j])}
<1>1. DOMAIN bs = 1..Len(bs) /\ Len(bs) \in Nat
  OBVIOUS
<1>2. D = F
  <2>1. \A i \in DOMAIN bs : \A j \in 1..(i-1) : j \in DOMAIN bs
    BY <1>1
  <2> QED
    BY <1>1, <2>1
<1>3. f = IF F = {} THEN Len(bs) + 1 ELSE CHOOSE i \in F : TRUE
  BY DEF FirstNot
<1>4. f = IF D = {} THEN Len(bs) + 1 ELSE CHOOSE i \in D : TRUE
  BY <1>2, <1>3
<1>s. Scope(bs) = 1..(f - 1)
  BY DEF Scope
<1> HIDE DEF f, T, F
<1>5. /\ f \in 1..(Len(bs) + 1)
      /\ f <= Len(bs) => f \notin T
      /\ \A k \in 1..Len(bs) : k < f => k \in T
  BY <1>1, <1>4, FirstOutside
<1>6. f <= Len(bs) => ~isImplicit(bs[f])
  BY <1>1, <1>5 DEF T
<1>7. ASSUME NEW i \in Scope(bs)
      PROVE  i \in DOMAIN bs /\ i < f /\ Together(bs, 1, i)
  <2>1. i \in 1..Len(bs) /\ i < f /\ \A k \in 1..i : k \in 1..Len(bs) /\ k < f
    BY <1>1, <1>5, <1>7, <1>s
  <2> QED
    BY <1>1, <1>5, <2>1 DEF T, Together
<1> QED
  BY <1>5, <1>6, <1>7 DEF f

(* A stop word closes blocks up to one that is not to the right of it.      *)
LEMMA StopExposes ==
    ASSUME IInv, AtStop, st[1].col > 1
    PROVE  closing + 1 \in 1..Len(st) /\ st[closing + 1].col <= ts[1].col
<1> DEFINE bs == Tail(st)
           moreIndented(b) == ts[1].col < b.col
           T == {i \in DOMAIN bs : moreIndented(bs[i])}
           D == {i \in 1..Len(bs) : i \notin T /\ \A j \in 1..(i-1) : j \in T}
           F == {i \in DOMAIN bs : /\ ~moreIndented(bs[i])
                                   /\ \A j \in 1..(i-1) : moreIndented(bs[j])}
           f == FirstNot(bs, moreIndented)
<1>1. closing \in 1..(Len(st) - 1) /\ closing = f
  BY StopLeavesBase DEF closing, AtStop, AtClose, AtDedent, AtLineHead, AtWord
<1>2. bs \in Seq(Block) /\ Len(bs) = Len(st) - 1 /\ \A i \in 1..Len(bs) : bs[i] = st[i + 1]
  BY Stack, HeadTailProperties
<1>3. DOMAIN bs = 1..Len(bs) /\ Len(bs) \in Nat
  BY <1>2
<1>4. f = IF F = {} THEN Len(bs) + 1 ELSE CHOOSE i \in F : TRUE
  BY DEF FirstNot
<1>5. D = F
  <2>1. \A i \in DOMAIN bs : \A j \in 1..(i-1) : j \in DOMAIN bs
    BY <1>3
  <2> QED
    BY <1>3, <2>1
<1>6. f = IF D = {} THEN Len(bs) + 1 ELSE CHOOSE i \in D : TRUE
  BY <1>4, <1>5
<1> HIDE DEF bs, T, F, f, moreIndented
<1>7. f <= Len(bs) => f \notin T
  BY <1>3, <1>6, FirstOutside
<1>8. f \in 1..Len(bs) /\ f \notin T
  BY <1>1, <1>2, <1>3, <1>7
<1>9. ~(ts[1].col < st[f + 1].col)
  BY <1>2, <1>3, <1>8 DEF T, moreIndented
<1>10. f + 1 \in 1..Len(st) /\ st[f + 1].col \in Nat /\ ts[1].col \in Nat
  BY <1>2, <1>3, <1>8, Columns DEF AtStop, AtWord, AtTok
<1> QED
  BY <1>1, <1>9, <1>10

-----------------------------------------------------------------------------
(* Blocks that a token may add to.                                          *)

(* Dropping the n innermost blocks.                                         *)
LEMMA SuffixWithin ==
    ASSUME NEW bs \in Seq(Block), NEW cs \in Seq(Block), NEW n \in Nat, NEW c,
           Len(bs) = Len(cs) + n, \A i \in 1..Len(cs) : cs[i] = bs[i + n],
           Within(bs, 2, c),
           cs # <<>> /\ isImplicit(cs[1])
              => cs[1].col <= c \/ (n > 0 /\ ~isImplicit(bs[n]))
    PROVE  Within(cs, 1, c)
<1> SUFFICES ASSUME NEW i \in DOMAIN cs, Innermost(cs, i)
             PROVE  cs[i].col <= c
  BY DEF Within
<1>1. i \in 1..Len(cs) /\ i + n \in DOMAIN bs /\ cs[i] = bs[i + n] /\ cs # <<>>
      /\ isImplicit(cs[i])
  BY DEF Innermost
<1>2. CASE i = 1 /\ ~(n > 0 /\ ~isImplicit(bs[n]))
  BY <1>1, <1>2
<1>3. CASE i = 1 /\ n > 0 /\ ~isImplicit(bs[n])
  <2>1. Innermost(bs, i + n)
    <3>1. (i + n) - 1 = n
      BY <1>3
    <3> QED
      BY <1>1, <1>3, <3>1 DEF Innermost
  <2> QED
    BY <1>1, <1>3, <2>1 DEF Within
<1>4. CASE i > 1
  <2>1. i - 1 \in 1..Len(cs) /\ (i - 1) + n = (i + n) - 1 /\ i + n >= 2
    BY <1>1, <1>4
  <2>2. ~isImplicit(bs[(i + n) - 1])
    BY <1>4, <2>1 DEF Innermost
  <2>3. Innermost(bs, i + n)
    BY <1>1, <2>2 DEF Innermost
  <2> QED
    BY <1>1, <2>1, <2>3 DEF Within
<1> QED
  BY <1>1, <1>2, <1>3, <1>4

(* A new innermost block.                                                   *)
LEMMA PushWithin ==
    ASSUME NEW bs \in Seq(Block), NEW b \in Block, NEW c,
           IF isImplicit(b) THEN b.col <= c /\ Within(bs, 2, c) ELSE Within(bs, 1, c)
    PROVE  Within(<<b>> \o bs, 1, c)
<1> DEFINE cs == <<b>> \o bs
<1>1. cs \in Seq(Block) /\ Len(cs) = Len(bs) + 1
      /\ cs[1] = b /\ (\A j \in 2..Len(cs) : cs[j] = bs[j - 1])
  BY ConcatProperties
<1> HIDE DEF cs
<1>2. ASSUME NEW i \in DOMAIN cs, Innermost(cs, i)
      PROVE  cs[i].col <= c
  <2>1. CASE i = 1
    BY <1>1, <1>2, <2>1 DEF Innermost
  <2>2. CASE i = 2
    <3>1. 1 \in DOMAIN bs /\ cs[2] = bs[1]
      BY <1>1, <1>2, <2>2
    <3>2. ~isImplicit(b) /\ Innermost(bs, 1)
      BY <1>1, <1>2, <2>2, <3>1 DEF Innermost
    <3> QED
      BY <2>2, <3>1, <3>2 DEF Within
  <2>3. CASE i > 2
    <3>1. i - 1 \in DOMAIN bs /\ i - 1 >= 2 /\ cs[i] = bs[i - 1] /\ cs[i - 1] = bs[(i - 1) - 1]
      BY <1>1, <1>2, <2>3
    <3>2. isImplicit(cs[i]) /\ ~isImplicit(cs[i - 1])
      BY <1>1, <1>2, <2>3 DEF Innermost
    <3>3. isImplicit(bs[i - 1]) /\ ~isImplicit(bs[(i - 1) - 1])
      BY <3>1, <3>2
    <3>4. Innermost(bs, i - 1)
      BY <3>3 DEF Innermost
    <3> QED
      BY <3>1, <3>4 DEF Within
  <2> QED
    BY <1>1, <1>2, <2>1, <2>2, <2>3
<1>3. Within(cs, 1, c)
  BY <1>2 DEF Within
<1> QED
  BY <1>3 DEF cs

(* On tidy input no token is left of the blocks outside the brackets that    *)
(* it is in.                                                                *)
LEMMA OuterReached ==
    ASSUME IInv, OrderInv, tidy, TidySoFar, Passes
    PROVE  /\ Within(st, 2, ts[1].col)
           /\ ~ts[1].head => Within(st, 1, ts[1].col)
<1>1. CASE ~ts[1].head
  BY <1>1 DEF OrderInv, Reached, Passes, Within
<1>2. CASE ts[1].head
  <2> SUFFICES ASSUME NEW i \in DOMAIN st, i >= 2, Innermost(st, i)
               PROVE  st[i].col <= ts[1].col
    BY <1>2 DEF Within
  <2>1. i \in 1..Len(st) /\ i - 1 \in 1..i
    BY Stack
  <2>2. ~isImplicit(st[i - 1])
    BY <2>1 DEF Innermost
  <2>3. ~Together(st, 1, i)
    BY <2>1, <2>2 DEF Together
  <2>4. i \notin Scope(st)
    BY <2>3, Stack, ScopeIs
  <2> QED
    BY <1>2, <2>4 DEF TidySoFar
<1> QED
  BY <1>1, <1>2
-----------------------------------------------------------------------------
(* The order of columns, on tidy input.                                     *)

(* A word that is passed on is not left of the innermost block.             *)
LEMMA SettledReached ==
    ASSUME IInv, LinesInv, OrderInv, tidy, TidySoFar, Passes, Settled
    PROVE  Within(st, 1, ts[1].col)
<1>1. Within(st, 2, ts[1].col) /\ (~ts[1].head => Within(st, 1, ts[1].col))
  BY OuterReached
<1>2. ASSUME ts[1].head, isImplicit(st[1]) PROVE st[1].col <= ts[1].col
  <2>1. newLine(pt, ts[1])
    BY <1>2 DEF LinesInv, HeadsKnown, newLine, Passes
  <2>2. ~(ts[1].col < st[1].col)
    BY <1>2, <2>1 DEF Settled, AtDedent, AtLineHead, AtStop
  <2>3. ts[1].col \in Nat /\ st[1].col \in Nat
    BY Columns DEF Passes
  <2> QED
    BY <2>2, <2>3
<1>3. ASSUME ts[1].head PROVE Within(st, 1, ts[1].col)
  <2> SUFFICES ASSUME NEW i \in DOMAIN st, Innermost(st, i)
               PROVE  st[i].col <= ts[1].col
    BY DEF Within
  <2>1. i \in 1..Len(st)
    BY Stack
  <2>2. CASE i = 1
    BY <1>2, <1>3, <2>2 DEF Innermost
  <2>3. CASE i >= 2
    BY <1>1, <2>3 DEF Within
  <2> QED
    BY <2>1, <2>2, <2>3
<1> QED
  BY <1>1, <1>3

(* Putting out the next token, with a stack in order.                       *)
LEMMA PassOrder ==
    ASSUME IInv, LinesInv, Passes, ts' = Tail(ts),
           OverConfirmed(st'), OverTentative(st'), Within(st', 1, ts[1].col),
           st' \in Seq(Block)
    PROVE  OrderInv'
<1>1. CASE Len(ts) = 1
  <2>1. ts' = <<>>
    BY <1>1, InputTokens
  <2> QED
    BY <2>1 DEF OrderInv, Reached
<1>2. CASE Len(ts) = 2
  <2>1. ts'[1] = ts[2] /\ ts[1].col \in Nat /\ ts[2].col \in Nat
    BY <1>2, InputTokens
  <2>2. ~ts[2].head => ts[2].col > ts[1].col
    BY <1>2 DEF LinesInv, HeadsKnown
  <2>3. \A i \in DOMAIN st' : st'[i].col \in Nat
    <3>1. \A i \in DOMAIN st' : st'[i] \in Block
      OBVIOUS
    <3> QED
      BY <3>1 DEF Block
  <2>4. ~ts'[1].head => Within(st', 1, ts'[1].col)
    <3> SUFFICES ASSUME ~ts'[1].head, NEW i \in DOMAIN st', Innermost(st', i)
                 PROVE  st'[i].col <= ts'[1].col
      BY DEF Within
    <3>1. st'[i].col <= ts[1].col
      BY DEF Within
    <3>2. st'[i].col \in Nat
      BY <2>3
    <3>3. ~ts[2].head
      BY <2>1, Zenon
    <3>4. ts[2].col > ts[1].col
      BY <2>2, <3>3, Zenon
    <3> HIDE <2>2
    <3>5. \A x, y, z \in Nat : x <= y /\ z > y => x <= z
      OBVIOUS
    <3> QED
      BY <2>1, <3>1, <3>2, <3>4, <3>5
  <2> QED
    BY <2>4 DEF OrderInv, Reached
<1> QED
  BY <1>1, <1>2, InputTokens DEF Passes

(* A step that leaves the input alone, at a word that begins a line or at    *)
(* the end.                                                                 *)
LEMMA StayOrder ==
    ASSUME UNCHANGED ts, OverConfirmed(st'),
           ts # <<>> => ts[1].head /\ OverTentative(st')
    PROVE  OrderInv'
BY DEF OrderInv, Reached

LEMMA ShorterInput ==
    ASSUME IInv, ts # <<>>, ts' = Tail(ts)
    PROVE  Len(ts') < Len(ts)
<1>1. ts \in Seq(Token)
  BY DEF IInv, TypeOK
<1> QED
  BY <1>1, HeadTailProperties

LEMMA LexOrder ==
    ASSUME IInv, LinesInv, OrderInv, Lex \/ LexEof, tidy' = (tidy /\ TidySoFar)
    PROVE  OrderInv'
<1> SUFFICES ASSUME tidy' PROVE /\ OverConfirmed(st')
                                /\ ts' # <<>> => OverTentative(st')
                                /\ Reached'
  BY DEF OrderInv
<1>1. tidy /\ st' = st
  BY DEF Lex, LexEof
<1>2. CASE LexEof
  BY <1>1, <1>2 DEF LexEof, OrderInv, Reached
<1>3. CASE Lex /\ ts # <<>>
  <2>1. PICK t : ts' = Append(ts, t)
    BY <1>3 DEF Lex
  <2>2. ts'[1] = ts[1]
    <3>1. ts \in Seq(Token)
      BY DEF IInv, TypeOK
    <3> QED
      BY <1>3, <2>1, <3>1
  <2> QED
    BY <1>1, <1>3, <2>2 DEF OrderInv, Reached
<1>4. CASE Lex /\ ts = <<>>
  <2>1. ts' # <<>> => ts'[1].head
    <3>1. LinesInv'
      BY LexLines
    <3>2. pt' = NoTok
      BY <1>4 DEF Lex, LinesInv, HeadsKnown
    <3> QED
      BY <3>1, <3>2 DEF LinesInv, HeadsKnown
  <2>2. Len(st) = 1
    BY <1>4 DEF Lex, LinesInv, HeadsKnown, BlocksKnown
  <2>3. OverTentative(st)
    <3>1. DOMAIN st = {1}
      BY <2>2, Stack
    <3> QED
      BY <3>1 DEF OverTentative
  <2> QED
    BY <1>1, <2>1, <2>3 DEF OrderInv, Reached
<1> QED
  BY <1>2, <1>3, <1>4

(* A layout word with its block: the step that the comment of addImplicit    *)
(* is about.                                                                *)
LEMMA StartImplicitOrder ==
    ASSUME IInv, LinesInv, OverConfirmed(st), OverTentative(st), StartImplicit,
           Within(st, 1, ts[1].col)
    PROVE  OrderInv'
<1> DEFINE t1 == IF Len(ts) > 1 THEN ts[2] ELSE ts[1]
<1>1. /\ ts # <<>> /\ Passes /\ ts' = Tail(ts) /\ st' = addImplicit(ts[1], t1, st)
      /\ ts[1].sym \in LayoutWords
  BY ShorterInput DEF StartImplicit, Settled, AtWord, AtTok, Passes
<1>2. t1 \in Token /\ t1.col \in Nat /\ ts[1].col \in Nat /\ ts[1].col >= 1
  BY <1>1, InputTokens, TopInput, Columns
<1>3. st \in Seq(Block) /\ st # <<>> /\ 1 \in DOMAIN st /\ st[1].col \in Nat /\ Known(st)
  BY Stack, Columns DEF LinesInv, BlocksKnown
<1>4. layoutSep # {}
  BY <1>1 DEF layoutSep
<1>l. Len(ts) = 2 => t1 = ts[2]
  OBVIOUS
<1>s. Len(ts) = 1 => t1 = ts[1]
  OBVIOUS
<1> HIDE DEF t1
<1>5. CASE t1.line > ts[1].line
  <2> DEFINE cs == confirm(t1.col, st)
             c  == newColumn(t1.col, cs)
  <2>1. cs \in Seq(Block) /\ Len(cs) = Len(st) /\ Known(cs)
    BY <1>2, <1>3, ConfirmProperties, ConfirmKnown
  <2>2. OverConfirmed(cs) /\ OverTentative(cs)
    BY <1>2, <1>3, ConfirmOrdered
  <2>3. st' = <<ImplicitBlock("Definitive", c)>> \o cs
    BY <1>1, <1>5 DEF addImplicit
  <2> HIDE DEF cs
  <2>4. cs # <<>>
    BY <1>3, <2>1, EmptyLen
  <2>5. definiteIndentation(cs) \in Nat
    BY <2>1, <2>2, <2>4, IndentationIs
  <2>6. c \in Nat /\ c > definiteIndentation(cs)
    BY <1>2, <2>1, <2>5, ColumnIs
  <2> HIDE DEF c
  <2>7. OverConfirmed(st') /\ OverTentative(st')
    BY <2>1, <2>2, <2>3, <2>4, <2>6, ImplicitOrdered DEF Statuses
  <2>8. Len(ts) = 2
    <3>1. ts[1].line \in Nat
      BY <1>1, TopInput
    <3>2. Len(ts) # 1
      BY <1>5, <1>s, <3>1
    <3> QED
      BY <1>1, <3>2, InputTokens
  <2>9. ts'[1].head
    BY <1>1, <1>5, <1>l, <2>8, InputTokens DEF LinesInv, HeadsKnown
  <2> QED
    BY <2>7, <2>9 DEF OrderInv, Reached
<1>6. CASE ~(t1.line > ts[1].line)
  <2> DEFINE c == newColumn(t1.col, st)
             b == ImplicitBlock("Tentative", c)
  <2>1. st' = <<b>> \o st
    BY <1>1, <1>6 DEF addImplicit
  <2>2. definiteIndentation(st) \in Nat /\ definiteIndentation(st) <= st[1].col
    BY <1>3, IndentationIs
  <2>3. c \in Nat /\ c > definiteIndentation(st)
        /\ (definiteIndentation(st) < t1.col => c = t1.col)
    BY <1>2, <1>3, <2>2, ColumnIs
  <2>4. b \in Block /\ isImplicit(b) /\ b.col = c
    BY <2>3 DEF ImplicitBlock, Block, Kinds, Statuses, isImplicit
  <2>i. OverConfirmed(st') /\ (c > st[1].col => OverTentative(st'))
    BY <1>3, <2>1, <2>3, ImplicitOrdered DEF Statuses
  <2> HIDE DEF b, c
  <2>5. CASE Len(ts) = 1
    <3>1. ts' = <<>>
      BY <1>1, <2>5, InputTokens
    <3> QED
      BY <2>i, <3>1 DEF OrderInv, Reached
  <2>6. CASE Len(ts) = 2
    <3>1. ts'[1] = t1 /\ t1 = ts[2]
      BY <1>1, <1>l, <2>6, InputTokens
    <3>2. t1.col > ts[1].col
      BY <1>6, <2>6, <3>1 DEF LinesInv, HeadsKnown
    <3>3. st[1].col < t1.col
      <4>1. CASE isImplicit(st[1])
        <5>1. Innermost(st, 1)
          BY <4>1 DEF Innermost
        <5>2. st[1].col <= ts[1].col
          BY <1>3, <5>1 DEF Within
        <5> QED
          BY <1>2, <1>3, <3>2, <5>2
      <4>2. CASE ~isImplicit(st[1])
        <5>1. st[1].col = 0
          BY <1>3, <4>2 DEF Known
        <5> QED
          BY <1>2, <3>2, <5>1
      <4> QED
        BY <4>1, <4>2
    <3>4. c = t1.col /\ c > st[1].col
      BY <1>2, <1>3, <2>2, <2>3, <3>3
    <3>5. Within(st, 2, t1.col)
      <4> SUFFICES ASSUME NEW i \in DOMAIN st, i >= 2, Innermost(st, i)
                   PROVE  st[i].col <= t1.col
        BY DEF Within
      <4>1. st[i].col <= ts[1].col
        <5>1. i >= 1
          BY Stack
        <5> QED
          BY <5>1 DEF Within
      <4>2. st[i].col \in Nat
        BY Columns, Stack
      <4> QED
        BY <1>2, <3>2, <4>1, <4>2
    <3>6. Within(st', 1, t1.col)
      BY <1>2, <1>3, <2>1, <2>4, <3>4, <3>5, PushWithin
    <3> QED
      BY <2>i, <3>1, <3>4, <3>6 DEF OrderInv, Reached
  <2> QED
    BY <1>1, <2>5, <2>6, InputTokens
<1> QED
  BY <1>5, <1>6

LEMMA ResOrder ==
    ASSUME IInv, LinesInv, OrderInv, res, tidy' = (tidy /\ TidySoFar)
    PROVE  OrderInv'
<1> SUFFICES ASSUME tidy' PROVE OrderInv'
  BY DEF OrderInv
<1>t. tidy /\ TidySoFar /\ OverConfirmed(st) /\ (ts # <<>> => OverTentative(st))
  BY DEF OrderInv
<1>a. /\ st \in Seq(Block) /\ st # <<>> /\ Len(st) \in Nat /\ Len(st) >= 1
      /\ closing \in 0..Len(st) /\ st' \in Seq(Block)
  <2>1. IInv'
    BY ResIInv
  <2> QED
    BY <2>1, Stack DEF IInv, TypeOK
<1>p. ASSUME NEW chunk, NEW s, Ready, ts # <<>>, Pass(chunk, s)
      PROVE  /\ ts' = Tail(ts) /\ st' = s /\ Passes
             /\ Within(st, 2, ts[1].col) /\ (~ts[1].head => Within(st, 1, ts[1].col))
  <2>1. ts' = Tail(ts) /\ st' = s /\ Passes
    BY <1>p, ShorterInput DEF Pass, Passes
  <2> QED
    BY <1>t, <2>1, OuterReached
<1>1. CASE Fail \/ EndEmptyInput \/ EndTop
  BY <1>1 DEF Fail, EndEmptyInput, EndTop, Finish, OrderInv, Reached
<1>2. CASE OpenExplicit
  <2>1. Ready /\ ts # <<>> /\ isOpen(ts[1]) /\ Pass(<<>>, <<ExplicitBlock>> \o st)
    BY <1>2 DEF OpenExplicit, AtTok
  <2>2. ts' = Tail(ts) /\ st' = <<ExplicitBlock>> \o st /\ Passes
    BY <1>p, <2>1
  <2>3. ~ts[1].head
    BY <1>t, <2>1, <2>2 DEF TidySoFar, IsBracket
  <2>4. Within(st, 1, ts[1].col)
    BY <1>p, <2>1, <2>3
  <2>5. Within(st', 1, ts[1].col)
    <3>1. ExplicitBlock \in Block /\ ~isImplicit(ExplicitBlock)
      BY DEF ExplicitBlock, Block, Kinds, Statuses, isImplicit
    <3> QED
      BY <1>a, <2>2, <2>4, <3>1, PushWithin
  <2>6. OverConfirmed(st') /\ OverTentative(st')
    BY <1>t, <1>a, <2>1, <2>2, ExplicitOrdered
  <2> QED
    BY <1>a, <2>2, <2>5, <2>6, PassOrder
<1>3. CASE CloseExplicit
  <2> DEFINE n == closing + 1
  <2>1. Ready /\ ts # <<>> /\ isClose(ts[1])
        /\ Pass(closers(closing, ts[1]), From(st, closing + 2))
    BY <1>3 DEF CloseExplicit, AtClose, AtTok
  <2>2. ts' = Tail(ts) /\ st' = From(st, closing + 2) /\ Passes
    BY <1>p, <2>1
  <2>3. ~ts[1].head
    BY <1>t, <2>1, <2>2 DEF TidySoFar, IsBracket
  <2>4. Within(st, 2, ts[1].col)
    BY <1>p, <2>1, <2>3
  <2>5. closing + 2 \in 1..Len(st)
    <3>1. AtTok /\ ~unmatched
      BY <1>3, OnlyUnmatched DEF CloseExplicit, Pass, AtClose, layoutError, AtTok
    <3> QED
      BY <1>3, <1>a, <3>1 DEF unmatched, CloseExplicit
  <2>6. ~isImplicit(st[n])
    <3>1. closing = FirstNot(st, isImplicit) - 1
      <4>1. AtClose
        BY <1>3 DEF CloseExplicit
      <4> DEFINE moreIndented(b) == ts[1].col < b.col
                 a == FirstNot(st, isImplicit) - 1
                 d == FirstNot(Tail(st), moreIndented)
      <4>2. closing = CASE AtClose                 -> a
                        [] AtStop /\ st[1].col > 1 -> d
                        [] AtDedent                -> 1
                        [] OTHER                   -> 0
        BY DEF closing
      <4>3. ~AtStop /\ ~AtDedent
        BY <4>1 DEF AtClose, AtStop, AtDedent, AtLineHead, AtWord
      <4> HIDE DEF moreIndented, a, d
      <4>4. closing = a
        BY <4>1, <4>2, <4>3
      <4> QED
        BY <4>4 DEF a
    <3>2. FirstNot(st, isImplicit) \in 1..(Len(st) + 1)
          /\ (FirstNot(st, isImplicit) <= Len(st) => ~isImplicit(st[FirstNot(st, isImplicit)]))
      BY <1>a, ScopeIs
    <3> DEFINE f == FirstNot(st, isImplicit)
    <3> HIDE DEF f
    <3>3. n = f /\ f <= Len(st)
      BY <1>a, <2>5, <3>1, <3>2 DEF f
    <3> QED
      BY <3>2, <3>3 DEF f
  <2>7. /\ Len(st) = Len(st') + n /\ n \in Nat /\ n > 0
        /\ \A i \in 1..Len(st') : st'[i] = st[i + n]
    <3>1. Len(st') = Len(st) - (closing + 2) + 1
          /\ \A j \in 1..Len(st') : st'[j] = st[(closing + 2) + j - 1]
      BY <1>a, <2>2, <2>5, SubSeqProperties DEF From
    <3> QED
      BY <1>a, <2>5, <3>1
  <2> HIDE DEF n
  <2>8. Within(st', 1, ts[1].col)
    BY <1>a, <2>4, <2>6, <2>7, SuffixWithin
  <2>9. OverConfirmed(st') /\ OverTentative(st')
    BY <1>t, <1>a, <2>1, <2>2, <2>5, FromOrdered
  <2> QED
    BY <1>a, <2>2, <2>8, <2>9, PassOrder
<1>4. CASE StopAtTop
  <2>1. Ready /\ ts # <<>> /\ Pass(<<>>, st) /\ st[1].col <= 1
    BY <1>4 DEF StopAtTop, AtStop, AtWord, AtTok
  <2>2. ts' = Tail(ts) /\ st' = st /\ Passes /\ Within(st, 2, ts[1].col)
    BY <1>p, <2>1
  <2>3. st[1].col <= ts[1].col
    <3>1. st[1].col \in Nat /\ ts[1].col \in Nat /\ ts[1].col >= 1
      BY <1>a, <2>1, Columns
    <3> QED
      BY <2>1, <3>1
  <2>4. Within(st', 1, ts[1].col)
    <3>1. Len(st) = Len(st') + 0 /\ \A i \in 1..Len(st') : st'[i] = st[i + 0]
      BY <1>a, <2>2
    <3> QED
      BY <1>a, <2>2, <2>3, <3>1, SuffixWithin
  <2> QED
    BY <1>t, <1>a, <2>1, <2>2, <2>4, PassOrder
<1>5. CASE StopBlock
  <2>1. Ready /\ ts # <<>> /\ Pass(closers(closing, afterPrev(pt)), From(st, closing + 1))
    BY <1>5 DEF StopBlock, AtStop, AtWord, AtTok
  <2>2. ts' = Tail(ts) /\ st' = From(st, closing + 1) /\ Passes /\ Within(st, 2, ts[1].col)
    BY <1>p, <2>1
  <2>3. closing + 1 \in 1..Len(st) /\ st[closing + 1].col <= ts[1].col
    BY <1>5, StopExposes DEF StopBlock
  <2>4. /\ Len(st) = Len(st') + closing /\ closing \in Nat
        /\ \A i \in 1..Len(st') : st'[i] = st[i + closing]
    <3>1. Len(st') = Len(st) - (closing + 1) + 1
          /\ \A j \in 1..Len(st') : st'[j] = st[(closing + 1) + j - 1]
      BY <1>a, <2>2, <2>3, SubSeqProperties DEF From
    <3> QED
      BY <1>a, <2>3, <3>1
  <2>5. st'[1] = st[closing + 1]
    BY <1>a, <2>3, <2>4
  <2>6. Within(st', 1, ts[1].col)
    BY <1>a, <2>2, <2>3, <2>4, <2>5, SuffixWithin
  <2>7. OverConfirmed(st') /\ OverTentative(st')
    BY <1>t, <1>a, <2>1, <2>2, <2>3, FromOrdered
  <2> QED
    BY <1>a, <2>2, <2>6, <2>7, PassOrder
<1>h. ASSUME AtLineHead PROVE ts # <<>> /\ ts[1].head
  BY <1>h DEF AtLineHead, AtWord, AtTok, newLine, LinesInv, HeadsKnown
<1>6. CASE Dedent
  <2>1. AtLineHead /\ st' = Tail(st) /\ UNCHANGED ts
    BY <1>6 DEF Dedent, AtDedent, Insert
  <2>2. OverConfirmed(st') /\ OverTentative(st')
    BY <1>t, <1>a, <1>h, <2>1, TailOrdered
  <2> QED
    BY <1>h, <2>1, <2>2, StayOrder
<1>7. CASE Confirm
  <2>1. AtLineHead /\ isTentative(st[1]) /\ UNCHANGED ts
        /\ st' = <<definitive(st[1])>> \o confirm(st[1].col, Tail(st))
    BY <1>7 DEF Confirm, AtConfirm, Restack
  <2>2. st' = confirm(st[1].col, st)
    BY <1>a, <2>1, ConfirmInnermost
  <2>3. OverConfirmed(st') /\ OverTentative(st')
    BY <1>t, <1>a, <1>h, <2>1, <2>2, ConfirmOrdered
  <2> QED
    BY <1>h, <2>1, <2>3, StayOrder
<1>8. CASE StartExplicit \/ Plain
  <2>1. Ready /\ ts # <<>> /\ Settled /\ Pass(separator(pt, ts[1], st), st)
    BY <1>8 DEF StartExplicit, Plain, Settled, AtWord, AtTok
  <2>2. ts' = Tail(ts) /\ st' = st /\ Passes
    BY <1>p, <2>1
  <2>3. Within(st', 1, ts[1].col)
    BY <1>t, <2>1, <2>2, SettledReached
  <2> QED
    BY <1>t, <1>a, <2>1, <2>2, <2>3, PassOrder
<1>9. CASE StartImplicit
  <2>1. Ready /\ ts # <<>> /\ Settled /\ ts' = Tail(ts)
    BY <1>9 DEF StartImplicit, Settled, AtWord, AtTok
  <2>2. Passes
    BY <2>1, ShorterInput DEF Passes
  <2>3. Within(st, 1, ts[1].col)
    BY <1>t, <2>1, <2>2, SettledReached
  <2> QED
    BY <1>9, <1>t, <2>1, <2>3, StartImplicitOrder
<1>10. CASE EndExplicit \/ EndImplicit
  <2>1. ts = <<>> /\ UNCHANGED ts /\ (st' = st \/ st' = Tail(st))
    BY <1>10 DEF EndExplicit, EndImplicit, AtEnd, Finish, Restack, Insert
  <2>2. OverConfirmed(st')
    BY <1>t, <1>a, <2>1, TailOrdered
  <2> QED
    BY <2>1, <2>2, StayOrder
<1> QED
  BY <1>1, <1>2, <1>3, <1>4, <1>5, <1>6, <1>7, <1>8, <1>9, <1>10 DEF res

LEMMA InitOrder == Init => OrderInv
<1> SUFFICES ASSUME Init PROVE OrderInv
  OBVIOUS
<1>1. ts = <<>> /\ DOMAIN st = {1}
  BY DEF Init
<1> QED
  BY <1>1 DEF OrderInv, OverConfirmed, Reached

(* The columns of the stack stay in order on tidy input.                    *)
LEMMA HistorySteps ==
    /\ HistoryInit => IInv /\ ColumnInv
    /\ IInv /\ ColumnInv /\ [HistoryNext]_columnVars => IInv' /\ ColumnInv'
<1>1. HistoryInit => IInv /\ ColumnInv
  BY InitIInv, InitLines, InitOrder DEF HistoryInit, ColumnInv
<1>2. ASSUME IInv, ColumnInv, HistoryNext PROVE IInv' /\ ColumnInv'
  <2>1. IInv'
    BY <1>2, LexIInv, ResIInv DEF HistoryNext, Next
  <2>2. LinesInv'
    BY <1>2, LexLines, ResLines DEF HistoryNext, Next, ColumnInv
  <2>3. OrderInv'
    BY <1>2, LexOrder, ResOrder DEF HistoryNext, Next, ColumnInv
  <2> QED
    BY <2>1, <2>2, <2>3 DEF ColumnInv
<1>3. ASSUME IInv, ColumnInv, UNCHANGED columnVars PROVE IInv' /\ ColumnInv'
  <2>1. UNCHANGED vars /\ UNCHANGED tidy
    BY <1>3 DEF columnVars
  <2>2. IInv'
    BY <1>3, <2>1, StutterIInv
  <2>3. LinesInv'
    BY <1>3, <2>1, NextLines DEF ColumnInv
  <2>4. OrderInv'
    BY <1>3, <2>1 DEF ColumnInv, OrderInv, Reached, vars
  <2> QED
    BY <2>2, <2>3, <2>4 DEF ColumnInv
<1> QED
  BY <1>1, <1>2, <1>3

(* The inductive invariant of the columns, on tidy input.                   *)
THEOREM ColumnsInOrder == HistorySpec => [](IInv /\ ColumnInv)
BY HistorySteps, PTL DEF HistorySpec

(* On input whose lines do not begin with brackets or left of a block around *)
(* the brackets that they are in, "the next block" is "strictly more        *)
(* indented than the previous block", if both are confirmed.                *)
THEOREM IndentedAlways == HistorySpec => []Indented
<1>1. IInv /\ ColumnInv => Indented
  <2> SUFFICES ASSUME IInv, ColumnInv, tidy,
                      NEW i \in Scope(st), NEW j \in Scope(st), i < j,
                      ~isTentative(st[j])
               PROVE  st[i].col > st[j].col
    BY DEF Indented, StrictlyIndented
  <2>1. i \in DOMAIN st /\ j \in DOMAIN st /\ Together(st, 1, j)
    BY Stack, ScopeIs
  <2>2. Together(st, i, j)
    BY <2>1, Stack DEF Together
  <2> QED
    BY <2>1, <2>2 DEF ColumnInv, OrderInv, OverConfirmed
<1> QED
  BY <1>1, ColumnsInOrder, PTL

(* On such input the first token of a line is put out only when every       *)
(* confirmed block to the right of it has been closed.                      *)
THEOREM OffsideAlways == HistorySpec => OffsideRule
<1>1. ASSUME IInv, ColumnInv, HistoryNext PROVE tidy' => OffsideStep
  <2> SUFFICES ASSUME tidy', PassesLineHead,
                      NEW i \in Scope(st), ~isTentative(st[i])
               PROVE  st[i].col <= ts[1].col
    BY DEF OffsideStep
  <2>a. st \in Seq(Block) /\ st # <<>>
    BY <1>1, Stack
  <2>b. i \in DOMAIN st /\ Together(st, 1, i)
    BY <2>a, ScopeIs
  <2>1. i \in DOMAIN st /\ Together(st, 1, i) /\ 1 \in DOMAIN st /\ 1 <= i
    BY <2>a, <2>b
  <2>2. isImplicit(st[1])
    BY <2>1 DEF Together
  <2>3. Settled
    BY <1>1, <2>2, LineHeadStep DEF ColumnInv, HistoryNext
  <2>4. tidy /\ TidySoFar /\ Passes
    BY <1>1 DEF HistoryNext, PassesLineHead, Passes
  <2>5. Within(st, 1, ts[1].col)
    BY <1>1, <2>3, <2>4, SettledReached DEF ColumnInv
  <2>6. st[1].col <= ts[1].col
    BY <2>1, <2>2, <2>5 DEF Within, Innermost
  <2>7. st[1].col \in Nat /\ st[i].col \in Nat /\ ts[1].col \in Nat
    BY <1>1, <2>1, Columns DEF PassesLineHead
  <2>8. i = 1 \/ st[1].col > st[i].col
    <3>1. i = 1 \/ 1 < i
      BY <2>a, <2>1
    <3> QED
      BY <1>1, <2>1, <2>4, <3>1 DEF ColumnInv, OrderInv, OverConfirmed
  <2> QED
    BY <2>6, <2>7, <2>8
<1>2. IInv /\ ColumnInv /\ [HistoryNext]_columnVars => [tidy' => OffsideStep]_columnVars
  BY <1>1
<1>3. HistorySpec => [][tidy' => OffsideStep]_columnVars
  BY <1>2, ColumnsInOrder, PTL DEF HistorySpec
<1> QED
  BY <1>3 DEF OffsideRule
=============================================================================
