------------------------ MODULE LayoutResolver_proofs ------------------------
(***************************************************************************)
(* Proofs about the layout resolver, for all grammars, files and token     *)
(* lengths: its state is well typed, it never reaches an internal error,   *)
(* and it implements BracketedOutput: whatever the indentation of the      *)
(* input, inserted braces and the brackets of the input nest in its output.*)
(***************************************************************************)
EXTENDS LayoutProperties, TLAPS, SequenceTheorems, WellFoundedInduction

-----------------------------------------------------------------------------
(* Every nonempty set of natural numbers has a least element.               *)
LEMMA LeastElement ==
    ASSUME NEW S \in SUBSET Nat, S # {}
    PROVE  \E x \in S : \A y \in S : x <= y
<1>1. IsWellFoundedOn(OpToRel(<, Nat), Nat)
  BY NatLessThanWellFounded
<1>2. PICK x \in S : \A y \in S : ~(<<y, x>> \in OpToRel(<, Nat))
  BY <1>1, WFMin
<1>3. \A y \in S : ~(y < x)
  BY <1>2 DEF OpToRel
<1> QED
  BY <1>3

(* Dropping blocks above the outermost one keeps a stack based.             *)
LEMMA FromBased ==
    ASSUME NEW bs, Based(bs), NEW i \in 1..Len(bs)
    PROVE  Based(From(bs, i))
<1> DEFINE cs == From(bs, i)
<1>1. cs \in Seq(Block) /\ Len(cs) = Len(bs) - i + 1
      /\ \A j \in 1..Len(cs) : cs[j] = bs[i + j - 1]
  BY SubSeqProperties DEF From, Based
<1>2. cs # <<>> /\ cs[Len(cs)] = bs[Len(bs)]
  BY <1>1 DEF Based
<1>3. \A j \in 1..(Len(cs) - 1) : cs[j].kind # "Toplevel"
  BY <1>1 DEF Based
<1> QED
  BY <1>1, <1>2, <1>3 DEF Based

LEMMA TailBased ==
    ASSUME NEW bs, Based(bs), Len(bs) > 1
    PROVE  Based(Tail(bs))
<1> DEFINE cs == Tail(bs)
<1>1. cs \in Seq(Block) /\ Len(cs) = Len(bs) - 1
      /\ \A j \in 1..Len(cs) : cs[j] = bs[j + 1]
  BY HeadTailProperties DEF Based
<1>2. cs # <<>> /\ cs[Len(cs)] = bs[Len(bs)]
  BY <1>1 DEF Based
<1>3. \A j \in 1..(Len(cs) - 1) : cs[j].kind # "Toplevel"
  BY <1>1 DEF Based
<1> QED
  BY <1>1, <1>2, <1>3 DEF Based

(* Pushing a block that is not top-level keeps a stack based.               *)
LEMMA PushBased ==
    ASSUME NEW bs, Based(bs), NEW b \in Block, b.kind # "Toplevel"
    PROVE  Based(<<b>> \o bs)
<1> DEFINE cs == <<b>> \o bs
<1>1. cs \in Seq(Block) /\ Len(cs) = Len(bs) + 1
      /\ cs[1] = b /\ \A j \in 2..Len(cs) : cs[j] = bs[j - 1]
  BY ConcatProperties DEF Based
<1>2. cs # <<>> /\ cs[Len(cs)] = bs[Len(bs)]
  BY <1>1 DEF Based
<1>3. \A j \in 1..(Len(cs) - 1) : cs[j].kind # "Toplevel"
  BY <1>1 DEF Based
<1> QED
  BY <1>1, <1>2, <1>3 DEF Based

(* A stack that differs from a based one in the status of blocks is based.  *)
LEMMA RestatusBased ==
    ASSUME NEW bs, Based(bs), NEW cs \in Seq(Block), Len(cs) = Len(bs),
           \A i \in 1..Len(bs) : cs[i].kind = bs[i].kind /\ cs[i].col = bs[i].col
    PROVE  Based(cs)
  BY DEF Based

(* Confirming one block.                                                    *)
LEMMA DefinitiveBlock ==
    ASSUME NEW b \in Block
    PROVE  /\ definitive(b) \in Block
           /\ definitive(b).kind = b.kind
           /\ definitive(b).col = b.col
  BY DEF definitive, Block, Statuses

(* confirm changes nothing but the status of blocks.                        *)
LEMMA ConfirmProperties ==
    ASSUME NEW bs \in Seq(Block), NEW c0
    PROVE  /\ confirm(c0, bs) \in Seq(Block)
           /\ Len(confirm(c0, bs)) = Len(bs)
           /\ \A i \in 1..Len(bs) :
                 /\ confirm(c0, bs)[i].kind = bs[i].kind
                 /\ confirm(c0, bs)[i].col = bs[i].col
<1> DEFINE cs == confirm(c0, bs)
<1>1. /\ DOMAIN cs = 1..Len(bs)
      /\ \A i \in 1..Len(bs) : cs[i] \in {bs[i], definitive(bs[i])}
  BY DEF confirm
<1>2. \A i \in 1..Len(bs) :
        cs[i] \in Block /\ cs[i].kind = bs[i].kind /\ cs[i].col = bs[i].col
  BY <1>1, DefinitiveBlock
<1>3. cs = [i \in 1..Len(bs) |-> cs[i]]
  BY DEF confirm
<1>4. cs \in [1..Len(bs) -> Block]
  BY <1>1, <1>2, <1>3
<1> QED
  BY <1>2, <1>4

LEMMA ConfirmBased ==
    ASSUME NEW bs, Based(bs), NEW c0
    PROVE  Based(confirm(c0, bs))
  BY ConfirmProperties, RestatusBased DEF Based

-----------------------------------------------------------------------------
(* What the helpers return.                                                 *)

LEMMA BracesAreSymbols == "{" \in Sym /\ "}" \in Sym /\ ";" \in Sym
  BY SymAssumption DEF Brackets

LEMMA InsertedToken ==
    ASSUME NEW p, p.line \in Nat, p.col \in Nat, NEW s \in Sym
    PROVE  sToken(p, s) \in Token
  BY DEF sToken, Token

LEMMA PositionAfter ==
    ASSUME NEW t \in Token
    PROVE  nextPos(t).line \in Nat /\ nextPos(t).col \in Nat
<1>1. SymLen[t.sym] \in Nat /\ t.line \in Nat /\ t.col \in Nat
  BY SymAssumption DEF Token
<1> QED
  BY <1>1 DEF nextPos

LEMMA PositionAfterPrev ==
    ASSUME NEW p \in Token \cup {NoTok}
    PROVE  afterPrev(p).line \in Nat /\ afterPrev(p).col \in Nat
<1>1. CASE p = NoTok
  BY <1>1 DEF afterPrev
<1>2. CASE p # NoTok
  BY <1>2, PositionAfter DEF afterPrev
<1> QED
  BY <1>1, <1>2

LEMMA ClosersAreTokens ==
    ASSUME NEW n \in Nat, NEW p, p.line \in Nat, p.col \in Nat
    PROVE  closers(n, p) \in Seq(Token)
<1>1. sToken(p, "}") \in Token
  BY BracesAreSymbols, InsertedToken
<1>2. closers(n, p) \in [1..n -> Token]
  BY <1>1 DEF closers
<1> QED
  BY <1>2

LEMMA SeparatorIsToken ==
    ASSUME NEW p \in Token \cup {NoTok}, NEW t0, NEW bs
    PROVE  separator(p, t0, bs) \in Seq(Token)
<1>1. sToken(afterPrev(p), ";") \in Token
  BY BracesAreSymbols, PositionAfterPrev, InsertedToken
<1>2. separator(p, t0, bs) \in {<<>>, <<sToken(afterPrev(p), ";")>>}
  BY DEF separator
<1>3. <<>> \in Seq(Token) /\ \A t \in Token : <<t>> \in Seq(Token)
  OBVIOUS
<1> QED
  BY <1>1, <1>2, <1>3

LEMMA ColumnIsNat ==
    ASSUME NEW bs \in Seq(Block), NEW c1 \in Nat
    PROVE  newColumn(c1, bs) \in Nat
<1>1. \A i \in DOMAIN bs : bs[i].col \in Nat
  <2>1. \A i \in DOMAIN bs : bs[i] \in Block
    OBVIOUS
  <2> QED
    BY <2>1 DEF Block
<1>2. definiteIndentation(bs) \in Nat
  BY <1>1 DEF definiteIndentation
<1> QED
  BY <1>2 DEF newColumn

LEMMA AddImplicitBased ==
    ASSUME NEW bs, Based(bs), NEW t0, NEW t1 \in Token
    PROVE  Based(addImplicit(t0, t1, bs))
<1>1. t1.col \in Nat
  BY DEF Token
<1>2. \A s \in Statuses, c \in Nat :
        ImplicitBlock(s, c) \in Block /\ ImplicitBlock(s, c).kind # "Toplevel"
  BY DEF ImplicitBlock, Block, Kinds
<1>3. CASE t1.line > t0.line
  <2> DEFINE cs == confirm(t1.col, bs)
  <2>1. Based(cs)
    BY ConfirmBased
  <2>2. newColumn(t1.col, cs) \in Nat
    BY <1>1, <2>1, ColumnIsNat DEF Based
  <2> HIDE DEF cs
  <2>3. Based(<<ImplicitBlock("Definitive", newColumn(t1.col, cs))>> \o cs)
    BY <1>2, <2>1, <2>2, PushBased DEF Statuses
  <2> QED
    BY <1>3, <2>3 DEF addImplicit, cs
<1>4. CASE ~(t1.line > t0.line)
  <2>1. newColumn(t1.col, bs) \in Nat
    BY <1>1, ColumnIsNat DEF Based
  <2>2. Based(<<ImplicitBlock("Tentative", newColumn(t1.col, bs))>> \o bs)
    BY <1>2, <2>1, PushBased DEF Statuses
  <2> QED
    BY <1>4, <2>2 DEF addImplicit
<1> QED
  BY <1>3, <1>4

-----------------------------------------------------------------------------
(* The invariant holds initially and every step keeps it.                   *)

LEMMA InitIInv == Init => IInv
<1> SUFFICES ASSUME Init PROVE IInv
  OBVIOUS
<1>1. \A b \in {ExplicitBlock, ToplevelBlock} : Based(<<b>>)
  BY DEF Based, ExplicitBlock, ToplevelBlock, Block, Kinds, Statuses
<1>2. st \in {<<ExplicitBlock>>, <<ToplevelBlock>>}
  BY DEF Init
<1>3. Based(st)
  BY <1>1, <1>2
<1>4. ts = <<>> /\ out = <<>> /\ eof = FALSE /\ pt = NoTok /\ outcome = "running"
  BY DEF Init
<1>5. ts \in Seq(Token) /\ out \in Seq(Token) /\ Len(ts) <= 2
  BY <1>4
<1>6. st \in Seq(Block)
  BY <1>3 DEF Based
<1>7. TypeOK
  BY <1>4, <1>5, <1>6 DEF TypeOK, Outcomes
<1> QED
  BY <1>3, <1>4, <1>7 DEF IInv

(* Putting out the next input token after a chunk.                          *)
LEMMA PassIInv ==
    ASSUME IInv, ts # <<>>,
           NEW chunk \in Seq(Token), NEW s, Based(s), Pass(chunk, s)
    PROVE  IInv'
<1>1. ts[1] \in Token /\ Tail(ts) \in Seq(Token) /\ Len(Tail(ts)) <= 2
      /\ \A i \in DOMAIN Tail(ts) : Tail(ts)[i] = ts[i + 1] /\ i + 1 \in DOMAIN ts
  BY HeadTailProperties DEF IInv, TypeOK
<1>2. out' \in Seq(Token)
  BY <1>1, AppendProperties DEF Pass
<1>3. TypeOK'
  BY <1>1, <1>2 DEF Pass, IInv, TypeOK, Based
<1> QED
  BY <1>1, <1>3 DEF Pass, IInv

(* Putting out an inserted token.                                           *)
LEMMA InsertIInv ==
    ASSUME IInv, NEW t \in Token, NEW s, Based(s), Insert(t, s)
    PROVE  IInv'
<1>1. out' \in Seq(Token)
  BY DEF Insert
<1> QED
  BY <1>1 DEF Insert, IInv, TypeOK, Based

(* Changing only the stack.                                                 *)
LEMMA RestackIInv ==
    ASSUME IInv, NEW s, Based(s), Restack(s)
    PROVE  IInv'
  BY DEF Restack, IInv, TypeOK, Based

LEMMA FinishIInv ==
    ASSUME IInv, NEW chunk \in Seq(Token), Finish(chunk)
    PROVE  IInv'
  BY DEF Finish, IInv, TypeOK, Outcomes

LEMMA LexIInv ==
    ASSUME IInv, Lex \/ LexEof
    PROVE  IInv'
<1>1. CASE Lex
  <2>1. PICK t \in Token : ts' = Append(ts, t) /\ t.col >= 1
    <3>1. PICK s \in Sym, line \in 1..MaxLine, col \in 1..MaxCol :
            ts' = Append(ts, [sym |-> s, line |-> line, col |-> col,
                              head |-> ts = <<>> \/ line > ts[Len(ts)].line,
                              virtual |-> FALSE])
      BY <1>1 DEF Lex
    <3> DEFINE h == ts = <<>> \/ line > ts[Len(ts)].line
               t == [sym |-> s, line |-> line, col |-> col,
                     head |-> h, virtual |-> FALSE]
    <3>2. h \in BOOLEAN
      OBVIOUS
    <3>3. t \in Token /\ t.col >= 1
      <4> HIDE DEF h
      <4> QED
        BY <3>2, BoundAssumption DEF Token
    <3>4. ts' = Append(ts, t)
      BY <3>1
    <3> QED
      BY <3>3, <3>4
  <2>2. ts' \in Seq(Token) /\ Len(ts') = Len(ts) + 1 /\ ts'[Len(ts) + 1] = t
        /\ \A i \in 1..Len(ts) : ts'[i] = ts[i]
    BY <2>1, AppendProperties DEF IInv, TypeOK
  <2>3. TypeOK'
    BY <1>1, <2>2 DEF Lex, IInv, TypeOK
  <2>4. \A i \in DOMAIN ts' : ts'[i].col >= 1
    BY <2>1, <2>2 DEF IInv, TypeOK
  <2> QED
    BY <1>1, <2>3, <2>4 DEF Lex, IInv
<1>2. CASE LexEof
  BY <1>2 DEF LexEof, IInv, TypeOK
<1> QED
  BY <1>1, <1>2

-----------------------------------------------------------------------------
(* How many blocks a step closes.                                           *)

LEMMA ClosingIsNat ==
    ASSUME IInv
    PROVE  closing \in 0..Len(st)
<1> st \in Seq(Block) /\ Tail(st) \in Seq(Block) /\ Len(Tail(st)) = Len(st) - 1
    /\ Len(st) >= 1
  BY HeadTailProperties DEF IInv, Based
<1> DEFINE moreIndented(b) == ts[1].col < b.col
<1>1. FirstNot(st, isImplicit) - 1 \in 0..Len(st)
  BY DEF FirstNot
<1>2. FirstNot(Tail(st), moreIndented) \in 1..Len(st)
  BY DEF FirstNot
<1> HIDE DEF moreIndented
<1>3. closing \in {FirstNot(st, isImplicit) - 1, FirstNot(Tail(st), moreIndented), 1, 0}
  BY DEF closing, moreIndented
<1> QED
  BY <1>1, <1>2, <1>3

(* Columns of blocks and tokens.                                            *)
LEMMA Columns ==
    ASSUME IInv
    PROVE  /\ \A i \in 1..Len(st) : st[i].col \in Nat
           /\ st # <<>> /\ Len(st) >= 1
           /\ ts # <<>> => ts[1].col \in Nat /\ ts[1].col >= 1
<1>1. st \in Seq(Block) /\ st # <<>>
  BY DEF IInv, Based
<1>2. \A i \in 1..Len(st) : st[i].col \in Nat
  <2>1. \A i \in 1..Len(st) : st[i] \in Block
    BY <1>1
  <2> QED
    BY <2>1 DEF Block
<1>3. ASSUME ts # <<>> PROVE ts[1].col \in Nat /\ ts[1].col >= 1
  <2>1. ts \in Seq(Token)
    BY DEF IInv, TypeOK
  <2>2. 1 \in DOMAIN ts /\ ts[1] \in Token
    BY <1>3, <2>1
  <2> QED
    BY <2>2 DEF IInv, Token
<1> QED
  BY <1>1, <1>2, <1>3

(* A stop word leaves the outermost block: it is not more indented.         *)
LEMMA StopLeavesBase ==
    ASSUME IInv, AtStop, st[1].col > 1
    PROVE  closing \in 1..(Len(st) - 1)
<1> DEFINE bs == Tail(st)
           moreIndented(b) == ts[1].col < b.col
           D == {i \in DOMAIN bs : /\ ~moreIndented(bs[i])
                                   /\ \A j \in 1..(i-1) : moreIndented(bs[j])}
           S == {i \in DOMAIN bs : ~moreIndented(bs[i])}
<1>1. st \in Seq(Block) /\ Len(st) >= 1 /\ st[Len(st)].col <= 1
  BY DEF IInv, Based
<1>2. \A i \in 1..Len(st) : st[i].col \in Nat
  BY Columns
<1>3. Len(st) > 1
  BY <1>1, <1>2
<1>4. /\ bs \in Seq(Block) /\ Len(bs) = Len(st) - 1
      /\ bs[Len(bs)] = st[Len(st)]
  BY <1>1, <1>3, HeadTailProperties
<1>5. ts[1].col \in Nat /\ ts[1].col >= 1
  BY Columns DEF AtStop, AtWord, AtTok
<1>6. ~moreIndented(bs[Len(bs)])
  BY <1>1, <1>2, <1>3, <1>4, <1>5
<1> HIDE DEF moreIndented
<1>7. PICK i \in S : \A j \in S : i <= j
  <2>1. S \in SUBSET Nat /\ Len(bs) \in S
    BY <1>3, <1>4, <1>6
  <2> HIDE DEF S
  <2> QED
    BY <2>1, LeastElement
<1>8. i \in D
  <2>1. i \in 1..Len(bs) /\ ~moreIndented(bs[i])
    BY <1>4
  <2>2. \A j \in 1..(i-1) : j \in 1..Len(bs) /\ ~(i <= j)
    BY <2>1
  <2>3. \A j \in 1..(i-1) : moreIndented(bs[j])
    BY <1>4, <1>7, <2>2
  <2> QED
    BY <1>4, <2>1, <2>3
<1>9. FirstNot(bs, moreIndented) \in D
  BY <1>8 DEF FirstNot
<1>10. FirstNot(bs, moreIndented) \in 1..(Len(st) - 1)
  BY <1>4, <1>9
<1>11. closing = FirstNot(bs, moreIndented)
  BY DEF closing, AtStop, AtClose, AtDedent, AtLineHead, AtWord, moreIndented
<1> QED
  BY <1>10, <1>11

(* A block that dedentation closes does not start in the first column.      *)
LEMMA DedentIsIndented ==
    ASSUME IInv, AtDedent
    PROVE  st[1].col > 1 /\ st[1].col \in Nat
<1>1. 1 \in 1..Len(st) /\ ts # <<>> /\ ts[1].col < st[1].col
  BY Columns DEF AtDedent, AtLineHead, AtWord, AtTok, IInv, Based
<1> QED
  BY <1>1, Columns

(* No step closes the outermost block.                                      *)
LEMMA BaseStays ==
    ASSUME IInv, AtTok, ~unmatched
    PROVE  closing < Len(st)
<1>a. closing \in 0..Len(st)
  BY ClosingIsNat
<1>b. st \in Seq(Block) /\ Len(st) \in Nat /\ Len(st) >= 1
  BY Columns DEF IInv, Based
<1>1. CASE AtClose
  BY <1>1, <1>a, <1>b DEF unmatched
<1>2. CASE AtStop /\ st[1].col > 1
  BY <1>2, <1>b, StopLeavesBase
<1>3. CASE AtDedent
  <2>1. closing = 1
    BY <1>3 DEF closing, AtClose, AtStop, AtDedent, AtLineHead, AtWord
  <2>2. st[1].col > 1 /\ st[1].col \in Nat
    BY <1>3, DedentIsIndented
  <2>3. 1 < Len(st)
    <3>1. st[Len(st)].col <= 1
      BY DEF IInv, Based
    <3>2. Len(st) # 1
      BY <2>2, <3>1
    <3> QED
      BY <1>b, <3>2
  <2> QED
    BY <2>1, <2>3, Zenon
<1>4. CASE ~AtClose /\ ~(AtStop /\ st[1].col > 1) /\ ~AtDedent
  BY <1>4, <1>b DEF closing
<1> QED
  BY <1>1, <1>2, <1>3, <1>4

(* The only error of res is an unmatched closing bracket.                   *)
LEMMA OnlyUnmatched ==
    ASSUME IInv
    PROVE  layoutError \in {"none", "unmatchedClose"}
<1>1. st # <<>>
  BY Columns
<1>2. \A i \in 1..(Len(st) - 1) : st[i].kind # "Toplevel"
  BY DEF IInv, Based
<1>3. ASSUME AtTok, ~unmatched, NEW i \in 1..closing
      PROVE  st[i].kind # "Toplevel"
  BY <1>2, <1>3, BaseStays, ClosingIsNat DEF IInv, Based
<1>4. ~(AtEnd /\ pt # NoTok /\ st[1].kind = "Toplevel" /\ Len(st) > 1)
  BY <1>2 DEF IInv, Based
<1> QED
  BY <1>1, <1>3, <1>4 DEF layoutError

-----------------------------------------------------------------------------
(* Every step keeps the invariant, one action at a time.                    *)

LEMMA ResIInv ==
    ASSUME IInv, res
    PROVE  IInv'
<1> Based(st) /\ st \in Seq(Block) /\ Len(st) \in Nat /\ Len(st) >= 1
  BY Columns DEF IInv, Based
<1> closing \in 0..Len(st)
  BY ClosingIsNat
<1> <<>> \in Seq(Token)
  OBVIOUS
<1> pt \in Token \cup {NoTok}
  BY DEF IInv, TypeOK
<1>t. ts # <<>> => ts[1] \in Token /\ ts[1].line \in Nat /\ ts[1].col \in Nat
  <2>1. ts \in Seq(Token)
    BY DEF IInv, TypeOK
  <2>2. ts # <<>> => ts[1] \in Token
    BY <2>1
  <2> QED
    BY <2>2 DEF Token
<1>1. CASE Fail
  BY <1>1, OnlyUnmatched DEF Fail, IInv, TypeOK, Outcomes
<1>2. CASE OpenExplicit
  <2>1. ExplicitBlock \in Block /\ ExplicitBlock.kind # "Toplevel"
    BY DEF ExplicitBlock, Block, Kinds, Statuses
  <2> QED
    BY <1>2, <2>1, PushBased, PassIInv DEF OpenExplicit, AtTok
<1>3. CASE CloseExplicit
  <2>1. AtTok /\ ~unmatched
    BY <1>3, OnlyUnmatched DEF CloseExplicit, Pass, AtClose, layoutError, AtTok
  <2>2. closing + 2 \in 1..Len(st)
    BY <1>3, <2>1 DEF unmatched, CloseExplicit
  <2>3. Based(From(st, closing + 2))
    BY <2>2, FromBased
  <2>4. closers(closing, ts[1]) \in Seq(Token)
    BY <1>t, <2>1, ClosersAreTokens DEF AtTok
  <2> QED
    BY <1>3, <2>1, <2>3, <2>4, PassIInv DEF CloseExplicit, AtTok
<1>4. CASE StopAtTop
  BY <1>4, PassIInv DEF StopAtTop, AtStop, AtWord, AtTok
<1>5. CASE StopBlock
  <2>1. closing + 1 \in 1..Len(st)
    BY <1>5, StopLeavesBase DEF StopBlock
  <2>2. Based(From(st, closing + 1))
    BY <2>1, FromBased
  <2>3. closers(closing, afterPrev(pt)) \in Seq(Token)
    BY PositionAfterPrev, ClosersAreTokens
  <2> QED
    BY <1>5, <2>2, <2>3, PassIInv DEF StopBlock, AtStop, AtWord, AtTok
<1>6. CASE Dedent
  <2>1. st[1].col > 1 /\ st[1].col \in Nat
    BY <1>6, DedentIsIndented DEF Dedent
  <2>2. Based(Tail(st))
    <3>1. Len(st) # 1
      BY <2>1 DEF Based
    <3> QED
      BY <3>1, TailBased
  <2>3. sToken(afterPrev(pt), "}") \in Token
    BY PositionAfterPrev, BracesAreSymbols, InsertedToken
  <2> QED
    BY <1>6, <2>2, <2>3, InsertIInv DEF Dedent
<1>7. CASE Confirm
  <2> DEFINE s == <<definitive(st[1])>> \o confirm(st[1].col, Tail(st))
  <2>1. /\ Tail(st) \in Seq(Block) /\ Len(Tail(st)) = Len(st) - 1
        /\ \A i \in 1..(Len(st) - 1) : Tail(st)[i] = st[i + 1]
    BY HeadTailProperties
  <2>2. st[1] \in Block
    OBVIOUS
  <2>3. definitive(st[1]) \in Block /\ definitive(st[1]).kind = st[1].kind
        /\ definitive(st[1]).col = st[1].col
    BY <2>2, DefinitiveBlock
  <2> DEFINE cs == confirm(st[1].col, Tail(st))
  <2>4. /\ cs \in Seq(Block) /\ Len(cs) = Len(st) - 1
        /\ \A i \in 1..(Len(st) - 1) :
              cs[i].kind = st[i + 1].kind /\ cs[i].col = st[i + 1].col
    <3> DEFINE bs == Tail(st)
    <3>1. /\ confirm(st[1].col, bs) \in Seq(Block)
          /\ Len(confirm(st[1].col, bs)) = Len(bs)
          /\ \A i \in 1..Len(bs) :
                /\ confirm(st[1].col, bs)[i].kind = bs[i].kind
                /\ confirm(st[1].col, bs)[i].col = bs[i].col
      <4> HIDE DEF bs
      <4>1. bs \in Seq(Block)
        BY <2>1 DEF bs
      <4> QED
        BY <4>1, ConfirmProperties
    <3> QED
      BY <2>1, <3>1
  <2> HIDE DEF cs
  <2>5. /\ s \in Seq(Block) /\ Len(s) = Len(st)
        /\ s[1] = definitive(st[1])
        /\ \A i \in 2..Len(st) : s[i] = cs[i - 1]
    BY <2>3, <2>4, ConcatProperties DEF cs
  <2>6. \A i \in 1..Len(st) : s[i].kind = st[i].kind /\ s[i].col = st[i].col
    BY <2>3, <2>4, <2>5
  <2>7. Based(s)
    BY <2>5, <2>6, RestatusBased
  <2> QED
    BY <1>7, <2>7, RestackIInv DEF Confirm
<1>8. CASE StartExplicit
  BY <1>8, SeparatorIsToken, PassIInv DEF StartExplicit, Settled, AtWord, AtTok
<1>10. CASE Plain
  BY <1>10, SeparatorIsToken, PassIInv DEF Plain, Settled, AtWord, AtTok
<1>11. CASE EndEmptyInput
  BY <1>11, FinishIInv DEF EndEmptyInput
<1>12. CASE EndExplicit
  <2>1. CASE Len(st) = 1
    BY <1>12, <2>1, FinishIInv DEF EndExplicit
  <2>2. CASE Len(st) # 1
    <3>1. Based(Tail(st))
      BY <2>2, TailBased
    <3>2. Restack(Tail(st))
      BY <1>12, <2>2 DEF EndExplicit, Restack
    <3> QED
      BY <3>1, <3>2, RestackIInv
  <2> QED
    BY <2>1, <2>2
<1>13. CASE EndTop
  <2>1. pt \in Token
    BY <1>13 DEF EndTop
  <2>2. sToken(nextPos(pt), ";") \in Token
    BY <2>1, PositionAfter, BracesAreSymbols, InsertedToken
  <2>3. <<sToken(nextPos(pt), ";")>> \in Seq(Token)
    <3>1. \A t \in Token : <<t>> \in Seq(Token)
      OBVIOUS
    <3> QED
      BY <2>2, <3>1
  <2>4. CASE pt.sym \in layoutSep
    BY <1>13, <2>4, FinishIInv DEF EndTop
  <2>5. CASE pt.sym \notin layoutSep
    BY <1>13, <2>3, <2>5, FinishIInv DEF EndTop
  <2> QED
    BY <2>4, <2>5
<1>14. CASE EndImplicit
  <2>1. pt \in Token /\ Len(st) > 1
    BY <1>14 DEF EndImplicit
  <2>2. sToken(nextPos(pt), "}") \in Token
    BY <2>1, PositionAfter, BracesAreSymbols, InsertedToken
  <2>3. Based(Tail(st))
    BY <2>1, TailBased
  <2> QED
    BY <1>14, <2>2, <2>3, InsertIInv DEF EndImplicit
<1>9. CASE StartImplicit
  <2> DEFINE b  == sToken(nextPos(ts[1]), "{")
             t1 == IF Len(ts) > 1 THEN ts[2] ELSE ts[1]
  <2>1. ts \in Seq(Token) /\ ts # <<>> /\ Len(ts) <= 2
    BY <1>9 DEF StartImplicit, Settled, AtWord, AtTok, IInv, TypeOK
  <2>2. ts[1] \in Token /\ t1 \in Token
    BY <2>1
  <2>3. b \in Token
    BY <2>2, PositionAfter, BracesAreSymbols, InsertedToken
  <2>4. Based(addImplicit(ts[1], t1, st))
    BY <2>2, AddImplicitBased
  <2>5. separator(pt, ts[1], st) \in Seq(Token)
    BY SeparatorIsToken
  <2>6. /\ out' = separator(pt, ts[1], st) \o <<ts[1], b>>
        /\ pt' = b
        /\ st' = addImplicit(ts[1], t1, st)
        /\ ts' = Tail(ts)
        /\ UNCHANGED <<eof, outcome>>
    BY <1>9 DEF StartImplicit
  <2> HIDE DEF b, t1
  <2>7. <<ts[1], b>> \in Seq(Token)
    BY <2>2, <2>3
  <2>8. out' \in Seq(Token)
    BY <2>5, <2>6, <2>7, ConcatProperties
  <2>9. Tail(ts) \in Seq(Token) /\ Len(Tail(ts)) <= 2
        /\ \A i \in DOMAIN Tail(ts) : Tail(ts)[i] = ts[i + 1] /\ i + 1 \in DOMAIN ts
    BY <2>1, HeadTailProperties
  <2>10. TypeOK'
    BY <2>3, <2>4, <2>6, <2>8, <2>9 DEF IInv, TypeOK, Based
  <2> QED
    BY <2>4, <2>6, <2>9, <2>10 DEF IInv
<1> QED
  BY <1>1, <1>2, <1>3, <1>4, <1>5, <1>6, <1>7, <1>8, <1>9, <1>10, <1>11,
     <1>12, <1>13, <1>14 DEF res

LEMMA StutterIInv ==
    ASSUME IInv, UNCHANGED vars
    PROVE  IInv'
  BY DEF IInv, TypeOK, Based, vars

(* The inductive invariant holds in every reachable state.                  *)
THEOREM Invariant == Spec => []IInv
<1>1. Init => IInv
  BY InitIInv
<1>2. IInv /\ [Next]_vars => IInv'
  BY LexIInv, ResIInv, StutterIInv DEF Next
<1> QED
  BY <1>1, <1>2, PTL DEF Spec

(* The state of the resolver is well typed.                                 *)
THEOREM TypeCorrect == Spec => []TypeOK
<1>1. IInv => TypeOK
  BY DEF IInv
<1> QED
  BY <1>1, Invariant, PTL

(* No file makes the resolver of any grammar reach an equation that it      *)
(* calls impossible.                                                        *)
THEOREM NoInternalErrorEver == Spec => []NoInternalError
<1>1. IInv => NoInternalError
  BY DEF IInv, NoInternalError
<1> QED
  BY <1>1, Invariant, PTL

-----------------------------------------------------------------------------
(* The resolver implements BracketedOutput.                                 *)

(* What ties the resolver's state to its output, beside IInv.               *)
NestInv ==
    /\ \A i \in DOMAIN ts : ~ts[i].virtual
    /\ \A i \in DOMAIN st : st[i].kind = "Explicit" => st[i].col = 0
    /\ pt # NoTok /\ pt.sym \in LayoutWords
          => ts # <<>> /\ ts[1].sym \in layoutOpen
    /\ ts = <<>> /\ ~eof => out = <<>>
    /\ pt = NoTok => Len(st) = 1

-----------------------------------------------------------------------------
(* The effect of several tokens.                                            *)

(* A fold over the subsets of the positions exists: by induction on the     *)
(* number of positions, each new one being the greatest of its subsets.     *)
IsFold(g, s, b, D) ==
    g = [x \in SUBSET D |->
           IF x = {} THEN b
           ELSE Nesting!Effect(g[x \ {Nesting!Max(x)}], s[Nesting!Max(x)])]

Folds(s, b, D) == \E g : IsFold(g, s, b, D)

IsTrace(tr, s, b, n) ==
    /\ tr[0] = b
    /\ \A i \in 1..n : tr[i] = Nesting!Effect(tr[i - 1], s[i])

LEMMA GreatestOf ==
    ASSUME NEW x \in SUBSET Int, NEW n \in x, \A i \in x : i <= n
    PROVE  Nesting!Max(x) = n
<1>1. \A y \in x : (\A z \in x : y >= z) => y = n
  OBVIOUS
<1>2. n \in x /\ \A z \in x : n >= z
  OBVIOUS
<1> QED
  BY <1>1, <1>2 DEF Nesting!Max

LEMMA FoldStep ==
    ASSUME NEW s, NEW b, NEW n \in Nat, Folds(s, b, 1..n)
    PROVE  Folds(s, b, 1..(n + 1))
<1> DEFINE E(g, x) == IF x = {} THEN b
                      ELSE Nesting!Effect(g[x \ {Nesting!Max(x)}], s[Nesting!Max(x)])
<1>1. PICK g : g = [x \in SUBSET (1..n) |-> E(g, x)]
  BY DEF Folds, IsFold
<1> DEFINE h == [x \in SUBSET (1..(n + 1)) |->
                   IF n + 1 \in x THEN Nesting!Effect(g[x \ {n + 1}], s[n + 1]) ELSE g[x]]
<1>2. ASSUME NEW x \in SUBSET (1..(n + 1)), n + 1 \in x
      PROVE  h[x] = E(h, x)
  <2>1. Nesting!Max(x) = n + 1
    <3>1. x \in SUBSET Int /\ \A i \in x : i <= n + 1
      OBVIOUS
    <3> QED
      BY <1>2, <3>1, GreatestOf
  <2>2. x \ {n + 1} \in SUBSET (1..n) /\ x \ {n + 1} \in SUBSET (1..(n + 1))
    OBVIOUS
  <2>3. h[x \ {n + 1}] = g[x \ {n + 1}]
    BY <2>2
  <2>4. h[x] = Nesting!Effect(g[x \ {n + 1}], s[n + 1])
    BY <1>2
  <2> HIDE DEF h
  <2> QED
    BY <1>2, <2>1, <2>3, <2>4
<1>3. ASSUME NEW x \in SUBSET (1..(n + 1)), n + 1 \notin x
      PROVE  h[x] = E(h, x)
  <2>1. x \in SUBSET (1..n)
    BY <1>3
  <2>2. h[x] = E(g, x)
    BY <1>1, <1>3, <2>1
  <2>3. \A y : h[x \ {y}] = g[x \ {y}]
    BY <1>3
  <2> QED
    BY <2>2, <2>3, Zenon
<1>4. h = [x \in SUBSET (1..(n + 1)) |-> E(h, x)]
  <2>1. h = [x \in SUBSET (1..(n + 1)) |-> h[x]]
    OBVIOUS
  <2>2. \A x \in SUBSET (1..(n + 1)) : h[x] = E(h, x)
    BY <1>2, <1>3
  <2> HIDE DEF h, E
  <2> QED
    BY <2>1, <2>2
<1> HIDE DEF h
<1> QED
  BY <1>4 DEF Folds, IsFold

LEMMA FoldExists ==
    ASSUME NEW s, NEW b, NEW n \in Nat
    PROVE  Folds(s, b, 1..n)
<1> DEFINE S == {k \in Nat : ~Folds(s, b, 1..k)}
<1>1. SUFFICES ASSUME S # {} PROVE FALSE
  OBVIOUS
<1>2. PICK k \in S : \A j \in S : k <= j
  <2>1. S \in SUBSET Nat
    OBVIOUS
  <2> HIDE DEF S
  <2> QED
    BY <1>1, <2>1, LeastElement
<1>3. k # 0
  <2>1. Folds(s, b, 1..0)
    <3> DEFINE g == [x \in SUBSET (1..0) |-> b]
    <3>1. \A x \in SUBSET (1..0) : x = {}
      OBVIOUS
    <3>2. g = [x \in SUBSET (1..0) |->
                 IF x = {} THEN b
                 ELSE Nesting!Effect(g[x \ {Nesting!Max(x)}], s[Nesting!Max(x)])]
      BY <3>1
    <3> HIDE DEF g
    <3> QED
      BY <3>2 DEF Folds, IsFold
  <2> QED
    BY <2>1
<1>4. k - 1 \in Nat /\ k - 1 \notin S
  BY <1>2, <1>3
<1>5. Folds(s, b, 1..((k - 1) + 1))
  BY <1>4, FoldStep
<1> QED
  BY <1>5

(* A fold follows the tokens one by one.                                    *)
LEMMA FoldInterval ==
    ASSUME NEW n \in Nat, NEW s, NEW b, NEW g,
           IsFold(g, s, b, 1..n)
    PROVE  /\ g[1..0] = b
           /\ \A k \in 1..n : g[1..k] = Nesting!Effect(g[1..(k - 1)], s[k])
<1>1. g[1..0] = b
  <2>1. 1..0 = {} /\ {} \in SUBSET (1..n)
    OBVIOUS
  <2> QED
    BY <2>1 DEF IsFold
<1>2. ASSUME NEW k \in 1..n
      PROVE  g[1..k] = Nesting!Effect(g[1..(k - 1)], s[k])
  <2> DEFINE x == 1..k
  <2>1. x \in SUBSET (1..n) /\ x # {}
    <3>1. \A i \in 1..k : i \in 1..n
      OBVIOUS
    <3>2. k \in 1..k
      OBVIOUS
    <3> QED
      BY <3>1, <3>2
  <2>2. Nesting!Max(x) = k
    <3>1. x \in SUBSET Int /\ k \in x /\ \A i \in x : i <= k
      OBVIOUS
    <3> HIDE DEF x
    <3> QED
      BY <3>1, GreatestOf
  <2>3. x \ {k} = 1..(k - 1)
    OBVIOUS
  <2> HIDE DEF x
  <2>4. g[x] = Nesting!Effect(g[x \ {Nesting!Max(x)}], s[Nesting!Max(x)])
    BY <2>1 DEF IsFold
  <2> QED
    BY <2>2, <2>3, <2>4 DEF x
<1> QED
  BY <1>1, <1>2

LEMMA TraceExists ==
    ASSUME NEW n \in Nat, NEW s, NEW b
    PROVE  \E tr : IsTrace(tr, s, b, n)
<1>1. PICK g : IsFold(g, s, b, 1..n)
  BY FoldExists DEF Folds
<1>2. /\ g[1..0] = b
      /\ \A k \in 1..n : g[1..k] = Nesting!Effect(g[1..(k - 1)], s[k])
  BY <1>1, FoldInterval
<1> DEFINE tr == [i \in 0..n |-> g[1..i]]
<1>3. tr[0] = b
  BY <1>2
<1>4. ASSUME NEW i \in 1..n
      PROVE  tr[i] = Nesting!Effect(tr[i - 1], s[i])
  <2>1. tr[i] = g[1..i] /\ tr[i - 1] = g[1..(i - 1)]
    OBVIOUS
  <2> HIDE DEF tr
  <2> QED
    BY <1>2, <2>1
<1> HIDE DEF tr
<1> QED
  BY <1>3, <1>4 DEF IsTrace

(* The effect of a sequence of tokens is the last state of its trace.       *)
LEMMA FoldTrace ==
    ASSUME NEW n \in Nat, NEW s, DOMAIN s = 1..n, NEW b, NEW tr, IsTrace(tr, s, b, n)
    PROVE  Nesting!FoldLeft(Nesting!Effect, b, s) = tr[n]
<1>1. PICK h :
        /\ IsFold(h, s, b, DOMAIN s)
        /\ Nesting!FoldLeft(Nesting!Effect, b, s) = h[DOMAIN s]
  <2>1. PICK g : IsFold(g, s, b, DOMAIN s)
    BY FoldExists DEF Folds
  <2> QED
    BY <2>1, Zenon DEF IsFold, Nesting!FoldLeft, Nesting!MapThenFoldSet
<1>2. /\ h[1..0] = b
      /\ \A k \in 1..n : h[1..k] = Nesting!Effect(h[1..(k - 1)], s[k])
  <2>1. IsFold(h, s, b, 1..n)
    BY <1>1
  <2> QED
    BY <2>1, FoldInterval
<1> DEFINE S == {k \in 0..n : h[1..k] # tr[k]}
<1>3. ASSUME S # {} PROVE FALSE
  <2>1. PICK k \in S : \A j \in S : k <= j
    <3>1. S \in SUBSET Nat
      OBVIOUS
    <3> HIDE DEF S
    <3> QED
      BY <1>3, <3>1, LeastElement
  <2>2. k # 0
    BY <1>2 DEF IsTrace
  <2>3. k - 1 \in 0..n /\ h[1..(k - 1)] = tr[k - 1] /\ k \in 1..n
    BY <2>1, <2>2
  <2> QED
    BY <1>2, <2>3 DEF IsTrace
<1>4. n \in 0..n /\ n \notin S
  BY <1>3
<1> QED
  BY <1>1, <1>4, Zenon

LEMMA FoldEmpty ==
    ASSUME NEW b
    PROVE  Nesting!FoldLeft(Nesting!Effect, b, <<>>) = b
<1> DEFINE tr == [i \in 0..0 |-> b]
<1>1. tr[0] = b
  OBVIOUS
<1> HIDE DEF tr
<1>2. 1..0 = {} /\ DOMAIN <<>> = 1..0 /\ 0 \in Nat
  OBVIOUS
<1>3. IsTrace(tr, <<>>, b, 0)
  BY <1>1, <1>2 DEF IsTrace
<1> QED
  BY <1>1, <1>2, <1>3, FoldTrace

LEMMA FoldAppend ==
    ASSUME NEW c \in Seq(Token), NEW t \in Token, NEW b
    PROVE  Nesting!FoldLeft(Nesting!Effect, b, Append(c, t))
             = Nesting!Effect(Nesting!FoldLeft(Nesting!Effect, b, c), t)
<1> DEFINE n == Len(c)
           s == Append(c, t)
<1>1. /\ n \in Nat /\ n + 1 \in Nat /\ DOMAIN c = 1..n /\ DOMAIN s = 1..(n + 1)
      /\ s[n + 1] = t /\ \A i \in 1..n : s[i] = c[i]
      /\ \A i \in 1..n : i \in 1..(n + 1)
  OBVIOUS
<1> HIDE DEF n, s
<1>2. PICK tr : IsTrace(tr, s, b, n + 1)
  BY <1>1, TraceExists
<1>3. Nesting!FoldLeft(Nesting!Effect, b, c) = tr[n]
  <2>1. IsTrace(tr, c, b, n)
    BY <1>1, <1>2 DEF IsTrace
  <2> QED
    BY <1>1, <1>2, <2>1, FoldTrace
<1>4. Nesting!FoldLeft(Nesting!Effect, b, s) = tr[n + 1]
  BY <1>1, <1>2, FoldTrace
<1>5. tr[n + 1] = Nesting!Effect(tr[n], t)
  <2>1. n + 1 \in 1..(n + 1) /\ (n + 1) - 1 = n
    BY <1>1
  <2> QED
    BY <1>1, <1>2, <2>1 DEF IsTrace
<1> QED
  BY <1>3, <1>4, <1>5 DEF s

(* What a sequence of tokens does to the output.                            *)
Yields(o, p, toks, o1, p1) ==
    Nesting!FoldLeft(Nesting!Effect, [open |-> o, last |-> p], toks)
        = [open |-> o1, last |-> p1]

Effects(o, p, t, o1) ==
    Nesting!Effect([open |-> o, last |-> p], t) = [open |-> o1, last |-> t]

LEMMA YieldsMore ==
    ASSUME NEW c \in Seq(Token), NEW t \in Token, NEW o, NEW p, NEW o1, NEW p1, NEW o2,
           Yields(o, p, c, o1, p1), Effects(o1, p1, t, o2)
    PROVE  Yields(o, p, Append(c, t), o2, t)
  BY FoldAppend DEF Yields, Effects

LEMMA YieldsNothing ==
    ASSUME NEW o, NEW p
    PROVE  Yields(o, p, <<>>, o, p)
  BY FoldEmpty DEF Yields

LEMMA YieldsOne ==
    ASSUME NEW t \in Token, NEW o, NEW p, NEW o1, Effects(o, p, t, o1)
    PROVE  Yields(o, p, <<t>>, o1, t)
<1>1. Append(<<>>, t) = <<t>> /\ <<>> \in Seq(Token)
  OBVIOUS
<1> QED
  BY <1>1, YieldsNothing, YieldsMore

-----------------------------------------------------------------------------
(* What each kind of token does to the open brackets.                       *)

LEMMA Separate ==
    ASSUME SeparateWords
    PROVE  /\ "{" \notin LayoutWords /\ "}" \notin LayoutWords /\ ";" \notin LayoutWords
           /\ \A w \in LayoutWords : w \notin layoutOpen \cup ParenOpen
           /\ \A w \in LayoutWords : w \notin layoutClose \cup ParenClose
           /\ \A w \in LayoutWords : w \notin StopWords
           /\ "{" \notin ParenOpen
  BY ParenAssumption DEF SeparateWords, Brackets, layoutOpen, layoutClose

LEMMA InsertedBrace ==
    ASSUME NEW t, t.virtual, t.sym = "{", NEW p, p # NoTok, p.sym \in LayoutWords, NEW o
    PROVE  Effects(o, p, t, <<"inserted">> \o o)
  BY DEF Effects, Nesting!Effect, Nesting!AfterWord

LEMMA InsertedClose ==
    ASSUME NEW t, t.virtual, t.sym = "}", NEW p, NEW o, o # <<>>, o[1] = "inserted"
    PROVE  Effects(o, p, t, Tail(o))
  BY DEF Effects, Nesting!Effect

LEMMA InsertedSeparator ==
    ASSUME SeparateWords, NEW t, t.virtual, t.sym = ";",
           NEW p, p # NoTok, p.sym \notin LayoutWords \cup layoutSep \cup layoutOpen,
           NEW o, IF o = <<>> THEN toplevelOf(st) ELSE o[1] = "inserted"
    PROVE  Effects(o, p, t, o)
<1>1. ~Nesting!AfterWord(p) /\ ~Nesting!AfterSeparator(p)
  BY Separate DEF Nesting!AfterWord, Nesting!AfterSeparator
<1>2. Nesting!InList(o)
  BY DEF Nesting!InList
<1> QED
  BY <1>1, <1>2 DEF Effects, Nesting!Effect

(* Tokens of the input.                                                     *)
LEMMA InputOpen ==
    ASSUME SeparateWords, NEW t, ~t.virtual, isOpen(t), NEW p, NEW o,
           p # NoTok /\ p.sym \in LayoutWords => t.sym \in layoutOpen
    PROVE  Effects(o, p, t, <<"input">> \o o)
<1>1. CASE Nesting!AfterWord(p)
  <2>1. t.sym = "{"
    BY <1>1 DEF Nesting!AfterWord, layoutOpen
  <2> QED
    BY <1>1, <2>1 DEF Effects, Nesting!Effect
<1>2. CASE ~Nesting!AfterWord(p)
  BY <1>2 DEF Effects, Nesting!Effect, isOpen
<1> QED
  BY <1>1, <1>2

LEMMA InputClose ==
    ASSUME NEW t, ~t.virtual, ~isOpen(t), isClose(t),
           NEW p, p # NoTok => p.sym \notin LayoutWords,
           NEW o, o # <<>>, o[1] = "input"
    PROVE  Effects(o, p, t, Tail(o))
<1>1. ~Nesting!AfterWord(p)
  BY DEF Nesting!AfterWord
<1> QED
  BY <1>1 DEF Effects, Nesting!Effect, isOpen, isClose

LEMMA InputPlain ==
    ASSUME NEW t, ~t.virtual, ~isOpen(t), ~isClose(t),
           NEW p, p # NoTok => p.sym \notin LayoutWords, NEW o
    PROVE  Effects(o, p, t, o)
<1>1. ~Nesting!AfterWord(p)
  BY DEF Nesting!AfterWord
<1> QED
  BY <1>1 DEF Effects, Nesting!Effect, isOpen, isClose

-----------------------------------------------------------------------------
(* What is open, as the stack changes.                                      *)

LEMMA OpenIs ==
    ASSUME NEW bs \in Seq(Block), bs # <<>>
    PROVE  /\ openOf(bs) \in Seq({"input", "inserted"})
           /\ Len(openOf(bs)) = Len(bs) - 1
           /\ \A i \in 1..(Len(bs) - 1) : openOf(bs)[i] = bracketOf(bs[i])
<1>1. \A b : bracketOf(b) \in {"input", "inserted"}
  BY DEF bracketOf
<1>2. Len(bs) - 1 \in Nat
  BY EmptySeq
<1> DEFINE n == Len(bs) - 1
<1> HIDE DEF n
<1>3. openOf(bs) = [i \in 1..n |-> bracketOf(bs[i])]
  BY DEF openOf, n
<1>4. openOf(bs) \in [1..n -> {"input", "inserted"}]
  BY <1>1, <1>3
<1>5. openOf(bs) \in Seq({"input", "inserted"}) /\ Len(openOf(bs)) = n
  BY <1>2, <1>3, <1>4 DEF n
<1> QED
  BY <1>3, <1>5 DEF n

LEMMA OpenPush ==
    ASSUME NEW bs \in Seq(Block), bs # <<>>, NEW b \in Block
    PROVE  /\ openOf(<<b>> \o bs) = <<bracketOf(b)>> \o openOf(bs)
           /\ toplevelOf(<<b>> \o bs) = toplevelOf(bs)
<1> DEFINE cs == <<b>> \o bs
           q  == openOf(bs)
           a  == bracketOf(b)
           B  == {"input", "inserted"}
<1>1. /\ cs \in Seq(Block) /\ Len(cs) = Len(bs) + 1 /\ Len(bs) \in Nat \ {0}
      /\ cs[1] = b /\ \A i \in 2..Len(cs) : cs[i] = bs[i - 1]
      /\ cs # <<>>
  BY ConcatProperties, EmptySeq
<1>2. /\ q \in Seq(B) /\ Len(q) = Len(bs) - 1
      /\ \A i \in 1..(Len(bs) - 1) : q[i] = bracketOf(bs[i])
  BY OpenIs
<1>3. a \in B
  BY DEF bracketOf
<1> HIDE DEF cs, q, a, B
<1>4. /\ openOf(cs) \in Seq(B) /\ Len(openOf(cs)) = Len(bs)
      /\ \A i \in 1..Len(bs) : openOf(cs)[i] = bracketOf(cs[i])
  <2>1. cs \in Seq(Block) /\ cs # <<>> /\ Len(cs) - 1 = Len(bs)
    BY <1>1
  <2>2. /\ openOf(cs) \in Seq({"input", "inserted"}) /\ Len(openOf(cs)) = Len(cs) - 1
        /\ \A i \in 1..(Len(cs) - 1) : openOf(cs)[i] = bracketOf(cs[i])
    BY <2>1, OpenIs
  <2> QED
    BY <2>1, <2>2 DEF B
<1>5. /\ <<a>> \o q \in Seq(B) /\ Len(<<a>> \o q) = Len(bs)
      /\ (<<a>> \o q)[1] = a
      /\ \A i \in 2..Len(bs) : (<<a>> \o q)[i] = q[i - 1]
  BY <1>1, <1>2, <1>3, ConcatProperties
<1>6. ASSUME NEW i \in 1..Len(bs)
      PROVE  openOf(cs)[i] = (<<a>> \o q)[i]
  <2>1. CASE i = 1
    BY <1>1, <1>4, <1>5, <2>1 DEF a
  <2>2. CASE i # 1
    <3>1. i \in 2..Len(bs) /\ i \in 2..Len(cs) /\ i - 1 \in 1..(Len(bs) - 1)
      BY <1>1, <2>2
    <3> QED
      BY <1>1, <1>2, <1>4, <1>5, <3>1
  <2> QED
    BY <2>1, <2>2
<1>7. openOf(cs) = <<a>> \o q
  BY <1>4, <1>5, <1>6, SeqEqual
<1>8. toplevelOf(cs) = toplevelOf(bs)
  BY <1>1 DEF toplevelOf
<1> QED
  BY <1>7, <1>8 DEF cs, q, a

LEMMA OpenTail ==
    ASSUME NEW bs \in Seq(Block), Len(bs) > 1
    PROVE  /\ openOf(bs) # <<>> /\ openOf(bs)[1] = bracketOf(bs[1])
           /\ openOf(Tail(bs)) = Tail(openOf(bs))
           /\ toplevelOf(Tail(bs)) = toplevelOf(bs)
<1> DEFINE cs == Tail(bs)
           q  == openOf(bs)
           B  == {"input", "inserted"}
<1>1. /\ cs \in Seq(Block) /\ Len(cs) = Len(bs) - 1 /\ cs # <<>>
      /\ \A i \in 1..Len(cs) : cs[i] = bs[i + 1]
  <2>1. bs # <<>>
    OBVIOUS
  <2>2. /\ cs \in Seq(Block) /\ Len(cs) = Len(bs) - 1
        /\ \A i \in 1..Len(cs) : cs[i] = bs[i + 1]
    BY <2>1, HeadTailProperties
  <2> HIDE DEF cs
  <2>3. Len(cs) # 0
    BY <2>2
  <2> QED
    BY <2>2, <2>3
<1>2. /\ q \in Seq(B) /\ Len(q) = Len(bs) - 1
      /\ \A i \in 1..(Len(bs) - 1) : q[i] = bracketOf(bs[i])
  BY OpenIs
<1> HIDE DEF cs, q, B
<1>3. q # <<>> /\ q[1] = bracketOf(bs[1])
  BY <1>2
<1>4. /\ Tail(q) \in Seq(B) /\ Len(Tail(q)) = Len(bs) - 2
      /\ \A i \in 1..(Len(bs) - 2) : Tail(q)[i] = q[i + 1]
  BY <1>2, <1>3, HeadTailProperties
<1>5. /\ openOf(cs) \in Seq(B) /\ Len(openOf(cs)) = Len(bs) - 2
      /\ \A i \in 1..(Len(bs) - 2) : openOf(cs)[i] = bracketOf(cs[i])
  BY <1>1, OpenIs DEF B
<1>6. ASSUME NEW i \in 1..(Len(bs) - 2)
      PROVE  openOf(cs)[i] = Tail(q)[i]
  <2>1. i \in 1..(Len(bs) - 1) /\ i + 1 \in 1..(Len(bs) - 1)
    OBVIOUS
  <2> QED
    BY <1>1, <1>2, <1>4, <1>5, <2>1
<1>7. openOf(cs) = Tail(q)
  BY <1>4, <1>5, <1>6, SeqEqual
<1>8. toplevelOf(cs) = toplevelOf(bs)
  BY <1>1 DEF toplevelOf
<1> QED
  BY <1>3, <1>7, <1>8 DEF cs, q

LEMMA FromOne ==
    ASSUME NEW bs \in Seq(Block), NEW i \in 1..Len(bs)
    PROVE  /\ From(bs, i) \in Seq(Block) /\ Len(From(bs, i)) = Len(bs) - i + 1
           /\ From(bs, i)[1] = bs[i]
           /\ i < Len(bs) => From(bs, i + 1) = Tail(From(bs, i))
           /\ From(bs, 1) = bs
<1>0. Len(bs) \in Nat /\ i \in Nat /\ 1 <= i /\ i <= Len(bs)
  OBVIOUS
<1>1. ASSUME NEW k \in Nat, 1 <= k, k <= Len(bs)
      PROVE  /\ From(bs, k) \in Seq(Block) /\ Len(From(bs, k)) = Len(bs) - k + 1
             /\ \A j \in 1..(Len(bs) - k + 1) : From(bs, k)[j] = bs[k + j - 1]
  <2>1. \A j \in k..Len(bs) : j \in 1..Len(bs)
    BY <1>0, <1>1
  <2>2. \A j \in k..Len(bs) : bs[j] \in Block
    BY <2>1
  <2> QED
    BY <1>0, <1>1, <2>2, SubSeqProperties DEF From
<1>2. From(bs, i)[1] = bs[i]
  BY <1>0, <1>1
<1>3. ASSUME i < Len(bs) PROVE From(bs, i + 1) = Tail(From(bs, i))
  <2> DEFINE f == From(bs, i)
             g == From(bs, i + 1)
  <2>1. /\ f \in Seq(Block) /\ Len(f) = Len(bs) - i + 1 /\ f # <<>>
        /\ \A j \in 1..(Len(bs) - i + 1) : f[j] = bs[i + j - 1]
    BY <1>0, <1>1
  <2>2. /\ g \in Seq(Block) /\ Len(g) = Len(bs) - i
        /\ \A j \in 1..(Len(bs) - i) : g[j] = bs[i + j]
    BY <1>0, <1>1, <1>3
  <2> HIDE DEF f, g
  <2>3. /\ Tail(f) \in Seq(Block) /\ Len(Tail(f)) = Len(bs) - i
        /\ \A j \in 1..(Len(bs) - i) : Tail(f)[j] = f[j + 1]
    BY <1>0, <2>1, HeadTailProperties
  <2>4. ASSUME NEW j \in 1..(Len(bs) - i)
        PROVE  g[j] = Tail(f)[j]
    <3>1. j + 1 \in 1..(Len(bs) - i + 1) /\ i + (j + 1) - 1 = i + j
      BY <1>0, <1>3
    <3>2. f[j + 1] = bs[i + (j + 1) - 1]
      BY <2>1, <3>1
    <3> QED
      BY <2>2, <2>3, <3>1, <3>2
  <2> QED
    BY <1>0, <1>3, <2>2, <2>3, <2>4, SeqEqual DEF f, g
<1>4. From(bs, 1) = bs
  BY <1>0, <1>1, SeqEqual
<1> QED
  BY <1>0, <1>1, <1>2, <1>3, <1>4

(* A stack that differs in the status of blocks has the same open brackets. *)
SameBlocks(cs, bs) ==
    /\ cs \in Seq(Block) /\ Len(cs) = Len(bs)
    /\ \A i \in 1..Len(bs) : cs[i].kind = bs[i].kind /\ cs[i].col = bs[i].col

LEMMA OpenRestatus ==
    ASSUME NEW bs \in Seq(Block), bs # <<>>, NEW cs, SameBlocks(cs, bs)
    PROVE  openOf(cs) = openOf(bs) /\ toplevelOf(cs) = toplevelOf(bs) /\ cs # <<>>
  BY DEF SameBlocks, openOf, bracketOf, toplevelOf

-----------------------------------------------------------------------------
(* NestInv is an invariant.                                                 *)

ZeroExplicit(bs) == \A i \in DOMAIN bs : bs[i].kind = "Explicit" => bs[i].col = 0

LEMMA ZeroPush ==
    ASSUME NEW bs \in Seq(Block), ZeroExplicit(bs), NEW b \in Block,
           b.kind = "Explicit" => b.col = 0
    PROVE  ZeroExplicit(<<b>> \o bs)
  BY DEF ZeroExplicit

LEMMA ZeroFrom ==
    ASSUME NEW bs \in Seq(Block), ZeroExplicit(bs), NEW i \in 1..Len(bs)
    PROVE  ZeroExplicit(From(bs, i))
<1>1. /\ Len(From(bs, i)) = Len(bs) - i + 1 /\ From(bs, i) \in Seq(Block)
      /\ \A j \in 1..(Len(bs) - i + 1) : From(bs, i)[j] = bs[i + j - 1]
  BY DEF From
<1> QED
  BY <1>1 DEF ZeroExplicit

LEMMA ZeroTail ==
    ASSUME NEW bs \in Seq(Block), ZeroExplicit(bs), Len(bs) > 1
    PROVE  ZeroExplicit(Tail(bs))
<1>1. bs # <<>>
  OBVIOUS
<1>2. /\ Tail(bs) \in Seq(Block) /\ Len(Tail(bs)) = Len(bs) - 1
      /\ \A i \in 1..Len(Tail(bs)) : Tail(bs)[i] = bs[i + 1]
  BY <1>1, HeadTailProperties
<1> QED
  BY <1>2 DEF ZeroExplicit

LEMMA ZeroRestatus ==
    ASSUME NEW bs \in Seq(Block), ZeroExplicit(bs), NEW cs, SameBlocks(cs, bs)
    PROVE  ZeroExplicit(cs)
  BY DEF SameBlocks, ZeroExplicit

(* The block that a layout word opens is pushed on a stack that differs     *)
(* from the old one in the status of blocks.                                *)
LEMMA AddImplicitIs ==
    ASSUME NEW bs \in Seq(Block), NEW t0, NEW t1 \in Token
    PROVE  \E b, cs : /\ addImplicit(t0, t1, bs) = <<b>> \o cs
                      /\ b \in Block /\ b.kind = "Implicit"
                      /\ SameBlocks(cs, bs)
<1>1. t1.col \in Nat
  BY DEF Token
<1>2. \A s \in Statuses, c \in Nat :
        ImplicitBlock(s, c) \in Block /\ ImplicitBlock(s, c).kind = "Implicit"
  BY DEF ImplicitBlock, Block, Kinds
<1>3. CASE t1.line > t0.line
  <2> DEFINE cs == confirm(t1.col, bs)
             b  == ImplicitBlock("Definitive", newColumn(t1.col, cs))
  <2>1. SameBlocks(cs, bs)
    BY ConfirmProperties DEF SameBlocks
  <2>2. addImplicit(t0, t1, bs) = <<b>> \o cs
    BY <1>3 DEF addImplicit
  <2> HIDE DEF cs
  <2>3. b \in Block /\ b.kind = "Implicit"
    BY <1>1, <1>2, <2>1, ColumnIsNat DEF Statuses, SameBlocks
  <2> HIDE DEF b
  <2> QED
    BY <2>1, <2>2, <2>3
<1>4. CASE ~(t1.line > t0.line)
  <2> DEFINE b == ImplicitBlock("Tentative", newColumn(t1.col, bs))
  <2>1. b \in Block /\ b.kind = "Implicit"
    BY <1>1, <1>2, ColumnIsNat DEF Statuses
  <2>2. addImplicit(t0, t1, bs) = <<b>> \o bs
    BY <1>4 DEF addImplicit
  <2> HIDE DEF b
  <2>3. SameBlocks(bs, bs)
    BY DEF SameBlocks
  <2> QED
    BY <2>1, <2>2, <2>3
<1> QED
  BY <1>3, <1>4

(* The stack that Confirm leaves differs in the status of blocks.           *)
LEMMA ConfirmIs ==
    ASSUME IInv, Confirm
    PROVE  SameBlocks(st', st)
<1> st \in Seq(Block) /\ Len(st) \in Nat /\ Len(st) >= 1 /\ st # <<>>
  BY Columns DEF IInv, Based
<1> DEFINE bs == Tail(st)
           cs == confirm(st[1].col, bs)
<1>1. /\ bs \in Seq(Block) /\ Len(bs) = Len(st) - 1
      /\ \A i \in 1..Len(bs) : bs[i] = st[i + 1]
  BY HeadTailProperties
<1>2. st[1] \in Block
  OBVIOUS
<1>3. definitive(st[1]) \in Block /\ definitive(st[1]).kind = st[1].kind
      /\ definitive(st[1]).col = st[1].col
  BY <1>2, DefinitiveBlock
<1> HIDE DEF bs
<1>4. /\ cs \in Seq(Block) /\ Len(cs) = Len(bs)
      /\ \A i \in 1..Len(bs) : cs[i].kind = bs[i].kind /\ cs[i].col = bs[i].col
  BY <1>1, ConfirmProperties
<1> HIDE DEF cs
<1>5. st' = <<definitive(st[1])>> \o cs
  BY DEF Confirm, Restack, cs, bs
<1>6. /\ st' \in Seq(Block) /\ Len(st') = Len(st)
      /\ st'[1] = definitive(st[1])
      /\ \A i \in 2..Len(st) : st'[i] = cs[i - 1]
  BY <1>1, <1>3, <1>4, <1>5, ConcatProperties
<1>7. ASSUME NEW i \in 2..Len(st)
      PROVE  st'[i].kind = st[i].kind /\ st'[i].col = st[i].col
  <2>1. i - 1 \in 1..Len(bs) /\ (i - 1) + 1 = i
    BY <1>1
  <2> QED
    BY <1>1, <1>4, <1>6, <2>1
<1> QED
  BY <1>3, <1>6, <1>7 DEF SameBlocks

LEMMA ZeroAddImplicit ==
    ASSUME NEW bs \in Seq(Block), ZeroExplicit(bs), NEW t0, NEW t1 \in Token
    PROVE  ZeroExplicit(addImplicit(t0, t1, bs))
<1>1. PICK b, cs : /\ addImplicit(t0, t1, bs) = <<b>> \o cs
                   /\ b \in Block /\ b.kind = "Implicit"
                   /\ SameBlocks(cs, bs)
  BY AddImplicitIs
<1>2. ZeroExplicit(cs) /\ cs \in Seq(Block)
  BY <1>1, ZeroRestatus DEF SameBlocks
<1> QED
  BY <1>1, <1>2, ZeroPush

(* A sequence of two or more.                                               *)
LEMMA LongTail ==
    ASSUME NEW S, NEW s \in Seq(S), Len(s) > 1
    PROVE  /\ Tail(s) \in Seq(S) /\ Tail(s) # <<>> /\ Tail(s)[1] = s[2]
           /\ DOMAIN Tail(s) = 1..(Len(s) - 1)
<1>1. s # <<>>
  OBVIOUS
<1>2. Tail(s) \in Seq(S) /\ Len(Tail(s)) = Len(s) - 1
      /\ \A i \in 1..Len(Tail(s)) : Tail(s)[i] = s[i + 1]
  BY <1>1, HeadTailProperties
<1>3. Len(Tail(s)) # 0 /\ DOMAIN Tail(s) = 1..(Len(s) - 1)
  BY <1>2
<1>4. Tail(s) # <<>>
  <2>1. Len(<<>>) = 0
    OBVIOUS
  <2> QED
    BY <1>3, <2>1, Zenon
<1>5. Tail(s)[1] = s[2]
  BY <1>2
<1> QED
  BY <1>2, <1>3, <1>4, <1>5

LEMMA InitNest == Init => NestInv
<1>1. \A b \in {ExplicitBlock, ToplevelBlock} : b.kind = "Explicit" => b.col = 0
  BY DEF ExplicitBlock, ToplevelBlock
<1>2. Init => st \in {<<ExplicitBlock>>, <<ToplevelBlock>>}
  BY DEF Init
<1> QED
  BY <1>1, <1>2 DEF Init, NestInv

LEMMA LexNest ==
    ASSUME IInv, NestInv, Lex \/ LexEof
    PROVE  NestInv'
<1>1. CASE Lex
  <2>1. PICK t : ts' = Append(ts, t) /\ t.virtual = FALSE
    BY <1>1 DEF Lex
  <2>2. /\ ts' # <<>> /\ DOMAIN ts' = 1..(Len(ts) + 1) /\ ts'[Len(ts) + 1] = t
        /\ \A i \in 1..Len(ts) : ts'[i] = ts[i]
    BY <2>1 DEF IInv, TypeOK
  <2>3. \A i \in DOMAIN ts' : ~ts'[i].virtual
    BY <2>1, <2>2 DEF IInv, TypeOK, NestInv
  <2>4. ts # <<>> => ts'[1] = ts[1]
    BY <2>2 DEF IInv, TypeOK
  <2> QED
    BY <1>1, <2>2, <2>3, <2>4 DEF Lex, NestInv
<1>2. CASE LexEof
  BY <1>2 DEF LexEof, NestInv
<1> QED
  BY <1>1, <1>2

LEMMA PassNest ==
    ASSUME IInv, NestInv, Ready, ts # <<>>,
           NEW chunk, NEW s, ZeroExplicit(s), Pass(chunk, s),
           ts[1].sym \in LayoutWords => Len(ts) > 1 /\ ts[2].sym \in layoutOpen
    PROVE  NestInv'
<1>1. /\ ts[1] \in Token /\ Tail(ts) \in Seq(Token) /\ Len(Tail(ts)) = Len(ts) - 1
      /\ \A i \in 1..Len(Tail(ts)) : Tail(ts)[i] = ts[i + 1]
      /\ DOMAIN ts = 1..Len(ts) /\ Len(ts) \in Nat \ {0}
  BY HeadTailProperties, EmptySeq DEF IInv, TypeOK
<1>2. pt' = ts[1] /\ ts' = Tail(ts) /\ st' = s /\ eof' = eof
  BY DEF Pass
<1>3. pt' # NoTok
  BY <1>1, <1>2, NoTokAssumption
<1>4. \A i \in DOMAIN ts' : ~ts'[i].virtual
  BY <1>1, <1>2 DEF NestInv
<1>5. Len(ts) > 1 => ts' # <<>> /\ ts'[1] = ts[2]
  BY <1>2, LongTail DEF IInv, TypeOK
<1>6. ASSUME ~eof' PROVE ts' # <<>>
  <2>1. Len(ts) = 2
    BY <1>2, <1>6 DEF Ready
  <2>2. Len(ts) > 1
    BY <2>1
  <2> QED
    BY <1>5, <2>2
<1> QED
  BY <1>2, <1>3, <1>4, <1>5, <1>6 DEF NestInv, ZeroExplicit

LEMMA InsertNest ==
    ASSUME IInv, NestInv, Ready, NEW t \in Token, t.sym \notin LayoutWords,
           NEW s, ZeroExplicit(s), Insert(t, s)
    PROVE  NestInv'
<1>1. pt' = t /\ UNCHANGED <<ts, eof>> /\ st' = s
  BY DEF Insert
<1>2. t # NoTok
  BY NoTokAssumption
<1>3. ~eof' => ts' # <<>>
  BY <1>1 DEF Ready
<1> QED
  BY <1>1, <1>2, <1>3 DEF NestInv, ZeroExplicit

LEMMA NotWord ==
    ASSUME SeparateWords, NEW t, isOpen(t) \/ isClose(t) \/ isStop(t)
    PROVE  t.sym \notin LayoutWords
  BY Separate DEF isOpen, isClose, isStop

LEMMA FinishKeeps ==
    ASSUME NEW chunk, Finish(chunk)
    PROVE  UNCHANGED <<ts, eof, pt, st>> /\ out' = chunk /\ outcome' = "done"
  BY DEF Finish

LEMMA EndIsEnd == AtEnd => eof
<1>1. Len(<<>>) = 0
  OBVIOUS
<1> QED
  BY <1>1 DEF AtEnd, Ready

LEMMA StackSize ==
    ASSUME IInv
    PROVE  st \in Seq(Block) /\ Len(st) \in Nat \ {0} /\ (Len(st) # 1 => Len(st) > 1)
<1>1. st \in Seq(Block) /\ st # <<>>
  BY DEF IInv, Based
<1>2. Len(st) \in Nat \ {0}
  BY <1>1, EmptySeq
<1>3. \A n \in Nat \ {0} : n # 1 => n > 1
  OBVIOUS
<1> QED
  BY <1>1, <1>2, <1>3

LEMMA ResNest ==
    ASSUME SeparateWords, IInv, NestInv, res
    PROVE  NestInv'
<1> Based(st) /\ st \in Seq(Block) /\ Len(st) \in Nat /\ Len(st) >= 1
  BY Columns DEF IInv, Based
<1> ZeroExplicit(st)
  BY DEF NestInv, ZeroExplicit
<1> closing \in 0..Len(st)
  BY ClosingIsNat
<1> pt \in Token \cup {NoTok}
  BY DEF IInv, TypeOK
<1>1. CASE Fail
  BY <1>1 DEF Fail, NestInv
<1>2. CASE OpenExplicit
  <2>1. ExplicitBlock \in Block /\ ExplicitBlock.col = 0
    BY DEF ExplicitBlock, Block, Kinds, Statuses
  <2>2. ZeroExplicit(<<ExplicitBlock>> \o st)
    BY <2>1, ZeroPush
  <2> QED
    BY <1>2, <2>2, PassNest, NotWord DEF OpenExplicit, AtTok
<1>3. CASE CloseExplicit
  <2>1. AtTok /\ ~unmatched /\ isClose(ts[1])
    BY <1>3, OnlyUnmatched DEF CloseExplicit, Pass, AtClose, layoutError, AtTok
  <2>2. closing + 2 \in 1..Len(st)
    BY <1>3, <2>1 DEF unmatched, CloseExplicit
  <2>3. ZeroExplicit(From(st, closing + 2))
    BY <2>2, ZeroFrom
  <2> QED
    BY <1>3, <2>1, <2>3, PassNest, NotWord DEF CloseExplicit, AtTok
<1>4. CASE StopAtTop
  BY <1>4, PassNest, NotWord DEF StopAtTop, AtStop, AtWord, AtTok
<1>5. CASE StopBlock
  <2>1. closing + 1 \in 1..Len(st)
    BY <1>5, StopLeavesBase DEF StopBlock
  <2>2. ZeroExplicit(From(st, closing + 1))
    BY <2>1, ZeroFrom
  <2> QED
    BY <1>5, <2>2, PassNest, NotWord DEF StopBlock, AtStop, AtWord, AtTok
<1>6. CASE Dedent
  <2>1. st[1].col > 1 /\ st[1].col \in Nat
    BY <1>6, DedentIsIndented DEF Dedent
  <2>2. ZeroExplicit(Tail(st))
    <3>1. Len(st) # 1
      BY <2>1 DEF Based
    <3>2. Len(st) > 1
      BY <3>1, StackSize
    <3> QED
      BY <3>2, ZeroTail
  <2>3. sToken(afterPrev(pt), "}") \in Token
    BY PositionAfterPrev, BracesAreSymbols, InsertedToken
  <2>4. sToken(afterPrev(pt), "}").sym \notin LayoutWords
    BY Separate DEF sToken
  <2> QED
    BY <1>6, <2>2, <2>3, <2>4, InsertNest
    DEF Dedent, AtDedent, AtLineHead, AtWord, AtTok
<1>7. CASE Confirm
  <2>1. ZeroExplicit(st') /\ Len(st') = Len(st)
    BY <1>7, ConfirmIs, ZeroRestatus DEF SameBlocks
  <2>2. UNCHANGED <<ts, eof, pt>> /\ ts # <<>>
    BY <1>7 DEF Confirm, Restack, AtConfirm, AtLineHead, AtWord, AtTok
  <2> QED
    BY <2>1, <2>2 DEF NestInv, ZeroExplicit
<1>8. CASE StartExplicit
  BY <1>8, PassNest DEF StartExplicit, Settled, AtWord, AtTok
<1>9. CASE StartImplicit
  <2> DEFINE b  == sToken(nextPos(ts[1]), "{")
             t1 == IF Len(ts) > 1 THEN ts[2] ELSE ts[1]
  <2>1. ts \in Seq(Token) /\ ts # <<>> /\ Ready
    BY <1>9 DEF StartImplicit, Settled, AtWord, AtTok, IInv, TypeOK
  <2>2. ts[1] \in Token /\ t1 \in Token
    BY <2>1
  <2>3. b \in Token /\ b.sym \notin LayoutWords
    <3>1. b \in Token
      BY <2>2, PositionAfter, BracesAreSymbols, InsertedToken
    <3>2. b.sym = "{"
      BY DEF sToken
    <3> QED
      BY <3>1, <3>2, Separate
  <2>4. ZeroExplicit(addImplicit(ts[1], t1, st))
    BY <2>2, ZeroAddImplicit
  <2>5. pt' = b /\ st' = addImplicit(ts[1], t1, st) /\ ts' = Tail(ts) /\ eof' = eof
    BY <1>9 DEF StartImplicit
  <2> HIDE DEF b, t1
  <2>6. /\ Tail(ts) \in Seq(Token) /\ Len(Tail(ts)) = Len(ts) - 1
        /\ \A i \in 1..Len(Tail(ts)) : Tail(ts)[i] = ts[i + 1]
    BY <2>1, HeadTailProperties
  <2>7. \A i \in DOMAIN ts' : ~ts'[i].virtual
    BY <2>1, <2>5, <2>6 DEF NestInv
  <2>8. ASSUME ~eof'
        PROVE  ts' # <<>>
    <3>1. Len(ts) = 2
      BY <2>1, <2>5, <2>8 DEF Ready
    <3>2. Len(ts) > 1
      BY <3>1
    <3> QED
      BY <2>1, <2>5, <3>2, LongTail
  <2>9. pt' # NoTok
    BY <2>3, <2>5, NoTokAssumption
  <2> QED
    BY <2>3, <2>4, <2>5, <2>7, <2>8, <2>9 DEF NestInv, ZeroExplicit
<1>10. CASE Plain
  BY <1>10, PassNest DEF Plain, Settled, AtWord, AtTok
<1>11. CASE EndEmptyInput
  BY <1>11 DEF EndEmptyInput, Finish, NestInv, AtEnd, Ready
<1>12. CASE EndExplicit
  <2>1. eof /\ ts = <<>> /\ pt # NoTok
    BY <1>12 DEF EndExplicit, AtEnd, Ready
  <2>2. CASE Len(st) = 1
    BY <1>12, <2>1, <2>2 DEF EndExplicit, Finish, NestInv
  <2>3. CASE Len(st) # 1
    <3>1. Restack(Tail(st))
      BY <1>12, <2>3 DEF EndExplicit, Restack
    <3>2. Len(st) > 1
      BY <2>3, StackSize
    <3>3. ZeroExplicit(Tail(st))
      BY <3>2, ZeroTail
    <3> QED
      BY <2>1, <3>1, <3>3 DEF Restack, NestInv, ZeroExplicit
  <2> QED
    BY <2>2, <2>3
<1>13. CASE EndTop
  <2>1. eof /\ UNCHANGED <<ts, eof, pt, st>>
    <3>1. eof
      BY <1>13, EndIsEnd DEF EndTop
    <3> QED
      BY <1>13, <3>1, FinishKeeps DEF EndTop
  <2> QED
    BY <2>1 DEF NestInv
<1>14. CASE EndImplicit
  <2>1. pt \in Token /\ Len(st) > 1
    BY <1>14 DEF EndImplicit
  <2>2. sToken(nextPos(pt), "}") \in Token
    BY <2>1, PositionAfter, BracesAreSymbols, InsertedToken
  <2>3. sToken(nextPos(pt), "}").sym \notin LayoutWords
    BY Separate DEF sToken
  <2>4. ZeroExplicit(Tail(st))
    BY <2>1, ZeroTail
  <2> QED
    BY <1>14, <2>2, <2>3, <2>4, InsertNest DEF EndImplicit, AtEnd
<1> QED
  BY <1>1, <1>2, <1>3, <1>4, <1>5, <1>6, <1>7, <1>8, <1>9, <1>10, <1>11,
     <1>12, <1>13, <1>14 DEF res

-----------------------------------------------------------------------------
(* The blocks that a step closes were opened by inserted braces.            *)

(* The first block that is explicit, or none is.                            *)
LEMMA InnermostBrace ==
    ASSUME NEW bs \in Seq(Block)
    PROVE  LET n == FirstNot(bs, isImplicit)
           IN  /\ n \in 1..(Len(bs) + 1)
               /\ \A j \in 1..(n - 1) : bs[j].kind # "Explicit"
               /\ n <= Len(bs) => bs[n].kind = "Explicit"
<1> DEFINE n == FirstNot(bs, isImplicit)
           S == {i \in DOMAIN bs : ~isImplicit(bs[i])}
           D == {i \in DOMAIN bs : /\ ~isImplicit(bs[i])
                                   /\ \A j \in 1..(i-1) : isImplicit(bs[j])}
<1>1. n = IF D = {} THEN Len(bs) + 1 ELSE CHOOSE i \in D : TRUE
  BY DEF FirstNot
<1>2. CASE D # {}
  <2>1. n \in D
    BY <1>1, <1>2
  <2> QED
    BY <2>1 DEF isImplicit
<1>3. CASE D = {}
  <2>1. ASSUME S # {} PROVE FALSE
    <3>1. PICK i \in S : \A j \in S : i <= j
      <4>1. S \in SUBSET Nat
        OBVIOUS
      <4> HIDE DEF S
      <4> QED
        BY <2>1, <4>1, LeastElement
    <3>2. \A j \in 1..(i - 1) : j \in DOMAIN bs /\ ~(i <= j)
      BY <3>1
    <3>3. \A j \in 1..(i - 1) : isImplicit(bs[j])
      BY <3>1, <3>2
    <3>4. i \in D
      BY <3>1, <3>3
    <3> QED
      BY <1>3, <3>4
  <2>2. n = Len(bs) + 1
    BY <1>1, <1>3
  <2> QED
    BY <2>1, <2>2 DEF isImplicit
<1> QED
  BY <1>2, <1>3

(* A stop word closes no explicit block: the block it closes are indented.  *)
LEMMA StopClosesImplicit ==
    ASSUME IInv, NestInv, AtStop, st[1].col > 1
    PROVE  \A i \in 1..closing : st[i].kind # "Explicit"
<1> DEFINE bs == Tail(st)
           moreIndented(b) == ts[1].col < b.col
           D == {i \in DOMAIN bs : /\ ~moreIndented(bs[i])
                                   /\ \A j \in 1..(i-1) : moreIndented(bs[j])}
<1>1. /\ bs \in Seq(Block) /\ Len(bs) = Len(st) - 1
      /\ \A i \in 1..Len(bs) : bs[i] = st[i + 1]
  BY StackSize, EmptySeq, HeadTailProperties
<1>2. closing = FirstNot(bs, moreIndented)
  BY DEF closing, AtStop, AtClose, AtDedent, AtLineHead, AtWord
<1>3. closing \in 1..(Len(st) - 1) /\ Len(st) \in Nat
  BY StopLeavesBase, StackSize
<1>4. closing # Len(bs) + 1
  <2>1. \A i \in Int, j \in Int : i \in 1..j => i # j + 1
    OBVIOUS
  <2>2. closing \in 1..Len(bs) /\ closing \in Int /\ Len(bs) \in Int
    BY <1>1, <1>3
  <2> QED
    BY <2>1, <2>2
<1>5. closing \in D
  BY <1>2, <1>4 DEF FirstNot
<1>6. ts[1].col \in Nat /\ ts[1].col >= 1 /\ \A i \in 1..Len(st) : st[i].col \in Nat
  BY Columns DEF AtStop, AtWord, AtTok
<1>7. ASSUME NEW i \in 2..closing
      PROVE  st[i].kind # "Explicit"
  <2>1. i - 1 \in 1..(closing - 1) /\ i - 1 \in 1..Len(bs) /\ i \in 1..Len(st)
    BY <1>1, <1>3
  <2>2. moreIndented(bs[i - 1]) /\ bs[i - 1] = st[i]
    BY <1>1, <1>5, <2>1
  <2>3. st[i].col # 0
    BY <1>6, <2>1, <2>2
  <2>4. i \in DOMAIN st
    BY <2>1, StackSize
  <2> QED
    BY <2>3, <2>4 DEF NestInv
<1>8. st[1].kind # "Explicit"
  BY DEF AtStop, isImplicit
<1>9. \A i \in 1..closing : i = 1 \/ i \in 2..closing
  BY <1>3
<1> QED
  BY <1>7, <1>8, <1>9

(* The token that is put out last before the current one is no layout word. *)
LEMMA NotAfterWord ==
    ASSUME NestInv, ts # <<>>, ~isOpen(ts[1]), pt # NoTok
    PROVE  pt.sym \notin LayoutWords
  BY DEF NestInv, isOpen

LEMMA InputToken ==
    ASSUME IInv, NestInv, ts # <<>>
    PROVE  ts[1] \in Token /\ ~ts[1].virtual
<1>1. ts \in Seq(Token)
  BY DEF IInv, TypeOK
<1>2. 1 \in DOMAIN ts
  BY <1>1, EmptySeq
<1> QED
  BY <1>1, <1>2 DEF NestInv

(* Closing braces for the innermost blocks.                                 *)
LEMMA Closes ==
    ASSUME SeparateWords, IInv, NEW n \in Nat, n < Len(st),
           \A i \in 1..n : st[i].kind # "Explicit",
           NEW p, p.line \in Nat, p.col \in Nat
    PROVE  \E p1 : /\ Yields(openOf(st), pt, closers(n, p), openOf(From(st, n + 1)), p1)
                   /\ p1 = pt \/ p1.sym \notin LayoutWords
<1> DEFINE c  == sToken(p, "}")
           l(i) == IF i = 0 THEN pt ELSE c
           tr == [i \in 0..n |-> [open |-> openOf(From(st, i + 1)), last |-> l(i)]]
           s  == closers(n, p)
<1>0. st \in Seq(Block) /\ Len(st) \in Nat \ {0}
  BY StackSize
<1>1. c.virtual /\ c.sym = "}"
  BY DEF sToken
<1>2. DOMAIN s = 1..n /\ \A i \in 1..n : s[i] = c
  BY DEF closers
<1> HIDE DEF c, s
<1>3. ASSUME NEW i \in 1..n
      PROVE  tr[i] = Nesting!Effect(tr[i - 1], s[i])
  <2> DEFINE bs == From(st, i)
  <2>1. i \in 1..Len(st) /\ i < Len(st)
    BY <1>0
  <2>2. /\ bs \in Seq(Block) /\ Len(bs) > 1 /\ bs[1] = st[i]
        /\ From(st, i + 1) = Tail(bs)
    BY <1>0, <2>1, FromOne
  <2>3. openOf(bs) # <<>> /\ openOf(bs)[1] = "inserted"
        /\ openOf(Tail(bs)) = Tail(openOf(bs))
    <3> HIDE DEF bs
    <3>1. bracketOf(bs[1]) = "inserted"
      BY <2>2 DEF bracketOf
    <3> QED
      BY <2>2, <3>1, OpenTail
  <2>4. Effects(openOf(bs), l(i - 1), c, Tail(openOf(bs)))
    BY <1>1, <2>3, InsertedClose
  <2>5. tr[i - 1] = [open |-> openOf(bs), last |-> l(i - 1)]
    <3>1. i - 1 \in 0..n /\ (i - 1) + 1 = i
      OBVIOUS
    <3> QED
      BY <3>1
  <2>6. tr[i] = [open |-> Tail(openOf(bs)), last |-> c]
    <3>1. tr[i] = [open |-> openOf(From(st, i + 1)), last |-> l(i)]
      OBVIOUS
    <3>2. l(i) = c
      OBVIOUS
    <3>3. openOf(From(st, i + 1)) = Tail(openOf(bs))
      BY <2>2, <2>3
    <3> HIDE DEF tr, l, bs
    <3> QED
      BY <3>1, <3>2, <3>3
  <2> HIDE DEF tr, bs, l
  <2> QED
    BY <1>2, <2>4, <2>5, <2>6 DEF Effects
<1>4. tr[0] = [open |-> openOf(st), last |-> pt]
  <2>1. From(st, 0 + 1) = st
    BY <1>0, FromOne
  <2> QED
    BY <2>1
<1>5. tr[n] = [open |-> openOf(From(st, n + 1)), last |-> l(n)]
  OBVIOUS
<1> HIDE DEF tr, l
<1>6. IsTrace(tr, s, [open |-> openOf(st), last |-> pt], n)
  BY <1>3, <1>4 DEF IsTrace
<1>7. Yields(openOf(st), pt, s, openOf(From(st, n + 1)), l(n))
  BY <1>2, <1>5, <1>6, FoldTrace DEF Yields
<1>8. l(n) = pt \/ l(n).sym \notin LayoutWords
  BY <1>1, Separate DEF l
<1> QED
  BY <1>7, <1>8 DEF s

(* The separator in front of a token, if any.                               *)
LEMMA Separates ==
    ASSUME SeparateWords, IInv, NestInv, Settled
    PROVE  \E p1 : /\ Yields(openOf(st), pt, separator(pt, ts[1], st), openOf(st), p1)
                   /\ p1 # NoTok => p1.sym \notin LayoutWords
<1> DEFINE c == sToken(afterPrev(pt), ";")
           W == /\ isImplicit(st[1])
                /\ pt # NoTok /\ newLine(pt, ts[1])
                /\ ts[1].col = st[1].col
                /\ pt.sym \notin layoutSep \cup layoutOpen
<1>1. separator(pt, ts[1], st) = IF W THEN <<c>> ELSE <<>>
  BY DEF separator
<1>2. pt # NoTok => pt.sym \notin LayoutWords
  BY NotAfterWord DEF Settled, AtWord, AtTok
<1>3. CASE ~W
  <2>1. separator(pt, ts[1], st) = <<>>
    BY <1>1, <1>3
  <2> QED
    BY <1>2, <2>1, YieldsNothing
<1>4. CASE W
  <2>1. c \in Token /\ c.virtual /\ c.sym = ";"
    <3>1. pt \in Token \cup {NoTok}
      BY DEF IInv, TypeOK
    <3>2. c \in Token
      BY <3>1, PositionAfterPrev, BracesAreSymbols, InsertedToken
    <3>3. c.virtual /\ c.sym = ";"
      BY DEF sToken
    <3> QED
      BY <3>2, <3>3
  <2>2. IF openOf(st) = <<>> THEN toplevelOf(st) ELSE openOf(st)[1] = "inserted"
    <3>1. CASE Len(st) = 1
      <4>1. st[1].kind = "Toplevel"
        <5>1. st[1] \in Block /\ st[1].kind # "Implicit" /\ st[1].kind # "Explicit"
          BY <1>4, <3>1, StackSize DEF IInv, Based, isImplicit
        <5> QED
          BY <5>1 DEF Block, Kinds
      <4>2. openOf(st) = <<>>
        <5>1. /\ openOf(st) \in Seq({"input", "inserted"})
              /\ Len(openOf(st)) = Len(st) - 1
          BY StackSize, OpenIs, EmptySeq
        <5>2. Len(openOf(st)) = 0
          BY <3>1, <5>1
        <5> QED
          BY <5>1, <5>2, EmptySeq
      <4> QED
        BY <3>1, <4>1, <4>2 DEF toplevelOf
    <3>2. CASE Len(st) # 1
      <4>1. openOf(st) # <<>> /\ openOf(st)[1] = bracketOf(st[1])
        BY <3>2, StackSize, OpenTail
      <4> QED
        BY <1>4, <4>1 DEF bracketOf, isImplicit
    <3> QED
      BY <3>1, <3>2
  <2> HIDE DEF c
  <2>3. Effects(openOf(st), pt, c, openOf(st))
    BY <1>2, <1>4, <2>1, <2>2, InsertedSeparator
  <2>4. Yields(openOf(st), pt, <<c>>, openOf(st), c)
    BY <2>1, <2>3, YieldsOne
  <2>5. c.sym \notin LayoutWords
    BY <2>1, Separate
  <2> QED
    BY <1>1, <1>4, <2>4, <2>5 DEF c
<1> QED
  BY <1>3, <1>4

-----------------------------------------------------------------------------
(* Each step of the resolver is a step of BracketedOutput, or leaves its    *)
(* state alone.                                                             *)

LEMMA NotBroken ==
    ASSUME NEW q \in Seq({"input", "inserted"})
    PROVE  q # <<"broken">>
<1>1. \A i \in DOMAIN q : q[i] # "broken"
  OBVIOUS
<1>2. 1 \in DOMAIN <<"broken">> /\ <<"broken">>[1] = "broken"
  OBVIOUS
<1> QED
  BY <1>1, <1>2

(* A step that writes, while the resolver runs.                             *)
LEMMA Writes ==
    ASSUME outcome = "running", outcome' = "running",
           st' \in Seq(Block), st' # <<>>, toplevelOf(st') = toplevelOf(st),
           Yields(openOf(st), pt, out', openOf(st'), pt'),
           eof /\ ts = <<>> => /\ eof' /\ ts' = <<>>
                               /\ \A i \in DOMAIN out' : out'[i].virtual
    PROVE  Nesting!Write
<1> DEFINE b == [open |-> openOf(st'), last |-> pt']
           a == [open |-> openOf(st), last |-> pt]
<1>1. Nesting!FoldLeft(Nesting!Effect, a, out') = b
  BY DEF Yields
<1>2. b # Nesting!Broken
  <2>1. openOf(st') # <<"broken">>
    <3>1. openOf(st') \in Seq({"input", "inserted"})
      BY OpenIs
    <3> QED
      BY <3>1, NotBroken
  <2> QED
    BY <2>1 DEF Nesting!Broken
<1>3. /\ phaseOf(outcome) = IF eof /\ ts = <<>> THEN "ending" ELSE "reading"
      /\ phaseOf(outcome)' = IF eof' /\ ts' = <<>> THEN "ending" ELSE "reading"
  BY DEF phaseOf
<1>4. /\ phaseOf(outcome) \in {"reading", "ending"}
      /\ phaseOf(outcome) = "ending" => \A i \in DOMAIN out' : out'[i].virtual
      /\ phaseOf(outcome)' \in {"ending"} \cup {phaseOf(outcome)}
  BY <1>3
<1>5. openOf(st)' = openOf(st') /\ toplevelOf(st)' = toplevelOf(st')
  BY DEF openOf, toplevelOf
<1> HIDE DEF b
<1>6. b.open = openOf(st') /\ b.last = pt'
  BY DEF b
<1> HIDE DEF a
<1>7. /\ Nesting!FoldLeft(Nesting!Effect, [open |-> openOf(st), last |-> pt], out') = b
  BY <1>1 DEF a
<1> QED
  BY <1>2, <1>4, <1>5, <1>6, <1>7 DEF Nesting!Write

(* Passing on the next token of the input after a chunk.                    *)
LEMMA PassWrites ==
    ASSUME IInv, AtTok, NEW chunk \in Seq(Token), NEW s, Based(s), Pass(chunk, s),
           toplevelOf(s) = toplevelOf(st), NEW o1, NEW p1,
           Yields(openOf(st), pt, chunk, o1, p1), Effects(o1, p1, ts[1], openOf(s))
    PROVE  Nesting!Write
<1>1. ts # <<>> /\ outcome = "running" /\ outcome' = "running" /\ ts[1] \in Token
  <2>1. ts # <<>> /\ ts \in Seq(Token)
    BY DEF AtTok, IInv, TypeOK
  <2> QED
    BY <2>1 DEF AtTok, Ready, Pass
<1>2. out' = Append(chunk, ts[1]) /\ pt' = ts[1] /\ st' = s
  BY DEF Pass
<1>3. Yields(openOf(st), pt, out', openOf(st'), pt')
  BY <1>1, <1>2, YieldsMore
<1> QED
  BY <1>1, <1>2, <1>3, Writes DEF Based

LEMMA SingleVirtual ==
    ASSUME NEW t, t.virtual
    PROVE  \A i \in DOMAIN <<t>> : <<t>>[i].virtual
<1>1. \A i \in DOMAIN <<t>> : i = 1
  OBVIOUS
<1>2. <<t>>[1] = t
  OBVIOUS
<1> QED
  BY <1>1, <1>2, Zenon

(* Putting out a closing brace for the innermost block.                     *)
LEMMA InsertWrites ==
    ASSUME IInv, Ready, NEW t \in Token, t.virtual, t.sym = "}",
           Len(st) > 1, st[1].kind # "Explicit", Insert(t, Tail(st))
    PROVE  Nesting!Write
<1>1. /\ out' = <<t>> /\ pt' = t /\ st' = Tail(st)
      /\ UNCHANGED <<ts, eof, outcome>> /\ outcome = "running"
  BY DEF Insert, Ready
<1>2. /\ openOf(st) # <<>> /\ openOf(st)[1] = "inserted"
      /\ openOf(st') = Tail(openOf(st)) /\ toplevelOf(st') = toplevelOf(st)
  BY <1>1, StackSize, OpenTail DEF bracketOf
<1>3. st' \in Seq(Block) /\ st' # <<>>
  BY <1>1, StackSize, LongTail
<1>4. Effects(openOf(st), pt, t, openOf(st'))
  BY <1>2, InsertedClose
<1>5. Yields(openOf(st), pt, out', openOf(st'), pt')
  BY <1>1, <1>4, YieldsOne
<1>6. \A i \in DOMAIN out' : out'[i].virtual
  <2>1. \A i \in DOMAIN <<t>> : <<t>>[i].virtual
    BY SingleVirtual
  <2> QED
    BY <1>1, <2>1
<1> QED
  BY <1>1, <1>2, <1>3, <1>5, <1>6, Writes

LEMMA LexMaps ==
    ASSUME IInv, NestInv, Lex \/ LexEof
    PROVE  Nesting!Next \/ UNCHANGED Nesting!vars
<1>1. UNCHANGED <<pt, st, out, outcome>> /\ outcome = "running" /\ ~eof
  BY DEF Lex, LexEof
<1>2. CASE eof' /\ ts' = <<>>
  <2>1. ts = <<>>
    BY <1>2, <1>1 DEF Lex, LexEof
  <2>2. out' = <<>>
    BY <1>1, <2>1 DEF NestInv
  <2>3. Yields(openOf(st), pt, out', openOf(st'), pt')
    BY <1>1, <2>2, YieldsNothing
  <2>4. Nesting!Write
    BY <1>1, <2>3, StackSize, EmptySeq, Writes
  <2> QED
    BY <2>4 DEF Nesting!Next
<1>3. CASE ~(eof' /\ ts' = <<>>)
  <2>1. phaseOf(outcome) = "reading" /\ phaseOf(outcome)' = "reading"
    BY <1>1, <1>3 DEF phaseOf
  <2>2. openOf(st)' = openOf(st) /\ toplevelOf(st)' = toplevelOf(st)
    BY <1>1
  <2> QED
    BY <1>1, <2>1, <2>2 DEF Nesting!vars
<1> QED
  BY <1>2, <1>3

LEMMA ClosingAtClose ==
    ASSUME AtClose
    PROVE  closing = FirstNot(st, isImplicit) - 1
<1>1. ~(AtStop /\ st[1].col > 1) /\ ~AtDedent
  BY DEF AtClose, AtStop, AtDedent, AtLineHead, AtWord
<1> QED
  BY <1>1, Zenon DEF closing

(* An unmatched closing bracket, for which no bracket of the input is open. *)
LEMMA FailMaps ==
    ASSUME IInv, Fail
    PROVE  Nesting!Refuse
<1>1. layoutError = "unmatchedClose" /\ outcome = "running" /\ outcome' = "unmatchedClose"
      /\ out' = <<>> /\ UNCHANGED <<ts, eof, pt, st>>
  BY OnlyUnmatched DEF Fail, Ready
<1>2. unmatched
  BY <1>1 DEF layoutError
<1>3. /\ st \in Seq(Block) /\ Len(st) \in Nat \ {0} /\ st # <<>>
      /\ closing = FirstNot(st, isImplicit) - 1
      /\ closing + 1 >= Len(st) /\ ts # <<>>
  <2>1. AtClose /\ ts # <<>> /\ closing + 1 >= Len(st)
    BY <1>2 DEF unmatched, AtClose, AtTok
  <2> QED
    BY <2>1, StackSize, Columns, ClosingAtClose
<1>4. \A i \in 1..(Len(st) - 1) : st[i].kind # "Explicit"
  <2> DEFINE n == FirstNot(st, isImplicit)
  <2>1. n \in Int /\ \A j \in 1..(n - 1) : st[j].kind # "Explicit"
    BY <1>3, InnermostBrace
  <2>2. n >= Len(st)
    BY <1>3, <2>1
  <2> HIDE DEF n
  <2>3. \A i \in 1..(Len(st) - 1) : i \in 1..(n - 1)
    BY <1>3, <2>1, <2>2
  <2> QED
    BY <2>1, <2>3
<1>5. ~Nesting!Contains(openOf(st), "input")
  <2>1. Len(openOf(st)) = Len(st) - 1
        /\ \A i \in 1..(Len(st) - 1) : openOf(st)[i] = bracketOf(st[i])
    BY <1>3, OpenIs
  <2>2. \A i \in 1..(Len(st) - 1) : openOf(st)[i] # "input"
    BY <1>4, <2>1 DEF bracketOf
  <2> QED
    BY <2>1, <2>2 DEF Nesting!Contains
<1>6. phaseOf(outcome) = "reading" /\ phaseOf(outcome)' = "failed"
  BY <1>1, <1>3 DEF phaseOf
<1>7. openOf(st)' = openOf(st) /\ toplevelOf(st)' = toplevelOf(st)
  BY <1>1
<1> QED
  BY <1>1, <1>5, <1>6, <1>7 DEF Nesting!Refuse

LEMMA OpenMaps ==
    ASSUME SeparateWords, IInv, NestInv, OpenExplicit
    PROVE  Nesting!Write
<1>1. ExplicitBlock \in Block /\ ExplicitBlock.kind = "Explicit"
  BY DEF ExplicitBlock, Block, Kinds, Statuses
<1>2. st \in Seq(Block) /\ st # <<>> /\ Based(st) /\ <<>> \in Seq(Token)
  BY StackSize, EmptySeq DEF IInv
<1>3. /\ Based(<<ExplicitBlock>> \o st)
      /\ openOf(<<ExplicitBlock>> \o st) = <<"input">> \o openOf(st)
      /\ toplevelOf(<<ExplicitBlock>> \o st) = toplevelOf(st)
  <2>1. bracketOf(ExplicitBlock) = "input"
    BY <1>1 DEF bracketOf
  <2> QED
    BY <1>1, <1>2, <2>1, PushBased, OpenPush
<1>4. AtTok /\ ts # <<>> /\ isOpen(ts[1]) /\ Pass(<<>>, <<ExplicitBlock>> \o st)
  BY DEF OpenExplicit, AtTok
<1>5. Effects(openOf(st), pt, ts[1], <<"input">> \o openOf(st))
  BY <1>4, InputToken, InputOpen DEF NestInv
<1>6. Yields(openOf(st), pt, <<>>, openOf(st), pt)
  BY YieldsNothing
<1> QED
  BY <1>2, <1>3, <1>4, <1>5, <1>6, PassWrites

(* The last block of a stack stays.                                         *)
LEMMA FromToplevel ==
    ASSUME NEW bs \in Seq(Block), NEW i \in 1..Len(bs)
    PROVE  toplevelOf(From(bs, i)) = toplevelOf(bs)
<1>1. /\ Len(From(bs, i)) = Len(bs) - i + 1
      /\ \A j \in 1..(Len(bs) - i + 1) : From(bs, i)[j] = bs[i + j - 1]
  BY DEF From
<1> QED
  BY <1>1 DEF toplevelOf

LEMMA CloseMaps ==
    ASSUME SeparateWords, IInv, NestInv, CloseExplicit
    PROVE  Nesting!Write
<1> DEFINE bs == From(st, closing + 1)
<1>1. /\ AtTok /\ ~unmatched /\ AtClose /\ ts # <<>>
      /\ ~isOpen(ts[1]) /\ isClose(ts[1])
      /\ Pass(closers(closing, ts[1]), From(st, closing + 2))
  BY OnlyUnmatched DEF CloseExplicit, Pass, AtClose, layoutError, AtTok
<1>2. /\ st \in Seq(Block) /\ Len(st) \in Nat \ {0} /\ Based(st)
      /\ closing \in Nat /\ closing + 1 < Len(st)
  BY <1>1, StackSize, ClosingIsNat DEF unmatched, IInv
<1>3. closing = FirstNot(st, isImplicit) - 1
  BY <1>1, ClosingAtClose
<1>4. st[closing + 1].kind = "Explicit" /\ \A i \in 1..closing : st[i].kind # "Explicit"
  <2> DEFINE n == FirstNot(st, isImplicit)
  <2>1. /\ n \in 1..(Len(st) + 1)
        /\ \A j \in 1..(n - 1) : st[j].kind # "Explicit"
        /\ n <= Len(st) => st[n].kind = "Explicit"
    BY <1>2, InnermostBrace
  <2> HIDE DEF n
  <2>2. n = closing + 1 /\ n - 1 = closing /\ n <= Len(st)
    BY <1>2, <1>3, <2>1 DEF n
  <2> QED
    BY <2>1, <2>2
<1>5. ts[1] \in Token /\ ~ts[1].virtual /\ ts[1].line \in Nat /\ ts[1].col \in Nat
  BY <1>1, InputToken DEF Token
<1>6. PICK p1 : /\ Yields(openOf(st), pt, closers(closing, ts[1]), openOf(bs), p1)
                /\ p1 = pt \/ p1.sym \notin LayoutWords
  <2>1. closing \in Nat /\ closing < Len(st)
    BY <1>2
  <2> QED
    BY <1>4, <1>5, <2>1, Closes
<1>7. p1 # NoTok => p1.sym \notin LayoutWords
  BY <1>1, <1>6, NotAfterWord
<1>8. /\ bs \in Seq(Block) /\ Len(bs) > 1 /\ bs[1] = st[closing + 1]
      /\ From(st, closing + 2) = Tail(bs)
  <2>1. closing + 1 \in 1..Len(st) /\ (closing + 1) + 1 = closing + 2
    BY <1>2
  <2>2. Len(bs) = Len(st) - (closing + 1) + 1
    BY <1>2, <2>1, FromOne
  <2> QED
    BY <1>2, <2>1, <2>2, FromOne
<1>9. /\ openOf(bs) # <<>> /\ openOf(bs)[1] = "input"
      /\ openOf(From(st, closing + 2)) = Tail(openOf(bs))
  <2> HIDE DEF bs
  <2>1. bracketOf(bs[1]) = "input"
    BY <1>4, <1>8 DEF bracketOf
  <2> QED
    BY <1>8, <2>1, OpenTail
<1>10. Effects(openOf(bs), p1, ts[1], openOf(From(st, closing + 2)))
  BY <1>1, <1>5, <1>7, <1>9, InputClose
<1>11. Based(From(st, closing + 2)) /\ toplevelOf(From(st, closing + 2)) = toplevelOf(st)
  <2>1. closing + 2 \in 1..Len(st)
    BY <1>2
  <2> QED
    BY <1>2, <2>1, FromBased, FromToplevel
<1>12. closers(closing, ts[1]) \in Seq(Token)
  BY <1>2, <1>5, ClosersAreTokens
<1> HIDE DEF bs
<1> QED
  BY <1>1, <1>6, <1>10, <1>11, <1>12, PassWrites

LEMMA StopMaps ==
    ASSUME SeparateWords, IInv, NestInv, StopAtTop \/ StopBlock
    PROVE  Nesting!Write
<1>1. AtStop /\ AtTok /\ ts # <<>> /\ ~isOpen(ts[1]) /\ ~isClose(ts[1])
  BY DEF StopAtTop, StopBlock, AtStop, AtWord, AtTok
<1>2. ts[1] \in Token /\ ~ts[1].virtual
  BY <1>1, InputToken
<1>3. /\ st \in Seq(Block) /\ Len(st) \in Nat \ {0} /\ Based(st)
      /\ <<>> \in Seq(Token)
  BY StackSize DEF IInv
<1>4. CASE StopAtTop
  <2>1. Pass(<<>>, st)
    BY <1>4 DEF StopAtTop
  <2>2. Effects(openOf(st), pt, ts[1], openOf(st))
    BY <1>1, <1>2, NotAfterWord, InputPlain
  <2>3. Yields(openOf(st), pt, <<>>, openOf(st), pt)
    BY YieldsNothing
  <2> QED
    BY <1>1, <1>3, <2>1, <2>2, <2>3, PassWrites
<1>5. CASE StopBlock
  <2> DEFINE bs == From(st, closing + 1)
             p  == afterPrev(pt)
  <2>1. st[1].col > 1 /\ Pass(closers(closing, p), bs)
    BY <1>5 DEF StopBlock
  <2>2. closing \in 1..(Len(st) - 1) /\ \A i \in 1..closing : st[i].kind # "Explicit"
    BY <1>1, <2>1, StopLeavesBase, StopClosesImplicit
  <2>3. closing \in Nat /\ closing < Len(st) /\ closing + 1 \in 1..Len(st)
    BY <1>3, <2>2
  <2>4. p.line \in Nat /\ p.col \in Nat
    BY PositionAfterPrev DEF IInv, TypeOK
  <2>5. closers(closing, p) \in Seq(Token)
    BY <2>3, <2>4, ClosersAreTokens
  <2>6. Based(bs) /\ toplevelOf(bs) = toplevelOf(st)
    BY <1>3, <2>3, FromBased, FromToplevel
  <2> HIDE DEF p
  <2>7. PICK p1 : /\ Yields(openOf(st), pt, closers(closing, p), openOf(bs), p1)
                  /\ p1 = pt \/ p1.sym \notin LayoutWords
    BY <2>2, <2>3, <2>4, Closes
  <2>8. p1 # NoTok => p1.sym \notin LayoutWords
    BY <1>1, <2>7, NotAfterWord
  <2> HIDE DEF bs
  <2>9. Effects(openOf(bs), p1, ts[1], openOf(bs))
    BY <1>1, <1>2, <2>8, InputPlain
  <2> QED
    BY <1>1, <2>1, <2>5, <2>6, <2>7, <2>9, PassWrites
<1> QED
  BY <1>4, <1>5

LEMMA DedentMaps ==
    ASSUME IInv, Dedent
    PROVE  Nesting!Write
<1> DEFINE t == sToken(afterPrev(pt), "}")
<1>1. AtDedent /\ Ready /\ isImplicit(st[1]) /\ Insert(t, Tail(st))
  BY DEF Dedent, AtDedent, AtLineHead, AtWord, AtTok
<1>2. Len(st) > 1
  <2>1. st[1].col > 1 /\ st[1].col \in Nat
    BY <1>1, DedentIsIndented
  <2>2. st[Len(st)].col <= 1
    BY DEF IInv, Based
  <2>3. Len(st) # 1
    BY <2>1, <2>2
  <2> QED
    BY <2>3, StackSize
<1>3. t \in Token /\ t.virtual /\ t.sym = "}"
  <2>1. pt \in Token \cup {NoTok}
    BY DEF IInv, TypeOK
  <2>2. t \in Token
    BY <2>1, PositionAfterPrev, BracesAreSymbols, InsertedToken
  <2>3. t.virtual /\ t.sym = "}"
    BY DEF sToken
  <2> QED
    BY <2>2, <2>3
<1>4. st[1].kind # "Explicit"
  BY <1>1 DEF isImplicit
<1> HIDE DEF t
<1> QED
  BY <1>1, <1>2, <1>3, <1>4, InsertWrites

LEMMA ConfirmMaps ==
    ASSUME IInv, Confirm
    PROVE  Nesting!Write
<1>1. /\ out' = <<>> /\ UNCHANGED <<ts, eof, pt, outcome>>
      /\ ts # <<>> /\ outcome = "running"
  BY DEF Confirm, Restack, AtConfirm, AtLineHead, AtWord, AtTok, Ready
<1>2. /\ st' \in Seq(Block) /\ st' # <<>> /\ openOf(st') = openOf(st)
      /\ toplevelOf(st') = toplevelOf(st)
  BY ConfirmIs, StackSize, EmptySeq, OpenRestatus DEF SameBlocks
<1>3. Yields(openOf(st), pt, out', openOf(st'), pt')
  BY <1>1, <1>2, YieldsNothing
<1> QED
  BY <1>1, <1>2, <1>3, Writes

(* A token that is no bracket, after a separator if there is one.           *)
LEMMA PlainMaps ==
    ASSUME SeparateWords, IInv, NestInv, StartExplicit \/ Plain
    PROVE  Nesting!Write
<1>1. /\ Settled /\ AtTok /\ ts # <<>> /\ ~isOpen(ts[1]) /\ ~isClose(ts[1])
      /\ Pass(separator(pt, ts[1], st), st)
  BY DEF StartExplicit, Plain, Settled, AtWord, AtTok
<1>2. ts[1] \in Token /\ ~ts[1].virtual /\ Based(st)
  BY <1>1, InputToken DEF IInv
<1>3. PICK p1 : /\ Yields(openOf(st), pt, separator(pt, ts[1], st), openOf(st), p1)
                /\ p1 # NoTok => p1.sym \notin LayoutWords
  BY <1>1, Separates
<1>4. Effects(openOf(st), p1, ts[1], openOf(st))
  BY <1>1, <1>2, <1>3, InputPlain
<1>5. separator(pt, ts[1], st) \in Seq(Token)
  BY SeparatorIsToken DEF IInv, TypeOK
<1> QED
  BY <1>1, <1>2, <1>3, <1>4, <1>5, PassWrites

LEMMA TwoAppended ==
    ASSUME NEW c \in Seq(Token), NEW t \in Token, NEW b \in Token
    PROVE  c \o <<t, b>> = Append(Append(c, t), b)
<1> DEFINE u == <<t, b>>
           d == Append(c, t)
<1>1. /\ u \in Seq(Token) /\ Len(u) = 2 /\ u[1] = t /\ u[2] = b
      /\ d \in Seq(Token) /\ Len(d) = Len(c) + 1 /\ d[Len(c) + 1] = t
      /\ \A i \in 1..Len(c) : d[i] = c[i]
  OBVIOUS
<1> HIDE DEF u, d
<1>2. /\ c \o u \in Seq(Token) /\ Len(c \o u) = Len(c) + 2
      /\ \A i \in 1..(Len(c) + 2) :
            (c \o u)[i] = IF i <= Len(c) THEN c[i] ELSE u[i - Len(c)]
  <2>1. /\ c \o u \in Seq(Token) /\ Len(c \o u) = Len(c) + Len(u)
        /\ \A i \in 1..(Len(c) + Len(u)) :
              (c \o u)[i] = IF i <= Len(c) THEN c[i] ELSE u[i - Len(c)]
    BY <1>1, ConcatProperties
  <2> QED
    BY <1>1, <2>1
<1>3. /\ Append(d, b) \in Seq(Token) /\ Len(Append(d, b)) = Len(c) + 2
      /\ Append(d, b)[Len(c) + 2] = b
      /\ \A i \in 1..(Len(c) + 1) : Append(d, b)[i] = d[i]
  BY <1>1, AppendProperties
<1>4. ASSUME NEW i \in 1..(Len(c) + 2)
      PROVE  (c \o u)[i] = Append(d, b)[i]
  <2>0. Len(c) \in Nat
    OBVIOUS
  <2>1. CASE i \in 1..Len(c)
    <3>1. i <= Len(c) /\ i \in 1..(Len(c) + 1)
      BY <2>0, <2>1
    <3> QED
      BY <1>1, <1>2, <1>3, <2>1, <3>1
  <2>2. CASE i = Len(c) + 1
    <3>1. ~(i <= Len(c)) /\ i \in 1..(Len(c) + 1) /\ i - Len(c) = 1
      BY <2>0, <2>2
    <3> QED
      BY <1>1, <1>2, <1>3, <2>2, <3>1
  <2>3. CASE i = Len(c) + 2
    <3>1. ~(i <= Len(c)) /\ i - Len(c) = 2
      BY <2>0, <2>3
    <3> QED
      BY <1>1, <1>2, <1>3, <2>3, <3>1
  <2>4. i \in 1..Len(c) \/ i = Len(c) + 1 \/ i = Len(c) + 2
    <3>1. \A n \in Nat : \A j \in 1..(n + 2) : j \in 1..n \/ j = n + 1 \/ j = n + 2
      OBVIOUS
    <3> QED
      BY <2>0, <3>1
  <2> QED
    BY <2>1, <2>2, <2>3, <2>4
<1> QED
  BY <1>2, <1>3, <1>4, SeqEqual DEF u, d

(* A layout word and the brace after it.                                    *)
LEMMA StartMaps ==
    ASSUME SeparateWords, IInv, NestInv, StartImplicit
    PROVE  Nesting!Write
<1> DEFINE b  == sToken(nextPos(ts[1]), "{")
           t1 == IF Len(ts) > 1 THEN ts[2] ELSE ts[1]
           c  == separator(pt, ts[1], st)
<1>1. /\ Settled /\ AtTok /\ ts # <<>> /\ ts \in Seq(Token) /\ outcome = "running"
      /\ ~isOpen(ts[1]) /\ ~isClose(ts[1]) /\ ts[1].sym \in LayoutWords
  BY DEF StartImplicit, Settled, AtWord, AtTok, Ready, IInv, TypeOK
<1>2. /\ out' = c \o <<ts[1], b>> /\ pt' = b
      /\ st' = addImplicit(ts[1], t1, st) /\ outcome' = outcome
  BY DEF StartImplicit
<1>3. ts[1] \in Token /\ ~ts[1].virtual /\ t1 \in Token
  BY <1>1, InputToken
<1>4. b \in Token /\ b.virtual /\ b.sym = "{"
  <2>1. b \in Token
    BY <1>3, PositionAfter, BracesAreSymbols, InsertedToken
  <2>2. b.virtual /\ b.sym = "{"
    BY DEF sToken
  <2> QED
    BY <2>1, <2>2
<1>5. c \in Seq(Token)
  BY SeparatorIsToken DEF IInv, TypeOK
<1>6. st \in Seq(Block) /\ st # <<>>
  BY StackSize, EmptySeq
<1> HIDE DEF b, t1
<1>7. PICK p1 : /\ Yields(openOf(st), pt, c, openOf(st), p1)
                /\ p1 # NoTok => p1.sym \notin LayoutWords
  BY <1>1, Separates
<1>8. /\ st' \in Seq(Block) /\ st' # <<>>
      /\ openOf(st') = <<"inserted">> \o openOf(st)
      /\ toplevelOf(st') = toplevelOf(st)
  <2>1. PICK d, cs : /\ addImplicit(ts[1], t1, st) = <<d>> \o cs
                     /\ d \in Block /\ d.kind = "Implicit"
                     /\ SameBlocks(cs, st)
    BY <1>3, <1>6, AddImplicitIs
  <2>2. /\ cs \in Seq(Block) /\ cs # <<>>
        /\ openOf(cs) = openOf(st) /\ toplevelOf(cs) = toplevelOf(st)
    BY <1>6, <2>1, OpenRestatus DEF SameBlocks
  <2>3. bracketOf(d) = "inserted"
    BY <2>1 DEF bracketOf
  <2>4. <<d>> \o cs \in Seq(Block) /\ <<d>> \o cs # <<>>
    BY <2>1, <2>2
  <2> QED
    BY <1>2, <2>1, <2>2, <2>3, <2>4, OpenPush
<1> HIDE DEF c
<1>9. Effects(openOf(st), p1, ts[1], openOf(st))
  BY <1>1, <1>3, <1>7, InputPlain
<1>10. Yields(openOf(st), pt, Append(c, ts[1]), openOf(st), ts[1])
  BY <1>3, <1>5, <1>7, <1>9, YieldsMore
<1>11. ts[1] # NoTok
  BY <1>3, NoTokAssumption
<1>12. Effects(openOf(st), ts[1], b, <<"inserted">> \o openOf(st))
  BY <1>1, <1>4, <1>11, InsertedBrace
<1>13. Append(c, ts[1]) \in Seq(Token)
  BY <1>3, <1>5, AppendProperties
<1>14. Yields(openOf(st), pt, Append(Append(c, ts[1]), b), openOf(st'), b)
  BY <1>4, <1>8, <1>10, <1>12, <1>13, YieldsMore
<1>15. out' = Append(Append(c, ts[1]), b)
  <2> DEFINE t == ts[1]
  <2> HIDE DEF t
  <2>1. t \in Token
    BY <1>3 DEF t
  <2>2. c \o <<t, b>> = Append(Append(c, t), b)
    BY <1>4, <1>5, <2>1, TwoAppended
  <2> QED
    BY <1>2, <2>2 DEF t
<1> QED
  BY <1>1, <1>2, <1>8, <1>14, <1>15, Writes

(* The end of the input.                                                    *)
LEMMA EndMaps ==
    ASSUME IInv, NestInv, EndEmptyInput \/ EndExplicit \/ EndTop \/ EndImplicit
    PROVE  Nesting!Next
<1>1. /\ AtEnd /\ Ready /\ ts = <<>> /\ eof /\ outcome = "running"
      /\ phaseOf(outcome) = "ending"
  <2>1. AtEnd /\ Ready /\ ts = <<>> /\ eof /\ outcome = "running"
    BY EndIsEnd DEF EndEmptyInput, EndExplicit, EndTop, EndImplicit, AtEnd, Ready
  <2> QED
    BY <2>1 DEF phaseOf
<1>2. st \in Seq(Block) /\ Len(st) \in Nat \ {0} /\ st # <<>>
  BY StackSize, EmptySeq
<1>3. ASSUME NEW chunk, Finish(chunk), Len(st) = 1,
             chunk = <<>> \/ (Len(chunk) = 1 /\ chunk[1].sym = ";" /\ chunk[1].virtual),
             chunk = <<>> <=> ~(toplevelOf(st) /\ pt # NoTok /\ pt.sym \notin layoutSep)
      PROVE  Nesting!Done
  <2>1. UNCHANGED <<ts, eof, pt, st>> /\ out' = chunk /\ outcome' = "done"
    BY <1>3, FinishKeeps
  <2>2. openOf(st) = <<>>
    <3>1. /\ openOf(st) \in Seq({"input", "inserted"})
          /\ Len(openOf(st)) = Len(st) - 1
      BY <1>2, OpenIs
    <3>2. Len(st) = 1
      BY <1>3
    <3>3. Len(openOf(st)) = 0
      BY <3>1, <3>2
    <3> QED
      BY <3>1, <3>3, EmptySeq
  <2>3. phaseOf(outcome)' = "done"
    BY <2>1 DEF phaseOf
  <2>4. openOf(st)' = openOf(st) /\ toplevelOf(st)' = toplevelOf(st)
    BY <2>1
  <2> QED
    BY <1>1, <1>3, <2>1, <2>2, <2>3, <2>4 DEF Nesting!Done
<1>4. CASE EndEmptyInput
  <2>1. Finish(<<>>) /\ pt = NoTok /\ Len(st) = 1
    BY <1>4 DEF EndEmptyInput, NestInv
  <2> QED
    BY <1>3, <2>1 DEF Nesting!Next
<1>5. CASE EndExplicit
  <2>1. st[1].kind = "Explicit"
    BY <1>5 DEF EndExplicit
  <2>2. CASE Len(st) = 1
    <3>1. Finish(<<>>)
      BY <1>5, <2>2 DEF EndExplicit
    <3>2. ~toplevelOf(st)
      BY <2>1, <2>2 DEF toplevelOf
    <3> QED
      BY <1>3, <2>2, <3>1, <3>2 DEF Nesting!Next
  <2>3. CASE Len(st) # 1
    <3>1. Restack(Tail(st))
      BY <1>5, <2>3 DEF EndExplicit
    <3>2. UNCHANGED <<ts, eof, pt, outcome>> /\ out' = <<>> /\ st' = Tail(st)
      BY <3>1 DEF Restack
    <3>3. Len(st) > 1
      BY <2>3, StackSize
    <3>4. /\ openOf(st) # <<>> /\ openOf(st)[1] = "input"
          /\ openOf(st)' = Tail(openOf(st))
          /\ toplevelOf(st)' = toplevelOf(st)
      <4>1. bracketOf(st[1]) = "input"
        BY <2>1 DEF bracketOf
      <4> QED
        BY <1>2, <3>2, <3>3, <4>1, OpenTail
    <3>5. phaseOf(outcome)' = phaseOf(outcome)
      BY <3>2 DEF phaseOf
    <3>6. Nesting!Forget
      BY <1>1, <3>2, <3>4, <3>5 DEF Nesting!Forget
    <3> QED
      BY <3>6 DEF Nesting!Next
  <2> QED
    BY <2>2, <2>3
<1>6. CASE EndTop
  <2> DEFINE c == sToken(nextPos(pt), ";")
  <2>1. /\ pt # NoTok /\ isImplicit(st[1]) /\ Len(st) = 1
        /\ Finish(IF pt.sym \in layoutSep THEN <<>> ELSE <<c>>)
    BY <1>6 DEF EndTop
  <2>2. toplevelOf(st)
    <3>0. isImplicit(st[1]) /\ Len(st) = 1
      BY <2>1
    <3>1. st[1] \in Block
      BY <3>0, StackSize
    <3>2. st[1].kind # "Implicit"
      BY <3>0, StackSize DEF IInv, Based
    <3>3. st[1].kind # "Explicit"
      BY <3>0 DEF isImplicit
    <3> QED
      BY <3>0, <3>1, <3>2, <3>3 DEF Block, Kinds, toplevelOf
  <2>3. c.sym = ";" /\ c.virtual
    BY DEF sToken
  <2> HIDE DEF c
  <2>4. CASE pt.sym \in layoutSep
    <3>1. Finish(<<>>)
      BY <2>1, <2>4
    <3> QED
      BY <1>3, <2>1, <2>4, <3>1 DEF Nesting!Next
  <2>5. CASE pt.sym \notin layoutSep
    <3>1. Finish(<<c>>)
      BY <2>1, <2>5
    <3>2. <<c>> # <<>> /\ Len(<<c>>) = 1 /\ <<c>>[1] = c
      OBVIOUS
    <3> QED
      BY <1>3, <2>1, <2>2, <2>3, <2>5, <3>1, <3>2 DEF Nesting!Next
  <2> QED
    BY <2>4, <2>5
<1>7. CASE EndImplicit
  <2> DEFINE t == sToken(nextPos(pt), "}")
  <2>1. /\ pt # NoTok /\ st[1].kind = "Implicit" /\ Len(st) > 1
        /\ Insert(t, Tail(st))
    BY <1>7 DEF EndImplicit
  <2>2. t \in Token
    BY <2>1, PositionAfter, BracesAreSymbols, InsertedToken DEF IInv, TypeOK
  <2>3. t.virtual /\ t.sym = "}"
    BY DEF sToken
  <2> HIDE DEF t
  <2>4. Nesting!Write
    BY <1>1, <2>1, <2>2, <2>3, InsertWrites
  <2> QED
    BY <2>4 DEF Nesting!Next
<1> QED
  BY <1>4, <1>5, <1>6, <1>7

LEMMA StepMaps ==
    ASSUME SeparateWords, IInv, NestInv, [Next]_vars
    PROVE  [Nesting!Next]_Nesting!vars
<1>1. CASE Lex \/ LexEof
  BY <1>1, LexMaps
<1>2. CASE res
  BY <1>2, FailMaps, OpenMaps, CloseMaps, StopMaps, DedentMaps, ConfirmMaps,
     PlainMaps, StartMaps, EndMaps DEF res, Nesting!Next
<1>3. CASE UNCHANGED vars
  <2>1. openOf(st)' = openOf(st) /\ toplevelOf(st)' = toplevelOf(st)
        /\ phaseOf(outcome)' = phaseOf(outcome) /\ pt' = pt /\ out' = out
    BY <1>3 DEF vars, phaseOf
  <2> QED
    BY <2>1 DEF Nesting!vars
<1> QED
  BY <1>1, <1>2, <1>3 DEF Next

LEMMA InitMaps == Init => Nesting!Init
<1> SUFFICES ASSUME Init PROVE Nesting!Init
  OBVIOUS
<1>1. /\ ts = <<>> /\ eof = FALSE /\ pt = NoTok /\ out = <<>> /\ outcome = "running"
      /\ st \in {<<ExplicitBlock>>, <<ToplevelBlock>>}
  BY DEF Init
<1>2. openOf(st) = <<>>
  <2>1. st \in Seq(Block) /\ st # <<>> /\ Len(st) = 1
    BY <1>1, InitIInv, StackSize, EmptySeq
  <2>2. openOf(st) \in Seq({"input", "inserted"}) /\ Len(openOf(st)) = 0
    BY <2>1, OpenIs
  <2> QED
    BY <2>2, EmptySeq
<1>3. toplevelOf(st) \in BOOLEAN
  BY DEF toplevelOf
<1>4. phaseOf(outcome) = "reading"
  BY <1>1 DEF phaseOf
<1> QED
  BY <1>1, <1>2, <1>3, <1>4 DEF Nesting!Init

(* What ties the resolver to its output holds in every reachable state.     *)
THEOREM NestInvariant == SeparateWords => (Spec => []NestInv)
<1> SUFFICES ASSUME SeparateWords PROVE Spec => []NestInv
  OBVIOUS
<1>1. Init => NestInv
  BY InitNest
<1>2. IInv /\ NestInv /\ [Next]_vars => NestInv'
  <2>1. IInv /\ NestInv /\ UNCHANGED vars => NestInv'
    BY DEF NestInv, vars
  <2> QED
    BY <2>1, LexNest, ResNest DEF Next
<1> QED
  BY <1>1, <1>2, Invariant, PTL DEF Spec

(* For every grammar whose layout words, stop words and brackets are        *)
(* different tokens, and every input: the resolver implements               *)
(* BracketedOutput, that is, inserted braces and the brackets of the input  *)
(* nest in what it puts out, and all that is inserted is closed.            *)
THEOREM OutputNests == SeparateWords => (Spec => Bracketed)
<1> SUFFICES ASSUME SeparateWords PROVE Spec => Nesting!Spec
  BY DEF Bracketed
<1>1. Init => Nesting!Init
  BY InitMaps
<1>2. IInv /\ NestInv /\ [Next]_vars => [Nesting!Next]_Nesting!vars
  BY StepMaps
<1>3. Spec => []NestInv
  BY NestInvariant
<1> QED
  BY <1>1, <1>2, <1>3, Invariant, PTL DEF Spec, Nesting!Spec
=============================================================================
