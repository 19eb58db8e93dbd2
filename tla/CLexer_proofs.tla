---------------------------- MODULE CLexer_proofs ----------------------------
(***************************************************************************)
(* Proofs about the C lexer, for all texts, comments, initial sizes and    *)
(* word sizes: a buffer is there exactly while it is needed, what is       *)
(* written to it fits, and the tokens are those of the documented reading. *)
(***************************************************************************)
EXTENDS CLexer, TLAPS, SequenceTheorems, WellFoundedInduction

InLiteral == start \in {Condition("STRING"), Condition("ESCAPED")}
Types     == {"reserved", "symbol", "IDENT", "STRING", "CHAR", "ERROR", "EOF"}
Token     == [type : Types, value : Seq(STRING)]
Buffer    == [size : Nat, current : Nat, chars : Seq(STRING)]

Typed ==
    /\ input \in Input /\ rest \in Seq(STRING)
    /\ start \in Conditions
    /\ buffer \in Buffer
    /\ heap \in {0, 1}
    /\ pending \in Seq(STRING) /\ Len(pending) <= 1
    /\ tokens \in Seq(Token)
    /\ turn \in {"lexer", "parser", "accepted", "rejected"}

(* A token that leaves the scanner inside a literal is an error, so the      *)
(* scanner is not called again.                                             *)
Owned ==
    /\ heap = 1 <=> turn = "lexer" /\ InLiteral
    /\ pending # <<>> => turn = "lexer" /\ start = Condition("STRING")
    /\ turn = "parser" => tokens # <<>>
    /\ turn = "parser" /\ InLiteral => Last = "ERROR"

(* The buffer holds no more than has been matched, so sizes do not overflow. *)
Bounded ==
    /\ buffer.current = Len(buffer.chars) /\ buffer.current < buffer.size
    /\ buffer.current + Len(pending) + Len(rest) <= Len(input)

IInv == Typed /\ Owned /\ Bounded

-----------------------------------------------------------------------------
(* Every nonempty set of natural numbers has a least element.               *)
LEMMA LeastNumber ==
    ASSUME NEW S \in SUBSET Nat, S # {}
    PROVE  \E x \in S : \A y \in S : x <= y
<1>1. IsWellFoundedOn(OpToRel(<, Nat), Nat)
  BY NatLessThanWellFounded
<1>2. PICK x \in S : \A y \in S : ~(<<y, x>> \in OpToRel(<, Nat))
  BY <1>1, WFMin
<1>3. \A y \in S : ~(y < x)
  BY <1>2 DEF OpToRel
<1> QED
  BY <1>3

(* The characters of a set at the beginning of a text, up to another one.    *)
LEMMA SpanStops ==
    ASSUME NEW S, NEW s \in Seq(STRING)
    PROVE  /\ Span(S, s) \in 0..Len(s)
           /\ \A i \in 1..Span(S, s) : s[i] \in S
           /\ Span(S, s) < Len(s) => s[Span(S, s) + 1] \notin S
<1> DEFINE stops == {m \in 0..Len(s) : m = Len(s) \/ s[m + 1] \notin S}
<1>1. stops \in SUBSET Nat /\ Len(s) \in stops
  OBVIOUS
<1>2. PICK n \in stops : \A m \in stops : n <= m
  BY <1>1, LeastNumber
<1>3. ASSUME NEW i \in 1..n PROVE s[i] \in S
  <2>1. i - 1 \in 0..Len(s) /\ i - 1 < n
    BY <1>2
  <2>2. i - 1 \notin stops
    BY <1>2, <2>1
  <2> QED
    BY <2>1, <2>2
<1>4. n \in 0..Len(s) /\ (n < Len(s) => s[n + 1] \notin S)
  OBVIOUS
<1> QED
  BY <1>3, <1>4 DEF Span

(* A sequence of one element.                                               *)
LEMMA Singleton ==
    ASSUME NEW S, NEW c \in S
    PROVE  <<c>> \in Seq(S) /\ Len(<<c>>) = 1
<1>1. <<c>> \in Seq(S)
  OBVIOUS
<1>2. Len(<<c>>) = 1
  OBVIOUS
<1> QED
  BY <1>1, <1>2

(* Matching leaves a shorter text.                                          *)
LEMMA MatchShortens ==
    ASSUME Typed, NEW n \in 0..Len(rest), Match(n)
    PROVE  rest' \in Seq(STRING) /\ Len(rest') = Len(rest) - n /\ input' = input
<1>1. rest' = SubSeq(rest, n + 1, Len(rest))
  BY DEF Match
<1>2. rest \in Seq(STRING) /\ Len(rest) \in Nat
  BY DEF Typed
<1> QED
  BY <1>1, <1>2, SubSeqProperties DEF Match

(* A text with a first character.                                           *)
LEMMA FirstOfRest ==
    ASSUME Typed, rest # <<>>
    PROVE  rest[1] \in STRING /\ Len(rest) \in Nat /\ 1 \in 0..Len(rest)
BY EmptySeq, ElementOfSeq DEF Typed

-----------------------------------------------------------------------------
(* Steps that leave the buffer and the parser alone.                        *)
LEMMA Undisturbed ==
    ASSUME IInv, turn = "lexer", pending = <<>>, Silent, NoBuffer,
           rest' \in Seq(STRING), Len(rest') <= Len(rest), input' = input,
           start' \in Conditions,
           InLiteral' <=> InLiteral
    PROVE  IInv'
<1>1. Typed'
  BY DEF IInv, Typed, Silent, NoBuffer
<1>2. Owned'
  BY DEF IInv, Owned, Silent, NoBuffer
<1>3. Bounded'
  BY DEF IInv, Typed, Bounded, Buffer, Silent, NoBuffer
<1> QED
  BY <1>1, <1>2, <1>3 DEF IInv

(* Steps that return a token outside of literals.                           *)
LEMMA Returns ==
    ASSUME IInv, turn = "lexer", pending = <<>>, ~InLiteral, NoBuffer,
           NEW type \in Types, NEW value \in Seq(STRING), Return(type, value),
           rest' \in Seq(STRING), Len(rest') <= Len(rest), input' = input,
           start' \in Conditions, ~InLiteral'
    PROVE  IInv'
<1>1. tokens' \in Seq(Token) /\ tokens' # <<>>
  BY DEF IInv, Typed, Return, Token
<1>2. Typed'
  BY <1>1 DEF IInv, Typed, Return, NoBuffer
<1>3. Owned'
  BY <1>1 DEF IInv, Owned, Typed, Return, NoBuffer
<1>4. Bounded'
  BY DEF IInv, Typed, Bounded, Buffer, NoBuffer
<1> QED
  BY <1>2, <1>3, <1>4 DEF IInv

(* The start conditions, and which of them lie inside a string literal.      *)
LEMMA Literals ==
    /\ Condition("INITIAL") \in Conditions /\ Condition("STRING") \in Conditions
    /\ Condition("ESCAPED") \in Conditions /\ Condition("CHAR") \in Conditions
    /\ Condition("CHARESC") \in Conditions /\ Condition("CHAREND") \in Conditions
    /\ \A k \in Comments : COMMENT(k) \in Conditions
    /\ \A x \in {"INITIAL", "CHAR", "CHARESC", "CHAREND"} :
          Condition(x) \notin {Condition("STRING"), Condition("ESCAPED")}
    /\ \A k \in Comments : COMMENT(k) \notin {Condition("STRING"), Condition("ESCAPED")}
    /\ Condition("STRING") # Condition("ESCAPED")
BY DEF Condition, COMMENT, Conditions
-----------------------------------------------------------------------------
(* Before the scanner is called for the first time.                         *)
LEMMA InitEstablishes == Init => IInv
<1> SUFFICES ASSUME Init PROVE IInv
  OBVIOUS
<1>1. Typed
  BY InputAssumption, SizeAssumption, Literals DEF Init, Typed, Buffer, newBuffer
<1>2. Owned
  BY Literals DEF Init, Owned, InLiteral
<1>3. Bounded
  BY InputAssumption, SizeAssumption DEF Init, Bounded, newBuffer
<1> QED
  BY <1>1, <1>2, <1>3 DEF IInv

(* Rules outside of string literals.                                        *)
LEMMA OutsideKeeps ==
    ASSUME IInv,
           \/ lexSingleComment \/ WhiteSpace \/ BeginComment \/ lexWord \/ lexSymbol
           \/ BeginChar
           \/ Unexpected \/ BackslashInChar \/ PlainChar \/ EscapedCharacter \/ EndChar
           \/ EndComment \/ CharInComment \/ Eof
    PROVE  IInv'
<1> USE DEF InLiteral
<1>1. CASE lexSingleComment
  <2> DEFINE n == Span({c \in {rest[i] : i \in DOMAIN rest} : c # Newline}, rest)
  <2>1. n \in 0..Len(rest)
    BY SpanStops DEF IInv, Typed
  <2>2. Match(n)
    BY <1>1 DEF lexSingleComment, Skip
  <2>3. rest' \in Seq(STRING) /\ Len(rest') <= Len(rest) /\ input' = input
    BY <2>1, <2>2, MatchShortens DEF IInv, Typed
  <2>4. start' = start /\ start \in Conditions
    BY <1>1 DEF lexSingleComment, Skip, IInv, Typed
  <2> QED
    BY <1>1, <2>3, <2>4, Undisturbed DEF lexSingleComment, In, Skip
<1>2. CASE lexWord
  <2> DEFINE n == Span(Letters \cup {Apostrophe}, rest)
             w == SubSeq(rest, 1, n)
             type == IF w \in Reserved THEN "reserved" ELSE "IDENT"
  <2>1. n \in 0..Len(rest)
    BY SpanStops DEF IInv, Typed
  <2>2. Match(n) /\ Return(type, w)
    BY <1>2 DEF lexWord, wordToken
  <2>3. rest' \in Seq(STRING) /\ Len(rest') <= Len(rest) /\ input' = input
    BY <2>1, <2>2, MatchShortens DEF IInv, Typed
  <2>4. w \in Seq(STRING)
    <3>1. \A i \in 1..n : rest[i] \in STRING
      BY <2>1, ElementOfSeq DEF IInv, Typed
    <3>2. n \in Int
      BY <2>1 DEF IInv, Typed
    <3> HIDE DEF n
    <3> QED
      BY <3>1, <3>2, SubSeqProperties
  <2>7. type \in Types
    BY DEF Types
  <2>5. turn = "lexer" /\ pending = <<>> /\ start = Condition("INITIAL") /\ start' = start /\ NoBuffer
    BY <1>2 DEF lexWord, In
  <2>6. ~InLiteral /\ ~InLiteral' /\ start' \in Conditions
    BY <2>5, Literals
  <2> HIDE DEF n, w, type
  <2> QED
    BY <2>2, <2>3, <2>4, <2>5, <2>6, <2>7, Returns
<1>3. CASE Eof
  <2>1. rest' \in Seq(STRING) /\ Len(rest') <= Len(rest) /\ input' = input
        /\ start' \in Conditions
    BY <1>3 DEF Eof, IInv, Typed
  <2>2. "EOF" \in Types
    BY DEF Types
  <2>3. <<>> \in Seq(STRING)
    OBVIOUS
  <2> QED
    BY <1>3, <2>1, <2>2, <2>3, Returns DEF Eof
<1>4. CASE \/ WhiteSpace \/ BeginComment \/ BeginChar \/ BackslashInChar \/ EndChar
           \/ EndComment \/ CharInComment
  <2>1. Match(1) /\ rest # <<>> /\ Silent /\ NoBuffer /\ turn = "lexer"
    BY <1>4 DEF WhiteSpace, BeginComment, BeginChar, BackslashInChar, EndChar, EndComment,
                CharInComment, In, InComment, Sees, More, Skip
  <2>2. rest' \in Seq(STRING) /\ Len(rest') <= Len(rest) /\ input' = input
    BY <2>1, MatchShortens, FirstOfRest DEF IInv
  <2>3. /\ start \in {Condition(x) : x \in {"INITIAL", "CHAR", "CHARESC", "CHAREND"}}
                       \cup {COMMENT(k) : k \in Comments}
        /\ start' \in {Condition(x) : x \in {"INITIAL", "CHAR", "CHARESC", "CHAREND"}}
                       \cup {COMMENT(k) : k \in Comments}
    BY <1>4 DEF WhiteSpace, BeginComment, BeginChar, BackslashInChar, EndChar, EndComment,
                CharInComment, In, InComment, BEGIN, Skip
  <2>4. ~InLiteral /\ ~InLiteral' /\ start' \in Conditions
    BY <2>3, Literals
  <2>5. pending = <<>>
    BY <2>4 DEF IInv, Owned
  <2> QED
    BY <2>1, <2>2, <2>4, <2>5, Undisturbed
<1>5. CASE Unexpected \/ PlainChar \/ EscapedCharacter
  <2>1. Match(1) /\ rest # <<>> /\ NoBuffer /\ turn = "lexer" /\ pending = <<>>
    BY <1>5 DEF Unexpected, PlainChar, EscapedCharacter, ReturnChar, In, More
  <2>2. rest' \in Seq(STRING) /\ Len(rest') <= Len(rest) /\ input' = input
    BY <2>1, MatchShortens, FirstOfRest DEF IInv
  <2>3. ~InLiteral /\ ~InLiteral' /\ start' \in Conditions
    BY <1>5, Literals DEF Unexpected, PlainChar, EscapedCharacter, ReturnChar, In, BEGIN
  <2>4. rest[1] \in STRING /\ Unescaped(rest[1]) \in STRING
    BY <2>1, FirstOfRest, EscapesAssumption DEF IInv, Unescaped
  <2>5. PICK type \in {"ERROR", "CHAR"}, value \in {<<>>, <<rest[1]>>, <<Unescaped(rest[1])>>} :
          Return(type, value)
    BY <1>5 DEF Unexpected, PlainChar, EscapedCharacter, ReturnChar
  <2>6. type \in Types
    BY DEF Types
  <2>7. value \in Seq(STRING)
    BY <2>4, Singleton, EmptySeq
  <2> QED
    BY <2>1, <2>2, <2>3, <2>5, <2>6, <2>7, Returns
<1>6. CASE lexSymbol
  <2>1. PICK n \in symbolEnds : Match(n) /\ Return("symbol", SubSeq(rest, 1, n))
    BY <1>6 DEF lexSymbol
  <2>2. n \in 1..Len(rest) /\ n \in 0..Len(rest) /\ rest \in Seq(STRING)
    BY <2>1 DEF symbolEnds, IInv, Typed
  <2>3. rest' \in Seq(STRING) /\ Len(rest') <= Len(rest) /\ input' = input
    BY <2>1, <2>2, MatchShortens DEF IInv
  <2>4. SubSeq(rest, 1, n) \in Seq(STRING)
    <3>1. \A i \in 1..n : rest[i] \in STRING
      BY <2>2, ElementOfSeq
    <3> QED
      BY <2>2, <3>1, SubSeqProperties
  <2>5. turn = "lexer" /\ pending = <<>> /\ start = Condition("INITIAL") /\ start' = start /\ NoBuffer
    BY <1>6 DEF lexSymbol, In
  <2>6. ~InLiteral /\ ~InLiteral' /\ start' \in Conditions
    BY <2>5, Literals
  <2>7. "symbol" \in Types
    BY DEF Types
  <2> QED
    BY <2>1, <2>3, <2>4, <2>5, <2>6, <2>7, Returns
<1> QED
  BY <1>1, <1>2, <1>3, <1>4, <1>5, <1>6
(* Rules at the ends of string literals and inside them.                    *)
LEMMA LiteralKeeps ==
    ASSUME IInv,
           BeginString \/ EndString \/ BackslashInString \/ CharInString \/ EscapedChar \/ EofInString
    PROVE  IInv'
<1> USE DEF InLiteral
<1>1. CASE BeginString
  <2>1. Match(1) /\ rest # <<>> /\ start = Condition("INITIAL") /\ start' = Condition("STRING")
        /\ turn = "lexer" /\ pending = <<>> /\ heap' = heap + 1 /\ buffer' = newBuffer
        /\ UNCHANGED <<pending, tokens, turn>>
    BY <1>1 DEF BeginString, In, Sees, BEGIN, Silent
  <2>2. rest' \in Seq(STRING) /\ Len(rest') <= Len(rest) /\ input' = input
    BY <2>1, MatchShortens, FirstOfRest DEF IInv
  <2>3. heap = 0
    BY <2>1, Literals DEF IInv, Typed, Owned
  <2>4. newBuffer \in Buffer /\ newBuffer.current = 0 /\ newBuffer.chars = <<>> /\ newBuffer.size > 0
    BY SizeAssumption DEF newBuffer, Buffer
  <2>5. Typed'
    BY <2>1, <2>2, <2>3, <2>4, Literals DEF IInv, Typed
  <2>6. Owned'
    BY <2>1, <2>3 DEF IInv, Owned
  <2>7. Bounded'
    BY <2>1, <2>2, <2>4 DEF IInv, Typed, Bounded, Buffer
  <2> QED
    BY <2>5, <2>6, <2>7 DEF IInv
<1>2. CASE EndString
  <2>1. Match(1) /\ rest # <<>> /\ start = Condition("STRING") /\ start' = Condition("INITIAL")
        /\ turn = "lexer" /\ pending = <<>> /\ heap' = heap - 1
        /\ Return("STRING", buffer.chars) /\ UNCHANGED <<buffer, pending>>
    BY <1>2 DEF EndString, In, Sees, BEGIN
  <2>2. rest' \in Seq(STRING) /\ Len(rest') <= Len(rest) /\ input' = input
    BY <2>1, MatchShortens, FirstOfRest DEF IInv
  <2>3. heap = 1
    BY <2>1 DEF IInv, Owned
  <2>4. tokens' \in Seq(Token) /\ tokens' # <<>> /\ turn' = "parser"
    <3>1. [type |-> "STRING", value |-> buffer.chars] \in Token
      BY DEF IInv, Typed, Buffer, Token, Types
    <3>2. tokens' = Append(tokens, [type |-> "STRING", value |-> buffer.chars]) /\ turn' = "parser"
      BY <2>1 DEF Return
    <3> QED
      BY <3>1, <3>2 DEF IInv, Typed
  <2>5. start' \in Conditions /\ ~InLiteral'
    BY <2>1, Literals
  <2>6. Typed'
    BY <2>1, <2>2, <2>3, <2>4, <2>5 DEF IInv, Typed
  <2>7. Owned'
    BY <2>1, <2>3, <2>4, <2>5 DEF Owned
  <2>8. Bounded'
    BY <2>1, <2>2 DEF IInv, Typed, Bounded, Buffer
  <2> QED
    BY <2>6, <2>7, <2>8 DEF IInv
<1>3. CASE BackslashInString
  <2>1. Match(1) /\ rest # <<>> /\ start = Condition("STRING") /\ start' = Condition("ESCAPED")
        /\ turn = "lexer" /\ pending = <<>> /\ Silent /\ NoBuffer
    BY <1>3 DEF BackslashInString, In, Sees, BEGIN
  <2>2. rest' \in Seq(STRING) /\ Len(rest') <= Len(rest) /\ input' = input
    BY <2>1, MatchShortens, FirstOfRest DEF IInv
  <2> QED
    BY <2>1, <2>2, Literals, Undisturbed
<1>4. CASE CharInString \/ EscapedChar
  <2>1. PICK c \in {rest[1], Unescaped(rest[1])} : AppendChar(c)
    BY <1>4 DEF CharInString, EscapedChar
  <2>2. rest # <<>> /\ InLiteral /\ turn = "lexer" /\ pending = <<>>
    BY <1>4 DEF CharInString, EscapedChar, In, More
  <2>3. rest[1] \in STRING /\ 1 \in 0..Len(rest)
    BY <2>2, FirstOfRest DEF IInv
  <2>4. c \in STRING
    BY <2>3, EscapesAssumption DEF Unescaped
  <2>5. Match(1) /\ start' = Condition("STRING") /\ pending' = <<c>>
        /\ UNCHANGED <<buffer, heap, tokens, turn>>
    BY <2>1 DEF AppendChar, BEGIN, Silent
  <2>6. rest' \in Seq(STRING) /\ Len(rest') = Len(rest) - 1 /\ input' = input
    BY <2>3, <2>5, MatchShortens DEF IInv
  <2>7. <<c>> \in Seq(STRING) /\ Len(<<c>>) = 1
    BY <2>4, Singleton
  <2>8. Typed'
    BY <2>5, <2>6, <2>7, Literals DEF IInv, Typed
  <2>9. Owned'
    BY <2>2, <2>5 DEF IInv, Owned
  <2>10. Bounded'
    BY <2>2, <2>5, <2>6, <2>7 DEF IInv, Typed, Bounded, Buffer
  <2> QED
    BY <2>8, <2>9, <2>10 DEF IInv
<1>5. CASE EofInString
  <2>1. InLiteral /\ turn = "lexer" /\ pending = <<>> /\ heap' = heap - 1 /\ Return("ERROR", <<>>)
        /\ UNCHANGED <<input, rest, start, buffer, pending>>
    BY <1>5 DEF EofInString, In
  <2>2. heap = 1
    BY <2>1 DEF IInv, Owned
  <2>3. [type |-> "ERROR", value |-> <<>>] \in Token
    BY DEF Token, Types
  <2>4. tokens' = Append(tokens, [type |-> "ERROR", value |-> <<>>]) /\ turn' = "parser"
    BY <2>1 DEF Return
  <2>5. tokens' \in Seq(Token) /\ tokens' # <<>> /\ Last' = "ERROR"
    BY <2>3, <2>4 DEF IInv, Typed, Last
  <2>6. Typed'
    BY <2>1, <2>2, <2>4, <2>5 DEF IInv, Typed
  <2>7. Owned'
    BY <2>1, <2>2, <2>4, <2>5 DEF Owned
  <2>8. Bounded'
    BY <2>1 DEF IInv, Bounded
  <2> QED
    BY <2>6, <2>7, <2>8 DEF IInv
<1> QED
  BY <1>1, <1>2, <1>3, <1>4, <1>5

(* When the buffer must grow it is full but for the terminating 0, so that   *)
(* one doubling is enough and does not overflow.                            *)
LEMMA DoublingSuffices ==
    ASSUME IInv, pending # <<>>, buffer.size < requiredSize
    PROVE  doubled = 2 * buffer.size /\ doubled >= requiredSize
<1>1. buffer.size \in Nat /\ buffer.current \in Nat /\ buffer.size = buffer.current + 1
  BY DEF IInv, Typed, Bounded, Buffer, requiredSize
<1>2. Len(pending) \in Nat \ {0} /\ Len(rest) \in Nat
  BY EmptySeq DEF IInv, Typed
<1>3. input \in Input /\ Len(input) \in Nat /\ 2 * Len(input) + 2 < Word /\ Word \in Nat
  BY InputAssumption, WordAssumption, SizeAssumption DEF IInv, Typed
<1>4. buffer.current + 1 <= Len(input)
  BY <1>1, <1>2, <1>3 DEF IInv, Bounded
<1>5. 2 * buffer.size \in 0..(Word - 1)
  BY <1>1, <1>3, <1>4
<1>6. \A x \in 0..(Word - 1) : x % Word = x
  BY <1>3
<1> QED
  BY <1>1, <1>5, <1>6 DEF doubled, requiredSize

(* bufferAppendChar.                                                        *)
LEMMA BufferKeeps ==
    ASSUME IInv, Double \/ Put
    PROVE  IInv'
<1>1. CASE Double
  <2>1. doubled = 2 * buffer.size
    BY <1>1, DoublingSuffices DEF Double
  <2>2. buffer \in Buffer /\ buffer' = [buffer EXCEPT !.size = doubled]
    BY <1>1 DEF Double, IInv, Typed
  <2>3. buffer' \in Buffer /\ buffer'.size = 2 * buffer.size
        /\ buffer'.current = buffer.current /\ buffer'.chars = buffer.chars
    BY <2>1, <2>2 DEF Buffer
  <2>4. Typed'
    BY <1>1, <2>3 DEF Double, IInv, Typed
  <2>5. Owned'
    BY <1>1 DEF Double, IInv, Owned, InLiteral, Last
  <2>6. Bounded'
    BY <1>1, <2>3 DEF Double, IInv, Typed, Bounded, Buffer
  <2> QED
    BY <2>4, <2>5, <2>6 DEF IInv
<1>2. CASE Put
  <2>1. buffer \in Buffer /\ pending \in Seq(STRING) /\ Len(pending) = 1
        /\ buffer.size >= buffer.current + 2
    <3>1. buffer \in Buffer /\ pending \in Seq(STRING) /\ Len(pending) <= 1 /\ pending # <<>>
      BY <1>2 DEF Put, IInv, Typed
    <3>2. Len(pending) \in Nat \ {0}
      BY <3>1, EmptySeq
    <3>3. buffer.current \in Nat /\ buffer.size \in Nat /\ buffer.size >= buffer.current + 1 + 1
      BY <1>2, <3>1 DEF Put, Buffer, requiredSize
    <3>4. Len(pending) = 1
      <4> DEFINE n == Len(pending)
      <4>1. n \in Nat \ {0} /\ n <= 1
        BY <3>1, <3>2
      <4> HIDE DEF n
      <4>2. n = 1
        BY <4>1
      <4> QED
        BY <4>2 DEF n
    <3>5. buffer.size >= buffer.current + 2
      BY <3>3
    <3> QED
      BY <3>1, <3>4, <3>5
  <2>2. buffer.chars \o pending \in Seq(STRING)
        /\ Len(buffer.chars \o pending) = Len(buffer.chars) + 1
    <3>1. buffer.chars \in Seq(STRING)
      BY <2>1 DEF Buffer
    <3>2. buffer.chars \o pending \in Seq(STRING)
          /\ Len(buffer.chars \o pending) = Len(buffer.chars) + Len(pending)
      BY <2>1, <3>1, ConcatProperties
    <3> QED
      BY <2>1, <3>2
  <2>3. buffer' \in Buffer /\ buffer'.size = buffer.size /\ buffer'.current = buffer.current + 1
        /\ buffer'.chars = buffer.chars \o pending
    <3> DEFINE chars == buffer.chars \o pending
    <3>1. buffer' = [buffer EXCEPT !.current = @ + 1, !.chars = chars]
      BY <1>2 DEF Put
    <3>2. chars \in Seq(STRING)
      BY <2>2
    <3> HIDE DEF chars
    <3>3. buffer' = [size |-> buffer.size, current |-> buffer.current + 1, chars |-> chars]
      BY <2>1, <3>1 DEF Buffer
    <3>4. buffer.size \in Nat /\ buffer.current + 1 \in Nat
      BY <2>1 DEF Buffer
    <3>5. buffer' \in Buffer
      BY <3>2, <3>3, <3>4 DEF Buffer
    <3> QED
      BY <3>3, <3>5 DEF chars
  <2>4. Typed'
    BY <1>2, <2>3 DEF Put, IInv, Typed
  <2>5. Owned'
    BY <1>2 DEF Put, IInv, Owned, InLiteral, Last
  <2>6. Bounded'
    BY <1>2, <2>1, <2>2, <2>3 DEF Put, IInv, Typed, Bounded, Buffer
  <2> QED
    BY <2>4, <2>5, <2>6 DEF IInv
<1> QED
  BY <1>1, <1>2

(* The parser does not call the scanner again after an error.               *)
LEMMA ParserKeeps ==
    ASSUME IInv, Parser
    PROVE  IInv'
<1>1. turn = "parser" /\ turn' \in {"lexer", "accepted", "rejected"}
      /\ (Last = "ERROR" => turn' = "rejected")
      /\ UNCHANGED <<input, rest, start, buffer, heap, pending, tokens>>
  BY DEF Parser
<1>2. Typed'
  BY <1>1 DEF IInv, Typed
<1>3. ~InLiteral \/ turn' = "rejected"
  BY <1>1 DEF IInv, Owned
<1>4. Owned'
  BY <1>1, <1>3 DEF IInv, Typed, Owned, InLiteral
<1>5. Bounded'
  BY <1>1 DEF IInv, Bounded
<1> QED
  BY <1>2, <1>4, <1>5 DEF IInv
(* The default rule, in any start condition.                                 *)
LEMMA EchoKeeps ==
    ASSUME IInv, Echo
    PROVE  IInv'
<1>1. Match(1) /\ rest # <<>> /\ turn = "lexer" /\ pending = <<>> /\ Silent /\ NoBuffer
      /\ start' = start
  BY DEF Echo, More
<1>2. rest' \in Seq(STRING) /\ Len(rest') <= Len(rest) /\ input' = input
  BY <1>1, MatchShortens, FirstOfRest DEF IInv
<1>3. start' \in Conditions /\ (InLiteral' <=> InLiteral)
  BY <1>1 DEF IInv, Typed, InLiteral
<1> QED
  BY <1>1, <1>2, <1>3, Undisturbed

(* Every step preserves the invariant.                                      *)
LEMMA StepKeeps == IInv /\ [Next]_vars => IInv'
<1> SUFFICES ASSUME IInv, [Next]_vars PROVE IInv'
  OBVIOUS
<1>1. CASE UNCHANGED vars
  BY <1>1 DEF vars, IInv, Typed, Owned, Bounded, InLiteral, Last
<1>2. CASE Next
  BY <1>2, EchoKeeps, OutsideKeeps, LiteralKeeps, BufferKeeps, ParserKeeps DEF Next, Lexer
<1> QED
  BY <1>1, <1>2

(* The inductive invariant: state of the right type, a buffer exactly in    *)
(* string literals, and no more in it than has been matched.                *)
THEOREM Invariant == Spec => []IInv
BY InitEstablishes, StepKeeps, PTL DEF Spec

(* The state of the lexer is well typed on every text.                      *)
THEOREM TypeCorrect == Spec => []TypeOK
<1>1. IInv => TypeOK
  BY DEF IInv, Typed, TypeOK, Buffer
<1> QED
  BY <1>1, Invariant, PTL

(* newBuffer, releaseBuffer and freeBuffer are called in pairs: a buffer is  *)
(* there in the start conditions of string literals, and when a parse ends  *)
(* there is none.                                                           *)
THEOREM BufferLiveAlways == Spec => []BufferLive
<1>1. IInv => BufferLive
  BY DEF IInv, Owned, BufferLive, InLiteral
<1> QED
  BY <1>1, Invariant, PTL

(* bufferAllocateChars: for every initial size and word size, if a text is   *)
(* shorter than half a word, what is appended fits, and one doubling makes  *)
(* room for it.                                                             *)
THEOREM CapacityAlways == Spec => []Capacity
<1>1. IInv => Capacity
  BY DoublingSuffices DEF IInv, Bounded, Capacity
<1> QED
  BY <1>1, Invariant, PTL

-----------------------------------------------------------------------------
(* The recursive functions of the documented reading are what their         *)
(* equations say.                                                           *)
LEMMA EscapedStep ==
    ASSUME NEW s \in Seq(STRING), NEW i \in 1..Len(s)
    PROVE  \A p \in i..Len(s) :
             Escaped(s, i)[p] = (p > i + 1 /\ s[p - 1] = Backslash /\ ~Escaped(s, i)[p - 1])
<1> DEFINE body(f, p) == p > i + 1 /\ s[p - 1] = Backslash /\ ~f[p - 1]
           Is(f, n) == f = [p \in i..n |-> body(f, p)]
           bad == {n \in Nat : n >= i /\ ~\E f : Is(f, n)}
<1>1. bad = {}
  <2> SUFFICES ASSUME bad # {} PROVE FALSE
    OBVIOUS
  <2>1. PICK n \in bad : \A m \in bad : n <= m
    BY LeastNumber
  <2>2. n \in Nat /\ n >= i /\ i \in Nat
    BY <2>1
  <2>3. CASE n = i
    <3> DEFINE f == [p \in i..n |-> FALSE]
    <3>1. \A p \in i..n : ~(p > i + 1)
      BY <2>2, <2>3
    <3>2. \A p \in i..n : body(f, p) = FALSE
      BY <3>1
    <3> HIDE DEF body
    <3>3. Is(f, n)
      BY <3>2
    <3> QED
      BY <2>1, <3>3
  <2>4. CASE n # i
    <3>1. n - 1 \in Nat /\ n - 1 >= i /\ n - 1 \notin bad
      <4>1. n - 1 \in Nat /\ n - 1 >= i /\ ~(n <= n - 1)
        BY <2>2, <2>4
      <4> HIDE DEF bad
      <4> QED
        BY <2>1, <4>1
    <3>2. PICK f : Is(f, n - 1)
      BY <3>1
    <3> DEFINE g == [p \in i..n |-> IF p < n THEN f[p] ELSE body(f, n)]
    <3>3. ASSUME NEW p \in i..n PROVE g[p] = body(g, p)
      <4>1. p > i + 1 => p - 1 \in i..n /\ p - 1 < n
        BY <2>2
      <4>2. p > i + 1 => g[p - 1] = f[p - 1]
        BY <4>1
      <4>3. body(g, p) = body(f, p)
        BY <4>2
      <4>4. p < n => p \in i..(n - 1)
        BY <2>2
      <4>5. p < n => f[p] = body(f, p)
        BY <3>2, <4>4
      <4>6. ~(p < n) => p = n
        BY <2>2
      <4>7. g[p] = IF p < n THEN f[p] ELSE body(f, n)
        OBVIOUS
      <4> HIDE DEF body, g
      <4> QED
        BY <4>3, <4>5, <4>6, <4>7
    <3>4. Is(g, n)
      BY <3>3
    <3> QED
      BY <2>1, <3>4
  <2> QED
    BY <2>3, <2>4
<1>2. Len(s) \in Nat /\ Len(s) >= i
  OBVIOUS
<1>3. \E f : Is(f, Len(s))
  BY <1>1, <1>2
<1>4. Escaped(s, i) = CHOOSE f : Is(f, Len(s))
  BY DEF Escaped
<1>5. Is(Escaped(s, i), Len(s))
  BY <1>3, <1>4
<1> HIDE DEF Is
<1> QED
  BY <1>5 DEF Is

(* What the characters of a literal stand for, one after the other.         *)
LEMMA ValuesStep ==
    ASSUME NEW s \in Seq(STRING), NEW i \in 1..Len(s)
    PROVE  /\ Values(s, i)[i] = <<>>
           /\ \A p \in (i + 1)..Len(s) :
                Values(s, i)[p] =
                  IF s[p] = Backslash /\ ~Escaped(s, i)[p] THEN Values(s, i)[p - 1]
                  ELSE Append(Values(s, i)[p - 1],
                              IF Escaped(s, i)[p] THEN Unescaped(s[p]) ELSE s[p])
<1> DEFINE body(f, p) ==
             IF p = i THEN <<>>
             ELSE IF s[p] = Backslash /\ ~Escaped(s, i)[p] THEN f[p - 1]
             ELSE Append(f[p - 1], IF Escaped(s, i)[p] THEN Unescaped(s[p]) ELSE s[p])
           Is(f, n) == f = [p \in i..n |-> body(f, p)]
           bad == {n \in Nat : n >= i /\ ~\E f : Is(f, n)}
<1>1. bad = {}
  <2> SUFFICES ASSUME bad # {} PROVE FALSE
    OBVIOUS
  <2>1. PICK n \in bad : \A m \in bad : n <= m
    BY LeastNumber
  <2>2. n \in Nat /\ n >= i /\ i \in Nat
    BY <2>1
  <2>3. CASE n = i
    <3> DEFINE f == [p \in i..i |-> <<>>]
    <3>1. \A p \in i..i : p = i
      OBVIOUS
    <3>2. Is(f, n)
      BY <2>2, <2>3, <3>1
    <3> QED
      BY <2>1, <3>2
  <2>4. CASE n # i
    <3>1. n - 1 \in Nat /\ n - 1 >= i /\ n - 1 \notin bad
      <4>1. n - 1 \in Nat /\ n - 1 >= i /\ ~(n <= n - 1)
        BY <2>2, <2>4
      <4> HIDE DEF bad
      <4> QED
        BY <2>1, <4>1
    <3>2. PICK f : Is(f, n - 1)
      BY <3>1
    <3> DEFINE g == [p \in i..n |-> IF p < n THEN f[p] ELSE body(f, n)]
    <3>3. ASSUME NEW p \in i..n PROVE g[p] = body(g, p)
      <4>1. p # i => p - 1 \in i..n /\ p - 1 < n
        BY <2>2
      <4>2. p # i => g[p - 1] = f[p - 1]
        BY <4>1
      <4>3. body(g, p) = body(f, p)
        BY <4>2
      <4>4. p < n => p \in i..(n - 1)
        BY <2>2
      <4>5. p < n => f[p] = body(f, p)
        BY <3>2, <4>4
      <4>6. ~(p < n) => p = n
        BY <2>2
      <4>7. g[p] = IF p < n THEN f[p] ELSE body(f, n)
        OBVIOUS
      <4> HIDE DEF body, g
      <4> QED
        BY <4>3, <4>5, <4>6, <4>7
    <3>4. Is(g, n)
      BY <3>3
    <3> QED
      BY <2>1, <3>4
  <2> QED
    BY <2>3, <2>4
<1>2. Len(s) \in Nat /\ Len(s) >= i
  OBVIOUS
<1>3. \E f : Is(f, Len(s))
  BY <1>1, <1>2
<1>4. Values(s, i) = CHOOSE f : Is(f, Len(s))
  BY DEF Values
<1>5. Is(Values(s, i), Len(s))
  BY <1>3, <1>4
<1>6. \A p \in i..Len(s) : Values(s, i)[p] = body(Values(s, i), p)
  <2> HIDE DEF body
  <2> QED
    BY <1>5
<1>7. i \in i..Len(s) /\ \A p \in (i + 1)..Len(s) : p \in i..Len(s) /\ p # i
  OBVIOUS
<1> QED
  BY <1>6, <1>7

(* The last of the ends of a nonempty set of them.                          *)
LEMMA GreatestEnd ==
    ASSUME NEW i \in Nat, NEW n \in Nat, NEW E \in SUBSET (i..n), E # {}
    PROVE  \E j \in E : \A k \in E : k <= j
<1> DEFINE D == {n - j : j \in E}
<1>1. D \in SUBSET Nat /\ D # {}
  OBVIOUS
<1>2. PICK d \in D : \A e \in D : d <= e
  BY <1>1, LeastNumber
<1>3. PICK j \in E : d = n - j
  BY <1>2
<1>4. ASSUME NEW k \in E PROVE k <= j
  <2>1. n - j <= n - k
    BY <1>2, <1>3
  <2> QED
    BY <2>1
<1> QED
  BY <1>4

(* The longest item, and the reading of what follows it.                    *)
LEMMA ReadingsStep ==
    ASSUME NEW without, NEW s \in Seq(STRING)
    PROVE  LET R == Readings(without, s)
           IN  /\ R[Len(s) + 1] = [ok |-> TRUE, tokens |-> <<EndOfText>>]
               /\ \A i \in 1..Len(s) :
                    (\A j \in i..Len(s) : ~IsItem(without, s, i, j)) => R[i] = [ok |-> FALSE, tokens |-> <<>>]
               /\ \A i \in 1..Len(s) : \A j \in i..Len(s) :
                    IsItem(without, s, i, j) /\ (\A k \in i..Len(s) : IsItem(without, s, i, k) => k <= j) =>
                      R[i] = [ok |-> R[j + 1].ok, tokens |-> TokensOf(s, i, j) \o R[j + 1].tokens]
<1> DEFINE N == Len(s)
           ends(i) == {j \in i..N : IsItem(without, s, i, j)}
           last(i) == CHOOSE j \in ends(i) : \A k \in ends(i) : k <= j
           body(f, i) ==
             IF i > N THEN [ok |-> TRUE, tokens |-> <<EndOfText>>]
             ELSE IF ends(i) = {} THEN [ok |-> FALSE, tokens |-> <<>>]
             ELSE [ok |-> f[last(i) + 1].ok, tokens |-> TokensOf(s, i, last(i)) \o f[last(i) + 1].tokens]
           Is(f, m) == f = [i \in (N + 1 - m)..(N + 1) |-> body(f, i)]
           bad == {m \in Nat : m <= N /\ ~\E f : Is(f, m)}
<1>0. N \in Nat
  OBVIOUS
<1>1. Readings(without, s) = CHOOSE f : f = [i \in 1..(N + 1) |-> body(f, i)]
  BY DEF Readings
<1>2. ASSUME NEW i \in 1..N, ends(i) # {}
      PROVE  last(i) \in ends(i) /\ (\A k \in ends(i) : k <= last(i)) /\ last(i) \in i..N
  <2>1. ends(i) \in SUBSET (i..N) /\ i \in Nat
    OBVIOUS
  <2> HIDE DEF ends, N
  <2>2. \E j \in ends(i) : \A k \in ends(i) : k <= j
    BY <1>0, <1>2, <2>1, GreatestEnd
  <2> QED
    BY <2>1, <2>2
<1> HIDE DEF last
<1>3. bad = {}
  <2> SUFFICES ASSUME bad # {} PROVE FALSE
    OBVIOUS
  <2>1. PICK m \in bad : \A l \in bad : m <= l
    BY LeastNumber
  <2>2. m \in Nat /\ m <= N /\ ~\E f : Is(f, m)
    BY <2>1
  <2>3. CASE m = 0
    <3> DEFINE f == [i \in (N + 1 - m)..(N + 1) |-> [ok |-> TRUE, tokens |-> <<EndOfText>>]]
    <3>1. \A i \in (N + 1 - m)..(N + 1) : i > N
      BY <1>0, <2>3
    <3>2. \A i \in (N + 1 - m)..(N + 1) : body(f, i) = [ok |-> TRUE, tokens |-> <<EndOfText>>]
      BY <3>1
    <3> HIDE DEF body
    <3>3. Is(f, m)
      BY <3>2
    <3> QED
      BY <2>2, <3>3
  <2>4. CASE m # 0
    <3>1. m - 1 \in Nat /\ m - 1 <= N /\ m - 1 \notin bad
      <4>1. m - 1 \in Nat /\ m - 1 <= N /\ ~(m <= m - 1)
        BY <1>0, <2>2, <2>4
      <4> HIDE DEF bad
      <4> QED
        BY <2>1, <4>1
    <3>2. PICK f : Is(f, m - 1)
      BY <3>1
    <3> DEFINE n == N + 1 - m
               g == [i \in n..(N + 1) |-> IF i > n THEN f[i] ELSE body(f, n)]
    <3>3. n \in 1..N /\ N + 1 - (m - 1) = n + 1
      BY <1>0, <2>2, <2>4
    <3>4. ASSUME NEW i \in n..(N + 1) PROVE g[i] = body(g, i)
      <4>1. i <= N /\ ends(i) # {} => last(i) + 1 \in n..(N + 1) /\ last(i) + 1 > n
        <5>1. i <= N => i \in 1..N
          BY <3>3
        <5> HIDE DEF ends, n, N
        <5> QED
          BY <1>0, <1>2, <3>3, <5>1
      <4>2. i <= N /\ ends(i) # {} => g[last(i) + 1] = f[last(i) + 1]
        BY <4>1
      <4>3. body(g, i) = body(f, i)
        <5>1. i > N \/ i <= N
          BY <1>0, <3>3
        <5> HIDE DEF ends, g, N
        <5> QED
          BY <4>2, <5>1
      <4>4. i > n => i \in (n + 1)..(N + 1)
        BY <1>0, <3>3
      <4>5. i > n => f[i] = body(f, i)
        <5>1. f = [k \in (n + 1)..(N + 1) |-> body(f, k)]
          <6> HIDE DEF body, n, N
          <6> QED
            BY <3>2, <3>3
        <5> HIDE DEF body, n, N
        <5> QED
          BY <5>1, <4>4
      <4>6. ~(i > n) => i = n
        BY <1>0, <3>3
      <4>7. g[i] = IF i > n THEN f[i] ELSE body(f, n)
        OBVIOUS
      <4> HIDE DEF body, g, n
      <4> QED
        BY <4>3, <4>5, <4>6, <4>7
    <3>5. Is(g, m)
      <4>1. \A i \in n..(N + 1) : g[i] = body(g, i)
        BY <3>4
      <4>2. g = [i \in n..(N + 1) |-> g[i]]
        OBVIOUS
      <4>3. g = [i \in n..(N + 1) |-> body(g, i)]
        <5> HIDE DEF body, g, n, N
        <5> QED
          BY <4>1, <4>2
      <4> HIDE DEF g, body
      <4> QED
        BY <4>3
    <3> HIDE DEF Is, g
    <3> QED
      BY <2>2, <3>5
  <2> QED
    BY <2>3, <2>4
<1>4. \E f : Is(f, N)
  <2>1. N \notin bad
    BY <1>3
  <2> HIDE DEF Is
  <2> QED
    BY <1>0, <2>1
<1>5. N + 1 - N = 1
  BY <1>0
<1> DEFINE R == Readings(without, s)
<1>6. R = [i \in 1..(N + 1) |-> body(R, i)]
  <2> HIDE DEF body, N
  <2> QED
    BY <1>1, <1>4, <1>5
<1>7. \A i \in 1..(N + 1) : R[i] = body(R, i)
  <2> HIDE DEF body, R, N
  <2> QED
    BY <1>6
<1> HIDE DEF R
<1>8. R[N + 1] = [ok |-> TRUE, tokens |-> <<EndOfText>>]
  <2>1. N + 1 \in 1..(N + 1) /\ N + 1 > N
    BY <1>0
  <2> HIDE DEF N
  <2> QED
    BY <1>7, <2>1
<1>9. ASSUME NEW i \in 1..N, \A j \in i..N : ~IsItem(without, s, i, j)
      PROVE  R[i] = [ok |-> FALSE, tokens |-> <<>>]
  <2>1. ends(i) = {} /\ i \in 1..(N + 1) /\ ~(i > N)
    BY <1>0, <1>9
  <2> HIDE DEF ends, N
  <2> QED
    BY <1>7, <2>1
<1>10. ASSUME NEW i \in 1..N, NEW j \in i..N, IsItem(without, s, i, j),
              \A k \in i..N : IsItem(without, s, i, k) => k <= j
       PROVE  R[i] = [ok |-> R[j + 1].ok, tokens |-> TokensOf(s, i, j) \o R[j + 1].tokens]
  <2>1. j \in ends(i) /\ ends(i) # {} /\ i \in 1..(N + 1) /\ ~(i > N)
    BY <1>0, <1>10
  <2>2. \A k \in ends(i) : k <= j
    BY <1>10
  <2>3. last(i) \in ends(i) /\ j <= last(i) /\ last(i) \in i..N
    <3> HIDE DEF ends, N
    <3> QED
      BY <1>2, <2>1
  <2>4. last(i) = j
    <3>1. last(i) <= j
      <4> HIDE DEF ends
      <4> QED
        BY <2>2, <2>3
    <3> QED
      BY <1>0, <2>3, <3>1
  <2> HIDE DEF ends, N
  <2> QED
    BY <1>7, <2>1, <2>4
<1> QED
  BY <1>8, <1>9, <1>10 DEF R

(* They are characters.                                                     *)
LEMMA ValuesTyped ==
    ASSUME NEW s \in Seq(STRING), NEW i \in 1..Len(s)
    PROVE  \A p \in i..Len(s) : Values(s, i)[p] \in Seq(STRING)
<1> DEFINE V == Values(s, i)
           bad == {p \in Nat : p \in i..Len(s) /\ V[p] \notin Seq(STRING)}
<1>1. V[i] = <<>> /\ <<>> \in Seq(STRING)
  BY ValuesStep
<1>2. ASSUME NEW p \in (i + 1)..Len(s), V[p - 1] \in Seq(STRING) PROVE V[p] \in Seq(STRING)
  <2>1. s[p] \in STRING
    BY ElementOfSeq
  <2>2. Unescaped(s[p]) \in STRING
    BY <2>1, EscapesAssumption DEF Unescaped
  <2>3. \A v \in Seq(STRING) : \A c \in STRING : Append(v, c) \in Seq(STRING)
    BY AppendProperties
  <2> DEFINE c == IF Escaped(s, i)[p] THEN Unescaped(s[p]) ELSE s[p]
  <2>4. c \in STRING
    BY <2>1, <2>2
  <2>5. V[p] = V[p - 1] \/ V[p] = Append(V[p - 1], c)
    BY ValuesStep
  <2> QED
    BY <1>2, <2>3, <2>4, <2>5
<1>3. bad = {}
  <2> SUFFICES ASSUME bad # {} PROVE FALSE
    OBVIOUS
  <2>1. PICK p \in bad : \A q \in bad : p <= q
    BY LeastNumber
  <2>2. p \in i..Len(s) /\ V[p] \notin Seq(STRING) /\ p # i
    BY <1>1, <2>1
  <2>3. p - 1 \in i..Len(s) /\ p \in (i + 1)..Len(s) /\ p - 1 \in Nat /\ ~(p <= p - 1)
    BY <2>2
  <2>4. p - 1 \notin bad
    <3> HIDE DEF bad
    <3> QED
      BY <2>1, <2>3
  <2>5. V[p - 1] \in Seq(STRING)
    BY <2>3, <2>4
  <2> QED
    BY <1>2, <2>2, <2>3, <2>5
<1> QED
  BY <1>3

(* A literal does not get shorter.                                          *)
LEMMA ValuesGrow ==
    ASSUME NEW s \in Seq(STRING), NEW i \in 1..Len(s), NEW p \in i..Len(s), NEW q \in p..Len(s)
    PROVE  Len(Values(s, i)[p]) <= Len(Values(s, i)[q])
<1> DEFINE V == Values(s, i)
           bad == {r \in Nat : r \in p..Len(s) /\ ~(Len(V[p]) <= Len(V[r]))}
<1>1. \A r \in i..Len(s) : V[r] \in Seq(STRING) /\ Len(V[r]) \in Nat
  <2>1. \A r \in i..Len(s) : V[r] \in Seq(STRING)
    BY ValuesTyped
  <2> HIDE DEF V
  <2> QED
    BY <2>1
<1>2. ASSUME NEW r \in (i + 1)..Len(s) PROVE Len(V[r - 1]) <= Len(V[r])
  <2>1. r - 1 \in i..Len(s) /\ r \in i..Len(s)
    OBVIOUS
  <2> DEFINE c == IF Escaped(s, i)[r] THEN Unescaped(s[r]) ELSE s[r]
  <2>2. V[r] = V[r - 1] \/ V[r] = Append(V[r - 1], c)
    BY ValuesStep
  <2>3. V[r - 1] \in Seq(STRING) /\ Len(V[r - 1]) \in Nat
    BY <1>1, <2>1
  <2> HIDE DEF c, V
  <2>4. Len(Append(V[r - 1], c)) = Len(V[r - 1]) + 1
    BY <2>3
  <2> QED
    BY <2>2, <2>3, <2>4
<1>3. bad = {}
  <2> SUFFICES ASSUME bad # {} PROVE FALSE
    OBVIOUS
  <2>1. PICK r \in bad : \A x \in bad : r <= x
    BY LeastNumber
  <2>2. p \in i..Len(s)
    OBVIOUS
  <2>3. Len(V[p]) \in Nat
    BY <1>1, <2>2
  <2>4. r \in p..Len(s) /\ r # p /\ ~(Len(V[p]) <= Len(V[r]))
    BY <2>1, <2>3
  <2>5. r - 1 \in p..Len(s) /\ r \in (i + 1)..Len(s) /\ r - 1 \in Nat /\ ~(r <= r - 1)
        /\ r - 1 \in i..Len(s) /\ r \in i..Len(s)
    BY <2>4
  <2>6. r - 1 \notin bad
    <3> HIDE DEF bad
    <3> QED
      BY <2>1, <2>5
  <2>7. Len(V[p]) <= Len(V[r - 1])
    <3> HIDE DEF V
    <3> QED
      BY <2>5, <2>6
  <2>8. Len(V[r - 1]) <= Len(V[r])
    BY <1>2, <2>5
  <2>9. Len(V[r - 1]) \in Nat /\ Len(V[r]) \in Nat
    BY <1>1, <2>5
  <2> HIDE DEF V, bad
  <2> QED
    BY <2>3, <2>4, <2>7, <2>8, <2>9
<1>4. q \in p..Len(s) /\ q \in Nat /\ q \notin bad
  BY <1>3
<1> QED
  BY <1>4

(* The first character of an item tells its kind.                           *)
LEMMA Kinds ==
    ASSUME NEW s \in Seq(STRING), NEW i \in 1..Len(s), NEW j \in i..Len(s), NEW without, NEW q
    PROVE  /\ IsWord(s, i, j) => s[i] \in Letters
           /\ IsSymbol(s, i, j) => s[i] \notin Begins
           /\ IsSpace(s, i, j) =>
                s[i] \in {Newline, Blank, LineComment} \cup {BlockComment[k][1] : k \in Comments}
           /\ IsQuoted(q, without, s, i, j) => s[i] = q
           /\ IsChar(without, s, i, j) => s[i] = Apostrophe
<1>1. IsSymbol(s, i, j) => s[i] \notin Begins
  <2>1. \A k \in i..j : s[k] \in STRING
    BY ElementOfSeq
  <2>2. i \in Int /\ j \in Int /\ i <= j
    OBVIOUS
  <2>3. SubSeq(s, i, j)[1] = s[i]
    BY <2>1, <2>2, SubSeqProperties
  <2> QED
    BY <2>3, SymbolsAssumption DEF IsSymbol
<1> QED
  BY <1>1 DEF IsWord, IsSpace, IsQuoted, IsChar

(* An item that begins with a letter is a word.                             *)
LEMMA WordItem ==
    ASSUME NEW s \in Seq(STRING), NEW i \in 1..Len(s), NEW j \in i..Len(s), NEW without,
           s[i] \in Letters
    PROVE  /\ IsItem(without, s, i, j) <=> IsWord(s, i, j)
           /\ IsWord(s, i, j) => TokensOf(s, i, j) = <<wordToken(SubSeq(s, i, j))>>
<1>1. s[i] \notin {LineComment, Quote, Apostrophe, Newline, Blank}
      /\ s[i] \notin {BlockComment[k][1] : k \in Comments} /\ s[i] \in Begins
  BY BeginsAssumption DEF Begins
<1>2. ~IsSymbol(s, i, j) /\ ~IsSpace(s, i, j) /\ ~IsQuoted(Quote, without, s, i, j) /\ ~IsChar(without, s, i, j)
  BY <1>1, Kinds
<1>3. IsItem(without, s, i, j) <=> IsWord(s, i, j)
  BY <1>2 DEF IsItem
<1>4. ASSUME IsWord(s, i, j) PROVE TokensOf(s, i, j) = <<wordToken(SubSeq(s, i, j))>>
  BY <1>1, <1>2, <1>4 DEF TokensOf
<1> QED
  BY <1>3, <1>4

(* One that begins with none of the characters of Begins is a symbol.       *)
LEMMA SymbolItem ==
    ASSUME NEW s \in Seq(STRING), NEW i \in 1..Len(s), NEW j \in i..Len(s), NEW without,
           s[i] \notin Begins
    PROVE  /\ IsItem(without, s, i, j) <=> SubSeq(s, i, j) \in Symbols
           /\ SubSeq(s, i, j) \in Symbols =>
                TokensOf(s, i, j) = <<[type |-> "symbol", value |-> SubSeq(s, i, j)]>>
<1>1. s[i] \notin {LineComment, Quote, Apostrophe, Newline, Blank} /\ s[i] \notin Letters
      /\ s[i] \notin {BlockComment[k][1] : k \in Comments}
  BY DEF Begins
<1>2. ~IsWord(s, i, j) /\ ~IsSpace(s, i, j) /\ ~IsQuoted(Quote, without, s, i, j) /\ ~IsChar(without, s, i, j)
  BY <1>1, Kinds
<1>3. IsSymbol(s, i, j) <=> SubSeq(s, i, j) \in Symbols
  BY DEF IsSymbol
<1>4. IsItem(without, s, i, j) <=> IsSymbol(s, i, j)
  BY <1>2 DEF IsItem
<1>5. ASSUME IsSymbol(s, i, j)
      PROVE  TokensOf(s, i, j) = <<[type |-> "symbol", value |-> SubSeq(s, i, j)]>>
  BY <1>1, <1>2, <1>5 DEF TokensOf
<1> QED
  BY <1>3, <1>4, <1>5

(* One that begins like white space or a comment is one.                    *)
LEMMA SpaceItem ==
    ASSUME NEW s \in Seq(STRING), NEW i \in 1..Len(s), NEW j \in i..Len(s), NEW without,
           s[i] \in {Newline, Blank, LineComment} \cup {BlockComment[k][1] : k \in Comments}
    PROVE  /\ IsItem(without, s, i, j) <=> IsSpace(s, i, j)
           /\ IsSpace(s, i, j) => TokensOf(s, i, j) = <<>>
<1>1. s[i] \notin Letters /\ s[i] \in Begins /\ s[i] # Quote /\ s[i] # Apostrophe
  BY BeginsAssumption DEF Begins, Newline, Blank, Quote, Apostrophe
<1>2. ~IsSymbol(s, i, j) /\ ~IsWord(s, i, j) /\ ~IsQuoted(Quote, without, s, i, j) /\ ~IsChar(without, s, i, j)
  BY <1>1, Kinds
<1>3. IsItem(without, s, i, j) <=> IsSpace(s, i, j)
  BY <1>2 DEF IsItem
<1>4. ASSUME IsSpace(s, i, j) PROVE TokensOf(s, i, j) = <<>>
  BY <1>1, <1>2, <1>4 DEF TokensOf
<1> QED
  BY <1>3, <1>4

(* One that begins with a quote is a string.                                *)
LEMMA StringItem ==
    ASSUME NEW s \in Seq(STRING), NEW i \in 1..Len(s), NEW j \in i..Len(s), NEW without,
           s[i] = Quote
    PROVE  /\ IsItem(without, s, i, j) <=> IsQuoted(Quote, without, s, i, j)
           /\ TokensOf(s, i, j) = <<[type |-> "STRING", value |-> Value(s, i, j)]>>
<1>1. s[i] \notin Letters /\ s[i] \in Begins /\ s[i] # Apostrophe
      /\ s[i] \notin {Newline, Blank, LineComment} \cup {BlockComment[k][1] : k \in Comments}
  BY BeginsAssumption DEF Begins, Newline, Blank, Quote, Apostrophe
<1>2. ~IsSymbol(s, i, j) /\ ~IsWord(s, i, j) /\ ~IsSpace(s, i, j) /\ ~IsChar(without, s, i, j)
  BY <1>1, Kinds
<1>3. TokensOf(s, i, j) = <<[type |-> "STRING", value |-> Value(s, i, j)]>>
  BY <1>2 DEF TokensOf
<1> QED
  BY <1>2, <1>3 DEF IsItem

(* One that begins with an apostrophe is a character literal.               *)
LEMMA CharItem ==
    ASSUME NEW s \in Seq(STRING), NEW i \in 1..Len(s), NEW j \in i..Len(s), NEW without,
           s[i] = Apostrophe
    PROVE  /\ IsItem(without, s, i, j) <=> IsChar(without, s, i, j)
           /\ TokensOf(s, i, j) = <<[type |-> "CHAR", value |-> Value(s, i, j)]>>
<1>1. s[i] \notin Letters /\ s[i] \in Begins /\ s[i] # Quote
      /\ s[i] \notin {Newline, Blank, LineComment} \cup {BlockComment[k][1] : k \in Comments}
  BY BeginsAssumption DEF Begins, Newline, Blank, Quote, Apostrophe
<1>2. ~IsSymbol(s, i, j) /\ ~IsWord(s, i, j) /\ ~IsSpace(s, i, j)
      /\ ~IsQuoted(Quote, without, s, i, j)
  BY <1>1, Kinds
<1>3. TokensOf(s, i, j) = <<[type |-> "CHAR", value |-> Value(s, i, j)]>>
  BY <1>1, <1>2 DEF TokensOf
<1> QED
  BY <1>2, <1>3 DEF IsItem

(* Without newlines, what stands in a string, and in a character literal.   *)
LEMMA StringWithin ==
    ASSUME NEW s, NEW i \in Nat, NEW j \in Nat
    PROVE  IsQuoted(Quote, WithinLine, s, i, j) <=>
              /\ i < j /\ s[i] = Quote /\ s[j] = Quote /\ ~Escaped(s, i)[j]
              /\ \A p \in (i + 1)..(j - 1) :
                    s[p] # Newline /\ (s[p] = Quote => Escaped(s, i)[p])
<1> DEFINE E == Escaped(s, i)
<1>1. ASSUME NEW p
      PROVE  <<Quote, Written(E[p], s[p])>> \notin WithinLine <=> E[p] \/ s[p] # Newline
  BY DEF Written, WithinLine
<1>2. IsQuoted(Quote, WithinLine, s, i, j) <=>
              /\ i < j /\ s[i] = Quote /\ s[j] = Quote /\ ~E[j]
              /\ \A p \in (i + 1)..(j - 1) :
                    /\ (s[p] = Quote => E[p]) /\ (s[p] = Newline => ~E[p])
                    /\ <<Quote, Written(E[p], s[p])>> \notin WithinLine
  BY DEF IsQuoted
<1> HIDE DEF E
<1>3. IsQuoted(Quote, WithinLine, s, i, j) <=>
              /\ i < j /\ s[i] = Quote /\ s[j] = Quote /\ ~E[j]
              /\ \A p \in (i + 1)..(j - 1) : s[p] # Newline /\ (s[p] = Quote => E[p])
  BY <1>1, <1>2
<1> QED
  BY <1>3 DEF E

LEMMA CharWithin ==
    ASSUME NEW s, NEW i \in Nat, NEW j \in Nat
    PROVE  IsQuoted(Apostrophe, WithinLine, s, i, j) <=>
              /\ i < j /\ s[i] = Apostrophe /\ s[j] = Apostrophe /\ ~Escaped(s, i)[j]
              /\ \A p \in (i + 1)..(j - 1) :
                    (s[p] = Apostrophe => Escaped(s, i)[p]) /\ (s[p] = Newline => ~Escaped(s, i)[p])
<1>1. \A u : <<Apostrophe, u>> \notin WithinLine
  BY DEF WithinLine, Quote, Apostrophe
<1> QED
  BY <1>1 DEF IsQuoted

(* The reading of a text, where a string does not contain a newline: from i, *)
(* it consists of the tokens ts and of the reading from j; it fails at i.   *)
read(s) == Readings(WithinLine, s)
Continues(s, i, j, ts) ==
    read(s)[i].ok = read(s)[j].ok /\ read(s)[i].tokens = ts \o read(s)[j].tokens
Fails(s, i) == read(s)[i].ok = FALSE

IsItemHere(s, i, j) == IsItem(WithinLine, s, i, j)

(* A part of a text.                                                        *)
LEMMA PartTyped ==
    ASSUME NEW s \in Seq(STRING), NEW i \in 1..Len(s), NEW j \in i..Len(s)
    PROVE  SubSeq(s, i, j) \in Seq(STRING)
<1>1. \A k \in i..j : s[k] \in STRING
  BY ElementOfSeq
<1>2. i \in Int /\ j \in Int
  OBVIOUS
<1> QED
  BY <1>1, <1>2, SubSeqProperties

(* The value of a literal.                                                  *)
LEMMA ValueTyped ==
    ASSUME NEW s \in Seq(STRING), NEW i \in 1..Len(s), NEW j \in i..Len(s), i < j
    PROVE  Value(s, i, j) \in Seq(STRING)
<1>1. j - 1 \in i..Len(s)
  OBVIOUS
<1> QED
  BY <1>1, ValuesTyped DEF Value

(* A sequence of one token.                                                 *)
LEMMA TokenTyped ==
    ASSUME NEW type \in Types, NEW value \in Seq(STRING)
    PROVE  <<[type |-> type, value |-> value]>> \in Seq(Token)
<1>1. [type |-> type, value |-> value] \in Token
  BY DEF Token
<1> QED
  BY <1>1

(* The token of a word.                                                     *)
LEMMA WordTyped ==
    ASSUME NEW w \in Seq(STRING)
    PROVE  <<wordToken(w)>> \in Seq(Token)
<1> DEFINE type == IF w \in Reserved THEN "reserved" ELSE "IDENT"
<1>1. type \in Types
  BY DEF Types
<1>2. wordToken(w) = [type |-> type, value |-> w]
  BY DEF wordToken
<1> HIDE DEF type
<1> QED
  BY <1>1, <1>2, TokenTyped

(* The tokens of an item, at most one.                                      *)
LEMMA TokensTyped ==
    ASSUME NEW s \in Seq(STRING), NEW i \in 1..Len(s), NEW j \in i..Len(s), IsItemHere(s, i, j)
    PROVE  TokensOf(s, i, j) \in Seq(Token)
<1>1. CASE IsWord(s, i, j)
  <2>1. s[i] \in Letters
    BY <1>1, Kinds
  <2> QED
    BY <1>1, <2>1, WordItem, WordTyped, PartTyped
<1>2. CASE IsSymbol(s, i, j)
  <2>1. s[i] \notin Begins
    BY <1>2, Kinds
  <2>2. SubSeq(s, i, j) \in Symbols
    BY <1>2 DEF IsSymbol
  <2>3. "symbol" \in Types
    BY DEF Types
  <2> QED
    BY <2>1, <2>2, <2>3, SymbolItem, TokenTyped, PartTyped
<1>3. CASE IsSpace(s, i, j)
  <2>1. s[i] \in {Newline, Blank, LineComment} \cup {BlockComment[k][1] : k \in Comments}
    BY <1>3, Kinds
  <2>2. TokensOf(s, i, j) = <<>>
    BY <1>3, <2>1, SpaceItem
  <2> QED
    BY <2>2
<1>4. CASE IsQuoted(Quote, WithinLine, s, i, j)
  <2>1. s[i] = Quote
    BY <1>4, Kinds
  <2>2. i < j
    BY <1>4 DEF IsQuoted
  <2>3. "STRING" \in Types
    BY DEF Types
  <2> QED
    BY <2>1, <2>2, <2>3, StringItem, TokenTyped, ValueTyped
<1>5. CASE IsChar(WithinLine, s, i, j)
  <2>1. s[i] = Apostrophe
    BY <1>5, Kinds
  <2>2. i < j
    BY <1>5 DEF IsChar, IsQuoted
  <2>3. "CHAR" \in Types
    BY DEF Types
  <2> QED
    BY <2>1, <2>2, <2>3, CharItem, TokenTyped, ValueTyped
<1> QED
  BY <1>1, <1>2, <1>3, <1>4, <1>5 DEF IsItem, IsItemHere

(* ReadingsStep, for the reading without newlines in strings.               *)
LEMMA ReadStep ==
    ASSUME NEW s \in Seq(STRING)
    PROVE  /\ read(s)[Len(s) + 1] = [ok |-> TRUE, tokens |-> <<EndOfText>>]
           /\ \A i \in 1..Len(s) :
                (\A j \in i..Len(s) : ~IsItemHere(s, i, j)) => read(s)[i] = [ok |-> FALSE, tokens |-> <<>>]
           /\ \A i \in 1..Len(s) : \A j \in i..Len(s) :
                IsItemHere(s, i, j) /\ (\A k \in i..Len(s) : IsItemHere(s, i, k) => k <= j) =>
                  read(s)[i] = [ok |-> read(s)[j + 1].ok,
                                tokens |-> TokensOf(s, i, j) \o read(s)[j + 1].tokens]
BY ReadingsStep DEF read, IsItemHere

(* A reading gives tokens.                                                  *)
LEMMA ReadingTyped ==
    ASSUME NEW s \in Seq(STRING)
    PROVE  \A i \in 1..(Len(s) + 1) : read(s)[i].tokens \in Seq(Token)
<1> DEFINE N == Len(s)
           T(i) == read(s)[i].tokens \in Seq(Token)
           bad == {n \in Nat : n \in 0..N /\ ~T(N + 1 - n)}
<1>0. N \in Nat
  OBVIOUS
<1>1. bad = {}
  <2> SUFFICES ASSUME bad # {} PROVE FALSE
    OBVIOUS
  <2>1. PICK n \in bad : \A m \in bad : n <= m
    BY LeastNumber
  <2>2. n \in 0..N /\ ~T(N + 1 - n)
    BY <2>1
  <2>3. \A m \in 0..N : m < n => T(N + 1 - m)
    <3> HIDE DEF T, N
    <3> QED
      BY <1>0, <2>1, <2>2
  <2>4. CASE n = 0
    <3>1. EndOfText \in Token /\ <<EndOfText>> \in Seq(Token)
      <4>1. EndOfText \in Token
        BY DEF EndOfText, Token, Types
      <4> QED
        BY <4>1
    <3>2. T(N + 1)
      <4>1. read(s)[N + 1].tokens = <<EndOfText>>
        <5>1. read(s)[N + 1] = [ok |-> TRUE, tokens |-> <<EndOfText>>]
          BY ReadStep
        <5> QED
          BY <5>1
      <4> QED
        BY <3>1, <4>1
    <3>3. N + 1 - n = N + 1
      BY <1>0, <2>4
    <3> HIDE DEF T
    <3> QED
      BY <2>2, <3>2, <3>3
  <2>5. CASE n # 0
    <3> DEFINE i == N + 1 - n
    <3>1. i \in 1..N
      BY <1>0, <2>2, <2>5
    <3>2. CASE \A j \in i..N : ~IsItemHere(s, i, j)
      <4>1. read(s)[i].tokens = <<>>
        <5>1. read(s)[i] = [ok |-> FALSE, tokens |-> <<>>]
          <6> HIDE DEF i
          <6> QED
            BY <3>1, <3>2, ReadStep
        <5> QED
          BY <5>1
      <4>2. T(i)
        <5> HIDE DEF i
        <5> QED
          BY <4>1
      <4> QED
        BY <2>2, <4>2
    <3>3. CASE \E j \in i..N : IsItemHere(s, i, j)
      <4> DEFINE E == {j \in i..N : IsItemHere(s, i, j)}
      <4>1. E \in SUBSET (i..N) /\ E # {} /\ i \in Nat
        BY <3>1, <3>3
      <4>2. PICK j \in E : \A k \in E : k <= j
        <5> HIDE DEF E, i, N
        <5> QED
          BY <1>0, <4>1, GreatestEnd
      <4>3. j \in i..N /\ IsItemHere(s, i, j) /\ \A k \in i..N : IsItemHere(s, i, k) => k <= j
        BY <4>2
      <4> HIDE DEF E
      <4>4. read(s)[i] = [ok |-> read(s)[j + 1].ok, tokens |-> TokensOf(s, i, j) \o read(s)[j + 1].tokens]
        <5> HIDE DEF i
        <5> QED
          BY <3>1, <4>3, ReadStep
      <4>5. TokensOf(s, i, j) \in Seq(Token)
        <5> HIDE DEF i
        <5> QED
          BY <3>1, <4>3, TokensTyped
      <4>6. T(j + 1)
        <5>1. N - j \in 0..N /\ N - j < n /\ N + 1 - (N - j) = j + 1
          BY <1>0, <2>2, <3>1, <4>3
        <5> HIDE DEF T, N
        <5> QED
          BY <2>3, <5>1
      <4>7. TokensOf(s, i, j) \o read(s)[j + 1].tokens \in Seq(Token)
        BY <4>5, <4>6, ConcatProperties
      <4>8. T(i)
        <5> HIDE DEF i
        <5> QED
          BY <4>4, <4>7
      <4> QED
        BY <2>2, <4>8
    <3> QED
      BY <3>2, <3>3
  <2> QED
    BY <2>4, <2>5
<1>2. ASSUME NEW i \in 1..(N + 1) PROVE T(i)
  <2>1. N + 1 - i \in 0..N /\ N + 1 - i \in Nat /\ N + 1 - (N + 1 - i) = i
    BY <1>0
  <2>2. N + 1 - i \notin bad
    BY <1>1
  <2> HIDE DEF T, N
  <2> QED
    BY <2>1, <2>2
<1> QED
  BY <1>2

(* After the longest item the reading goes on.                              *)
LEMMA LongestContinues ==
    ASSUME NEW s \in Seq(STRING), NEW i \in 1..Len(s), NEW j \in i..Len(s), IsItemHere(s, i, j),
           \A k \in i..Len(s) : IsItemHere(s, i, k) => k <= j
    PROVE  Continues(s, i, j + 1, TokensOf(s, i, j))
<1>1. read(s)[i] = [ok |-> read(s)[j + 1].ok,
                    tokens |-> TokensOf(s, i, j) \o read(s)[j + 1].tokens]
  BY ReadStep
<1> QED
  BY <1>1 DEF Continues

(* Where no item begins, it fails.                                          *)
LEMMA NoneFails ==
    ASSUME NEW s \in Seq(STRING), NEW i \in 1..Len(s), \A j \in i..Len(s) : ~IsItemHere(s, i, j)
    PROVE  Fails(s, i)
<1>1. read(s)[i] = [ok |-> FALSE, tokens |-> <<>>]
  BY ReadStep
<1> QED
  BY <1>1 DEF Fails

(* A word extends up to a character that is not part of a word.             *)
LEMMA WordContinues ==
    ASSUME NEW s \in Seq(STRING), NEW i \in 1..Len(s), NEW j \in i..Len(s), s[i] \in Letters,
           \A p \in i..j : s[p] \in Letters \cup {Apostrophe},
           j < Len(s) => s[j + 1] \notin Letters \cup {Apostrophe}
    PROVE  Continues(s, i, j + 1, <<wordToken(SubSeq(s, i, j))>>)
<1>1. IsWord(s, i, j)
  BY DEF IsWord
<1>2. ASSUME NEW k \in i..Len(s), IsWord(s, i, k) PROVE k <= j
  <2>1. k > j => j + 1 \in i..k /\ j < Len(s)
    OBVIOUS
  <2>2. k > j => FALSE
    BY <1>2, <2>1 DEF IsWord
  <2> QED
    BY <2>2
<1> QED
  BY <1>1, <1>2, WordItem, LongestContinues DEF IsItemHere

(* The longest symbol.                                                      *)
LEMMA SymbolContinues ==
    ASSUME NEW s \in Seq(STRING), NEW i \in 1..Len(s), NEW j \in i..Len(s), s[i] \notin Begins,
           SubSeq(s, i, j) \in Symbols, \A k \in i..Len(s) : SubSeq(s, i, k) \in Symbols => k <= j
    PROVE  Continues(s, i, j + 1, <<[type |-> "symbol", value |-> SubSeq(s, i, j)]>>)
BY SymbolItem, LongestContinues DEF IsItemHere

(* No symbol begins here.                                                   *)
LEMMA SymbolFails ==
    ASSUME NEW s \in Seq(STRING), NEW i \in 1..Len(s), s[i] \notin Begins,
           \A k \in i..Len(s) : SubSeq(s, i, k) \notin Symbols
    PROVE  Fails(s, i)
BY SymbolItem, NoneFails DEF IsItemHere

(* A line comment extends up to the end of the line.                        *)
LEMMA LineContinues ==
    ASSUME NEW s \in Seq(STRING), NEW i \in 1..Len(s), NEW j \in i..Len(s), s[i] = LineComment,
           \A p \in i..j : s[p] # Newline, j < Len(s) => s[j + 1] = Newline
    PROVE  Continues(s, i, j + 1, <<>>)
<1>1. IsSpace(s, i, j)
  BY DEF IsSpace
<1>2. ASSUME NEW k \in i..Len(s), IsSpace(s, i, k) PROVE k <= j
  <2>1. s[i] \notin {Newline, Blank} /\ \A c \in Comments : s[i] # BlockComment[c][1]
    BY BeginsAssumption
  <2>2. \A p \in i..k : s[p] # Newline
    BY <1>2, <2>1 DEF IsSpace
  <2>3. k > j => j + 1 \in i..k /\ j < Len(s)
    OBVIOUS
  <2>4. k > j => FALSE
    BY <2>2, <2>3
  <2> QED
    BY <2>4
<1> QED
  BY <1>1, <1>2, SpaceItem, LongestContinues DEF IsItemHere

(* White space is read character by character.                              *)
LEMMA BlankContinues ==
    ASSUME NEW s \in Seq(STRING), NEW i \in 1..Len(s), s[i] \in {Newline, Blank}
    PROVE  Continues(s, i, i + 1, <<>>)
<1>1. i \in i..Len(s) /\ IsSpace(s, i, i)
  BY DEF IsSpace
<1>2. ASSUME NEW k \in i..Len(s), IsSpace(s, i, k) PROVE k <= i
  <2>1. s[i] # LineComment /\ \A c \in Comments : s[i] # BlockComment[c][1]
    BY BeginsAssumption DEF Newline, Blank
  <2> QED
    BY <1>2, <2>1 DEF IsSpace
<1> QED
  BY <1>1, <1>2, SpaceItem, LongestContinues DEF IsItemHere

(* A block comment.                                                         *)
LEMMA BlockSpace ==
    ASSUME NEW s \in Seq(STRING), NEW i \in 1..Len(s), NEW j \in i..Len(s), NEW c \in Comments,
           s[i] = BlockComment[c][1]
    PROVE  IsSpace(s, i, j) <=> /\ i < j /\ s[j] = BlockComment[c][2]
                                /\ \A p \in (i + 1)..(j - 1) : s[p] # BlockComment[c][2]
<1>1. s[i] \notin {LineComment, Newline, Blank}
  BY BeginsAssumption
<1>2. \A d \in Comments : s[i] = BlockComment[d][1] => d = c
  BY BeginsAssumption
<1> QED
  BY <1>1, <1>2 DEF IsSpace

(* A block comment extends up to the first character that ends it.          *)
LEMMA BlockContinues ==
    ASSUME NEW s \in Seq(STRING), NEW i \in 1..Len(s), NEW j \in i..Len(s), NEW c \in Comments,
           s[i] = BlockComment[c][1], i < j, s[j] = BlockComment[c][2],
           \A p \in (i + 1)..(j - 1) : s[p] # BlockComment[c][2]
    PROVE  Continues(s, i, j + 1, <<>>)
<1>1. IsSpace(s, i, j)
  BY BlockSpace
<1>2. ASSUME NEW k \in i..Len(s), IsSpace(s, i, k) PROVE k <= j
  <2>1. \A p \in (i + 1)..(k - 1) : s[p] # BlockComment[c][2]
    BY <1>2, BlockSpace
  <2>2. k > j => j \in (i + 1)..(k - 1)
    OBVIOUS
  <2>3. k > j => FALSE
    BY <2>1, <2>2
  <2> QED
    BY <2>3
<1> QED
  BY <1>1, <1>2, SpaceItem, LongestContinues DEF IsItemHere

(* A block comment that is not ended.                                       *)
LEMMA BlockFails ==
    ASSUME NEW s \in Seq(STRING), NEW i \in 1..Len(s), NEW c \in Comments,
           s[i] = BlockComment[c][1], \A p \in (i + 1)..Len(s) : s[p] # BlockComment[c][2]
    PROVE  Fails(s, i)
<1>1. ASSUME NEW j \in i..Len(s) PROVE ~IsSpace(s, i, j)
  <2>1. i < j => j \in (i + 1)..Len(s)
    OBVIOUS
  <2> QED
    BY <2>1, BlockSpace
<1> QED
  BY <1>1, SpaceItem, NoneFails DEF IsItemHere

(* A literal in quotes ends with the first quote that is not escaped.       *)
LEMMA StringContinues ==
    ASSUME NEW s \in Seq(STRING), NEW i \in 1..Len(s), NEW j \in i..Len(s), s[i] = Quote,
           i < j, s[j] = Quote, ~Escaped(s, i)[j],
           \A p \in (i + 1)..(j - 1) : s[p] # Newline /\ (s[p] = Quote => Escaped(s, i)[p])
    PROVE  Continues(s, i, j + 1, <<[type |-> "STRING", value |-> Values(s, i)[j - 1]]>>)
<1>1. IsQuoted(Quote, WithinLine, s, i, j)
  BY StringWithin
<1>2. ASSUME NEW k \in i..Len(s), IsQuoted(Quote, WithinLine, s, i, k) PROVE k <= j
  <2>1. \A p \in (i + 1)..(k - 1) : s[p] = Quote => Escaped(s, i)[p]
    BY <1>2 DEF IsQuoted
  <2>2. k > j => j \in (i + 1)..(k - 1)
    OBVIOUS
  <2>3. k > j => FALSE
    BY <2>1, <2>2
  <2> QED
    BY <2>3
<1>3. TokensOf(s, i, j) = <<[type |-> "STRING", value |-> Values(s, i)[j - 1]]>>
  BY StringItem DEF Value
<1>4. \A k \in i..Len(s) : IsItemHere(s, i, k) <=> IsQuoted(Quote, WithinLine, s, i, k)
  BY StringItem DEF IsItemHere
<1>5. Continues(s, i, j + 1, TokensOf(s, i, j))
  BY <1>1, <1>2, <1>4, LongestContinues
<1> QED
  BY <1>3, <1>5

(* A string in which a newline or the end of the text comes first.          *)
LEMMA StringFails ==
    ASSUME NEW s \in Seq(STRING), NEW i \in 1..Len(s), s[i] = Quote,
           NEW n \in (i + 1)..(Len(s) + 1), n <= Len(s) => s[n] = Newline,
           \A p \in (i + 1)..(n - 1) : s[p] = Quote => Escaped(s, i)[p]
    PROVE  Fails(s, i)
<1>1. ASSUME NEW j \in i..Len(s), IsQuoted(Quote, WithinLine, s, i, j) PROVE FALSE
  <2>1. i < j /\ s[j] = Quote /\ ~Escaped(s, i)[j] /\ \A p \in (i + 1)..(j - 1) : s[p] # Newline
    BY <1>1, StringWithin
  <2>2. j < n => j \in (i + 1)..(n - 1)
    BY <2>1
  <2>3. ~(j < n)
    BY <2>1, <2>2
  <2>4. n <= Len(s) /\ (n < j => n \in (i + 1)..(j - 1))
    BY <2>1, <2>3
  <2>5. ~(n < j)
    BY <2>1, <2>4
  <2>6. n = j
    BY <2>3, <2>5
  <2> QED
    BY <2>1, <2>4, <2>6 DEF Quote, Newline
<1> QED
  BY <1>1, StringItem, NoneFails DEF IsItemHere

(* The first characters of a literal, and what they stand for.              *)
LEMMA FirstEscaped ==
    ASSUME NEW s \in Seq(STRING), NEW i \in 1..Len(s)
    PROVE  /\ i + 1 <= Len(s) => ~Escaped(s, i)[i + 1]
           /\ i + 2 <= Len(s) => (Escaped(s, i)[i + 2] <=> s[i + 1] = Backslash)
           /\ i + 3 <= Len(s) =>
                (Escaped(s, i)[i + 3] <=> s[i + 2] = Backslash /\ s[i + 1] # Backslash)
<1> DEFINE E == Escaped(s, i)
<1>1. ASSUME i + 1 <= Len(s) PROVE ~E[i + 1]
  <2>1. i + 1 \in i..Len(s) /\ ~(i + 1 > i + 1)
    BY <1>1
  <2>2. E[i + 1] = (i + 1 > i + 1 /\ s[(i + 1) - 1] = Backslash /\ ~E[(i + 1) - 1])
    BY <2>1, EscapedStep
  <2> HIDE DEF E
  <2> QED
    BY <2>1, <2>2
<1>2. ASSUME i + 2 <= Len(s) PROVE E[i + 2] <=> s[i + 1] = Backslash
  <2>1. i + 2 \in i..Len(s) /\ i + 2 > i + 1 /\ (i + 2) - 1 = i + 1
    BY <1>2
  <2>2. E[i + 2] = (i + 2 > i + 1 /\ s[i + 1] = Backslash /\ ~E[i + 1])
    BY <2>1, EscapedStep
  <2>3. ~E[i + 1]
    BY <1>1, <1>2
  <2> HIDE DEF E
  <2> QED
    BY <2>1, <2>2, <2>3
<1>3. ASSUME i + 3 <= Len(s)
      PROVE  E[i + 3] <=> s[i + 2] = Backslash /\ s[i + 1] # Backslash
  <2>1. i + 3 \in i..Len(s) /\ i + 3 > i + 1 /\ (i + 3) - 1 = i + 2
    BY <1>3
  <2>2. E[i + 3] = (i + 3 > i + 1 /\ s[i + 2] = Backslash /\ ~E[i + 2])
    BY <2>1, EscapedStep
  <2>3. E[i + 2] <=> s[i + 1] = Backslash
    BY <1>2, <1>3
  <2> HIDE DEF E
  <2> QED
    BY <2>1, <2>2, <2>3
<1> QED
  BY <1>1, <1>2, <1>3

(* What the first characters stand for.                                     *)
LEMMA FirstValues ==
    ASSUME NEW s \in Seq(STRING), NEW i \in 1..Len(s)
    PROVE  /\ i + 1 <= Len(s) =>
                Values(s, i)[i + 1] = IF s[i + 1] = Backslash THEN <<>> ELSE <<s[i + 1]>>
           /\ i + 2 <= Len(s) /\ s[i + 1] = Backslash =>
                Values(s, i)[i + 2] = <<Unescaped(s[i + 2])>>
<1> DEFINE V == Values(s, i)
<1>0. V[i] = <<>> /\ \A c : Append(<<>>, c) = <<c>>
  BY ValuesStep
<1>1. ASSUME i + 1 <= Len(s) PROVE V[i + 1] = IF s[i + 1] = Backslash THEN <<>> ELSE <<s[i + 1]>>
  <2>1. i + 1 \in (i + 1)..Len(s) /\ (i + 1) - 1 = i
    BY <1>1
  <2>2. ~Escaped(s, i)[i + 1]
    BY <1>1, FirstEscaped
  <2>3. V[i + 1] = IF s[i + 1] = Backslash THEN V[i] ELSE Append(V[i], s[i + 1])
    BY <2>1, <2>2, ValuesStep
  <2> HIDE DEF V
  <2> QED
    BY <1>0, <2>3
<1>2. ASSUME i + 2 <= Len(s), s[i + 1] = Backslash PROVE V[i + 2] = <<Unescaped(s[i + 2])>>
  <2>1. i + 2 \in (i + 1)..Len(s) /\ (i + 2) - 1 = i + 1
    BY <1>2
  <2>2. Escaped(s, i)[i + 2]
    BY <1>2, FirstEscaped
  <2>3. V[i + 2] = Append(V[i + 1], Unescaped(s[i + 2]))
    <3>1. V[i + 2] = IF s[i + 2] = Backslash /\ ~Escaped(s, i)[i + 2] THEN V[(i + 2) - 1]
                     ELSE Append(V[(i + 2) - 1],
                                 IF Escaped(s, i)[i + 2] THEN Unescaped(s[i + 2]) ELSE s[i + 2])
      BY <2>1, ValuesStep
    <3> HIDE DEF V
    <3> QED
      BY <2>1, <2>2, <3>1
  <2>4. V[i + 1] = <<>>
    BY <1>1, <1>2
  <2> HIDE DEF V
  <2> QED
    BY <1>0, <2>3, <2>4
<1> QED
  BY <1>1, <1>2

(* A character literal has one character or a backslash and a character      *)
(* between its quotes.                                                      *)
Plain(s, i, j) ==
    j = i + 2 /\ s[i + 1] \notin {Backslash, Apostrophe} /\ s[j] = Apostrophe
Slashed(s, i, j) ==
    j = i + 3 /\ s[i + 1] = Backslash /\ s[i + 2] # Newline /\ s[j] = Apostrophe

(* A character between apostrophes is a character literal.                  *)
LEMMA PlainIsChar ==
    ASSUME NEW s \in Seq(STRING), NEW i \in 1..Len(s), NEW j \in i..Len(s), s[i] = Apostrophe,
           Plain(s, i, j)
    PROVE  IsChar(WithinLine, s, i, j) /\ Value(s, i, j) = <<s[i + 1]>>
<1>1. j = i + 2 /\ s[i + 1] \notin {Backslash, Apostrophe} /\ s[j] = Apostrophe /\ i + 2 <= Len(s)
  BY DEF Plain
<1>2. ~Escaped(s, i)[i + 1] /\ ~Escaped(s, i)[i + 2]
  BY <1>1, FirstEscaped
<1>3. \A p \in (i + 1)..(j - 1) : p = i + 1
  BY <1>1
<1>4. IsQuoted(Apostrophe, WithinLine, s, i, j)
  BY <1>1, <1>2, <1>3, CharWithin
<1>5. Value(s, i, j) = <<s[i + 1]>>
  <2>1. j - 1 = i + 1 /\ i + 1 <= Len(s)
    BY <1>1
  <2> QED
    BY <1>1, <2>1, FirstValues DEF Value
<1>6. Len(<<s[i + 1]>>) = 1
  OBVIOUS
<1> QED
  BY <1>4, <1>5, <1>6 DEF IsChar

(* A backslash and a character between apostrophes are one.                 *)
LEMMA SlashedIsChar ==
    ASSUME NEW s \in Seq(STRING), NEW i \in 1..Len(s), NEW j \in i..Len(s), s[i] = Apostrophe,
           Slashed(s, i, j)
    PROVE  IsChar(WithinLine, s, i, j) /\ Value(s, i, j) = <<Unescaped(s[i + 2])>>
<1>1. j = i + 3 /\ s[i + 1] = Backslash /\ s[i + 2] # Newline /\ s[j] = Apostrophe /\ i + 3 <= Len(s)
  BY DEF Slashed
<1>2. ~Escaped(s, i)[i + 1] /\ Escaped(s, i)[i + 2] /\ ~Escaped(s, i)[i + 3]
  BY <1>1, FirstEscaped
<1>3. \A p \in (i + 1)..(j - 1) : p = i + 1 \/ p = i + 2
  BY <1>1
<1>4. IsQuoted(Apostrophe, WithinLine, s, i, j)
  BY <1>1, <1>2, <1>3, CharWithin DEF Backslash, Apostrophe, Newline
<1>5. Value(s, i, j) = <<Unescaped(s[i + 2])>>
  <2>1. j - 1 = i + 2 /\ i + 2 <= Len(s)
    BY <1>1
  <2> QED
    BY <1>1, <2>1, FirstValues DEF Value
<1>6. Len(<<Unescaped(s[i + 2])>>) = 1
  OBVIOUS
<1> QED
  BY <1>4, <1>5, <1>6 DEF IsChar

(* There are no other character literals.                                   *)
LEMMA CharIsOne ==
    ASSUME NEW s \in Seq(STRING), NEW i \in 1..Len(s), NEW j \in i..Len(s), s[i] = Apostrophe,
           IsChar(WithinLine, s, i, j)
    PROVE  Plain(s, i, j) \/ Slashed(s, i, j)
<1> DEFINE E == Escaped(s, i)
           V == Values(s, i)
<1>1. /\ i < j /\ s[j] = Apostrophe /\ ~E[j] /\ Len(V[j - 1]) = 1
      /\ \A p \in (i + 1)..(j - 1) :
            (s[p] = Apostrophe => E[p]) /\ (s[p] = Newline => ~E[p])
  BY DEF IsChar, IsQuoted, Value
<1>2. j # i + 1
  <2>1. V[i] = <<>>
    BY ValuesStep
  <2>2. Len(<<>>) = 0
    OBVIOUS
  <2>3. j = i + 1 => V[j - 1] = V[i]
    OBVIOUS
  <2>4. Len(V[j - 1]) = 1
    BY <1>1
  <2> SUFFICES ASSUME j = i + 1 PROVE FALSE
    OBVIOUS
  <2>5. V[j - 1] = <<>>
    BY <2>1, <2>3
  <2> QED
    BY ONLY <2>2, <2>4, <2>5
<1>3. i + 1 \in (i + 1)..(j - 1) /\ i + 2 <= Len(s) /\ i + 1 <= Len(s)
  BY <1>1, <1>2
<1>4. ~E[i + 1] /\ s[i + 1] # Apostrophe
  BY <1>1, <1>3, FirstEscaped
<1>5. \A p \in i..Len(s) : V[p] \in Seq(STRING) /\ Len(V[p]) \in Nat
  <2>1. \A p \in i..Len(s) : V[p] \in Seq(STRING)
    BY ValuesTyped
  <2> HIDE DEF V
  <2> QED
    BY <2>1
<1>6. ASSUME NEW p \in (i + 1)..Len(s), ~(s[p] = Backslash /\ ~E[p])
      PROVE  Len(V[p]) = Len(V[p - 1]) + 1
  <2> DEFINE c == IF E[p] THEN Unescaped(s[p]) ELSE s[p]
  <2>1. V[p] = Append(V[p - 1], c)
    <3>1. V[p] = IF s[p] = Backslash /\ ~E[p] THEN V[p - 1] ELSE Append(V[p - 1], c)
      BY ValuesStep
    <3> HIDE DEF V, c, E
    <3> QED
      BY <1>6, <3>1
  <2>2. V[p - 1] \in Seq(STRING)
    BY <1>5
  <2> HIDE DEF V, c
  <2> QED
    BY <2>1, <2>2
<1>7. \A p \in i..(j - 1) : Len(V[p]) <= 1
  <2>1. ASSUME NEW p \in i..(j - 1) PROVE Len(V[p]) <= Len(V[j - 1])
    <3>1. p \in i..Len(s) /\ j - 1 \in p..Len(s)
      OBVIOUS
    <3> QED
      BY <3>1, ValuesGrow
  <2> QED
    BY <1>1, <2>1
<1>8. CASE s[i + 1] # Backslash
  <2>1. Len(V[i + 1]) = 1
    <3>1. V[i + 1] = <<s[i + 1]>>
      BY <1>3, <1>8, FirstValues
    <3> QED
      BY <3>1
  <2>2. ASSUME j # i + 2 PROVE FALSE
    <3>1. i + 2 \in (i + 1)..(j - 1) /\ i + 2 \in i..(j - 1) /\ i + 2 \in (i + 1)..Len(s)
          /\ (i + 2) - 1 = i + 1
      BY <1>1, <1>2, <2>2
    <3>2. s[i + 2] = Backslash
      <4>1. ASSUME s[i + 2] # Backslash PROVE Len(V[i + 2]) = Len(V[i + 1]) + 1
        <5>1. Len(V[i + 2]) = Len(V[(i + 2) - 1]) + 1
          BY <1>6, <3>1, <4>1
        <5> HIDE DEF V
        <5> QED
          BY <3>1, <5>1
      <4>2. Len(V[i + 2]) <= 1
        BY <1>7, <3>1
      <4> DEFINE m == Len(V[i + 1])
                 n == Len(V[i + 2])
      <4>3. m = 1 /\ n <= 1 /\ (s[i + 2] # Backslash => n = m + 1)
        BY <2>1, <4>1, <4>2
      <4> HIDE DEF m, n
      <4> QED
        BY <4>3
    <3>3. j # i + 3
      <4>1. j = i + 3 => E[j]
        BY <1>8, <3>2, FirstEscaped
      <4> QED
        BY <1>1, <4>1
    <3>4. i + 3 \in (i + 1)..Len(s) /\ i + 3 \in i..(j - 1) /\ (i + 3) - 1 = i + 2
          /\ i + 3 <= Len(s)
      BY <1>1, <1>2, <2>2, <3>3
    <3>5. E[i + 3]
      BY <1>8, <3>2, <3>4, FirstEscaped
    <3>6. Len(V[i + 3]) = Len(V[i + 2]) + 1
      BY <1>6, <3>4, <3>5
    <3>7. Len(V[i + 1]) <= Len(V[i + 2]) /\ Len(V[i + 3]) <= 1 /\ Len(V[i + 2]) \in Nat
      <4>1. i + 1 \in i..Len(s) /\ i + 2 \in (i + 1)..Len(s) /\ i + 2 \in i..Len(s)
        BY <1>3
      <4> QED
        BY <1>5, <1>7, <3>4, <4>1, ValuesGrow
    <3> HIDE DEF V
    <3> QED
      BY <2>1, <3>6, <3>7
  <2> QED
    BY <1>1, <1>4, <1>8, <2>2 DEF Plain
<1>9. CASE s[i + 1] = Backslash
  <2>1. E[i + 2]
    BY <1>3, <1>9, FirstEscaped
  <2>2. j # i + 2
    BY <1>1, <2>1
  <2>3. i + 2 \in (i + 1)..(j - 1) /\ i + 3 <= Len(s)
    BY <1>1, <1>2, <2>2
  <2>4. s[i + 2] # Newline
    BY <1>1, <2>1, <2>3
  <2>5. V[i + 2] = <<Unescaped(s[i + 2])>>
    BY <1>3, <1>9, FirstValues
  <2>6. Len(V[i + 2]) = 1
    BY <2>5
  <2>7. ~E[i + 3]
    BY <1>9, <2>3, FirstEscaped
  <2>8. ASSUME j # i + 3 PROVE FALSE
    <3>1. i + 3 \in i..(j - 1) /\ i + 3 \in (i + 1)..Len(s) /\ (i + 3) - 1 = i + 2
          /\ i + 4 <= Len(s)
      BY <1>1, <1>2, <2>2, <2>8
    <3>2. Len(V[i + 3]) <= 1
      BY <1>7, <3>1
    <3>3. s[i + 3] = Backslash
      <4>1. ASSUME s[i + 3] # Backslash PROVE Len(V[i + 3]) = Len(V[i + 2]) + 1
        <5>1. Len(V[i + 3]) = Len(V[(i + 3) - 1]) + 1
          BY <1>6, <3>1, <4>1
        <5> HIDE DEF V
        <5> QED
          BY <3>1, <5>1
      <4> DEFINE m == Len(V[i + 2])
                 n == Len(V[i + 3])
      <4>3. m = 1 /\ n <= 1 /\ (s[i + 3] # Backslash => n = m + 1)
        BY <2>6, <3>2, <4>1
      <4> HIDE DEF m, n
      <4> QED
        BY <4>3
    <3>4. E[i + 4]
      <4>1. i + 4 \in i..Len(s) /\ i + 4 > i + 1 /\ (i + 4) - 1 = i + 3
        BY <3>1
      <4>2. E[i + 4] = (i + 4 > i + 1 /\ s[i + 3] = Backslash /\ ~E[i + 3])
        BY <4>1, EscapedStep
      <4> HIDE DEF E
      <4> QED
        BY <2>7, <3>3, <4>1, <4>2
    <3>5. j # i + 4
      BY <1>1, <3>4
    <3>6. i + 4 \in i..(j - 1) /\ i + 4 \in (i + 1)..Len(s) /\ (i + 4) - 1 = i + 3
      BY <1>1, <1>2, <2>2, <2>8, <3>1, <3>5
    <3>7. Len(V[i + 4]) = Len(V[i + 3]) + 1
      BY <1>6, <3>4, <3>6
    <3>8. Len(V[i + 4]) <= 1
      BY <1>7, <3>6
    <3>9. Len(V[i + 2]) <= Len(V[i + 3]) /\ Len(V[i + 3]) \in Nat
      <4>1. i + 2 \in i..Len(s) /\ i + 3 \in (i + 2)..Len(s) /\ i + 3 \in i..Len(s)
        BY <2>3
      <4> QED
        BY <1>5, <4>1, ValuesGrow
    <3> HIDE DEF V
    <3> QED
      BY <2>6, <3>7, <3>8, <3>9
  <2> QED
    BY <1>1, <1>9, <2>4, <2>8 DEF Slashed
<1> QED
  BY <1>8, <1>9

CharToken(c) == [type |-> "CHAR", value |-> <<c>>]

(* So the reading goes on after a literal of one character,                 *)
LEMMA PlainContinues ==
    ASSUME NEW s \in Seq(STRING), NEW i \in 1..Len(s), NEW j \in i..Len(s), s[i] = Apostrophe,
           Plain(s, i, j)
    PROVE  Continues(s, i, j + 1, <<CharToken(s[i + 1])>>)
<1>1. IsChar(WithinLine, s, i, j) /\ Value(s, i, j) = <<s[i + 1]>>
  BY PlainIsChar
<1>2. ASSUME NEW k \in i..Len(s), IsChar(WithinLine, s, i, k) PROVE k <= j
  <2>1. Plain(s, i, k) \/ Slashed(s, i, k)
    BY <1>2, CharIsOne
  <2>2. k = j
    BY <2>1 DEF Plain, Slashed
  <2> QED
    BY <2>2
<1>3. TokensOf(s, i, j) = <<CharToken(s[i + 1])>>
  BY <1>1, CharItem DEF CharToken
<1>4. \A k \in i..Len(s) : IsItemHere(s, i, k) <=> IsChar(WithinLine, s, i, k)
  BY CharItem DEF IsItemHere
<1>5. Continues(s, i, j + 1, TokensOf(s, i, j))
  BY <1>1, <1>2, <1>4, LongestContinues
<1> QED
  BY <1>3, <1>5

(* after one with a backslash,                                              *)
LEMMA SlashedContinues ==
    ASSUME NEW s \in Seq(STRING), NEW i \in 1..Len(s), NEW j \in i..Len(s), s[i] = Apostrophe,
           Slashed(s, i, j)
    PROVE  Continues(s, i, j + 1, <<CharToken(Unescaped(s[i + 2]))>>)
<1>1. IsChar(WithinLine, s, i, j) /\ Value(s, i, j) = <<Unescaped(s[i + 2])>>
  BY SlashedIsChar
<1>2. ASSUME NEW k \in i..Len(s), IsChar(WithinLine, s, i, k) PROVE k <= j
  <2>1. Plain(s, i, k) \/ Slashed(s, i, k)
    BY <1>2, CharIsOne
  <2>2. k = j
    BY <2>1 DEF Plain, Slashed
  <2> QED
    BY <2>2
<1>3. TokensOf(s, i, j) = <<CharToken(Unescaped(s[i + 2]))>>
  BY <1>1, CharItem DEF CharToken
<1>4. \A k \in i..Len(s) : IsItemHere(s, i, k) <=> IsChar(WithinLine, s, i, k)
  BY CharItem DEF IsItemHere
<1>5. Continues(s, i, j + 1, TokensOf(s, i, j))
  BY <1>1, <1>2, <1>4, LongestContinues
<1> QED
  BY <1>3, <1>5

(* and fails if there is none.                                              *)
LEMMA CharFails ==
    ASSUME NEW s \in Seq(STRING), NEW i \in 1..Len(s), s[i] = Apostrophe,
           \A j \in i..Len(s) : ~Plain(s, i, j) /\ ~Slashed(s, i, j)
    PROVE  Fails(s, i)
BY CharItem, CharIsOne, NoneFails DEF IsItemHere

(* Tokens one after the other, in any grouping.                             *)
LEMMA TokensConcat ==
    ASSUME NEW ts \in Seq(Token), NEW us \in Seq(Token), NEW vs \in Seq(Token)
    PROVE  ts \o (us \o vs) = (ts \o us) \o vs
BY ConcatAssociative

(* Readings that go on, one after the other.                                *)
LEMMA ContinuesOn ==
    ASSUME NEW s \in Seq(STRING), NEW i \in 1..(Len(s) + 1), NEW j \in 1..(Len(s) + 1),
           NEW k \in 1..(Len(s) + 1), NEW ts \in Seq(Token), NEW us \in Seq(Token),
           Continues(s, i, j, ts), Continues(s, j, k, us)
    PROVE  Continues(s, i, k, ts \o us)
<1> DEFINE R == read(s)
<1>1. R[i].ok = R[j].ok /\ R[i].tokens = ts \o R[j].tokens
      /\ R[j].ok = R[k].ok /\ R[j].tokens = us \o R[k].tokens
  BY DEF Continues
<1>2. R[k].tokens \in Seq(Token)
  BY ReadingTyped
<1> HIDE DEF R
<1>3. ts \in Seq(Token) /\ us \in Seq(Token)
  OBVIOUS
<1>4. ts \o (us \o R[k].tokens) = (ts \o us) \o R[k].tokens
  BY <1>2, <1>3, TokensConcat
<1>5. R[i].ok = R[k].ok /\ R[i].tokens = (ts \o us) \o R[k].tokens
  BY <1>1, <1>4
<1> QED
  BY <1>5 DEF Continues, R

(* The next character; the text up to i has given the tokens ts.            *)
at             == Len(input) - Len(rest) + 1
Goes(s, ts, i) == i \in 1..(Len(s) + 1) /\ Continues(s, 1, i, ts)

(* A string literal or a block comment that begins at i is read; before at   *)
(* comes a backslash that begins an escape sequence.                        *)
InString(i) ==
    /\ i \in 1..(at - 1) /\ Goes(input, tokens, i) /\ input[i] = Quote
    /\ Values(input, i)[at - 1] = buffer.chars \o pending
    /\ \A p \in (i + 1)..(at - 1) :
          input[p] # Newline /\ (input[p] = Quote => Escaped(input, i)[p])
AfterBackslash(i) == i < at - 1 /\ input[at - 1] = Backslash /\ ~Escaped(input, i)[at - 1]
InBlock(k, i) ==
    /\ i \in 1..(at - 1) /\ Goes(input, tokens, i) /\ input[i] = BlockComment[k][1]
    /\ \A p \in (i + 1)..(at - 1) : input[p] # BlockComment[k][2]

(* What the start condition means.                                          *)
Means ==
    /\ start = Condition("INITIAL") => Goes(input, tokens, at)
    /\ start = Condition("STRING")  => \E i \in 1..Len(input) : InString(i) /\ ~AfterBackslash(i)
    /\ start = Condition("ESCAPED") => \E i \in 1..Len(input) : InString(i) /\ AfterBackslash(i)
    /\ start = Condition("CHAR")    => Goes(input, tokens, at - 1) /\ input[at - 1] = Apostrophe
    /\ start = Condition("CHARESC") =>
          /\ Goes(input, tokens, at - 2)
          /\ input[at - 2] = Apostrophe /\ input[at - 1] = Backslash
    /\ start = Condition("CHAREND") =>
          IF Sees(Apostrophe) THEN Goes(input, tokens, at + 1) ELSE Fails(input, 1)
    /\ \A k \in Comments : start = COMMENT(k) => \E i \in 1..Len(input) : InBlock(k, i)

(* At the end of the text the tokens are those of its reading, or the       *)
(* scanner is within something.                                             *)
Complete ==
    IF start = Condition("INITIAL")
    THEN read(input)[1].ok = TRUE /\ read(input)[1].tokens = tokens
    ELSE Fails(input, 1)

Follows ==
    /\ \A q \in 1..Len(rest) : rest[q] = input[at + q - 1]
    /\ echoed \in Seq(STRING)
    /\ echoed # <<>> => Fails(input, 1)
    /\ echoed = <<>> =>
          /\ turn = "lexer" \/ (turn = "parser" /\ Last \notin {"ERROR", "EOF"}) => Means
          /\ turn = "parser" /\ Last = "ERROR" => Fails(input, 1)
          /\ turn = "accepted" \/ (turn = "parser" /\ Last = "EOF") => Complete

(* The tokens so far, and those of what follows;                            *)
LEMMA GoesOn ==
    ASSUME NEW s \in Seq(STRING), NEW ts \in Seq(Token), NEW us \in Seq(Token), NEW i,
           Goes(s, ts, i), NEW j \in 1..(Len(s) + 1), Continues(s, i, j, us)
    PROVE  Goes(s, ts \o us, j)
<1>1. i \in 1..(Len(s) + 1) /\ 1 \in 1..(Len(s) + 1)
  BY DEF Goes
<1> QED
  BY <1>1, ContinuesOn DEF Goes

(* white space and comments give none,                                      *)
LEMMA GoesSilently ==
    ASSUME NEW s \in Seq(STRING), NEW ts \in Seq(Token), NEW i,
           Goes(s, ts, i), NEW j \in 1..(Len(s) + 1), Continues(s, i, j, <<>>)
    PROVE  Goes(s, ts, j)
<1>1. <<>> \in Seq(Token) /\ ts \o <<>> = ts
  BY ConcatEmptySeq
<1> QED
  BY <1>1, GoesOn

(* the other items give one;                                                *)
LEMMA GoesWith ==
    ASSUME NEW s \in Seq(STRING), NEW ts \in Seq(Token), NEW t \in Token, NEW i,
           Goes(s, ts, i), NEW j \in 1..(Len(s) + 1), Continues(s, i, j, <<t>>)
    PROVE  Goes(s, Append(ts, t), j)
<1>1. <<t>> \in Seq(Token) /\ ts \o <<t>> = Append(ts, t)
  BY AppendIsConcat
<1> QED
  BY <1>1, GoesOn

(* where the reading fails, it fails from the beginning.                    *)
LEMMA GoesFails ==
    ASSUME NEW s, NEW ts, NEW i, Goes(s, ts, i), Fails(s, i)
    PROVE  Fails(s, 1)
BY DEF Goes, Fails, Continues

(* Where the scanner is in the text.                                        *)
LEMMA Place ==
    ASSUME IInv, Follows
    PROVE  /\ input \in Seq(STRING) /\ Len(input) \in Nat /\ rest \in Seq(STRING) /\ Len(rest) \in Nat
           /\ at \in 1..(Len(input) + 1) /\ at + Len(rest) = Len(input) + 1
           /\ rest # <<>> <=> at <= Len(input)
           /\ rest # <<>> => rest[1] = input[at]
           /\ \A q \in 1..Len(rest) : rest[q] = input[at + q - 1]
<1>1. input \in Seq(STRING) /\ rest \in Seq(STRING) /\ buffer.current \in Nat /\ pending \in Seq(STRING)
  BY InputAssumption DEF IInv, Typed, Buffer
<1>2. Len(input) \in Nat /\ Len(rest) \in Nat /\ Len(pending) \in Nat
  BY <1>1
<1>3. buffer.current + Len(pending) + Len(rest) <= Len(input)
  BY DEF IInv, Bounded
<1>4. at \in 1..(Len(input) + 1) /\ at + Len(rest) = Len(input) + 1
  BY <1>1, <1>2, <1>3 DEF at
<1>5. rest # <<>> <=> Len(rest) >= 1
  BY <1>1, <1>2, EmptySeq
<1>6. rest # <<>> <=> at <= Len(input)
  BY <1>2, <1>4, <1>5
<1>7. \A q \in 1..Len(rest) : rest[q] = input[at + q - 1]
  BY DEF Follows
<1>8. ASSUME rest # <<>> PROVE rest[1] = input[at]
  <2>1. 1 \in 1..Len(rest) /\ at + 1 - 1 = at
    BY <1>2, <1>4, <1>5, <1>8
  <2> QED
    BY <1>7, <2>1
<1> QED
  BY <1>1, <1>2, <1>4, <1>6, <1>7, <1>8

(* Matching n characters.                                                   *)
LEMMA Moves ==
    ASSUME IInv, Follows, NEW n \in 0..Len(rest), Match(n)
    PROVE  /\ input' = input /\ at' = at + n /\ at + n \in 1..(Len(input) + 1)
           /\ rest' \in Seq(STRING) /\ Len(rest') = Len(rest) - n
           /\ \A q \in 1..Len(rest') : rest'[q] = input'[at' + q - 1]
           /\ rest' # <<>> <=> at + n <= Len(input)
           /\ rest' # <<>> => rest'[1] = input[at + n]
<1>1. rest' \in Seq(STRING) /\ Len(rest') = Len(rest) - n /\ input' = input
  BY MatchShortens DEF IInv
<1>2. at' = at + n /\ at + n \in 1..(Len(input) + 1)
  BY <1>1, Place DEF at
<1>3. rest' = SubSeq(rest, n + 1, Len(rest))
  BY DEF Match
<1>4. ASSUME NEW q \in 1..Len(rest') PROVE rest'[q] = input'[at' + q - 1]
  <2>1. n + q \in 1..Len(rest) /\ at + (n + q) - 1 = at + n + q - 1
    BY <1>1, Place
  <2>2. rest'[q] = rest[n + q]
    <3>1. \A k \in (n + 1)..Len(rest) : rest[k] \in STRING
      BY Place, ElementOfSeq
    <3>2. q \in 1..(Len(rest) - (n + 1) + 1) /\ n + 1 + q - 1 = n + q /\ n + 1 \in Int /\ Len(rest) \in Int
      BY <1>1, Place
    <3>3. SubSeq(rest, n + 1, Len(rest))[q] = rest[n + 1 + q - 1]
      BY <1>1, <1>3, <3>1, <3>2, SubSeqProperties
    <3> QED
      BY <1>3, <3>2, <3>3
  <2>3. rest[n + q] = input[at + (n + q) - 1]
    BY <2>1, Place
  <2> QED
    BY <1>1, <1>2, <2>1, <2>2, <2>3
<1>5. rest' # <<>> <=> Len(rest') >= 1
  BY <1>1, EmptySeq
<1>6. Len(rest') = Len(input) + 1 - (at + n)
  <2>1. at \in Int /\ Len(rest) \in Int /\ Len(input) \in Int /\ at + Len(rest) = Len(input) + 1
    BY Place
  <2> QED
    BY <1>1, <2>1
<1>7. rest' # <<>> <=> at + n <= Len(input)
  BY <1>2, <1>5, <1>6, Place
<1>8. ASSUME rest' # <<>> PROVE rest'[1] = input[at + n]
  <2>1. 1 \in 1..Len(rest') /\ at' + 1 - 1 = at + n
    BY <1>1, <1>2, <1>5, <1>8, Place
  <2> QED
    BY <1>1, <1>4, <2>1
<1> QED
  BY <1>1, <1>2, <1>4, <1>7, <1>8

(* The first n characters of the rest.                                      *)
LEMMA Part ==
    ASSUME IInv, Follows, NEW n \in 1..Len(rest)
    PROVE  /\ SubSeq(rest, 1, n) = SubSeq(input, at, at + n - 1)
           /\ at + n - 1 \in at..Len(input)
<1>1. at + n - 1 \in at..Len(input) /\ at \in 1..Len(input)
  BY Place
<1> DEFINE u == SubSeq(rest, 1, n)
           v == SubSeq(input, at, at + n - 1)
<1>2. u \in Seq(STRING) /\ Len(u) = n /\ \A q \in 1..n : u[q] = rest[q]
  <2>1. \A q \in 1..n : rest[q] \in STRING
    BY Place, ElementOfSeq
  <2> QED
    BY <2>1, SubSeqProperties
<1>3. v \in Seq(STRING) /\ Len(v) = n /\ \A q \in 1..n : v[q] = input[at + q - 1]
  <2>1. \A q \in at..(at + n - 1) : input[q] \in STRING
    BY <1>1, Place, ElementOfSeq
  <2>2. at \in Int /\ at + n - 1 \in Int /\ at <= at + n - 1 /\ at + n - 1 - at + 1 = n
    BY Place
  <2> QED
    BY <2>1, <2>2, SubSeqProperties
<1>4. \A q \in 1..n : u[q] = v[q]
  <2>1. \A q \in 1..n : q \in 1..Len(rest)
    BY Place
  <2> HIDE DEF u, v
  <2> QED
    BY <1>2, <1>3, <2>1, Place
<1>5. u = v
  <2> HIDE DEF u, v
  <2> QED
    BY <1>2, <1>3, <1>4, SeqEqual
<1> QED
  BY <1>1, <1>5

(* A step that returns no token.                                            *)
LEMMA SilentFollows ==
    ASSUME IInv, Follows, turn = "lexer", NEW n \in 0..Len(rest), Match(n), Silent,
           echoed' = echoed, echoed = <<>> => Means'
    PROVE  Follows'
<1>1. input' = input /\ turn' = "lexer" /\ \A q \in 1..Len(rest') : rest'[q] = input'[at' + q - 1]
  BY Moves DEF Silent
<1>2. echoed' \in Seq(STRING) /\ (echoed' # <<>> => Fails(input', 1))
  BY <1>1 DEF Follows
<1> QED
  BY <1>1, <1>2 DEF Follows

(* A step that returns a token.                                             *)
LEMMA ReturnFollows ==
    ASSUME IInv, Follows, turn = "lexer", NEW n \in 0..Len(rest), Match(n),
           NEW type \in Types, NEW value \in Seq(STRING), Return(type, value), echoed' = echoed,
           echoed = <<>> => /\ type \notin {"ERROR", "EOF"} => Means'
                            /\ type = "ERROR" => Fails(input, 1)
                            /\ type = "EOF" => Complete'
    PROVE  Follows'
<1>1. input' = input /\ turn' = "parser" /\ \A q \in 1..Len(rest') : rest'[q] = input'[at' + q - 1]
  BY Moves DEF Return
<1>2. echoed' \in Seq(STRING) /\ (echoed' # <<>> => Fails(input', 1))
  BY <1>1 DEF Follows
<1>3. Last' = type
  <2> DEFINE t == [type |-> type, value |-> value]
  <2>1. t \in Token /\ tokens \in Seq(Token) /\ tokens' = Append(tokens, t)
    BY DEF Token, IInv, Typed, Return
  <2>2. Len(tokens') = Len(tokens) + 1 /\ tokens'[Len(tokens) + 1] = t
    <3> HIDE DEF t
    <3> QED
      BY <2>1, AppendProperties
  <2> QED
    BY <2>2 DEF Last
<1> QED
  BY <1>1, <1>2, <1>3 DEF Follows

(* Between two characters the start condition has its meaning.              *)
LEMMA HereMeans ==
    ASSUME Follows, turn = "lexer", echoed = <<>>
    PROVE  Means
BY DEF Follows

(* White space and line comments.                                           *)
LEMMA BlanksFollow ==
    ASSUME IInv, Follows, lexSingleComment \/ WhiteSpace
    PROVE  Follows'
<1>1. CASE lexSingleComment
  <2> DEFINE S == {c \in {rest[i] : i \in DOMAIN rest} : c # Newline}
             n == Span(S, rest)
  <2>1. /\ turn = "lexer" /\ start = Condition("INITIAL") /\ start' = start /\ Sees(LineComment)
        /\ Match(n) /\ echoed' = echoed /\ Silent
    BY <1>1 DEF lexSingleComment, In, Skip
  <2>2. n \in 0..Len(rest) /\ (\A i \in 1..n : rest[i] \in S) /\ (n < Len(rest) => rest[n + 1] \notin S)
    BY SpanStops DEF IInv, Typed
  <2>3. rest # <<>> /\ rest[1] = LineComment /\ rest[1] # Newline
    BY <2>1, BeginsAssumption DEF Sees
  <2>4. DOMAIN rest = 1..Len(rest) /\ Len(rest) \in Nat /\ 1 \in DOMAIN rest
    BY <2>3, Place, EmptySeq
  <2>5. n # 0
    <3>1. rest[1] \in S
      BY <2>3, <2>4
    <3>2. n = 0 => n < Len(rest) /\ n + 1 = 1
      BY <2>4
    <3> HIDE DEF S, n
    <3> QED
      BY <2>2, <3>1, <3>2
  <2>6. \A q \in 1..n : rest[q] # Newline
    <3> HIDE DEF n
    <3> QED
      BY <2>2
  <2>7. n < Len(rest) => rest[n + 1] = Newline
    <3>1. n < Len(rest) => n + 1 \in DOMAIN rest
      <4> HIDE DEF n
      <4> QED
        BY <2>2, <2>4
    <3> HIDE DEF n
    <3> QED
      BY <2>2, <3>1
  <2> HIDE DEF S, n
  <2>a. n \in 1..Len(rest) /\ at \in Int /\ Len(rest) \in Nat
    BY <2>2, <2>5, Place
  <2>8. at + n - 1 \in at..Len(input) /\ at \in 1..Len(input) /\ input[at] = LineComment
    <3>1. at + n - 1 \in at..Len(input)
      BY <2>a, Part
    <3>2. at \in 1..Len(input) /\ input[at] = LineComment
      BY <2>3, Place
    <3> QED
      BY <3>1, <3>2
  <2>9. \A p \in at..(at + n - 1) : input[p] # Newline
    <3>1. \A p \in at..(at + n - 1) : p - at + 1 \in 1..n /\ at + (p - at + 1) - 1 = p
                                       /\ p - at + 1 \in 1..Len(rest)
      <4>1. at \in Int /\ n \in 1..Len(rest) /\ Len(rest) \in Nat
        BY <2>a, Place
      <4>2. ASSUME NEW p \in at..(at + n - 1)
            PROVE  /\ p - at + 1 \in 1..n /\ at + (p - at + 1) - 1 = p
                   /\ p - at + 1 \in 1..Len(rest)
        BY <4>1
      <4> QED
        BY <4>2
    <3>2. \A q \in 1..Len(rest) : rest[q] = input[at + q - 1]
      BY Place
    <3> QED
      BY <2>6, <3>1, <3>2
  <2>10. at + n - 1 < Len(input) => input[at + n - 1 + 1] = Newline
    <3>1. at + n - 1 < Len(input) => n < Len(rest) /\ n + 1 \in 1..Len(rest)
                                      /\ at + (n + 1) - 1 = at + n - 1 + 1
      <4>1. at \in Int /\ n \in Int /\ Len(rest) \in Nat /\ n >= 1
            /\ at + Len(rest) = Len(input) + 1 /\ Len(input) \in Nat
        BY <2>a, Place
      <4> QED
        BY <4>1
    <3>2. \A q \in 1..Len(rest) : rest[q] = input[at + q - 1]
      BY Place
    <3> QED
      BY <2>7, <3>1, <3>2
  <2>11. Continues(input, at, at + n, <<>>)
    <3>1. Continues(input, at, at + n - 1 + 1, <<>>)
      BY <2>8, <2>9, <2>10, Place, LineContinues
    <3>2. at + n - 1 + 1 = at + n
      BY <2>2, Place
    <3> QED
      BY <3>1, <3>2
  <2>12. ASSUME echoed = <<>> PROVE Means'
    <3>1. Goes(input, tokens, at)
      BY <2>1, <2>12, HereMeans DEF Means
    <3>2. Goes(input, tokens, at + n) /\ input' = input /\ at' = at + n /\ tokens' = tokens
      BY <2>1, <2>2, <2>11, <3>1, Place, Moves, GoesSilently DEF IInv, Typed, Silent
    <3> QED
      BY <2>1, <3>2 DEF Means, Condition, COMMENT
  <2> QED
    BY <2>1, <2>2, <2>12, SilentFollows
<1>2. CASE WhiteSpace
  <2>1. /\ turn = "lexer" /\ start = Condition("INITIAL") /\ start' = start /\ rest # <<>>
        /\ rest[1] \in {Newline, Blank} /\ Match(1) /\ echoed' = echoed /\ Silent
    BY <1>2 DEF WhiteSpace, In, More, Skip
  <2>2. 1 \in 0..Len(rest)
    BY <2>1, FirstOfRest DEF IInv
  <2>3. at \in 1..Len(input) /\ input[at] \in {Newline, Blank}
    BY <2>1, Place
  <2>4. Continues(input, at, at + 1, <<>>)
    BY <2>3, Place, BlankContinues
  <2>5. ASSUME echoed = <<>> PROVE Means'
    <3>1. Goes(input, tokens, at)
      BY <2>1, <2>5, HereMeans DEF Means
    <3>2. Goes(input, tokens, at + 1) /\ input' = input /\ at' = at + 1 /\ tokens' = tokens
      BY <2>1, <2>2, <2>4, <3>1, Place, Moves, GoesSilently DEF IInv, Typed, Silent
    <3> QED
      BY <2>1, <3>2 DEF Means, Condition, COMMENT
  <2> QED
    BY <2>1, <2>2, <2>5, SilentFollows
<1> QED
  BY <1>1, <1>2

(* Words, symbols, and characters that begin nothing.                       *)
LEMMA WordsFollow ==
    ASSUME IInv, Follows, lexWord \/ lexSymbol \/ Unexpected
    PROVE  Follows'
<1>1. CASE lexWord
  <2> DEFINE S == Letters \cup {Apostrophe}
             n == Span(S, rest)
             w == SubSeq(rest, 1, n)
             type == IF w \in Reserved THEN "reserved" ELSE "IDENT"
  <2>1. /\ turn = "lexer" /\ start = Condition("INITIAL") /\ start' = start
        /\ rest # <<>> /\ rest[1] \in Letters
        /\ Match(n) /\ Return(type, w) /\ echoed' = echoed
    BY <1>1 DEF lexWord, In, More, wordToken
  <2>2. n \in 0..Len(rest) /\ (\A i \in 1..n : rest[i] \in S) /\ (n < Len(rest) => rest[n + 1] \notin S)
    BY SpanStops DEF IInv, Typed
  <2>3. n \in 1..Len(rest)
    <3>1. rest[1] \in S
      BY <2>1
    <3>2. n = 0 => n < Len(rest) /\ n + 1 = 1
      BY <2>1, Place, EmptySeq
    <3> HIDE DEF S, n
    <3> QED
      BY <2>2, <3>1, <3>2, Place
  <2>4. type \in Types \ {"ERROR", "EOF"}
    BY DEF Types
  <2>t. wordToken(w) = [type |-> type, value |-> w]
    BY DEF wordToken
  <2> HIDE DEF n
  <2>5. w = SubSeq(input, at, at + n - 1) /\ at + n - 1 \in at..Len(input) /\ at \in 1..Len(input)
    <3>1. w = SubSeq(input, at, at + n - 1) /\ at + n - 1 \in at..Len(input)
      BY <2>3, Part
    <3>2. at \in 1..Len(input)
      BY <2>1, Place
    <3> QED
      BY <3>1, <3>2
  <2>6. w \in Seq(STRING)
    BY <2>5, Place, PartTyped
  <2>7. wordToken(w) \in Token
    BY <2>4, <2>6, <2>t DEF Token
  <2> HIDE DEF S, w, type
  <2>8. input[at] \in Letters
    BY <2>1, Place
  <2>9. \A p \in at..(at + n - 1) : input[p] \in S
    <3>1. \A p \in at..(at + n - 1) : p - at + 1 \in 1..n /\ at + (p - at + 1) - 1 = p
                                       /\ p - at + 1 \in 1..Len(rest)
      <4>1. at \in Int /\ n \in 1..Len(rest) /\ Len(rest) \in Nat
        BY <2>3, Place
      <4>2. ASSUME NEW p \in at..(at + n - 1)
            PROVE  /\ p - at + 1 \in 1..n /\ at + (p - at + 1) - 1 = p
                   /\ p - at + 1 \in 1..Len(rest)
        BY <4>1
      <4> QED
        BY <4>2
    <3>2. \A q \in 1..Len(rest) : rest[q] = input[at + q - 1]
      BY Place
    <3> QED
      BY <2>2, <3>1, <3>2
  <2>10. at + n - 1 < Len(input) => input[at + n - 1 + 1] \notin S
    <3>1. at + n - 1 < Len(input) => n < Len(rest) /\ n + 1 \in 1..Len(rest)
                                      /\ at + (n + 1) - 1 = at + n - 1 + 1
      <4>1. at \in Int /\ n \in Int /\ Len(rest) \in Nat /\ n >= 1
            /\ at + Len(rest) = Len(input) + 1 /\ Len(input) \in Nat
        BY <2>3, Place
      <4> QED
        BY <4>1
    <3>2. \A q \in 1..Len(rest) : rest[q] = input[at + q - 1]
      BY Place
    <3> QED
      BY <2>2, <3>1, <3>2
  <2>11. Continues(input, at, at + n, <<wordToken(w)>>)
    <3>1. Continues(input, at, at + n - 1 + 1, <<wordToken(w)>>)
      BY <2>5, <2>8, <2>9, <2>10, Place, WordContinues DEF S
    <3>2. at + n - 1 + 1 = at + n
      BY <2>3, Place
    <3> QED
      BY <3>1, <3>2
  <2>12. ASSUME echoed = <<>> PROVE Means'
    <3>1. Goes(input, tokens, at)
      BY <2>1, <2>12, HereMeans DEF Means
    <3>2. Goes(input, Append(tokens, wordToken(w)), at + n) /\ input' = input /\ at' = at + n
      BY <2>1, <2>2, <2>7, <2>11, <3>1, Place, Moves, GoesWith DEF IInv, Typed
    <3>3. tokens' = Append(tokens, wordToken(w))
      BY <2>1, <2>t DEF Return
    <3> QED
      BY <2>1, <3>2, <3>3 DEF Means, Condition, COMMENT
  <2> QED
    BY <2>1, <2>2, <2>4, <2>6, <2>12, ReturnFollows
<1>2. CASE lexSymbol
  <2>1. PICK n \in symbolEnds : /\ \A m \in symbolEnds : m <= n
                                /\ Match(n) /\ Return("symbol", SubSeq(rest, 1, n))
    BY <1>2 DEF lexSymbol
  <2>2. turn = "lexer" /\ start = Condition("INITIAL") /\ start' = start /\ echoed' = echoed
    BY <1>2 DEF lexSymbol, In
  <2> DEFINE w == SubSeq(rest, 1, n)
             t == [type |-> "symbol", value |-> w]
  <2>3. n \in 1..Len(rest) /\ n \in 0..Len(rest) /\ w \in Symbols
    BY <2>1 DEF symbolEnds
  <2>4. w = SubSeq(input, at, at + n - 1) /\ at + n - 1 \in at..Len(input) /\ at \in 1..Len(input)
    <3>1. w = SubSeq(input, at, at + n - 1) /\ at + n - 1 \in at..Len(input)
      BY <2>3, Part
    <3>2. at \in 1..Len(input)
      <4>1. at \in Nat \ {0} /\ Len(input) \in Nat /\ n \in Nat
        BY <2>3, Place
      <4> QED
        BY <3>1, <4>1
    <3> QED
      BY <3>1, <3>2
  <2>5. w \in Seq(STRING)
    BY <2>4, Place, PartTyped
  <2>6. "symbol" \in Types \ {"ERROR", "EOF"} /\ t \in Token
    BY <2>5 DEF Types, Token
  <2>7. input[at] \notin Begins
    <3>1. IsSymbol(input, at, at + n - 1)
      BY <2>3, <2>4 DEF IsSymbol
    <3> QED
      BY <2>4, <3>1, Kinds, Place
  <2>8. ASSUME NEW k \in at..Len(input), SubSeq(input, at, k) \in Symbols PROVE k <= at + n - 1
    <3>1. k - at + 1 \in 1..Len(rest) /\ at + (k - at + 1) - 1 = k
      BY Place
    <3>2. SubSeq(rest, 1, k - at + 1) = SubSeq(input, at, k)
      BY <3>1, Part
    <3>3. k - at + 1 \in symbolEnds
      BY <2>8, <3>1, <3>2 DEF symbolEnds
    <3>4. k - at + 1 <= n
      BY <2>1, <3>3
    <3> QED
      BY <2>3, <3>4, Place
  <2>9. Continues(input, at, at + n, <<t>>)
    <3>1. Continues(input, at, at + n - 1 + 1, <<t>>)
      BY <2>3, <2>4, <2>7, <2>8, Place, SymbolContinues
    <3>2. at + n - 1 + 1 = at + n
      BY <2>3, Place
    <3> QED
      BY <3>1, <3>2
  <2>10. tokens' = Append(tokens, t)
    BY <2>1 DEF Return
  <2> HIDE DEF w, t
  <2>11. ASSUME echoed = <<>> PROVE Means'
    <3>1. Goes(input, tokens, at)
      BY <2>2, <2>11, HereMeans DEF Means
    <3>2. Goes(input, Append(tokens, t), at + n) /\ input' = input /\ at' = at + n
      BY <2>1, <2>3, <2>6, <2>9, <3>1, Place, Moves, GoesWith DEF IInv, Typed
    <3> QED
      BY <2>2, <2>10, <3>2 DEF Means, Condition, COMMENT
  <2> QED
    BY <2>1, <2>2, <2>3, <2>5, <2>6, <2>11, ReturnFollows DEF w
<1>3. CASE Unexpected
  <2>1. /\ turn = "lexer" /\ start = Condition("INITIAL") /\ rest # <<>> /\ rest[1] \notin Begins
        /\ symbolEnds = {} /\ Match(1) /\ Return("ERROR", <<>>) /\ echoed' = echoed
    BY <1>3 DEF Unexpected, In, More
  <2>2. 1 \in 0..Len(rest) /\ at \in 1..Len(input) /\ input[at] \notin Begins
    BY <2>1, FirstOfRest, Place DEF IInv
  <2>3. ASSUME NEW k \in at..Len(input), SubSeq(input, at, k) \in Symbols PROVE FALSE
    <3>1. k - at + 1 \in 1..Len(rest) /\ at + (k - at + 1) - 1 = k
      BY Place
    <3>2. SubSeq(rest, 1, k - at + 1) = SubSeq(input, at, k)
      BY <3>1, Part
    <3> QED
      BY <2>1, <2>3, <3>1, <3>2 DEF symbolEnds
  <2>4. Fails(input, at)
    BY <2>2, <2>3, Place, SymbolFails
  <2>5. ASSUME echoed = <<>> PROVE Fails(input, 1)
    <3>1. Goes(input, tokens, at)
      BY <2>1, <2>5, HereMeans DEF Means
    <3> QED
      BY <2>4, <3>1, GoesFails
  <2>6. "ERROR" \in Types /\ <<>> \in Seq(STRING)
    BY DEF Types
  <2> QED
    BY <2>1, <2>2, <2>5, <2>6, ReturnFollows
<1> QED
  BY <1>1, <1>2, <1>3

(* Block comments.                                                          *)
LEMMA CommentsFollow ==
    ASSUME IInv, Follows, BeginComment \/ EndComment \/ CharInComment
    PROVE  Follows'
<1>0. turn = "lexer" /\ rest # <<>> /\ Match(1) /\ echoed' = echoed /\ Silent
  BY DEF BeginComment, EndComment, CharInComment, In, InComment, Sees, More, Skip
<1>1. 1 \in 0..Len(rest) /\ at \in 1..Len(input) /\ input' = input /\ at' = at + 1 /\ tokens' = tokens
      /\ rest[1] = input[at]
  BY <1>0, FirstOfRest, Place, Moves DEF IInv, Silent
<1>2. ASSUME echoed = <<>>, BeginComment PROVE Means'
  <2>1. PICK k \in Comments : rest[1] = BlockComment[k][1] /\ start' = COMMENT(k)
    BY <1>2 DEF BeginComment, Sees
  <2>2. Goes(input, tokens, at)
    BY <1>0, <1>2, HereMeans DEF Means, BeginComment, In
  <2>3. \A p \in (at + 1)..(at + 1 - 1) : FALSE
    BY <1>1
  <2>4. at \in 1..(at + 1 - 1) /\ input[at] = BlockComment[k][1]
    BY <1>1, <2>1
  <2>5. \E i \in 1..Len(input') : InBlock(k, i)'
    BY <1>1, <2>2, <2>3, <2>4 DEF InBlock
  <2> QED
    BY <2>1, <2>5 DEF Means, Condition, COMMENT
<1>3. ASSUME echoed = <<>>, CharInComment PROVE Means'
  <2>1. PICK k \in Comments : /\ start = COMMENT(k) /\ start' = COMMENT(k)
                              /\ rest[1] # BlockComment[k][2]
    BY <1>3 DEF CharInComment, InComment, Skip
  <2>2. PICK i \in 1..Len(input) : InBlock(k, i)
    BY <1>0, <1>3, <2>1, HereMeans DEF Means
  <2>3. i \in 1..(at + 1 - 1) /\ i \in 1..(at - 1)
    BY <1>1, <2>2 DEF InBlock
  <2>4. \A p \in (i + 1)..(at + 1 - 1) : p \in (i + 1)..(at - 1) \/ p = at
    BY <1>1
  <2>5. \A p \in (i + 1)..(at + 1 - 1) : input[p] # BlockComment[k][2]
    BY <1>1, <2>1, <2>2, <2>4 DEF InBlock
  <2>6. InBlock(k, i)'
    BY <1>1, <2>2, <2>3, <2>5 DEF InBlock
  <2> QED
    BY <1>1, <2>1, <2>6 DEF Means, Condition, COMMENT
<1>4. ASSUME echoed = <<>>, EndComment PROVE Means'
  <2>1. PICK k \in Comments : start = COMMENT(k) /\ rest[1] = BlockComment[k][2]
    BY <1>4 DEF EndComment, InComment, Sees
  <2>2. PICK i \in 1..Len(input) : InBlock(k, i)
    BY <1>0, <1>4, <2>1, HereMeans DEF Means
  <2>3. start' = Condition("INITIAL")
    BY <1>4 DEF EndComment, BEGIN
  <2>4. /\ Goes(input, tokens, i) /\ input[i] = BlockComment[k][1] /\ i < at /\ at \in i..Len(input)
        /\ \A p \in (i + 1)..(at - 1) : input[p] # BlockComment[k][2]
    BY <1>1, <2>2 DEF InBlock
  <2>5. Continues(input, i, at + 1, <<>>)
    BY <1>1, <2>1, <2>4, Place, BlockContinues
  <2>6. Goes(input, tokens, at + 1)
    BY <1>1, <2>4, <2>5, Place, GoesSilently DEF IInv, Typed
  <2> QED
    BY <1>1, <2>3, <2>6 DEF Means, Condition, COMMENT
<1> QED
  BY <1>0, <1>1, <1>2, <1>3, <1>4, SilentFollows

(* The beginning and the end of a character literal.                        *)
LEMMA CharsFollow ==
    ASSUME IInv, Follows, BeginChar \/ BackslashInChar \/ EndChar
    PROVE  Follows'
<1>0. turn = "lexer" /\ rest # <<>> /\ Match(1) /\ echoed' = echoed /\ Silent
  BY DEF BeginChar, BackslashInChar, EndChar, In, Sees
<1>1. 1 \in 0..Len(rest) /\ at \in 1..Len(input) /\ input' = input /\ at' = at + 1 /\ tokens' = tokens
      /\ rest[1] = input[at]
  BY <1>0, FirstOfRest, Place, Moves DEF IInv, Silent
<1>2. at + 1 - 1 = at /\ at + 1 - 2 = at - 1
  BY <1>1
<1>3. ASSUME echoed = <<>>, BeginChar PROVE Means'
  <2>1. start' = Condition("CHAR") /\ input[at] = Apostrophe /\ Goes(input, tokens, at)
    BY <1>0, <1>1, <1>3, HereMeans DEF Means, BeginChar, In, Sees, BEGIN
  <2> QED
    BY <1>1, <1>2, <2>1 DEF Means, Condition, COMMENT
<1>4. ASSUME echoed = <<>>, BackslashInChar PROVE Means'
  <2>1. start' = Condition("CHARESC") /\ input[at] = Backslash /\ Goes(input, tokens, at - 1)
        /\ input[at - 1] = Apostrophe
    BY <1>0, <1>1, <1>4, HereMeans DEF Means, BackslashInChar, In, Sees, BEGIN
  <2> QED
    BY <1>1, <1>2, <2>1 DEF Means, Condition, COMMENT
<1>5. ASSUME echoed = <<>>, EndChar PROVE Means'
  <2>1. start' = Condition("INITIAL") /\ Goes(input, tokens, at + 1)
    BY <1>0, <1>1, <1>5, HereMeans DEF Means, EndChar, In, Sees, BEGIN
  <2> QED
    BY <1>1, <2>1 DEF Means, Condition, COMMENT
<1> QED
  BY <1>0, <1>1, <1>3, <1>4, <1>5, SilentFollows

(* The token is returned before the closing apostrophe is read.             *)
LEMMA CharTokensFollow ==
    ASSUME IInv, Follows, PlainChar \/ EscapedCharacter
    PROVE  Follows'
<1>0. turn = "lexer" /\ rest # <<>> /\ Match(1) /\ echoed' = echoed /\ start' = Condition("CHAREND")
  BY DEF PlainChar, EscapedCharacter, ReturnChar, In, More, BEGIN
<1>1. /\ 1 \in 0..Len(rest) /\ at \in 1..Len(input) /\ input' = input /\ at' = at + 1
      /\ rest[1] = input[at] /\ input[at] \in STRING
      /\ (rest' # <<>> <=> at + 1 <= Len(input)) /\ (rest' # <<>> => rest'[1] = input[at + 1])
  BY <1>0, FirstOfRest, Place, Moves DEF IInv
<1>2. PICK i \in {at - 1, at - 2}, c \in {input[at], Unescaped(input[at])} :
        /\ Return("CHAR", <<c>>)
        /\ echoed = <<>> =>
              /\ Goes(input, tokens, i) /\ input[i] = Apostrophe
              /\ \A j \in i..Len(input) :
                    Plain(input, i, j) \/ Slashed(input, i, j) <=> j = at + 1 /\ input[at + 1] = Apostrophe
              /\ Plain(input, i, at + 1) => c = input[i + 1]
              /\ Slashed(input, i, at + 1) => c = Unescaped(input[i + 2])
  <2>1. CASE PlainChar
    <3>1. Return("CHAR", <<input[at]>>) /\ start = Condition("CHAR")
          /\ input[at] \notin {Backslash, Apostrophe}
      BY <1>1, <2>1 DEF PlainChar, ReturnChar, In
    <3>2. (at - 1) + 1 = at /\ (at - 1) + 2 = at + 1
      BY <1>1
    <3>3. echoed = <<>> => Goes(input, tokens, at - 1) /\ input[at - 1] = Apostrophe
      BY <1>0, <3>1, HereMeans DEF Means
    <3>4. \A j : /\ Plain(input, at - 1, j) <=> j = at + 1 /\ input[at + 1] = Apostrophe
                 /\ ~Slashed(input, at - 1, j)
      BY <3>1, <3>2 DEF Plain, Slashed
    <3> QED
      BY <3>1, <3>2, <3>3, <3>4
  <2>2. CASE EscapedCharacter
    <3>1. Return("CHAR", <<Unescaped(input[at])>>) /\ start = Condition("CHARESC")
          /\ input[at] # Newline
      BY <1>1, <2>2 DEF EscapedCharacter, ReturnChar, In
    <3>2. (at - 2) + 1 = at - 1 /\ (at - 2) + 2 = at /\ (at - 2) + 3 = at + 1
      BY <1>1
    <3>3. echoed = <<>> => /\ Goes(input, tokens, at - 2) /\ input[at - 2] = Apostrophe
                           /\ input[at - 1] = Backslash
      BY <1>0, <3>1, HereMeans DEF Means
    <3>4. ASSUME input[at - 1] = Backslash, NEW j
          PROVE  /\ Slashed(input, at - 2, j) <=> j = at + 1 /\ input[at + 1] = Apostrophe
                 /\ ~Plain(input, at - 2, j)
      BY <3>1, <3>2, <3>4 DEF Plain, Slashed
    <3> QED
      BY <3>1, <3>2, <3>3, <3>4
  <2> QED
    BY <2>1, <2>2
<1>3. c \in STRING /\ <<c>> \in Seq(STRING) /\ CharToken(c) \in Token /\ "CHAR" \in Types
  <2>1. c \in STRING
    BY <1>1, EscapesAssumption DEF Unescaped
  <2>2. <<c>> \in Seq(STRING)
    BY <2>1, Singleton
  <2> QED
    BY <2>1, <2>2 DEF CharToken, Token, Types
<1>4. tokens' = Append(tokens, CharToken(c))
  BY <1>2 DEF Return, CharToken
<1>5. ASSUME echoed = <<>> PROVE Means'
  <2>1. i \in 1..Len(input) /\ at + 1 \in Int /\ i < at
    BY <1>1, <1>2, <1>5 DEF Goes
  <2>2. CASE rest' # <<>> /\ rest'[1] = Apostrophe
    <3>1. at + 1 \in i..Len(input) /\ input[at + 1] = Apostrophe
      BY <1>1, <2>1, <2>2
    <3>2. Plain(input, i, at + 1) \/ Slashed(input, i, at + 1)
      BY <1>2, <1>5, <3>1
    <3>3. Continues(input, i, at + 1 + 1, <<CharToken(c)>>)
      <4>1. CASE Plain(input, i, at + 1)
        BY <1>2, <1>5, <2>1, <3>1, <4>1, Place, PlainContinues
      <4>2. CASE Slashed(input, i, at + 1)
        BY <1>2, <1>5, <2>1, <3>1, <4>2, Place, SlashedContinues
      <4> QED
        BY <3>2, <4>1, <4>2
    <3>4. at + 1 + 1 \in 1..(Len(input) + 1)
      BY <1>1, <3>1, Place
    <3>5. Goes(input, Append(tokens, CharToken(c)), at + 1 + 1)
      BY <1>2, <1>3, <1>5, <3>3, <3>4, Place, GoesWith DEF IInv, Typed
    <3> QED
      BY <1>0, <1>1, <1>4, <2>2, <3>5 DEF Means, Condition, COMMENT, Sees
  <2>3. CASE ~(rest' # <<>> /\ rest'[1] = Apostrophe)
    <3>1. \A j \in i..Len(input) : ~Plain(input, i, j) /\ ~Slashed(input, i, j)
      BY <1>1, <1>2, <1>5, <2>1, <2>3
    <3>2. Fails(input, i)
      BY <1>2, <1>5, <2>1, <3>1, Place, CharFails
    <3>3. Fails(input, 1)
      BY <1>2, <1>5, <3>2, GoesFails
    <3> QED
      BY <1>0, <1>1, <2>3, <3>3 DEF Means, Condition, COMMENT, Sees
  <2> QED
    BY <2>2, <2>3
<1> QED
  BY <1>0, <1>1, <1>2, <1>3, <1>5, ReturnFollows

(* Inside a string literal a character is escaped exactly after a backslash  *)
(* that begins an escape sequence.                                          *)
LEMMA AtEscaped ==
    ASSUME IInv, Follows, NEW i \in 1..Len(input), InString(i), at <= Len(input)
    PROVE  Escaped(input, i)[at] <=> AfterBackslash(i)
<1>1. at \in i..Len(input) /\ (at > i + 1 <=> i < at - 1)
  BY Place DEF InString
<1> DEFINE E == Escaped(input, i)
<1>2. E[at] = (at > i + 1 /\ input[at - 1] = Backslash /\ ~E[at - 1])
  BY <1>1, EscapedStep, Place
<1> HIDE DEF E
<1>3. AfterBackslash(i) <=> i < at - 1 /\ input[at - 1] = Backslash /\ ~E[at - 1]
  BY DEF AfterBackslash, E
<1> QED
  BY <1>1, <1>2, <1>3 DEF E

(* The beginning and the inside of a string literal.                        *)
LEMMA InsideFollows ==
    ASSUME IInv, Follows, BeginString \/ BackslashInString \/ CharInString \/ EscapedChar
    PROVE  Follows'
<1>0. /\ turn = "lexer" /\ rest # <<>> /\ Match(1) /\ echoed' = echoed /\ Silent
      /\ pending = <<>>
  BY DEF BeginString, BackslashInString, CharInString, EscapedChar, AppendChar, In, Sees, More
<1>1. /\ 1 \in 0..Len(rest) /\ at \in 1..Len(input) /\ input' = input /\ at' = at + 1
      /\ tokens' = tokens /\ rest[1] = input[at] /\ input[at] \in STRING
      /\ input \in Seq(STRING) /\ at + 1 - 1 = at
  BY <1>0, FirstOfRest, Place, Moves DEF IInv, Silent
<1>2. buffer.chars \in Seq(STRING) /\ buffer.chars \o <<>> = buffer.chars
  <2>1. buffer.chars \in Seq(STRING)
    BY DEF IInv, Typed, Buffer
  <2> QED
    BY <2>1, ConcatEmptySeq
<1>3. ASSUME echoed = <<>>, BeginString PROVE Means'
  <2>1. /\ start' = Condition("STRING") /\ input[at] = Quote /\ Goes(input, tokens, at)
        /\ buffer' = newBuffer /\ pending' = <<>>
    BY <1>0, <1>1, <1>3, HereMeans DEF Means, BeginString, In, Sees, BEGIN
  <2>2. Values(input, at)[at] = <<>>
    BY <1>1, ValuesStep
  <2>3. buffer'.chars \o pending' = <<>>
    <3>1. <<>> \in Seq(STRING)
      OBVIOUS
    <3> QED
      BY <2>1, <3>1, ConcatEmptySeq DEF newBuffer
  <2>4. \A p \in (at + 1)..at : FALSE
    BY <1>1
  <2>5. at \in 1..at /\ ~(at < at)
    BY <1>1
  <2>6. \E i \in 1..Len(input') : InString(i)' /\ ~AfterBackslash(i)'
    BY <1>1, <2>1, <2>2, <2>3, <2>4, <2>5 DEF InString, AfterBackslash
  <2> QED
    BY <2>1, <2>6 DEF Means, Condition, COMMENT
<1>4. ASSUME echoed = <<>>, ~BeginString PROVE Means'
  <2>1. PICK i \in 1..Len(input) :
          /\ InString(i)
          /\ \/ start = Condition("STRING") /\ ~AfterBackslash(i)
             \/ start = Condition("ESCAPED") /\ AfterBackslash(i)
    <3>1. Means
      BY <1>0, <1>4, HereMeans
    <3>2. start = Condition("STRING") \/ start = Condition("ESCAPED")
      BY <1>4 DEF BackslashInString, CharInString, EscapedChar, In
    <3> QED
      BY <3>1, <3>2 DEF Means
  <2>2. /\ i < at /\ i \in 1..at /\ Goes(input, tokens, i) /\ input[i] = Quote
        /\ Values(input, i)[at - 1] = buffer.chars
        /\ \A p \in (i + 1)..(at - 1) :
              input[p] # Newline /\ (input[p] = Quote => Escaped(input, i)[p])
    BY <1>0, <1>1, <1>2, <2>1 DEF InString
  <2>3. Escaped(input, i)[at] <=> start = Condition("ESCAPED")
    <3>1. Escaped(input, i)[at] <=> AfterBackslash(i)
      BY <1>1, <2>1, AtEscaped
    <3> QED
      BY <2>1, <3>1 DEF Condition
  <2>4. Values(input, i)[at] =
          IF input[at] = Backslash /\ ~Escaped(input, i)[at] THEN Values(input, i)[at - 1]
          ELSE Append(Values(input, i)[at - 1],
                      IF Escaped(input, i)[at] THEN Unescaped(input[at]) ELSE input[at])
    <3>1. at \in (i + 1)..Len(input)
      BY <1>1, <2>2
    <3> QED
      BY <1>1, <3>1, ValuesStep
  <2>5. \A p \in (i + 1)..at : p \in (i + 1)..(at - 1) \/ p = at
    BY <1>1
  <2>6. \A c \in STRING : buffer.chars \o <<c>> = Append(buffer.chars, c)
    BY <1>2, AppendIsConcat
  <2>6a. /\ at' - 1 = at /\ input' = input /\ i \in 1..(at' - 1)
         /\ Goes(input', tokens', i) /\ input'[i] = Quote
    BY <1>1, <2>2
  <2>7. CASE BackslashInString
    <3>1. /\ start = Condition("STRING") /\ start' = Condition("ESCAPED") /\ input[at] = Backslash
          /\ buffer' = buffer /\ pending' = <<>>
      BY <1>0, <1>1, <2>7 DEF BackslashInString, In, Sees, BEGIN, NoBuffer
    <3>2. ~Escaped(input, i)[at]
      BY <2>3, <3>1 DEF Condition
    <3>3. Values(input, i)[at] = buffer'.chars \o pending'
      BY <1>2, <2>2, <2>4, <3>1, <3>2
    <3>4. \A p \in (i + 1)..at : input[p] # Newline /\ (input[p] = Quote => Escaped(input, i)[p])
      BY <2>2, <2>5, <3>1 DEF Backslash, Newline, Quote
    <3>5. InString(i)'
      <4>1. Values(input', i)[at' - 1] = buffer'.chars \o pending'
        BY <2>6a, <3>3
      <4>2. \A p \in (i + 1)..(at' - 1) :
              input'[p] # Newline /\ (input'[p] = Quote => Escaped(input', i)[p])
        BY <2>6a, <3>4
      <4> QED
        BY <2>6a, <4>1, <4>2 DEF InString
    <3>6. AfterBackslash(i)'
      BY <1>1, <2>2, <3>1, <3>2 DEF AfterBackslash
    <3> QED
      BY <1>1, <3>1, <3>5, <3>6 DEF Means, Condition, COMMENT
  <2>8. CASE CharInString
    <3>1. /\ start = Condition("STRING") /\ start' = Condition("STRING")
          /\ input[at] \notin {Backslash, Quote, Newline}
          /\ buffer' = buffer /\ pending' = <<input[at]>>
      BY <1>1, <2>8 DEF CharInString, AppendChar, In, BEGIN
    <3>2. ~Escaped(input, i)[at]
      BY <2>3, <3>1 DEF Condition
    <3>3. Values(input, i)[at] = buffer'.chars \o pending'
      <4>1. Values(input, i)[at] = Append(buffer.chars, input[at])
        BY <2>2, <2>4, <3>1, <3>2
      <4> QED
        BY <1>1, <2>6, <3>1, <4>1
    <3>4. \A p \in (i + 1)..at : input[p] # Newline /\ (input[p] = Quote => Escaped(input, i)[p])
      BY <2>2, <2>5, <3>1
    <3>5. InString(i)'
      <4>1. Values(input', i)[at' - 1] = buffer'.chars \o pending'
        BY <2>6a, <3>3
      <4>2. \A p \in (i + 1)..(at' - 1) :
              input'[p] # Newline /\ (input'[p] = Quote => Escaped(input', i)[p])
        BY <2>6a, <3>4
      <4> QED
        BY <2>6a, <4>1, <4>2 DEF InString
    <3>6. ~AfterBackslash(i)'
      BY <1>1, <3>1 DEF AfterBackslash
    <3> QED
      BY <1>1, <3>1, <3>5, <3>6 DEF Means, Condition, COMMENT
  <2>9. CASE EscapedChar
    <3>1. /\ start = Condition("ESCAPED") /\ start' = Condition("STRING") /\ input[at] # Newline
          /\ buffer' = buffer /\ pending' = <<Unescaped(input[at])>>
      BY <1>1, <2>9 DEF EscapedChar, AppendChar, In, BEGIN
    <3>2. Escaped(input, i)[at]
      BY <2>3, <3>1
    <3>3. Values(input, i)[at] = buffer'.chars \o pending'
      <4>1. Values(input, i)[at] = Append(buffer.chars, Unescaped(input[at]))
        BY <2>2, <2>4, <3>2
      <4>2. Unescaped(input[at]) \in STRING
        BY <1>1, EscapesAssumption DEF Unescaped
      <4> QED
        BY <2>6, <3>1, <4>1, <4>2
    <3>4. \A p \in (i + 1)..at : input[p] # Newline /\ (input[p] = Quote => Escaped(input, i)[p])
      BY <2>2, <2>5, <3>1, <3>2
    <3>5. InString(i)'
      <4>1. Values(input', i)[at' - 1] = buffer'.chars \o pending'
        BY <2>6a, <3>3
      <4>2. \A p \in (i + 1)..(at' - 1) :
              input'[p] # Newline /\ (input'[p] = Quote => Escaped(input', i)[p])
        BY <2>6a, <3>4
      <4> QED
        BY <2>6a, <4>1, <4>2 DEF InString
    <3>6. ~AfterBackslash(i)'
      BY <1>1, <3>2 DEF AfterBackslash
    <3> QED
      BY <1>1, <3>1, <3>5, <3>6 DEF Means, Condition, COMMENT
  <2> QED
    BY <1>4, <2>7, <2>8, <2>9
<1> QED
  BY <1>0, <1>1, <1>3, <1>4, SilentFollows

(* Its end.                                                                 *)
LEMMA EndStringFollows ==
    ASSUME IInv, Follows, EndString
    PROVE  Follows'
<1>0. /\ turn = "lexer" /\ rest # <<>> /\ Match(1) /\ echoed' = echoed /\ pending = <<>>
      /\ start = Condition("STRING") /\ start' = Condition("INITIAL") /\ rest[1] = Quote
      /\ Return("STRING", buffer.chars)
  BY DEF EndString, In, Sees, BEGIN
<1>1. /\ 1 \in 0..Len(rest) /\ at \in 1..Len(input) /\ input' = input /\ at' = at + 1
      /\ input[at] = Quote
  BY <1>0, FirstOfRest, Place, Moves DEF IInv
<1>2. buffer.chars \in Seq(STRING) /\ buffer.chars \o <<>> = buffer.chars
  <2>1. buffer.chars \in Seq(STRING)
    BY DEF IInv, Typed, Buffer
  <2> QED
    BY <2>1, ConcatEmptySeq
<1> DEFINE t == [type |-> "STRING", value |-> buffer.chars]
<1>3. t \in Token /\ tokens' = Append(tokens, t) /\ "STRING" \in Types
  BY <1>0, <1>2 DEF Token, Types, Return
<1>4. ASSUME echoed = <<>> PROVE Means'
  <2>1. PICK i \in 1..Len(input) : InString(i) /\ ~AfterBackslash(i)
    BY <1>0, <1>4, HereMeans DEF Means
  <2>2. /\ i < at /\ at \in i..Len(input) /\ Goes(input, tokens, i) /\ input[i] = Quote
        /\ Values(input, i)[at - 1] = buffer.chars
        /\ \A p \in (i + 1)..(at - 1) :
              input[p] # Newline /\ (input[p] = Quote => Escaped(input, i)[p])
    BY <1>0, <1>1, <1>2, <2>1 DEF InString
  <2>3. ~Escaped(input, i)[at]
    BY <1>1, <2>1, AtEscaped
  <2>4. Continues(input, i, at + 1, <<t>>)
    BY <1>1, <2>2, <2>3, Place, StringContinues
  <2>5. Goes(input, Append(tokens, t), at + 1)
    <3>1. tokens \in Seq(Token) /\ input \in Seq(STRING) /\ at + 1 \in 1..(Len(input) + 1)
      BY <1>1, Place DEF IInv, Typed
    <3> HIDE DEF t
    <3> QED
      BY <1>3, <2>2, <2>4, <3>1, GoesWith
  <2> QED
    BY <1>0, <1>1, <1>3, <2>5 DEF Means, Condition, COMMENT
<1> QED
  BY <1>0, <1>1, <1>2, <1>3, <1>4, ReturnFollows

(* Growing the buffer, and writing what is pending.                         *)
LEMMA BufferFollows ==
    ASSUME IInv, Follows, Double \/ Put
    PROVE  Follows'
<1>1. /\ turn = "lexer" /\ pending # <<>>
      /\ UNCHANGED <<input, rest, start, tokens, echoed, turn>>
  BY DEF Double, Put
<1>2. start = Condition("STRING")
  BY <1>1 DEF IInv, Owned
<1>3. buffer'.chars \o pending' = buffer.chars \o pending
  <2>1. buffer \in Buffer /\ pending \in Seq(STRING) /\ buffer.chars \in Seq(STRING)
    BY DEF IInv, Typed, Buffer
  <2>2. CASE Double
    <3>1. buffer'.chars = buffer.chars /\ pending' = pending
      BY <2>1, <2>2 DEF Double, Buffer
    <3> QED
      BY <3>1
  <2>3. CASE Put
    <3> DEFINE chars == buffer.chars \o pending
    <3>1. buffer' = [buffer EXCEPT !.current = @ + 1, !.chars = chars] /\ pending' = <<>>
      BY <2>3 DEF Put
    <3>2. chars \in Seq(STRING)
      BY <2>1, ConcatProperties
    <3> HIDE DEF chars
    <3>3. buffer'.chars = chars
      BY <2>1, <3>1 DEF Buffer
    <3>4. chars \o <<>> = chars
      BY <3>2, ConcatEmptySeq
    <3> QED
      BY <3>1, <3>3, <3>4 DEF chars
  <2> QED
    BY <2>2, <2>3
<1>4. at' = at
  BY <1>1 DEF at
<1>5. ASSUME echoed = <<>> PROVE Means'
  <2>1. PICK i \in 1..Len(input) : InString(i) /\ ~AfterBackslash(i)
    BY <1>1, <1>2, <1>5, HereMeans DEF Means
  <2>2. InString(i)' /\ ~AfterBackslash(i)'
    BY <1>1, <1>3, <1>4, <2>1 DEF InString, AfterBackslash
  <2> QED
    BY <1>1, <1>2, <2>2 DEF Means, Condition, COMMENT
<1> QED
  BY <1>1, <1>4, <1>5 DEF Follows

(* What no rule matches cannot be read.                                     *)
LEMMA EchoFollows ==
    ASSUME IInv, Follows, Echo
    PROVE  Follows'
<1>0. /\ turn = "lexer" /\ pending = <<>> /\ rest # <<>> /\ Match(1) /\ Silent
      /\ echoed' = Append(echoed, rest[1])
      /\ \/ start \in {Condition("STRING"), Condition("ESCAPED"), Condition("CHARESC")}
               /\ rest[1] = Newline
         \/ start = Condition("CHAR") /\ rest[1] = Apostrophe
         \/ start = Condition("CHAREND") /\ rest[1] # Apostrophe
  BY DEF Echo, More
<1>1. /\ 1 \in 0..Len(rest) /\ at \in 1..Len(input) /\ input' = input /\ turn' = "lexer"
      /\ rest[1] = input[at] /\ rest[1] \in STRING /\ input \in Seq(STRING)
      /\ \A q \in 1..Len(rest') : rest'[q] = input'[at' + q - 1]
  BY <1>0, FirstOfRest, Place, Moves DEF IInv, Silent
<1>2. echoed' \in Seq(STRING) /\ echoed' # <<>>
  BY <1>0, <1>1, AppendProperties DEF Follows
<1>3. ASSUME echoed = <<>> PROVE Fails(input, 1)
  <2>0. Means
    BY <1>0, <1>3, HereMeans
  <2>1. CASE start \in {Condition("STRING"), Condition("ESCAPED")}
    <3>1. rest[1] = Newline
      BY <1>0, <2>1 DEF Condition
    <3>2. PICK i \in 1..Len(input) : InString(i)
      BY <2>0, <2>1 DEF Means
    <3>3. /\ at \in (i + 1)..(Len(input) + 1) /\ Goes(input, tokens, i) /\ input[i] = Quote
          /\ \A p \in (i + 1)..(at - 1) : input[p] = Quote => Escaped(input, i)[p]
      BY <1>1, <3>2 DEF InString
    <3>4. Fails(input, i)
      BY <1>1, <3>1, <3>3, StringFails
    <3> QED
      BY <3>3, <3>4, GoesFails
  <2>2. CASE start = Condition("CHARESC")
    <3>1. rest[1] = Newline
      BY <1>0, <2>2 DEF Condition
    <3>2. Goes(input, tokens, at - 2) /\ input[at - 2] = Apostrophe /\ input[at - 1] = Backslash
      BY <2>0, <2>2 DEF Means
    <3>3. at - 2 \in 1..Len(input) /\ (at - 2) + 1 = at - 1 /\ (at - 2) + 2 = at
      BY <1>1, <3>2 DEF Goes
    <3>4. \A j : ~Plain(input, at - 2, j) /\ ~Slashed(input, at - 2, j)
      BY <1>1, <3>1, <3>2, <3>3 DEF Plain, Slashed
    <3>5. Fails(input, at - 2)
      BY <1>1, <3>2, <3>3, <3>4, CharFails
    <3> QED
      BY <3>2, <3>5, GoesFails
  <2>3. CASE start = Condition("CHAR")
    <3>1. rest[1] = Apostrophe
      BY <1>0, <2>3 DEF Condition
    <3>2. Goes(input, tokens, at - 1) /\ input[at - 1] = Apostrophe
      BY <2>0, <2>3 DEF Means
    <3>3. at - 1 \in 1..Len(input) /\ (at - 1) + 1 = at
      BY <1>1, <3>2 DEF Goes
    <3>4. \A j : ~Plain(input, at - 1, j) /\ ~Slashed(input, at - 1, j)
      BY <1>1, <3>1, <3>2, <3>3 DEF Plain, Slashed, Apostrophe, Backslash
    <3>5. Fails(input, at - 1)
      BY <1>1, <3>2, <3>3, <3>4, CharFails
    <3> QED
      BY <3>2, <3>5, GoesFails
  <2>4. CASE start = Condition("CHAREND")
    <3>1. rest[1] # Apostrophe
      BY <1>0, <2>4 DEF Condition
    <3> QED
      BY <2>0, <2>4, <3>1 DEF Means, Sees
  <2> QED
    BY <1>0, <2>1, <2>2, <2>3, <2>4
<1>4. Fails(input, 1)
  BY <1>3 DEF Follows
<1> QED
  BY <1>1, <1>2, <1>4 DEF Follows

(* A literal or a comment that the text does not end cannot be read.        *)
LEMMA EndFollows ==
    ASSUME IInv, Follows, EofInString \/ Eof
    PROVE  Follows'
<1>0. turn = "lexer" /\ pending = <<>> /\ rest = <<>> /\ rest' = rest /\ input' = input
      /\ start' = start /\ echoed' = echoed
  BY DEF EofInString, Eof, In
<1>1. 0 \in 0..Len(rest) /\ Match(0) /\ at = Len(input) + 1 /\ input \in Seq(STRING)
      /\ Len(input) \in Nat
  <2>1. Len(rest) = 0 /\ at = Len(input) + 1 /\ input \in Seq(STRING) /\ Len(input) \in Nat
    BY <1>0, Place, EmptySeq
  <2>2. SubSeq(rest, 0 + 1, Len(rest)) = <<>>
    <3>1. SubSeq(rest, 1, 0) = <<>>
      BY <1>0
    <3> QED
      BY <2>1, <3>1
  <2> QED
    BY <1>0, <2>1, <2>2 DEF Match
<1>2. "EOF" \in Types /\ "ERROR" \in Types /\ <<>> \in Seq(STRING)
  BY DEF Types
<1>3. CASE EofInString
  <2>1. Return("ERROR", <<>>) /\ start \in {Condition("STRING"), Condition("ESCAPED")}
    BY <1>3 DEF EofInString, In
  <2>2. ASSUME echoed = <<>> PROVE Fails(input, 1)
    <3>1. PICK i \in 1..Len(input) : InString(i)
      BY <1>0, <2>1, <2>2, HereMeans DEF Means
    <3>2. /\ at \in (i + 1)..(Len(input) + 1) /\ ~(at <= Len(input))
          /\ Goes(input, tokens, i) /\ input[i] = Quote
          /\ \A p \in (i + 1)..(at - 1) : input[p] = Quote => Escaped(input, i)[p]
      BY <1>1, <3>1 DEF InString
    <3>3. Fails(input, i)
      BY <1>1, <3>2, StringFails
    <3> QED
      BY <3>2, <3>3, GoesFails
  <2> QED
    BY <1>0, <1>1, <1>2, <2>1, <2>2, ReturnFollows
<1>4. CASE Eof
  <2>1. Return("EOF", <<>>) /\ start \notin {Condition("STRING"), Condition("ESCAPED")}
    BY <1>4 DEF Eof
  <2>2. tokens' = Append(tokens, EndOfText) /\ EndOfText \in Token
    BY <2>1, <1>2 DEF Return, EndOfText, Token
  <2>3. ASSUME echoed = <<>> PROVE Complete'
    <3>0. Means /\ start \in Conditions
      BY <1>0, <2>3, HereMeans DEF IInv, Typed
    <3>1. CASE start = Condition("INITIAL")
      <4>1. Goes(input, tokens, Len(input) + 1)
        BY <1>1, <3>0, <3>1 DEF Means
      <4>2. read(input)[Len(input) + 1] = [ok |-> TRUE, tokens |-> <<EndOfText>>]
        BY <1>1, ReadStep
      <4>3. read(input)[1].ok = TRUE /\ read(input)[1].tokens = tokens \o <<EndOfText>>
        BY <4>1, <4>2 DEF Goes, Continues
      <4>4. tokens \o <<EndOfText>> = Append(tokens, EndOfText)
        BY <2>2, AppendIsConcat DEF IInv, Typed
      <4> QED
        BY <1>0, <2>2, <3>1, <4>3, <4>4 DEF Complete
    <3>2. ASSUME start # Condition("INITIAL") PROVE Fails(input, 1)
      <4>1. CASE \E k \in Comments : start = COMMENT(k)
        <5>1. PICK k \in Comments : start = COMMENT(k)
          BY <4>1
        <5>2. PICK i \in 1..Len(input) : InBlock(k, i)
          BY <3>0, <5>1 DEF Means
        <5>3. /\ Goes(input, tokens, i) /\ input[i] = BlockComment[k][1]
              /\ \A p \in (i + 1)..Len(input) : input[p] # BlockComment[k][2]
          <6>1. at - 1 = Len(input)
            BY <1>1
          <6> QED
            BY <5>2, <6>1 DEF InBlock
        <5>4. Fails(input, i)
          BY <1>1, <5>3, BlockFails
        <5> QED
          BY <5>3, <5>4, GoesFails
      <4>2. CASE start = Condition("CHARESC")
        <5>1. Goes(input, tokens, at - 2) /\ input[at - 2] = Apostrophe /\ input[at - 1] = Backslash
          BY <3>0, <4>2 DEF Means
        <5>2. at - 2 \in 1..Len(input) /\ (at - 2) + 1 = at - 1
          BY <1>1, <5>1 DEF Goes
        <5>3. \A j \in (at - 2)..Len(input) : ~Plain(input, at - 2, j) /\ ~Slashed(input, at - 2, j)
          BY <1>1, <5>1, <5>2 DEF Plain, Slashed
        <5>4. Fails(input, at - 2)
          BY <1>1, <5>1, <5>2, <5>3, CharFails
        <5> QED
          BY <5>1, <5>4, GoesFails
      <4>3. CASE start = Condition("CHAR")
        <5>1. Goes(input, tokens, at - 1) /\ input[at - 1] = Apostrophe
          BY <3>0, <4>3 DEF Means
        <5>2. at - 1 \in 1..Len(input)
          BY <1>1, <5>1 DEF Goes
        <5>3. \A j \in (at - 1)..Len(input) : ~Plain(input, at - 1, j) /\ ~Slashed(input, at - 1, j)
          BY <1>1, <5>2 DEF Plain, Slashed
        <5>4. Fails(input, at - 1)
          BY <1>1, <5>1, <5>2, <5>3, CharFails
        <5> QED
          BY <5>1, <5>4, GoesFails
      <4>4. CASE start = Condition("CHAREND")
        BY <1>0, <3>0, <4>4 DEF Means, Sees
      <4> QED
        BY <2>1, <3>0, <3>2, <4>1, <4>2, <4>3, <4>4 DEF Conditions
    <3> QED
      BY <1>0, <3>1, <3>2 DEF Complete
  <2> QED
    BY <1>0, <1>1, <1>2, <2>1, <2>3, ReturnFollows
<1> QED
  BY <1>3, <1>4

(* The parser reads the tokens, and does not change them.                   *)
LEMMA ParserFollows ==
    ASSUME IInv, Follows, Parser
    PROVE  Follows'
<1>1. /\ turn = "parser" /\ UNCHANGED <<input, rest, start, buffer, pending, tokens, echoed>>
      /\ turn' \in {"lexer", "accepted", "rejected"}
      /\ Last = "ERROR" => turn' = "rejected"
      /\ turn' = "lexer" => Last \notin {"ERROR", "EOF"}
      /\ turn' = "accepted" => Last = "EOF"
  BY DEF Parser
<1>2. Means' <=> Means
  BY <1>1 DEF Means, InString, AfterBackslash, InBlock, at, Sees
<1>3. Complete' <=> Complete
  BY <1>1 DEF Complete
<1>4. at' = at
  BY <1>1 DEF at
<1> QED
  BY <1>1, <1>2, <1>3, <1>4 DEF Follows

(* At first nothing has been read.                                          *)
LEMMA InitFollows == Init => Follows
<1> SUFFICES ASSUME Init PROVE Follows
  OBVIOUS
<1>1. input \in Seq(STRING) /\ Len(input) \in Nat /\ rest = input /\ at = 1
  BY InputAssumption DEF Init, at
<1>2. \A q \in 1..Len(rest) : rest[q] = input[at + q - 1]
  BY <1>1
<1>3. Goes(input, tokens, at)
  <2>1. 1 \in 1..(Len(input) + 1)
    BY <1>1
  <2>2. read(input)[1].tokens \in Seq(Token)
    BY <1>1, <2>1, ReadingTyped
  <2>3. <<>> \o read(input)[1].tokens = read(input)[1].tokens
    BY <2>2, ConcatEmptySeq
  <2>4. tokens = <<>>
    BY DEF Init
  <2> QED
    BY <1>1, <2>1, <2>3, <2>4 DEF Goes, Continues
<1>4. Means
  BY <1>3 DEF Init, Means, Condition, COMMENT
<1>5. echoed = <<>> /\ turn = "lexer" /\ echoed \in Seq(STRING)
  BY DEF Init
<1> QED
  BY <1>2, <1>4, <1>5 DEF Follows

(* Every step follows the reading.                                          *)
LEMMA StepFollows == IInv /\ Follows /\ [Next]_vars => Follows'
<1> SUFFICES ASSUME IInv, Follows, [Next]_vars PROVE Follows'
  OBVIOUS
<1>1. CASE UNCHANGED vars
  <2>1. UNCHANGED <<input, rest, start, buffer, pending, tokens, echoed, turn>>
    BY <1>1 DEF vars
  <2>2. Means' <=> Means
    BY <2>1 DEF Means, InString, AfterBackslash, InBlock, at, Sees
  <2>3. (Complete' <=> Complete) /\ at' = at /\ Last' = Last
    BY <2>1 DEF Complete, at, Last
  <2> QED
    BY <2>1, <2>2, <2>3 DEF Follows
<1>2. CASE Next
  BY <1>2, EchoFollows, BlanksFollow, WordsFollow, CommentsFollow, CharsFollow, CharTokensFollow,
     InsideFollows, EndStringFollows, BufferFollows, EndFollows, ParserFollows DEF Next, Lexer
<1> QED
  BY <1>1, <1>2

(* What follows the reading has its tokens.                                 *)
LEMMA LexesNow ==
    ASSUME IInv, Follows
    PROVE  Lexes
<1> DEFINE r == read(input)[1]
<1>0. Reading(WithinLine, input) = r
  BY DEF Reading, read
<1>1. tokens \in Seq(Token) /\ input \in Seq(STRING)
  BY Place DEF IInv, Typed
<1>2. ASSUME NEW i, Goes(input, tokens, i)
      PROVE  Len(tokens) <= Len(r.tokens) /\ tokens = SubSeq(r.tokens, 1, Len(tokens))
  <2> DEFINE u == read(input)[i].tokens
  <2>1. u \in Seq(Token) /\ r.tokens = tokens \o u
    BY <1>1, <1>2, ReadingTyped DEF Goes, Continues
  <2> HIDE DEF u, r
  <2>2. Len(tokens) \in Nat /\ Len(u) \in Nat /\ Len(tokens \o u) = Len(tokens) + Len(u)
        /\ tokens \o u \in Seq(Token)
        /\ \A q \in 1..Len(tokens) : (tokens \o u)[q] = tokens[q]
    BY <1>1, <2>1, ConcatProperties
  <2> DEFINE v == SubSeq(tokens \o u, 1, Len(tokens))
  <2>3. v \in Seq(Token) /\ Len(v) = Len(tokens) /\ \A q \in 1..Len(tokens) : v[q] = (tokens \o u)[q]
    <3>1. \A q \in 1..Len(tokens) : (tokens \o u)[q] \in Token
      BY <1>1, <2>2, ElementOfSeq
    <3> QED
      BY <2>2, <3>1, SubSeqProperties
  <2> HIDE DEF v
  <2>4. tokens = v
    BY <1>1, <2>2, <2>3, SeqEqual
  <2> QED
    BY <2>1, <2>2, <2>4 DEF v
<1>3. ASSUME turn \in {"parser", "accepted"}, r.ok
      PROVE  Len(tokens) <= Len(r.tokens) /\ tokens = SubSeq(r.tokens, 1, Len(tokens))
  <2>1. ~Fails(input, 1)
    BY <1>3 DEF Fails
  <2>2. echoed = <<>>
    BY <2>1 DEF Follows
  <2>3. CASE Complete
    <3>1. r.tokens = tokens
      BY <2>1, <2>3 DEF Complete
    <3>2. SubSeq(tokens, 1, Len(tokens)) = tokens /\ Len(tokens) \in Nat
      BY <1>1
    <3> HIDE DEF r
    <3> QED
      BY <3>1, <3>2
  <2>4. CASE turn = "parser" /\ Last \notin {"ERROR", "EOF"}
    <3>1. Means
      BY <2>2, <2>4 DEF Follows
    <3>2. ~InLiteral /\ start \in Conditions
      BY <2>4 DEF IInv, Typed, Owned
    <3>3. \E i : Goes(input, tokens, i)
      BY <2>1, <3>1, <3>2 DEF Means, InLiteral, InBlock, Conditions
    <3> QED
      BY <1>2, <3>3
  <2> QED
    BY <1>3, <2>1, <2>2, <2>3, <2>4 DEF Follows
<1>4. ASSUME turn = "accepted"
      PROVE  /\ r.ok <=> echoed = <<>> /\ start = Condition("INITIAL")
             /\ r.ok => tokens = r.tokens
  <2>1. CASE echoed # <<>>
    BY <2>1 DEF Follows, Fails
  <2>2. CASE echoed = <<>>
    BY <1>4, <2>2 DEF Follows, Complete, Fails
  <2> QED
    BY <2>1, <2>2
<1> QED
  BY <1>0, <1>3, <1>4 DEF Lexes

(* For every text, set of letters, terminals and comment delimiters, a      *)
(* parse takes the tokens that the documented regular expressions give, and *)
(* the start conditions leave a trace of what has no reading.               *)
THEOREM LexesAlways == Spec => []Lexes
<1>1. Spec => [](IInv /\ Follows)
  BY InitEstablishes, StepKeeps, InitFollows, StepFollows, PTL DEF Spec
<1>2. IInv /\ Follows => Lexes
  BY LexesNow
<1> QED
  BY <1>1, <1>2, PTL
=============================================================================
