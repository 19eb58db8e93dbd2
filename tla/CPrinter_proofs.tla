--------------------------- MODULE CPrinter_proofs ---------------------------
(***************************************************************************)
(* Proofs about the generated printer, for all grammars, trees, sizes of   *)
(* the buffer and indentations: the text and its NUL are in the buffer, and *)
(* each line of the text is indented by the braces that are open there.    *)
(***************************************************************************)
EXTENDS CPrinterProperties, TLAPS, SequenceTheorems, FiniteSetTheorems, WellFoundedInduction

Memory(n) == [0..(n - 1) -> Chars \cup {NUL}]
TypedBuffer(b) == b.size \in Nat /\ b.cur \in Nat /\ b.mem \in Memory(b.size)

(* The buffer holds a text of b.cur characters, with a NUL behind it.       *)
Holds(b) ==
    /\ TypedBuffer(b)
    /\ b.cur < b.size /\ b.mem[b.cur] = NUL
    /\ \A i \in 0..(b.cur - 1) : b.mem[i] # NUL

CharCall  == {"bufAppendC", "bufEscapeC", "renderC"} \X Chars
TextCall  == {"bufAppendS", "renderS"} \X Seq(Chars)
PlainCall == {"indent", "backup", "removeTrailingWhitespace", "onEmptyLine", "indentBy"} \X {0, 1}
TreeCall  == {"pp"} \X Trees \X Nat
Call      == CharCall \cup TextCall \cup PlainCall \cup TreeCall

Typed ==
    /\ tree \in Printed \cup {<<>>}
    /\ TypedBuffer(buf)
    /\ _n_ \in Int /\ prints \in 0..MaxPrints
    /\ calls \in Seq(Call)

(* Functions of the printer run only between a call of the client and its   *)
(* return; then there is a buffer.                                          *)
IInv ==
    /\ Typed
    /\ prints = 0 => calls = <<>>
    /\ prints > 0 => Holds(buf)

-----------------------------------------------------------------------------
(* Every nonempty set of natural numbers has a least element.               *)
LEMMA LeastNumber ==
    ASSUME NEW S \in SUBSET Nat, S # {}
    PROVE  \E x \in S : \A y \in S : x <= y
<1>1. IsWellFoundedOn(OpToRel(<, Nat), Nat)
  BY NatLessThanWellFounded
<1>2. PICK x \in S : \A y \in S : ~(<<y, x>> \in OpToRel(<, Nat))
  BY <1>1, WFMin
<1>3. \A y \in S : ~(y < x)
  BY <1>2 DEF OpToRel
<1> QED
  BY <1>3

(* A larger copy of a buffer holds the same text.                           *)
LEMMA ResizedHolds ==
    ASSUME NEW b, Holds(b), NEW size \in Nat, b.size <= size
    PROVE  /\ Holds(resized(b, size))
           /\ resized(b, size).size = size /\ resized(b, size).cur = b.cur
<1> DEFINE c == resized(b, size)
<1>1. c.size = size /\ c.cur = b.cur /\ c.mem = copied(b, size)
  BY DEF resized
<1>2. b.size \in Nat /\ b.cur \in Nat /\ b.cur < b.size /\ b.mem \in Memory(b.size)
  BY DEF Holds, TypedBuffer
<1>3. copied(b, size) \in Memory(size)
  BY <1>2 DEF copied, Memory
<1>4. copied(b, size)[b.cur] = NUL
  BY <1>2 DEF copied, Holds
<1>5. ASSUME NEW i \in 0..(b.cur - 1) PROVE copied(b, size)[i] # NUL
  <2>1. \A j \in 0..i : b.mem[j] # NUL
    BY <1>2 DEF Holds
  <2> QED
    BY <1>2, <2>1 DEF copied
<1> HIDE DEF c
<1>6. Holds(c)
  BY <1>1, <1>2, <1>3, <1>4, <1>5 DEF Holds, TypedBuffer
<1> QED
  BY <1>1, <1>6 DEF c

(* What is written at the end of a text, or of a part of it, and fits, is   *)
(* again a text.                                                            *)
LEMMA WrittenHolds ==
    ASSUME NEW b, Holds(b), NEW at \in 0..b.cur, NEW s \in Seq(Chars), at + Len(s) < b.size
    PROVE  Holds(written(b, at, s))
<1> DEFINE c == written(b, at, s)
           m == [i \in DOMAIN b.mem |->
                    IF i = at + Len(s) THEN NUL
                    ELSE IF at <= i /\ i < at + Len(s) THEN s[i - at + 1]
                    ELSE b.mem[i]]
<1>1. c.size = b.size /\ c.cur = at + Len(s) /\ c.mem = m
  BY DEF written
<1>2. b.size \in Nat /\ b.cur \in Nat /\ b.cur < b.size /\ b.mem \in Memory(b.size)
  BY DEF Holds, TypedBuffer
<1>3. Len(s) \in Nat /\ at \in Nat /\ at <= b.cur
  BY <1>2
<1>4. DOMAIN b.mem = 0..(b.size - 1)
  BY <1>2 DEF Memory
<1>5. ASSUME NEW i \in 0..(b.size - 1), at <= i, i < at + Len(s)
      PROVE  s[i - at + 1] \in Chars
  BY <1>2, <1>3, <1>5
<1>6. m \in Memory(b.size)
  BY <1>2, <1>4, <1>5 DEF Memory
<1>7. m[at + Len(s)] = NUL
  BY <1>2, <1>3, <1>4
<1>8. ASSUME NEW i \in 0..(at + Len(s) - 1) PROVE m[i] # NUL
  <2>1. i \in 0..(b.size - 1) /\ i # at + Len(s)
    BY <1>2, <1>3
  <2>2. CASE at <= i
    <3>1. m[i] = s[i - at + 1]
      BY <1>3, <1>4, <2>1, <2>2
    <3>2. s[i - at + 1] \in Chars
      BY <1>3, <1>5, <2>1, <2>2
    <3> QED
      BY <3>1, <3>2, CharsAssumption
  <2>3. CASE i < at
    BY <1>2, <1>3, <1>4, <2>1, <2>3 DEF Holds
  <2> QED
    BY <1>3, <2>1, <2>2, <2>3
<1> HIDE DEF c, m
<1>9. Holds(c)
  BY <1>1, <1>2, <1>3, <1>6, <1>7, <1>8 DEF Holds, TypedBuffer
<1> QED
  BY <1>9 DEF c

(* A text is cut back to its last character that is not in S.               *)
LEMMA StrippedIs ==
    ASSUME NEW b, Holds(b), NEW S
    PROVE  \E k \in 0..b.cur :
              /\ stripped(b, S) = written(b, k, <<>>)
              /\ \A i \in k..(b.cur - 1) : b.mem[i] \in S
              /\ k > 0 => b.mem[k - 1] \notin S
<1> DEFINE Cut(n) == /\ \A i \in n..(b.cur - 1) : b.mem[i] \in S
                     /\ n > 0 => b.mem[n - 1] \notin S
           stops == {n \in 0..b.cur : \A i \in n..(b.cur - 1) : b.mem[i] \in S}
<1>1. b.size \in Nat /\ b.cur \in Nat /\ b.cur < b.size
  BY DEF Holds, TypedBuffer
<1>2. stops \in SUBSET Nat /\ b.cur \in stops
  BY <1>1
<1>3. PICK n \in stops : \A m \in stops : n <= m
  BY <1>2, LeastNumber
<1>4. ASSUME n > 0 PROVE b.mem[n - 1] \notin S
  <2>1. n - 1 \in 0..b.cur /\ n - 1 \notin stops
    BY <1>1, <1>3, <1>4
  <2>2. PICK i \in (n - 1)..(b.cur - 1) : b.mem[i] \notin S
    BY <2>1
  <2>3. i = n - 1
    BY <1>1, <1>3, <2>2
  <2> QED
    BY <2>2, <2>3
<1>5. \E k \in 0..b.cur : Cut(k)
  BY <1>3, <1>4
<1> DEFINE k == CHOOSE k \in 0..b.cur : Cut(k)
<1>6. k \in 0..b.cur /\ Cut(k)
  BY <1>5
<1>7. stripped(b, S) = written(b, k, <<>>)
  BY DEF stripped
<1> HIDE DEF k
<1> QED
  BY <1>6, <1>7

(* A text that is cut back is a text.                                       *)
LEMMA StrippedHolds ==
    ASSUME NEW b, Holds(b), NEW S
    PROVE  Holds(stripped(b, S)) /\ stripped(b, S).cur \in 0..b.cur
<1>1. b.size \in Nat /\ b.cur \in Nat /\ b.cur < b.size
  BY DEF Holds, TypedBuffer
<1>2. PICK k \in 0..b.cur : stripped(b, S) = written(b, k, <<>>)
  BY StrippedIs
<1>3. <<>> \in Seq(Chars) /\ Len(<<>>) = 0
  OBVIOUS
<1>4. k + Len(<<>>) < b.size /\ k + Len(<<>>) = k
  BY <1>1, <1>3
<1>5. Holds(written(b, k, <<>>))
  BY <1>3, <1>4, WrittenHolds
<1>6. written(b, k, <<>>).cur = k
  BY <1>4 DEF written
<1> QED
  BY <1>2, <1>5, <1>6

-----------------------------------------------------------------------------
(* The calls to come are calls of functions with arguments of their types.  *)
LEMMA ArgTyped ==
    ASSUME calls \in Seq(Call), calls # <<>>
    PROVE  /\ Tail(calls) \in Seq(Call)
           /\ calls[1][1] \in {"bufAppendC", "bufEscapeC", "renderC"} => arg \in Chars
           /\ calls[1][1] \in {"bufAppendS", "renderS"} => arg \in Seq(Chars)
           /\ calls[1][1] = "pp" => arg \in Trees /\ precedence \in Nat
<1>1. calls[1] \in Call /\ Tail(calls) \in Seq(Call)
  OBVIOUS
<1> QED
  BY <1>1 DEF Call, CharCall, TextCall, PlainCall, TreeCall, arg, precedence

(* The calls that a function makes replace its own.                         *)
LEMMA DoTyped ==
    ASSUME NEW fs \in Seq(Call), calls \in Seq(Call), calls # <<>>, Do(fs)
    PROVE  calls' \in Seq(Call)
<1>1. Tail(calls) \in Seq(Call)
  OBVIOUS
<1> QED
  BY <1>1 DEF Do

(* Each call that the printer makes is one of those.                        *)
LEMMA CallTyped ==
    /\ \A c \in Chars : /\ append(c) \in Call /\ <<"bufEscapeC", c>> \in Call
                        /\ <<"renderC", c>> \in Call
    /\ \A s \in Seq(Chars) : <<"bufAppendS", s>> \in Call /\ <<"renderS", s>> \in Call
    /\ \A f \in {"indent", "backup", "removeTrailingWhitespace", "onEmptyLine"} : call(f) \in Call
    /\ <<"indentBy", 1>> \in Call
    /\ \A t \in Trees, i \in Nat : <<"pp", t, i>> \in Call
BY DEF Call, CharCall, TextCall, PlainCall, TreeCall, append, call

(* The rendering of a brace makes four or five calls.                       *)
LEMMA CallSequences ==
    ASSUME NEW a \in Call, NEW b \in Call, NEW c \in Call, NEW d \in Call, NEW e \in Call
    PROVE  <<a, b, c, d>> \in Seq(Call) /\ <<a, b, c, d, e>> \in Seq(Call)
OBVIOUS

(* The characters that the printer puts in of its own.                      *)
LEMMA OwnChars ==
    /\ {"{", "}", "(", ")", Quote, Apostrophe, Backslash, Newline, Blank} \subseteq Chars
BY CharsAssumption

(* An escape sequence consists of characters.                               *)
LEMMA EscapeTyped ==
    ASSUME NEW c \in Chars
    PROVE  escape(c) \in Seq(Chars)
<1>1. CASE c \in {Backslash, Quote, Apostrophe}
  <2>1. Backslash \in Chars
    BY OwnChars
  <2>2. <<Backslash, c>> \in Seq(Chars)
    BY <2>1
  <2> QED
    BY <1>1, <2>2 DEF escape
<1>2. CASE c \notin {Backslash, Quote, Apostrophe} /\ c \in DOMAIN Controls
  <2>1. Backslash \in Chars /\ Controls[c] \in Chars
    BY <1>2, OwnChars, ControlsAssumption
  <2>2. <<Backslash, Controls[c]>> \in Seq(Chars)
    BY <2>1
  <2> QED
    BY <1>2, <2>2 DEF escape
<1>3. CASE c \notin {Backslash, Quote, Apostrophe} /\ c \notin DOMAIN Controls
  <2>1. <<c>> \in Seq(Chars)
    OBVIOUS
  <2> QED
    BY <1>3, <2>1 DEF escape
<1> QED
  BY <1>1, <1>2, <1>3

(* What an item of a rule is printed by.                                    *)
LEMMA ItemTyped ==
    ASSUME NEW t \in Trees, t.fun \notin tokens,
           NEW r \in rulesFor(t), NEW k \in DOMAIN r.rhs
    PROVE  prPrintItem(t, r.rhs[k]) \in Call
<1>1. r \in Rules /\ r.rhs \in Seq(Items)
  BY RulesAssumption DEF rulesFor
<1>2. r.rhs[k] \in Items
  BY <1>1
<1>3. CASE r.rhs[k][1] = "terminal"
  <2>1. r.rhs[k][2] \in Seq(Chars) /\ r.rhs[k][2] # <<>>
    BY <1>2, <1>3 DEF Items
  <2>2. r.rhs[k][2][1] \in Chars
    BY <2>1
  <2> QED
    BY <1>3, <2>1, <2>2, CallTyped DEF prPrintItem, renderX
<1>4. CASE r.rhs[k][1] = "argument"
  <2>1. r.rhs[k][3] \in Nat
    BY <1>2, <1>4 DEF Items
  <2>2. child(t, r.rhs[k][2]) \in Trees
    BY <1>4, TreesAssumption
  <2> QED
    BY <1>4, <2>1, <2>2, CallTyped DEF prPrintItem
<1> QED
  BY <1>2, <1>3, <1>4 DEF Items

-----------------------------------------------------------------------------
(* Before the first call there is no text.                                  *)
LEMMA Initially == Init => IInv
<1> SUFFICES ASSUME Init PROVE IInv
  OBVIOUS
<1>1. buf.size = 0 /\ buf.cur = 0 /\ buf.mem = <<>>
  BY DEF Init
<1>2. <<>> \in Memory(0)
  BY DEF Memory
<1> QED
  BY <1>1, <1>2, SizesAssumption DEF Init, IInv, Typed, TypedBuffer

(* The client's call starts with an empty text.                             *)
LEMMA PrintKeeps ==
    ASSUME IInv, NEW t \in Printed, print(t)
    PROVE  IInv'
<1>1. buf'.size = BUFFER_INITIAL /\ buf'.cur = 0
      /\ buf'.mem = [i \in 0..(BUFFER_INITIAL - 1) |-> NUL]
  BY DEF print, bufReset
<1>2. Holds(buf')
  BY <1>1, SizesAssumption DEF Holds, TypedBuffer, Memory
<1>3. calls' \in Seq(Call)
  <2>1. <<"pp", t, 0>> \in Call
    BY CallTyped, TreesAssumption
  <2> QED
    BY <2>1 DEF print
<1>4. prints' \in 0..MaxPrints /\ prints' > 0
  BY SizesAssumption DEF print, IInv, Typed
<1>5. tree' \in Printed \cup {<<>>} /\ _n_' \in Int
  BY DEF print
<1>6. TypedBuffer(buf')
  BY <1>2 DEF Holds
<1> QED
  BY <1>2, <1>3, <1>4, <1>5, <1>6 DEF IInv, Typed, Holds, TypedBuffer

(* Actions that only append to, or cut back, what the buffer holds.         *)
LEMMA BufferKeeps ==
    ASSUME IInv, prints > 0, Holds(buf'), calls' \in Seq(Call), UNCHANGED <<tree, _n_, prints>>
    PROVE  IInv'
BY DEF IInv, Typed, Holds, TypedBuffer

(* Actions that only replace a call by others.                              *)
LEMMA CallsKeep ==
    ASSUME IInv, prints > 0, Only, calls' \in Seq(Call), _n_' \in Int
    PROVE  IInv'
<1>1. Holds(buf)
  BY DEF IInv
<1>2. buf' = buf /\ tree' = tree /\ prints' = prints
  BY DEF Only
<1> QED
  BY <1>1, <1>2 DEF IInv, Typed, Holds, TypedBuffer

(* Each function of the printer, one case for each.                         *)
LEMMA PrinterKeeps ==
    ASSUME IInv, Printer
    PROVE  IInv'
<1>1. calls # <<>>
  BY DEF Printer, resizeBuffer, bufAppendS, bufAppendC, bufEscapeC, indent, backup,
         removeTrailingWhitespace, onEmptyLine, renderOpenBrace, indentBy, renderCloseBrace,
         renderC, renderS, prPrintRule, ppIdent, ppString, ppChar, Calls
<1>2. /\ calls \in Seq(Call) /\ _n_ \in Int /\ prints > 0 /\ Holds(buf)
      /\ buf.size \in Nat /\ buf.cur \in Nat /\ buf.cur < buf.size
  BY <1>1 DEF IInv, Typed, Holds, TypedBuffer
<1>3. <<>> \in Seq(Call) /\ <<>> \in Seq(Chars) /\ Len(<<>>) = 0
  OBVIOUS
<1>4. CASE resizeBuffer
  <2>1. Holds(buf')
    BY <1>2, <1>4, ResizedHolds DEF resizeBuffer
  <2> QED
    BY <1>2, <1>4, <2>1, BufferKeeps DEF resizeBuffer
<1>5. CASE bufAppendS
  <2>1. arg \in Seq(Chars)
    BY <1>2, <1>5, ArgTyped DEF bufAppendS, Calls
  <2>2. Holds(buf')
    BY <1>2, <1>5, <2>1, WrittenHolds DEF bufAppendS
  <2>3. calls' \in Seq(Call)
    BY <1>1, <1>2, <1>3, <1>5, DoTyped DEF bufAppendS
  <2> QED
    BY <1>2, <1>5, <2>2, <2>3, BufferKeeps DEF bufAppendS
<1>6. CASE bufAppendC
  <2>1. arg \in Chars
    BY <1>2, <1>6, ArgTyped DEF bufAppendC, Calls
  <2> DEFINE b == IF full THEN resized(buf, 2 * buf.size) ELSE buf
  <2>2. Holds(b) /\ b.cur = buf.cur /\ b.cur + 1 < b.size
    <3>1. CASE full
      <4>1. 2 * buf.size \in Nat /\ buf.size <= 2 * buf.size /\ buf.cur + 1 < 2 * buf.size
        BY <1>2
      <4>2. Holds(resized(buf, 2 * buf.size)) /\ resized(buf, 2 * buf.size).size = 2 * buf.size
            /\ resized(buf, 2 * buf.size).cur = buf.cur
        BY <1>2, <4>1, ResizedHolds
      <4> QED
        BY <3>1, <4>1, <4>2
    <3>2. CASE ~full
      BY <1>2, <3>2 DEF full
    <3> QED
      BY <3>1, <3>2
  <2>3. buf' = written(b, b.cur, <<arg>>)
    BY <1>6 DEF bufAppendC
  <2> HIDE DEF b
  <2>4. <<arg>> \in Seq(Chars) /\ Len(<<arg>>) = 1
    BY <2>1
  <2>5. b.cur \in 0..b.cur
    BY <1>2, <2>2
  <2>6. Holds(buf')
    BY <2>2, <2>3, <2>4, <2>5, WrittenHolds
  <2>7. calls' \in Seq(Call)
    BY <1>1, <1>2, <1>3, <1>6, DoTyped DEF bufAppendC
  <2> QED
    BY <1>2, <1>6, <2>6, <2>7, BufferKeeps DEF bufAppendC
<1>7. CASE bufEscapeC
  <2>1. arg \in Chars
    BY <1>2, <1>7, ArgTyped DEF bufEscapeC, Calls
  <2>2. <<<<"bufAppendC", arg>>>> \in Seq(Call)
    <3>1. <<"bufAppendC", arg>> \in Call
      BY <2>1, CallTyped DEF append
    <3> QED
      BY <3>1
  <2>4. <<<<"bufAppendS", escape(arg)>>>> \in Seq(Call)
    <3>1. escape(arg) \in Seq(Chars)
      BY <2>1, EscapeTyped
    <3>2. <<"bufAppendS", escape(arg)>> \in Call
      BY <3>1, CallTyped
    <3> QED
      BY <3>2
  <2>3. calls' \in Seq(Call)
    BY <1>1, <1>2, <1>7, <2>2, <2>4, DoTyped DEF bufEscapeC
  <2> QED
    BY <1>2, <1>7, <2>3, CallsKeep DEF bufEscapeC, Only
<1>8. CASE indent
  <2>1. [k \in 1.._n_ |-> append(Blank)] \in Seq(Call)
    <3>1. append(Blank) \in Call
      BY CallTyped, OwnChars
    <3>2. CASE _n_ \in Nat
      BY <3>1, <3>2
    <3>3. CASE _n_ < 0
      <4>1. 1.._n_ = {}
        BY <1>2, <3>3
      <4>2. [k \in 1.._n_ |-> append(Blank)] = <<>>
        BY <4>1
      <4> QED
        BY <1>3, <4>2
    <3> QED
      BY <1>2, <3>2, <3>3
  <2>2. calls' \in Seq(Call)
    BY <1>1, <1>2, <1>8, <2>1, DoTyped DEF indent
  <2> QED
    BY <1>2, <1>8, <2>2, CallsKeep DEF indent
<1>9. CASE backup
  <2>1. Holds(buf')
    <3>1. CASE buf.cur > 0 /\ buf.mem[buf.cur - 1] = Blank
      <4>1. buf.cur - 1 \in 0..buf.cur /\ buf.cur - 1 + Len(<<>>) < buf.size
        BY <1>2, <1>3, <3>1
      <4> QED
        BY <1>2, <1>3, <1>9, <3>1, <4>1, WrittenHolds DEF backup, Strip
    <3>2. CASE ~(buf.cur > 0 /\ buf.mem[buf.cur - 1] = Blank)
      BY <1>2, <1>9, <3>2 DEF backup, Strip
    <3> QED
      BY <3>1, <3>2
  <2>2. calls' \in Seq(Call)
    BY <1>1, <1>2, <1>3, <1>9, DoTyped DEF backup, Strip
  <2> QED
    BY <1>2, <1>9, <2>1, <2>2, BufferKeeps DEF backup, Strip
<1>10. CASE removeTrailingWhitespace
  <2>1. Holds(buf')
    BY <1>2, <1>10, StrippedHolds DEF removeTrailingWhitespace, Strip
  <2>2. calls' \in Seq(Call)
    BY <1>1, <1>2, <1>3, <1>10, DoTyped DEF removeTrailingWhitespace, Strip
  <2> QED
    BY <1>2, <1>10, <2>1, <2>2, BufferKeeps DEF removeTrailingWhitespace, Strip
<1>11. CASE onEmptyLine
  <2> DEFINE b == stripped(buf, {Blank})
             fs == (IF b.cur > 0 /\ b.mem[b.cur - 1] # Newline THEN <<append(Newline)>> ELSE <<>>)
                      \o <<call("indent")>>
  <2>1. Holds(buf')
    BY <1>2, <1>11, StrippedHolds DEF onEmptyLine
  <2>2. fs \in Seq(Call)
    <3>1. append(Newline) \in Call /\ call("indent") \in Call
      BY CallTyped, OwnChars
    <3>2. <<append(Newline)>> \in Seq(Call) /\ <<call("indent")>> \in Seq(Call)
      BY <3>1
    <3> QED
      BY <1>3, <3>2
  <2>3. Do(fs)
    BY <1>11 DEF onEmptyLine
  <2> HIDE DEF fs
  <2>4. calls' \in Seq(Call)
    BY <1>1, <1>2, <2>2, <2>3, DoTyped
  <2> QED
    BY <1>2, <1>11, <2>1, <2>4, BufferKeeps DEF onEmptyLine
<1>12. CASE renderOpenBrace
  <2>1. append("{") \in Call /\ append(Newline) \in Call /\ call("onEmptyLine") \in Call
        /\ call("indent") \in Call /\ <<"indentBy", 1>> \in Call
    BY CallTyped, OwnChars
  <2>2. <<call("onEmptyLine"), append("{"), <<"indentBy", 1>>, append(Newline), call("indent")>>
           \in Seq(Call)
    BY <2>1, CallSequences
  <2>3. calls' \in Seq(Call)
    BY <1>1, <1>2, <1>12, <2>2, DoTyped DEF renderOpenBrace
  <2> QED
    BY <1>2, <1>12, <2>3, CallsKeep DEF renderOpenBrace
<1>13. CASE indentBy
  <2>1. calls' \in Seq(Call)
    BY <1>1, <1>2, <1>3, <1>13, DoTyped DEF indentBy
  <2> QED
    BY <1>2, <1>13, <2>1, CallsKeep, SizesAssumption DEF indentBy
<1>14. CASE renderCloseBrace
  <2>1. append("}") \in Call /\ append(Newline) \in Call /\ call("onEmptyLine") \in Call
        /\ call("indent") \in Call
    BY CallTyped, OwnChars
  <2>2. <<call("onEmptyLine"), append("}"), append(Newline), call("indent")>> \in Seq(Call)
    BY <2>1, CallSequences
  <2>3. calls' \in Seq(Call)
    BY <1>1, <1>2, <1>14, <2>2, DoTyped DEF renderCloseBrace
  <2>4. Only
    BY <1>14 DEF renderCloseBrace
  <2>5. _n_' \in Int
    <3>1. _n_' = _n_ - INDENT_WIDTH
      BY <1>14 DEF renderCloseBrace
    <3> QED
      BY <1>2, <3>1, SizesAssumption
  <2> QED
    BY <1>2, <2>3, <2>4, <2>5, CallsKeep
<1>15. CASE renderC
  <2>1. arg \in Chars
    BY <1>2, <1>15, ArgTyped DEF renderC, Calls
  <2>2. /\ append(arg) \in Call /\ append(Newline) \in Call /\ append(Blank) \in Call
        /\ call("removeTrailingWhitespace") \in Call /\ call("indent") \in Call
    BY <2>1, CallTyped, OwnChars
  <2>3. /\ <<append(arg)>> \in Seq(Call)
        /\ <<call("removeTrailingWhitespace"), append(arg), append(Blank)>> \in Seq(Call)
        /\ <<call("removeTrailingWhitespace"), append(arg), append(Newline), call("indent")>>
              \in Seq(Call)
        /\ <<append(arg), append(Blank)>> \in Seq(Call)
    BY <2>2
  <2>4. \E fs \in Seq(Call) : Do(fs)
    BY <1>15, <2>3 DEF renderC
  <2>5. calls' \in Seq(Call)
    BY <1>1, <1>2, <2>4, DoTyped
  <2> QED
    BY <1>2, <1>15, <2>5, CallsKeep DEF renderC
<1>16. CASE renderS
  <2>1. arg \in Seq(Chars)
    BY <1>2, <1>16, ArgTyped DEF renderS, Calls
  <2>2. /\ call("backup") \in Call /\ <<"bufAppendS", arg>> \in Call /\ append(Blank) \in Call
    BY <2>1, CallTyped, OwnChars
  <2>3. /\ <<call("backup"), <<"bufAppendS", arg>>>> \in Seq(Call)
        /\ <<<<"bufAppendS", arg>>, append(Blank)>> \in Seq(Call)
    BY <2>2
  <2>4. calls' \in Seq(Call)
    BY <1>1, <1>2, <1>3, <1>16, <2>3, DoTyped DEF renderS
  <2> QED
    BY <1>2, <1>16, <2>4, CallsKeep DEF renderS
<1>17. CASE prPrintRule
  <2>1. arg \in Trees /\ arg.fun \notin tokens
    BY <1>2, <1>17, ArgTyped DEF prPrintRule, Calls
  <2>2. PICK r \in rulesFor(arg) :
           Do(paren(r, "(") \o [k \in DOMAIN r.rhs |-> prPrintItem(arg, r.rhs[k])] \o paren(r, ")"))
    BY <1>17 DEF prPrintRule
  <2> DEFINE items == [k \in DOMAIN r.rhs |-> prPrintItem(arg, r.rhs[k])]
  <2>3. r.rhs \in Seq(Items)
    BY RulesAssumption DEF rulesFor
  <2>4. items \in Seq(Call)
    <3>1. \A k \in DOMAIN r.rhs : prPrintItem(arg, r.rhs[k]) \in Call
      BY <2>1, ItemTyped
    <3>2. DOMAIN r.rhs = 1..Len(r.rhs) /\ Len(r.rhs) \in Nat
      BY <2>3
    <3> QED
      BY <3>1, <3>2
  <2>5. paren(r, "(") \in Seq(Call) /\ paren(r, ")") \in Seq(Call)
    <3>1. <<"renderC", "(">> \in Call /\ <<"renderC", ")">> \in Call
      BY CallTyped, OwnChars
    <3>2. <<<<"renderC", "(">>>> \in Seq(Call) /\ <<<<"renderC", ")">>>> \in Seq(Call)
      BY <3>1
    <3> QED
      BY <1>3, <3>2 DEF paren
  <2> HIDE DEF items
  <2>6. paren(r, "(") \o items \o paren(r, ")") \in Seq(Call)
    BY <2>4, <2>5
  <2>7. calls' \in Seq(Call)
    BY <1>1, <1>2, <2>2, <2>6, DoTyped DEF items
  <2> QED
    BY <1>2, <1>17, <2>7, CallsKeep DEF prPrintRule
<1>18. CASE ppIdent
  <2>1. arg.text \in Seq(Chars)
    BY <1>2, <1>18, ArgTyped, TreesAssumption DEF ppIdent, Calls, tokens
  <2>2. <<<<"renderS", arg.text>>>> \in Seq(Call)
    <3>1. <<"renderS", arg.text>> \in Call
      BY <2>1, CallTyped
    <3> QED
      BY <3>1
  <2>3. calls' \in Seq(Call)
    BY <1>1, <1>2, <1>18, <2>2, DoTyped DEF ppIdent
  <2> QED
    BY <1>2, <1>18, <2>3, CallsKeep DEF ppIdent
<1>19. ASSUME NEW q \in {Quote, Apostrophe}, NEW s \in Seq(Chars) PROVE quoted(q, s) \in Seq(Call)
  <2>1. append(q) \in Call /\ append(Blank) \in Call
    BY CallTyped, OwnChars
  <2>2. <<append(q)>> \in Seq(Call) /\ <<append(q), append(Blank)>> \in Seq(Call)
    BY <2>1
  <2>3. [i \in DOMAIN s |-> <<"bufEscapeC", s[i]>>] \in Seq(Call)
    <3>1. DOMAIN s = 1..Len(s) /\ Len(s) \in Nat /\ \A i \in DOMAIN s : s[i] \in Chars
      OBVIOUS
    <3>2. \A i \in DOMAIN s : <<"bufEscapeC", s[i]>> \in Call
      BY <3>1, CallTyped
    <3> QED
      BY <3>1, <3>2
  <2> QED
    BY <2>2, <2>3 DEF quoted
<1>20. CASE ppString
  <2>1. arg.text \in Seq(Chars)
    BY <1>2, <1>20, ArgTyped, TreesAssumption DEF ppString, Calls, tokens
  <2>2. calls' \in Seq(Call)
    BY <1>1, <1>2, <1>19, <1>20, <2>1, DoTyped DEF ppString
  <2> QED
    BY <1>2, <1>20, <2>2, CallsKeep DEF ppString
<1>21. CASE ppChar
  <2>1. arg.text \in Seq(Chars) /\ arg.text # <<>>
    BY <1>2, <1>21, ArgTyped, TreesAssumption DEF ppChar, Calls, tokens
  <2>2. arg.text[1] \in Chars
    BY <2>1
  <2>3. <<arg.text[1]>> \in Seq(Chars)
    BY <2>2
  <2>4. calls' \in Seq(Call)
    BY <1>1, <1>2, <1>19, <1>21, <2>3, DoTyped DEF ppChar
  <2> QED
    BY <1>2, <1>21, <2>4, CallsKeep DEF ppChar
<1> QED
  BY <1>4, <1>5, <1>6, <1>7, <1>8, <1>9, <1>10, <1>11, <1>12, <1>13, <1>14, <1>15, <1>16,
     <1>17, <1>18, <1>20, <1>21 DEF Printer

(* So the invariant is inductive.                                           *)
LEMMA Step == IInv /\ [Next]_vars => IInv'
<1>1. ASSUME IInv, Printer PROVE IInv'
  BY <1>1, PrinterKeeps
<1>2. ASSUME IInv, NEW t \in Printed, print(t) PROVE IInv'
  BY <1>2, PrintKeeps
<1>3. ASSUME IInv, UNCHANGED vars PROVE IInv'
  BY <1>3 DEF IInv, Typed, Holds, TypedBuffer, vars
<1> QED
  BY <1>1, <1>2, <1>3 DEF Next

(* For every grammar, its trees, initial size and indentation: the printer's*)
(* inductive invariant, of the buffer and of the functions still to call.   *)
THEOREM Invariant == Spec => []IInv
BY Initially, Step, PTL DEF Spec

(* The state of the printer is well typed: the memory of the buffer is as   *)
(* large as buf_size says.                                                  *)
THEOREM TypeCorrect == Spec => []TypeOK
<1>1. IInv => TypeOK
  BY DEF IInv, Typed, TypedBuffer, TypeOK, Memory
<1> QED
  BY <1>1, Invariant, PTL

(* The text and its NUL always fit in the buffer.                           *)
THEOREM TerminatedAlways == Spec => []Terminated
<1>1. IInv => Terminated
  BY DEF IInv, Holds, Terminated
<1> QED
  BY <1>1, Invariant, PTL
-----------------------------------------------------------------------------
(* Counting in a sequence.  It is enough to look at the elements counted;   *)
(* what is not the element may be left out; and one element more counts one *)
(* at most.                                                                 *)
LEMMA CountTyped ==
    ASSUME NEW s, NEW c, NEW p \in Nat
    PROVE  IsFiniteSet({i \in 1..p : s[i] = c}) /\ count(s, c, p) \in Nat
<1>1. IsFiniteSet(1..p)
  BY FS_Interval
<1>2. IsFiniteSet({i \in 1..p : s[i] = c})
  BY <1>1, FS_Subset
<1> QED
  BY <1>2, FS_CardinalityType DEF count

LEMMA CountNone ==
    ASSUME NEW s, NEW c
    PROVE  count(s, c, 0) = 0
<1>1. {i \in 1..0 : s[i] = c} = {}
  OBVIOUS
<1> QED
  BY <1>1, FS_EmptySet DEF count

LEMMA CountSame ==
    ASSUME NEW s, NEW t, NEW c, NEW p \in Nat, \A i \in 1..p : s[i] = t[i]
    PROVE  count(s, c, p) = count(t, c, p)
<1>1. {i \in 1..p : s[i] = c} = {i \in 1..p : t[i] = c}
  OBVIOUS
<1> QED
  BY <1>1 DEF count

LEMMA CountSkip ==
    ASSUME NEW s, NEW c, NEW n \in Nat, NEW p \in Nat, n <= p,
           \A i \in (n + 1)..p : s[i] # c
    PROVE  count(s, c, p) = count(s, c, n)
<1>1. {i \in 1..p : s[i] = c} = {i \in 1..n : s[i] = c}
  <2>1. \A i \in 1..p : i \in 1..n \/ i \in (n + 1)..p
    OBVIOUS
  <2>2. \A i \in 1..n : i \in 1..p
    OBVIOUS
  <2> QED
    BY <2>1, <2>2
<1> QED
  BY <1>1 DEF count

is(x, c) == IF x = c THEN 1 ELSE 0

LEMMA CountNext ==
    ASSUME NEW s, NEW c, NEW p \in Nat
    PROVE  count(s, c, p + 1) = count(s, c, p) + is(s[p + 1], c)
<1> DEFINE S == {i \in 1..p : s[i] = c}
<1>1. IsFiniteSet(S) /\ p + 1 \notin S /\ count(s, c, p) = Cardinality(S)
  <2>1. p + 1 \notin S
    OBVIOUS
  <2> QED
    BY <2>1, CountTyped DEF count
<1>2. CASE s[p + 1] = c
  <2>1. {i \in 1..(p + 1) : s[i] = c} = S \cup {p + 1}
    BY <1>2
  <2>2. Cardinality(S \cup {p + 1}) = Cardinality(S) + 1
    <3> HIDE DEF S
    <3> QED
      BY <1>1, FS_AddElement
  <2> QED
    BY <1>1, <1>2, <2>1, <2>2 DEF count, is
<1>3. CASE s[p + 1] # c
  <2>1. \A i \in (p + 1)..(p + 1) : s[i] # c
    BY <1>3
  <2>2. count(s, c, p + 1) = count(s, c, p)
    BY <2>1, CountSkip
  <2> QED
    <3>1. is(s[p + 1], c) = 0
      BY <1>3 DEF is
    <3>2. count(s, c, p) \in Nat
      BY CountTyped
    <3> QED
      BY <2>2, <3>1, <3>2
<1> QED
  BY <1>2, <1>3

-----------------------------------------------------------------------------
(* Characters that are not mixed up.  (The braces have names, so that the   *)
(* provers need not look at the strings.)                                   *)
OpenBrace  == "{"
CloseBrace == "}"
LEMMA BraceChars ==
    /\ OpenBrace # CloseBrace
    /\ OpenBrace \notin {Blank, Newline, NUL}
    /\ CloseBrace \notin {Blank, Newline, NUL}
BY Zenon DEF OpenBrace, CloseBrace, Blank, Newline, NUL
LEMMA OtherChars == Blank # Newline /\ Blank # NUL /\ Newline # NUL
BY DEF Blank, Newline, NUL

(* A text is well indented if each of its lines is, up to the first visible *)
(* character.  What matters for the next one is whether the last line is    *)
(* still blank, and how long it is then.                                    *)
width(d)      == INDENT_WIDTH * d
depth(s)      == count(s, OpenBrace, Len(s)) - count(s, CloseBrace, Len(s))
LineAt(s, p)  == p = 1 \/ s[p - 1] = Newline
Blanks(s, p, q) == \A i \in p..q : s[i] = Blank

WellIndented(s) ==
    \A p \in 1..Len(s) : \A q \in p..Len(s) :
        LineAt(s, p) /\ Blanks(s, p, q - 1) /\ s[q] \notin {Blank, Newline} =>
            q - p = width(count(s, OpenBrace, p - 1) - count(s, CloseBrace, q))

LastBlank(s) == {p \in 1..(Len(s) + 1) : LineAt(s, p) /\ Blanks(s, p, Len(s))}

(* A text that is cut back stays well indented.                             *)
LEMMA CutIndented ==
    ASSUME NEW s \in Seq(Chars), WellIndented(s), NEW n \in 0..Len(s)
    PROVE  WellIndented(SubSeq(s, 1, n))
<1> DEFINE t == SubSeq(s, 1, n)
<1>1. Len(s) \in Nat /\ t \in Seq(Chars) /\ Len(t) = n /\ \A i \in 1..n : t[i] = s[i]
  OBVIOUS
<1> HIDE DEF t
<1>2. ASSUME NEW p \in 1..n, NEW q \in p..n,
             LineAt(t, p), Blanks(t, p, q - 1), t[q] \notin {Blank, Newline}
      PROVE  q - p = width(count(t, OpenBrace, p - 1) - count(t, CloseBrace, q))
  <2>1. p \in 1..Len(s) /\ q \in p..Len(s) /\ p - 1 \in Nat /\ q \in Nat /\ q \in 1..n
    BY <1>1
  <2>2. LineAt(s, p)
    <3>1. p # 1 => p - 1 \in 1..n
      OBVIOUS
    <3> QED
      BY <1>1, <1>2, <3>1 DEF LineAt
  <2>3. Blanks(s, p, q - 1)
    <3>1. \A i \in p..(q - 1) : i \in 1..n
      BY <1>1
    <3> QED
      BY <1>1, <1>2, <3>1 DEF Blanks
  <2>4. s[q] \notin {Blank, Newline}
    BY <1>1, <1>2, <2>1
  <2>5. count(t, OpenBrace, p - 1) = count(s, OpenBrace, p - 1)
    <3>1. \A i \in 1..(p - 1) : t[i] = s[i]
      BY <1>1
    <3> QED
      BY <2>1, <3>1, CountSame
  <2>6. count(t, CloseBrace, q) = count(s, CloseBrace, q)
    <3>1. \A i \in 1..q : t[i] = s[i]
      BY <1>1
    <3> QED
      BY <2>1, <3>1, CountSame
  <2> QED
    BY <2>1, <2>2, <2>3, <2>4, <2>5, <2>6 DEF WellIndented
<1>3. WellIndented(t)
  BY <1>1, <1>2 DEF WellIndented
<1> QED
  BY <1>3 DEF t

Placed(s, c) ==
    \A p \in 1..(Len(s) + 1) :
        p \in LastBlank(s) => c # Blank /\ Len(s) + 1 - p = width(depth(s) - is(c, CloseBrace))

(* What is put behind a text in the same line leaves it well indented, if   *)
(* the line is not blank or it begins with a visible character at the right *)
(* place.                                                                   *)
LEMMA JoinIndented ==
    ASSUME NEW s \in Seq(Chars), NEW x \in Seq(Chars), WellIndented(s), x # <<>>,
           \A i \in 1..Len(x) : x[i] # Newline,
           \A i \in 1..Len(x) : i > 1 => x[i] # CloseBrace,
           Placed(s, x[1])
    PROVE  WellIndented(s \o x)
<1> DEFINE t == s \o x
           l == Len(s)
<1>1. l \in Nat /\ Len(x) \in Nat /\ Len(x) >= 1 /\ Len(t) = l + Len(x) /\ Len(t) \in Nat
  OBVIOUS
<1>8. \A i \in 1..l : t[i] = s[i]
  OBVIOUS
<1>9. \A i \in (l + 1)..Len(t) : t[i] = x[i - l] /\ i - l \in 1..Len(x)
  OBVIOUS
<1> HIDE DEF t, l
<1>2. ASSUME NEW p \in 1..Len(t), NEW q \in p..Len(t),
             LineAt(t, p), Blanks(t, p, q - 1), t[q] \notin {Blank, Newline}
      PROVE  q - p = width(count(t, OpenBrace, p - 1) - count(t, CloseBrace, q))
  <2>1. p \in 1..(l + 1)
    <3>1. SUFFICES ASSUME p > l + 1 PROVE FALSE
      BY <1>1
    <3>2. p - 1 \in (l + 1)..Len(t) /\ p # 1
      BY <1>1, <3>1
    <3>3. t[p - 1] = x[p - 1 - l] /\ p - 1 - l \in 1..Len(x)
      BY <1>1, <1>9, <3>2
    <3> QED
      BY <1>2, <3>2, <3>3 DEF LineAt
  <2>2. LineAt(s, p)
    <3>1. p # 1 => p - 1 \in 1..l
      BY <1>1, <2>1
    <3> QED
      BY <1>8, <1>2, <3>1 DEF LineAt
  <2>3. p - 1 \in Nat /\ q \in Nat /\ p - 1 <= l
    BY <1>1, <2>1
  <2>4. count(t, OpenBrace, p - 1) = count(s, OpenBrace, p - 1)
    <3>1. \A i \in 1..(p - 1) : t[i] = s[i]
      BY <1>1, <1>8, <2>3
    <3> QED
      BY <2>3, <3>1, CountSame
  <2>5. CASE q <= l
    <3>1. p \in 1..l /\ q \in p..l /\ q \in 1..l
      BY <1>1, <2>1, <2>5
    <3>2. Blanks(s, p, q - 1)
      <4>1. \A i \in p..(q - 1) : i \in 1..l
        BY <1>1, <3>1
      <4> QED
        BY <1>8, <1>2, <4>1 DEF Blanks
    <3>3. s[q] \notin {Blank, Newline}
      BY <1>8, <1>2, <3>1
    <3>4. count(t, CloseBrace, q) = count(s, CloseBrace, q)
      <4>1. \A i \in 1..q : t[i] = s[i]
        BY <1>1, <1>8, <2>5
      <4> QED
        BY <2>3, <4>1, CountSame
    <3> QED
      BY <2>2, <2>4, <3>1, <3>2, <3>3, <3>4 DEF WellIndented, l
  <2>6. CASE q > l
    <3>1. Blanks(s, p, l)
      <4>1. \A i \in p..l : i \in p..(q - 1) /\ i \in 1..l
        BY <1>1, <2>1, <2>6
      <4> QED
        BY <1>8, <1>2, <4>1 DEF Blanks
    <3>2. p \in LastBlank(s)
      BY <2>1, <2>2, <3>1 DEF LastBlank, l
    <3>3. x[1] # Blank /\ l + 1 - p = width(depth(s) - is(x[1], CloseBrace))
      BY <2>1, <3>2 DEF Placed, l
    <3>4. t[l + 1] = x[1]
      <4>1. l + 1 \in (l + 1)..Len(t) /\ (l + 1) - l = 1
        BY <1>1
      <4> QED
        BY <1>9, <4>1
    <3>5. q = l + 1
      <4>1. SUFFICES ASSUME q > l + 1 PROVE FALSE
        BY <1>1, <2>6
      <4>2. l + 1 \in p..(q - 1)
        BY <1>1, <2>1, <4>1
      <4> QED
        BY <1>2, <3>3, <3>4, <4>2 DEF Blanks
    <3>6. count(s, OpenBrace, l) = count(s, OpenBrace, p - 1)
      <4>1. \A i \in (p - 1 + 1)..l : s[i] # OpenBrace
        <5>1. \A i \in (p - 1 + 1)..l : i \in p..l
          BY <2>3
        <5>2. Blank # OpenBrace
          BY BraceChars
        <5> QED
          BY <3>1, <5>1, <5>2 DEF Blanks
      <4> QED
        BY <1>1, <2>3, <4>1, CountSkip
    <3>7. count(t, CloseBrace, q) = count(s, CloseBrace, l) + is(x[1], CloseBrace)
      <4>1. count(t, CloseBrace, l + 1) = count(t, CloseBrace, l) + is(t[l + 1], CloseBrace)
        BY <1>1, CountNext
      <4>2. count(t, CloseBrace, l) = count(s, CloseBrace, l)
        BY <1>1, <1>8, CountSame
      <4> QED
        BY <3>4, <3>5, <4>1, <4>2
    <3>8. /\ count(s, OpenBrace, l) \in Nat /\ count(s, CloseBrace, l) \in Nat
          /\ depth(s) = count(s, OpenBrace, l) - count(s, CloseBrace, l)
      BY <1>1, CountTyped DEF depth, l
    <3>9. is(x[1], CloseBrace) \in Nat
      BY DEF is
    <3>10. count(t, OpenBrace, p - 1) - count(t, CloseBrace, q) = depth(s) - is(x[1], CloseBrace)
      BY <2>4, <3>6, <3>7, <3>8, <3>9
    <3> QED
      <4>1. q - p = width(depth(s) - is(x[1], CloseBrace))
        BY <1>1, <2>3, <3>3, <3>5
      <4> QED
        BY <3>10, <4>1
  <2> QED
    BY <1>1, <2>3, <2>5, <2>6
<1>3. WellIndented(t)
  BY <1>2 DEF WellIndented
<1> QED
  BY <1>3 DEF t

(* A newline or a blank is never at a wrong place.                          *)
LEMMA JoinInvisible ==
    ASSUME NEW s \in Seq(Chars), NEW c \in Chars, WellIndented(s), c \in {Blank, Newline}
    PROVE  WellIndented(s \o <<c>>)
<1> DEFINE t == s \o <<c>>
           l == Len(s)
<1>1. l \in Nat /\ t \in Seq(Chars) /\ Len(t) = l + 1
  OBVIOUS
<1>2. \A i \in 1..l : t[i] = s[i]
  OBVIOUS
<1>3. t[l + 1] = c
  OBVIOUS
<1> HIDE DEF t
<1>4. ASSUME NEW p \in 1..Len(t), NEW q \in p..Len(t),
             LineAt(t, p), Blanks(t, p, q - 1), t[q] \notin {Blank, Newline}
      PROVE  q - p = width(count(t, OpenBrace, p - 1) - count(t, CloseBrace, q))
  <2>1. p \in 1..l /\ q \in p..l /\ q \in 1..l /\ p - 1 \in Nat /\ q \in Nat
    BY <1>1, <1>3, <1>4
  <2>2. LineAt(s, p)
    <3>1. p # 1 => p - 1 \in 1..l
      BY <1>1, <2>1
    <3> QED
      BY <1>2, <1>4, <3>1 DEF LineAt
  <2>3. Blanks(s, p, q - 1)
    <3>1. \A i \in p..(q - 1) : i \in 1..l
      BY <1>1, <2>1
    <3> QED
      BY <1>2, <1>4, <3>1 DEF Blanks
  <2>4. s[q] \notin {Blank, Newline}
    BY <1>2, <1>4, <2>1
  <2>5. count(t, OpenBrace, p - 1) = count(s, OpenBrace, p - 1)
    <3>1. \A i \in 1..(p - 1) : t[i] = s[i]
      BY <1>1, <1>2, <2>1
    <3> QED
      BY <2>1, <3>1, CountSame
  <2>6. count(t, CloseBrace, q) = count(s, CloseBrace, q)
    <3>1. \A i \in 1..q : t[i] = s[i]
      BY <1>1, <1>2, <2>1
    <3> QED
      BY <2>1, <3>1, CountSame
  <2> QED
    BY <2>1, <2>2, <2>3, <2>4, <2>5, <2>6 DEF WellIndented
<1>5. WellIndented(t)
  BY <1>4 DEF WellIndented
<1> QED
  BY <1>5 DEF t

(* The depth at the end of a text.                                          *)
LEMMA DepthTyped ==
    ASSUME NEW s \in Seq(Chars)
    PROVE  depth(s) \in Int
<1>1. Len(s) \in Nat
  OBVIOUS
<1>2. count(s, OpenBrace, Len(s)) \in Nat /\ count(s, CloseBrace, Len(s)) \in Nat
  BY <1>1, CountTyped
<1> QED
  BY <1>2 DEF depth

LEMMA DepthEmpty == depth(<<>>) = 0
<1>1. Len(<<>>) = 0
  OBVIOUS
<1>2. count(<<>>, OpenBrace, 0) = 0 /\ count(<<>>, CloseBrace, 0) = 0
  BY CountNone
<1> QED
  BY <1>1, <1>2 DEF depth

LEMMA CountCut ==
    ASSUME NEW s \in Seq(Chars), NEW n \in 0..Len(s), NEW c,
           \A i \in (n + 1)..Len(s) : s[i] # c
    PROVE  count(SubSeq(s, 1, n), c, n) = count(s, c, Len(s))
<1> DEFINE t == SubSeq(s, 1, n)
<1>1. Len(s) \in Nat /\ n \in Nat /\ n <= Len(s) /\ \A i \in 1..n : t[i] = s[i]
  OBVIOUS
<1> HIDE DEF t
<1>2. count(t, c, n) = count(s, c, n)
  BY <1>1, CountSame
<1>3. count(s, c, Len(s)) = count(s, c, n)
  BY <1>1, CountSkip
<1> QED
  BY <1>2, <1>3 DEF t

LEMMA DepthCut ==
    ASSUME NEW s \in Seq(Chars), NEW n \in 0..Len(s),
           \A i \in (n + 1)..Len(s) : s[i] \in {Blank, Newline}
    PROVE  depth(SubSeq(s, 1, n)) = depth(s)
<1>1. \A i \in (n + 1)..Len(s) : s[i] # OpenBrace /\ s[i] # CloseBrace
  BY BraceChars
<1>2. Len(SubSeq(s, 1, n)) = n
  OBVIOUS
<1>3. count(SubSeq(s, 1, n), OpenBrace, n) = count(s, OpenBrace, Len(s))
  BY <1>1, CountCut
<1>4. count(SubSeq(s, 1, n), CloseBrace, n) = count(s, CloseBrace, Len(s))
  BY <1>1, CountCut
<1> QED
  BY <1>2, <1>3, <1>4 DEF depth

LEMMA CountJoin ==
    ASSUME NEW s \in Seq(Chars), NEW x \in Seq(Chars), NEW c, \A i \in 1..Len(x) : x[i] # c
    PROVE  count(s \o x, c, Len(s \o x)) = count(s, c, Len(s))
<1> DEFINE t == s \o x
           l == Len(s)
<1>1. l \in Nat /\ Len(t) \in Nat /\ l <= Len(t) /\ \A i \in 1..l : t[i] = s[i]
  OBVIOUS
<1>2. \A i \in (l + 1)..Len(t) : t[i] = x[i - l] /\ i - l \in 1..Len(x)
  OBVIOUS
<1> HIDE DEF t, l
<1>3. count(t, c, Len(t)) = count(t, c, l)
  <2>1. \A i \in (l + 1)..Len(t) : t[i] # c
    BY <1>2
  <2> QED
    BY <1>1, <2>1, CountSkip
<1>4. count(t, c, l) = count(s, c, l)
  BY <1>1, CountSame
<1> QED
  BY <1>3, <1>4 DEF t, l

LEMMA CountJoinOne ==
    ASSUME NEW s \in Seq(Chars), NEW x \in Chars, NEW c
    PROVE  count(s \o <<x>>, c, Len(s \o <<x>>)) = count(s, c, Len(s)) + is(x, c)
<1> DEFINE t == s \o <<x>>
           l == Len(s)
<1>1. l \in Nat /\ Len(t) = l + 1 /\ t[l + 1] = x /\ \A i \in 1..l : t[i] = s[i]
  OBVIOUS
<1> HIDE DEF t, l
<1>3. count(t, c, l + 1) = count(t, c, l) + is(x, c)
  <2>1. count(t, c, l + 1) = count(t, c, l) + is(t[l + 1], c)
    BY <1>1, CountNext
  <2> QED
    BY <1>1, <2>1
<1>4. count(t, c, l) = count(s, c, l)
  BY <1>1, CountSame
<1> QED
  BY <1>1, <1>3, <1>4 DEF t, l

LEMMA DepthJoin ==
    ASSUME NEW s \in Seq(Chars), NEW x \in Seq(Chars),
           \A i \in 1..Len(x) : x[i] # OpenBrace /\ x[i] # CloseBrace
    PROVE  depth(s \o x) = depth(s)
<1>1. count(s \o x, OpenBrace, Len(s \o x)) = count(s, OpenBrace, Len(s))
  BY CountJoin
<1>2. count(s \o x, CloseBrace, Len(s \o x)) = count(s, CloseBrace, Len(s))
  BY CountJoin
<1> QED
  BY <1>1, <1>2 DEF depth

LEMMA DepthBrace ==
    ASSUME NEW s \in Seq(Chars)
    PROVE  /\ depth(s \o <<OpenBrace>>) = depth(s) + 1
           /\ depth(s \o <<CloseBrace>>) = depth(s) - 1
<1>1. OpenBrace \in Chars /\ CloseBrace \in Chars
  BY Zenon, CharsAssumption DEF OpenBrace, CloseBrace
<1>2. count(s, OpenBrace, Len(s)) \in Nat /\ count(s, CloseBrace, Len(s)) \in Nat
  <2>1. Len(s) \in Nat
    OBVIOUS
  <2> QED
    BY <2>1, CountTyped
<1>3. is(OpenBrace, OpenBrace) = 1 /\ is(OpenBrace, CloseBrace) = 0
      /\ is(CloseBrace, CloseBrace) = 1 /\ is(CloseBrace, OpenBrace) = 0
  BY BraceChars DEF is
<1>4. depth(s \o <<OpenBrace>>) = (count(s, OpenBrace, Len(s)) + 1) - (count(s, CloseBrace, Len(s)) + 0)
  BY <1>1, <1>3, CountJoinOne DEF depth
<1>5. depth(s \o <<CloseBrace>>) = (count(s, OpenBrace, Len(s)) + 0) - (count(s, CloseBrace, Len(s)) + 1)
  BY <1>1, <1>3, CountJoinOne DEF depth
<1> QED
  BY <1>2, <1>4, <1>5 DEF depth

-----------------------------------------------------------------------------
(* A part of a text.                                                        *)
LEMMA CutIs ==
    ASSUME NEW s \in Seq(Chars), NEW n \in 0..Len(s)
    PROVE  /\ SubSeq(s, 1, n) \in Seq(Chars) /\ Len(SubSeq(s, 1, n)) = n
           /\ \A i \in 1..n : SubSeq(s, 1, n)[i] = s[i]
OBVIOUS

(* The last line.                                                           *)
LEMMA LastBlankJoin ==
    ASSUME NEW s \in Seq(Chars), NEW x \in Seq(Chars),
           \A i \in 1..Len(x) : x[i] # Newline
    PROVE  \A p \in LastBlank(s \o x) : p \in LastBlank(s) /\ \A i \in 1..Len(x) : x[i] = Blank
<1> DEFINE t == s \o x
           l == Len(s)
<1>1. l \in Nat /\ Len(x) \in Nat /\ Len(t) = l + Len(x) /\ \A i \in 1..l : t[i] = s[i]
  OBVIOUS
<1>2. \A i \in (l + 1)..Len(t) : t[i] = x[i - l] /\ i - l \in 1..Len(x)
  OBVIOUS
<1>3. \A i \in 1..Len(x) : t[l + i] = x[i] /\ l + i \in (l + 1)..Len(t)
  OBVIOUS
<1> HIDE DEF t, l
<1>4. ASSUME NEW p \in LastBlank(t)
      PROVE  p \in LastBlank(s) /\ \A i \in 1..Len(x) : x[i] = Blank
  <2>1. p \in 1..(Len(t) + 1) /\ LineAt(t, p) /\ Blanks(t, p, Len(t))
    BY <1>4 DEF LastBlank
  <2>2. p \in 1..(l + 1)
    <3>1. SUFFICES ASSUME p > l + 1 PROVE FALSE
      BY <1>1, <2>1
    <3>2. p - 1 \in (l + 1)..Len(t) /\ p # 1
      BY <1>1, <2>1, <3>1
    <3> QED
      BY <1>2, <2>1, <3>2 DEF LineAt
  <2>3. LineAt(s, p)
    <3>1. p # 1 => p - 1 \in 1..l
      BY <1>1, <2>2
    <3> QED
      BY <1>1, <2>1, <3>1 DEF LineAt
  <2>4. Blanks(s, p, l)
    <3>1. \A i \in p..l : i \in p..Len(t) /\ i \in 1..l
      BY <1>1, <2>2
    <3> QED
      BY <1>1, <2>1, <3>1 DEF Blanks
  <2>5. \A i \in 1..Len(x) : x[i] = Blank
    <3>1. \A i \in 1..Len(x) : l + i \in p..Len(t)
      BY <1>1, <2>2
    <3> QED
      BY <1>3, <2>1, <3>1 DEF Blanks
  <2> QED
    BY <2>2, <2>3, <2>4, <2>5 DEF LastBlank, l
<1> QED
  BY <1>4 DEF t

LEMMA LastBlankNewline ==
    ASSUME NEW s \in Seq(Chars), s = <<>> \/ s[Len(s)] = Newline
    PROVE  \A p \in LastBlank(s) : p = Len(s) + 1
<1>1. Len(s) \in Nat
  OBVIOUS
<1>2. CASE s = <<>>
  <2>1. Len(s) = 0
    BY <1>2
  <2> QED
    BY <2>1 DEF LastBlank
<1>3. CASE s[Len(s)] = Newline
  <2>1. ASSUME NEW p \in LastBlank(s), p # Len(s) + 1 PROVE FALSE
    <3>1. Len(s) \in p..Len(s)
      BY <1>1, <2>1 DEF LastBlank
    <3>2. s[Len(s)] = Blank
      BY <2>1, <3>1 DEF LastBlank, Blanks
    <3> QED
      BY <1>3, <3>2, OtherChars
  <2> QED
    BY <2>1
<1> QED
  BY <1>2, <1>3

LEMMA LastBlankVisible ==
    ASSUME NEW s \in Seq(Chars), s # <<>>, s[Len(s)] \notin {Blank, Newline}
    PROVE  LastBlank(s) = {}
<1>1. Len(s) \in Nat /\ Len(s) >= 1
  OBVIOUS
<1>2. ASSUME NEW p \in LastBlank(s) PROVE FALSE
  <2>1. p \in 1..(Len(s) + 1) /\ LineAt(s, p) /\ Blanks(s, p, Len(s))
    BY <1>2 DEF LastBlank
  <2>2. CASE p = Len(s) + 1
    <3>1. p # 1 /\ p - 1 = Len(s)
      BY <1>1, <2>2
    <3> QED
      BY <1>1, <2>1, <3>1 DEF LineAt
  <2>3. CASE p # Len(s) + 1
    <3>1. Len(s) \in p..Len(s)
      BY <1>1, <2>1, <2>3
    <3> QED
      BY <2>1, <3>1 DEF Blanks
  <2> QED
    BY <2>2, <2>3
<1> QED
  BY <1>2

(* A blank at the end of a line that is not blank.                          *)
LEMMA LastBlankBackup ==
    ASSUME NEW s \in Seq(Chars), LastBlank(s) = {}, s # <<>>, s[Len(s)] = Blank
    PROVE  LastBlank(SubSeq(s, 1, Len(s) - 1)) = {}
<1> DEFINE l == Len(s)
           t == SubSeq(s, 1, l - 1)
<1>1. l \in Nat /\ l >= 1
  OBVIOUS
<1>2. Len(t) = l - 1 /\ \A i \in 1..(l - 1) : t[i] = s[i]
  <2>1. l - 1 \in 0..Len(s)
    BY <1>1
  <2> QED
    BY <2>1, CutIs
<1> HIDE DEF t
<1>3. ASSUME NEW p \in LastBlank(t) PROVE FALSE
  <2>1. p \in 1..l /\ LineAt(t, p) /\ Blanks(t, p, l - 1)
    BY <1>1, <1>2, <1>3 DEF LastBlank
  <2>2. LineAt(s, p)
    <3>1. p # 1 => p - 1 \in 1..(l - 1)
      BY <1>1, <2>1
    <3> QED
      BY <1>2, <2>1, <3>1 DEF LineAt
  <2>3. Blanks(s, p, l)
    <3>1. \A i \in p..l : i = l \/ (i \in p..(l - 1) /\ i \in 1..(l - 1))
      BY <1>1, <2>1
    <3> QED
      BY <1>2, <2>1, <3>1 DEF Blanks
  <2>4. p \in LastBlank(s)
    BY <1>1, <2>1, <2>2, <2>3 DEF LastBlank
  <2> QED
    BY <2>4
<1> QED
  BY <1>3 DEF t

-----------------------------------------------------------------------------
(* Between two calls the text is at a level of nesting, as _n_ says; dev is 1*)
(* while a brace is open (or not yet closed) that _n_ does not count; and   *)
(* its last line is busy (not blank), empty, short of _n_ by r blanks unless*)
(* it is busy, or anything (free).                                          *)
Mode == [level : Nat, dev : {0, 1}, line : {"busy", "empty", "short", "free"}, r : Nat]
M(level, dev, line, r) == [level |-> level, dev |-> dev, line |-> line, r |-> r]

At(m, s, n) ==
    /\ n = width(m.level)
    /\ depth(s) = m.level + m.dev
    /\ m.line = "busy"  => LastBlank(s) = {}
    /\ m.line = "empty" => s = <<>> \/ s[Len(s)] = Newline
    /\ m.line = "short" => \A p \in LastBlank(s) : Len(s) + 1 - p + m.r = n

(* Here a visible character may follow.                                     *)
settled(m)  == m.dev = 0 /\ (m.line = "busy" \/ (m.line = "short" /\ m.r = 0))
Settled(l)  == M(l, 0, "short", 0)
Busy(l)     == M(l, 0, "busy", 0)

LEMMA ModeTyped ==
    ASSUME NEW l \in Nat, NEW d \in {0, 1}, NEW x \in {"busy", "empty", "short", "free"}, NEW r \in Nat
    PROVE  /\ M(l, d, x, r) \in Mode
           /\ M(l, d, x, r).level = l /\ M(l, d, x, r).dev = d
           /\ M(l, d, x, r).line = x /\ M(l, d, x, r).r = r
BY DEF M, Mode

LEMMA SettledIs ==
    /\ \A l \in Nat : /\ Settled(l) \in Mode /\ settled(Settled(l)) /\ Settled(l).level = l
                      /\ Settled(l).line = "short" /\ Settled(l).dev = 0 /\ Settled(l).r = 0
    /\ \A l \in Nat : /\ Busy(l) \in Mode /\ settled(Busy(l)) /\ Busy(l).level = l
                      /\ Busy(l).line = "busy" /\ Busy(l).dev = 0
    /\ \A m \in Mode : settled(m) /\ m.line = "short" => m = Settled(m.level)
<1>1. ASSUME NEW l \in Nat
      PROVE  /\ Settled(l) \in Mode /\ settled(Settled(l)) /\ Settled(l).level = l
             /\ Settled(l).line = "short" /\ Settled(l).dev = 0 /\ Settled(l).r = 0
  BY DEF Settled, M, Mode, settled
<1>2. ASSUME NEW l \in Nat
      PROVE  /\ Busy(l) \in Mode /\ settled(Busy(l)) /\ Busy(l).level = l
             /\ Busy(l).line = "busy" /\ Busy(l).dev = 0
  BY DEF Busy, M, Mode, settled
<1>3. ASSUME NEW m \in Mode, settled(m), m.line = "short" PROVE m = Settled(m.level)
  <2>1. m.dev = 0 /\ m.r = 0 /\ m.line = "short"
    BY <1>3 DEF settled
  <2> QED
    BY <2>1 DEF Mode, Settled, M
<1> QED
  BY <1>1, <1>2, <1>3

(* INDENT_WIDTH is used by these only.                                      *)
LEMMA WidthTyped == \A l \in Nat : width(l) \in Nat
BY SizesAssumption DEF width
LEMMA WidthZero == width(0) = 0
BY SizesAssumption DEF width
LEMMA WidthNext == \A l \in Nat : width(l + 1) = width(l) + INDENT_WIDTH
BY SizesAssumption DEF width

(* What a busy line is, a settled one and a free one also is.               *)
LEMMA AtSettled ==
    ASSUME NEW s \in Seq(Chars), NEW n, NEW a \in Mode, NEW b \in Mode, At(a, s, n),
           a.level = b.level, a.dev = b.dev,
           \/ b.line = "free"
           \/ a.line = "busy" /\ b.line \in {"busy", "short"}
           \/ a.line = b.line /\ a.r = b.r
    PROVE  At(b, s, n)
<1>1. CASE b.line = "free"
  BY <1>1 DEF At
<1>2. CASE a.line = "busy" /\ b.line \in {"busy", "short"}
  BY <1>2 DEF At
<1>3. CASE a.line = b.line /\ a.r = b.r
  BY <1>3 DEF At
<1> QED
  BY <1>1, <1>2, <1>3

(* A text without braces and newlines, in its place.                        *)
plain(c) == c \notin {OpenBrace, CloseBrace, Newline}
LEMMA AtText ==
    ASSUME NEW s \in Seq(Chars), NEW n, NEW a \in Mode, NEW b \in Mode, NEW x \in Seq(Chars),
           At(a, s, n), WellIndented(s), settled(a), settled(b), a.level = b.level,
           x # <<>>, \A i \in 1..Len(x) : plain(x[i]), x[1] = Blank => a.line = "busy"
    PROVE  WellIndented(s \o x) /\ At(b, s \o x, n)
<1>1. Len(s) \in Nat /\ Len(x) \in Nat /\ Len(x) >= 1
  OBVIOUS
<1>2. a.level \in Nat /\ a.dev = 0 /\ b.dev = 0 /\ depth(s) = a.level /\ n = width(a.level)
  BY DEF Mode, At, settled
<1>3. Placed(s, x[1])
  <2>1. CASE a.line = "busy"
    BY <2>1 DEF Placed, At
  <2>2. CASE a.line # "busy"
    <3>1. a.line = "short" /\ a.r = 0
      BY <2>2 DEF settled
    <3>2. x[1] # Blank /\ x[1] # CloseBrace
      BY <1>1, <2>2 DEF plain
    <3>3. is(x[1], CloseBrace) = 0
      BY <3>2 DEF is
    <3>4. ASSUME NEW p \in 1..(Len(s) + 1), p \in LastBlank(s)
          PROVE  Len(s) + 1 - p = width(depth(s) - is(x[1], CloseBrace))
      <4>1. Len(s) + 1 - p + 0 = n
        BY <3>1, <3>4 DEF At
      <4>2. depth(s) - is(x[1], CloseBrace) = a.level
        BY <1>2, <3>3
      <4> QED
        BY <1>1, <1>2, <4>1, <4>2
    <3> QED
      BY <3>2, <3>4 DEF Placed
  <2> QED
    BY <2>1, <2>2
<1>4. WellIndented(s \o x)
  BY <1>1, <1>3, JoinIndented DEF plain
<1>5. depth(s \o x) = depth(s)
  BY DepthJoin DEF plain
<1>6. LastBlank(s \o x) = {}
  <2>1. ASSUME NEW p \in LastBlank(s \o x) PROVE FALSE
    <3>1. p \in LastBlank(s) /\ x[1] = Blank
      BY <1>1, <2>1, LastBlankJoin DEF plain
    <3> QED
      BY <3>1 DEF At
  <2> QED
    BY <2>1
<1>7. b.line # "empty"
  BY DEF settled
<1>8. At(b, s \o x, n)
  BY <1>2, <1>5, <1>6, <1>7 DEF At
<1> QED
  BY <1>4, <1>8

(* A blank of the indentation.                                              *)
LEMMA AtBlank ==
    ASSUME NEW s \in Seq(Chars), NEW n, NEW a \in Mode, NEW b \in Mode,
           At(a, s, n), WellIndented(s),
           a.level = b.level, a.dev = b.dev, a.line = "short", b.line = "short", a.r = b.r + 1
    PROVE  WellIndented(s \o <<Blank>>) /\ At(b, s \o <<Blank>>, n)
<1> DEFINE x == <<Blank>>
<1>1. Len(s) \in Nat /\ a.level \in Nat /\ n \in Nat /\ b.r \in Nat
  BY WidthTyped DEF At, Mode
<1>2. Blank \in Chars /\ x \in Seq(Chars) /\ Len(x) = 1 /\ Len(s \o x) = Len(s) + 1
  <2>1. Blank \in Chars
    BY OwnChars
  <2> QED
    BY <2>1
<1>3. \A i \in 1..Len(x) : x[i] # Newline /\ x[i] # OpenBrace /\ x[i] # CloseBrace
  BY BraceChars, OtherChars
<1> HIDE DEF x
<1>4. WellIndented(s \o x)
  BY <1>2, JoinInvisible DEF x
<1>5. depth(s \o x) = depth(s)
  BY <1>2, <1>3, DepthJoin
<1>6. ASSUME NEW p \in LastBlank(s \o x)
      PROVE  Len(s \o x) + 1 - p + b.r = n
  <2>1. p \in LastBlank(s)
    BY <1>2, <1>3, LastBlankJoin
  <2>2. Len(s) + 1 - p + a.r = n
    BY <2>1 DEF At
  <2>3. p \in Nat
    BY <2>1 DEF LastBlank
  <2> QED
    BY <1>1, <1>2, <2>2, <2>3
<1> QED
  BY <1>4, <1>5, <1>6 DEF At, x

LEMMA AtNewline ==
    ASSUME NEW s \in Seq(Chars), NEW n, NEW a \in Mode, NEW b \in Mode,
           At(a, s, n), WellIndented(s),
           a.level = b.level, a.dev = b.dev, b.line = "empty"
    PROVE  WellIndented(s \o <<Newline>>) /\ At(b, s \o <<Newline>>, n)
<1> DEFINE x == <<Newline>>
<1>2. Newline \in Chars /\ x \in Seq(Chars) /\ Len(x) = 1 /\ Len(s \o x) = Len(s) + 1
      /\ (s \o x)[Len(s) + 1] = Newline
  <2>1. Newline \in Chars
    BY OwnChars
  <2> QED
    BY <2>1
<1>3. \A i \in 1..Len(x) : x[i] # OpenBrace /\ x[i] # CloseBrace
  BY BraceChars
<1> HIDE DEF x
<1>4. WellIndented(s \o x)
  BY <1>2, JoinInvisible DEF x
<1>5. depth(s \o x) = depth(s)
  BY <1>2, <1>3, DepthJoin
<1> QED
  BY <1>2, <1>4, <1>5 DEF At, x

(* The braces, each at a level less than what is in it.                     *)
LEMMA AtOpen ==
    ASSUME NEW s \in Seq(Chars), NEW n, NEW a \in Mode, NEW b \in Mode,
           At(a, s, n), WellIndented(s), settled(a),
           a.level = b.level, b.dev = 1, b.line = "free"
    PROVE  WellIndented(s \o <<OpenBrace>>) /\ At(b, s \o <<OpenBrace>>, n)
<1> DEFINE x == <<OpenBrace>>
<1>1. Len(s) \in Nat /\ a.level \in Nat /\ a.dev = 0 /\ depth(s) = a.level /\ n = width(a.level)
  BY DEF At, Mode, settled
<1>2. OpenBrace \in Chars
  BY Zenon, CharsAssumption DEF OpenBrace
<1>3. x \in Seq(Chars) /\ x # <<>> /\ x[1] = OpenBrace /\ Len(x) = 1
  BY <1>2
<1> HIDE DEF x
<1>4. \A i \in 1..Len(x) : x[i] # Newline /\ x[i] # CloseBrace
  BY <1>3, BraceChars
<1>5. Placed(s, x[1])
  <2>1. is(x[1], CloseBrace) = 0
    BY <1>3, BraceChars DEF is
  <2>2. ASSUME NEW p \in 1..(Len(s) + 1), p \in LastBlank(s)
        PROVE  Len(s) + 1 - p = width(depth(s) - is(x[1], CloseBrace))
    <3>1. a.line = "short" /\ a.r = 0
      BY <2>2 DEF settled, At
    <3>2. Len(s) + 1 - p + 0 = n
      BY <2>2, <3>1 DEF At
    <3>3. depth(s) - is(x[1], CloseBrace) = a.level
      BY <1>1, <2>1
    <3> QED
      BY <1>1, <3>2, <3>3
  <2> QED
    BY <1>3, <2>2, BraceChars DEF Placed
<1>6. WellIndented(s \o x)
  BY <1>3, <1>4, <1>5, JoinIndented
<1>7. depth(s \o x) = depth(s) + 1
  BY DepthBrace DEF x
<1> QED
  BY <1>1, <1>6, <1>7 DEF At, x

LEMMA AtClose ==
    ASSUME NEW s \in Seq(Chars), NEW n, NEW a \in Mode, NEW b \in Mode,
           At(a, s, n), WellIndented(s), a.line = "short", a.r = 0, a.dev = 1,
           a.level = b.level, settled(b)
    PROVE  WellIndented(s \o <<CloseBrace>>) /\ At(b, s \o <<CloseBrace>>, n)
<1> DEFINE x == <<CloseBrace>>
<1>1. Len(s) \in Nat /\ a.level \in Nat /\ depth(s) = a.level + 1 /\ n = width(a.level)
  BY DEF At, Mode
<1>2. CloseBrace \in Chars
  BY Zenon, CharsAssumption DEF CloseBrace
<1>3. x \in Seq(Chars) /\ x # <<>> /\ x[1] = CloseBrace /\ Len(x) = 1
      /\ s \o x \in Seq(Chars) /\ Len(s \o x) = Len(s) + 1 /\ (s \o x)[Len(s) + 1] = CloseBrace
  BY <1>2
<1> HIDE DEF x
<1>4. \A i \in 1..Len(x) : x[i] # Newline /\ ~(i > 1)
  BY <1>3, BraceChars
<1>5. Placed(s, x[1])
  <2>1. is(x[1], CloseBrace) = 1
    BY <1>3 DEF is
  <2>2. ASSUME NEW p \in 1..(Len(s) + 1), p \in LastBlank(s)
        PROVE  Len(s) + 1 - p = width(depth(s) - is(x[1], CloseBrace))
    <3>2. Len(s) + 1 - p + 0 = n
      BY <2>2 DEF At
    <3>3. depth(s) - is(x[1], CloseBrace) = a.level
      BY <1>1, <2>1
    <3> QED
      BY <1>1, <3>2, <3>3
  <2> QED
    BY <1>3, <2>2, BraceChars DEF Placed
<1>6. WellIndented(s \o x)
  BY <1>3, <1>4, <1>5, JoinIndented
<1>7. depth(s \o x) = depth(s) - 1
  BY DepthBrace DEF x
<1>8. LastBlank(s \o x) = {}
  <2>1. s \o x # <<>>
    BY <1>1, <1>3
  <2> QED
    BY <1>3, <2>1, BraceChars, LastBlankVisible
<1>9. b.dev = 0 /\ b.line # "empty"
  BY DEF settled
<1>10. depth(s \o x) = b.level + b.dev
  BY <1>1, <1>7, <1>9
<1>11. At(b, s \o x, n)
  BY <1>1, <1>8, <1>9, <1>10 DEF At
<1> QED
  BY <1>6, <1>11 DEF x

(* A text that is cut back to what is visible, or to its last line that is  *)
(* not blank.                                                               *)
LEMMA AtStripped ==
    ASSUME NEW s \in Seq(Chars), NEW n, NEW k \in 0..Len(s), NEW a \in Mode, NEW b \in Mode,
           At(a, s, n), WellIndented(s), settled(a), settled(b), a.level = b.level, b.line = "short",
           \A i \in (k + 1)..Len(s) : s[i] \in {Blank, Newline},
           k > 0 => s[k] \notin {Blank, Newline}
    PROVE  WellIndented(SubSeq(s, 1, k)) /\ At(b, SubSeq(s, 1, k), n)
<1> DEFINE t == SubSeq(s, 1, k)
<1>1. t \in Seq(Chars) /\ Len(t) = k /\ k \in Nat /\ \A i \in 1..k : t[i] = s[i]
  BY CutIs
<1>2. depth(t) = depth(s)
  BY DepthCut
<1>3. WellIndented(t)
  BY CutIndented
<1> HIDE DEF t
<1>4. /\ a.level \in Nat /\ a.dev = 0 /\ b.dev = 0 /\ b.r = 0
      /\ depth(t) = a.level /\ n = width(a.level) /\ n \in Nat
  BY <1>2, WidthTyped DEF At, Mode, settled
<1>5. ASSUME NEW p \in LastBlank(t) PROVE Len(t) + 1 - p + b.r = n
  <2>1. CASE k > 0
    <3>1. t # <<>> /\ t[Len(t)] \notin {Blank, Newline}
      BY <1>1, <2>1
    <3> QED
      BY <1>1, <1>5, <3>1, LastBlankVisible
  <2>2. CASE k = 0
    <3>1. t = <<>>
      BY <1>1, <2>2
    <3>2. a.level = 0
      BY <1>4, <3>1, DepthEmpty
    <3>3. p = 1
      BY <1>1, <1>5, <2>2 DEF LastBlank
    <3> QED
      BY <1>1, <1>4, <2>2, <3>2, <3>3, WidthZero
  <2> QED
    BY <1>1, <2>1, <2>2
<1>6. At(b, t, n)
  BY <1>4, <1>5 DEF At
<1> QED
  BY <1>3, <1>6 DEF t

LEMMA AtCut ==
    ASSUME NEW s \in Seq(Chars), NEW n, NEW k \in 0..Len(s), NEW a \in Mode, NEW b \in Mode,
           At(a, s, n), WellIndented(s), a.level = b.level, a.dev = b.dev,
           \A i \in (k + 1)..Len(s) : s[i] = Blank,
           \/ b.line = "free"
           \/ b.line = "empty" /\ (k > 0 => s[k] = Newline)
    PROVE  WellIndented(SubSeq(s, 1, k)) /\ At(b, SubSeq(s, 1, k), n)
<1> DEFINE t == SubSeq(s, 1, k)
<1>1. t \in Seq(Chars) /\ Len(t) = k /\ k \in Nat /\ \A i \in 1..k : t[i] = s[i]
  BY CutIs
<1>2. depth(t) = depth(s)
  BY DepthCut
<1>3. WellIndented(t)
  BY CutIndented
<1> HIDE DEF t
<1>4. ASSUME b.line = "empty" PROVE t = <<>> \/ t[Len(t)] = Newline
  <2>1. CASE k = 0
    BY <1>1, <2>1
  <2>2. CASE k > 0
    BY <1>1, <1>4, <2>2
  <2> QED
    BY <1>1, <2>1, <2>2
<1>5. At(b, t, n)
  BY <1>2, <1>4 DEF At
<1> QED
  BY <1>3, <1>5 DEF t

LEMMA AtBackup ==
    ASSUME NEW s \in Seq(Chars), NEW n, NEW a \in Mode, NEW b \in Mode,
           At(a, s, n), WellIndented(s), settled(b), a.dev = 0, a.level = b.level, a.line = "busy",
           s # <<>>, s[Len(s)] = Blank
    PROVE  WellIndented(SubSeq(s, 1, Len(s) - 1)) /\ At(b, SubSeq(s, 1, Len(s) - 1), n)
<1> DEFINE k == Len(s) - 1
           t == SubSeq(s, 1, k)
<1>1. Len(s) \in Nat /\ k \in 0..Len(s) /\ \A i \in (k + 1)..Len(s) : i = Len(s)
  OBVIOUS
<1>2. depth(t) = depth(s)
  BY <1>1, DepthCut
<1>3. WellIndented(t)
  BY <1>1, CutIndented
<1>4. LastBlank(t) = {}
  BY LastBlankBackup DEF At
<1> HIDE DEF t
<1>5. b.dev = 0 /\ b.line # "empty"
  BY DEF settled
<1>6. At(b, t, n)
  BY <1>2, <1>4, <1>5 DEF At
<1> QED
  BY <1>3, <1>6 DEF t

(* The indentation begins, and is complete.                                 *)
LEMMA AtIndent ==
    ASSUME NEW s \in Seq(Chars), NEW n, NEW a \in Mode, NEW b \in Mode, At(a, s, n),
           a.level = b.level, a.dev = b.dev, a.line = "empty", b.line = "short", b.r = n
    PROVE  At(b, s, n)
<1>1. Len(s) \in Nat /\ n \in Nat
  BY WidthTyped DEF At, Mode
<1>2. ASSUME NEW p \in LastBlank(s) PROVE Len(s) + 1 - p + b.r = n
  <2>1. p = Len(s) + 1
    BY <1>2, LastBlankNewline DEF At
  <2> QED
    BY <1>1, <2>1
<1> QED
  BY <1>2 DEF At

(* _n_ changes together with the number of braces that it counts.           *)
LEMMA AtDeeper ==
    ASSUME NEW s \in Seq(Chars), NEW n, NEW a \in Mode, NEW b \in Mode,
           b.level = a.level + 1, a.dev = 1, b.dev = 0
    PROVE  /\ b.line = "free" /\ At(a, s, n) => At(b, s, n + INDENT_WIDTH)
           /\ a.line = "free" /\ At(b, s, n) => At(a, s, n - INDENT_WIDTH)
<1>1. a.level \in Nat /\ b.level \in Nat /\ width(b.level) = width(a.level) + INDENT_WIDTH
  BY WidthNext DEF Mode
<1>2. width(a.level) \in Nat /\ INDENT_WIDTH \in Nat
  BY <1>1, WidthTyped, SizesAssumption
<1>3. ASSUME b.line = "free", At(a, s, n) PROVE At(b, s, n + INDENT_WIDTH)
  <2>1. n + INDENT_WIDTH = width(b.level)
    BY <1>1, <1>3 DEF At
  <2>2. depth(s) = b.level + b.dev
    BY <1>1, <1>3 DEF At
  <2> QED
    BY <1>3, <2>1, <2>2 DEF At
<1>4. ASSUME a.line = "free", At(b, s, n) PROVE At(a, s, n - INDENT_WIDTH)
  <2>1. n - INDENT_WIDTH = width(a.level)
    BY <1>1, <1>2, <1>4 DEF At
  <2>2. depth(s) = a.level + a.dev
    BY <1>1, <1>4 DEF At
  <2> QED
    BY <1>4, <2>1, <2>2 DEF At
<1> QED
  BY <1>3, <1>4

-----------------------------------------------------------------------------
(* The text in the buffer.                                                  *)
text(b) == [i \in 1..b.cur |-> b.mem[i - 1]]

LEMMA TextTyped ==
    ASSUME NEW b, Holds(b)
    PROVE  text(b) \in Seq(Chars) /\ Len(text(b)) = b.cur /\ b.cur \in Nat
<1>1. b.size \in Nat /\ b.cur \in Nat /\ b.cur < b.size /\ b.mem \in Memory(b.size)
  BY DEF Holds, TypedBuffer
<1>2. ASSUME NEW i \in 1..b.cur PROVE b.mem[i - 1] \in Chars
  <2>1. i - 1 \in 0..(b.cur - 1) /\ i - 1 \in 0..(b.size - 1)
    BY <1>1
  <2> QED
    BY <1>1, <2>1 DEF Holds, Memory
<1> QED
  BY <1>1, <1>2 DEF text

LEMMA TextResized ==
    ASSUME NEW b, Holds(b), NEW size \in Nat, b.size <= size
    PROVE  text(resized(b, size)) = text(b)
<1>1. b.size \in Nat /\ b.cur \in Nat /\ b.cur < b.size
  BY DEF Holds, TypedBuffer
<1>2. ASSUME NEW i \in 1..b.cur PROVE copied(b, size)[i - 1] = b.mem[i - 1]
  <2>1. i - 1 \in 0..(size - 1) /\ i - 1 < b.size
    BY <1>1
  <2>2. \A j \in 0..(i - 1) : b.mem[j] # NUL
    BY <1>1 DEF Holds
  <2> QED
    BY <2>1, <2>2 DEF copied
<1> QED
  BY <1>1, <1>2 DEF text, resized

LEMMA TextWritten ==
    ASSUME NEW b, Holds(b), NEW at \in 0..b.cur, NEW s \in Seq(Chars), at + Len(s) < b.size
    PROVE  text(written(b, at, s)) = SubSeq(text(b), 1, at) \o s
<1>1. b.size \in Nat /\ b.cur \in Nat /\ b.cur < b.size /\ b.mem \in Memory(b.size)
  BY DEF Holds, TypedBuffer
<1>2. /\ text(b) \in Seq(Chars) /\ Len(text(b)) = b.cur
      /\ \A i \in 1..b.cur : text(b)[i] = b.mem[i - 1]
  BY TextTyped DEF text
<1>3. Len(s) \in Nat /\ at \in Nat /\ at <= b.cur
  BY <1>1
<1> DEFINE w == written(b, at, s)
           u == SubSeq(text(b), 1, at)
           t == u \o s
<1>4. u \in Seq(Chars) /\ Len(u) = at /\ \A i \in 1..at : u[i] = text(b)[i]
  BY <1>2, CutIs
<1> HIDE DEF u
<1>5. /\ t \in Seq(Chars) /\ Len(t) = at + Len(s) /\ \A i \in 1..at : t[i] = u[i]
      /\ \A i \in (at + 1)..(at + Len(s)) : t[i] = s[i - at]
  BY <1>3, <1>4
<1> HIDE DEF t
<1>6. w.cur = at + Len(s)
  BY DEF written
<1>7. ASSUME NEW i \in 1..(at + Len(s)) PROVE w.mem[i - 1] = t[i]
  <2>1. i - 1 \in DOMAIN b.mem /\ i - 1 # at + Len(s)
    BY <1>1, <1>3 DEF Memory
  <2>2. CASE i <= at
    <3>1. w.mem[i - 1] = b.mem[i - 1]
      BY <1>3, <2>1, <2>2 DEF written
    <3>2. t[i] = b.mem[i - 1]
      <4>1. i \in 1..at /\ i \in 1..b.cur
        BY <1>1, <1>3, <2>2
      <4> QED
        BY <1>2, <1>4, <1>5, <4>1
    <3> QED
      BY <3>1, <3>2
  <2>3. CASE i > at
    <3>1. w.mem[i - 1] = s[(i - 1) - at + 1]
      BY <1>3, <2>1, <2>3 DEF written
    <3>2. t[i] = s[i - at] /\ (i - 1) - at + 1 = i - at
      BY <1>3, <1>5, <2>3
    <3> QED
      BY <3>1, <3>2
  <2> QED
    BY <1>3, <2>2, <2>3
<1> HIDE DEF w
<1>8. text(w) = t
  <2>1. text(w) = [i \in 1..(at + Len(s)) |-> t[i]]
    BY <1>6, <1>7 DEF text
  <2> QED
    BY <1>3, <1>5, <2>1
<1> QED
  BY <1>8 DEF w, t, u

LEMMA TextAppended ==
    ASSUME NEW b, Holds(b), NEW s \in Seq(Chars), b.cur + Len(s) < b.size
    PROVE  text(written(b, b.cur, s)) = text(b) \o s
<1>1. text(b) \in Seq(Chars) /\ Len(text(b)) = b.cur /\ b.cur \in Nat
  BY TextTyped
<1>2. SubSeq(text(b), 1, b.cur) = text(b)
  BY <1>1
<1>3. b.cur \in 0..b.cur
  BY <1>1
<1> QED
  BY <1>2, <1>3, TextWritten

LEMMA TextCutAt ==
    ASSUME NEW b, Holds(b), NEW k \in 0..b.cur
    PROVE  text(written(b, k, <<>>)) = SubSeq(text(b), 1, k)
<1>1. text(b) \in Seq(Chars) /\ Len(text(b)) = b.cur /\ b.cur \in Nat
  BY TextTyped
<1>2. <<>> \in Seq(Chars) /\ Len(<<>>) = 0 /\ k + 0 < b.size
  BY <1>1 DEF Holds, TypedBuffer
<1>3. SubSeq(text(b), 1, k) \in Seq(Chars)
  BY <1>1, CutIs
<1>4. SubSeq(text(b), 1, k) \o <<>> = SubSeq(text(b), 1, k)
  BY <1>3
<1> QED
  BY <1>2, <1>4, TextWritten

LEMMA TextStripped ==
    ASSUME NEW b, Holds(b), NEW S
    PROVE  \E k \in 0..Len(text(b)) :
              /\ text(stripped(b, S)) = SubSeq(text(b), 1, k)
              /\ \A i \in (k + 1)..Len(text(b)) : text(b)[i] \in S
              /\ k > 0 => text(b)[k] \notin S
              /\ stripped(b, S).cur = k
              /\ k > 0 => stripped(b, S).mem[k - 1] = text(b)[k]
<1>1. /\ text(b) \in Seq(Chars) /\ Len(text(b)) = b.cur /\ b.cur \in Nat
      /\ \A i \in 1..b.cur : text(b)[i] = b.mem[i - 1]
  BY TextTyped DEF text
<1>2. PICK k \in 0..b.cur : /\ stripped(b, S) = written(b, k, <<>>)
                            /\ \A i \in k..(b.cur - 1) : b.mem[i] \in S
                            /\ k > 0 => b.mem[k - 1] \notin S
  BY StrippedIs
<1>3. text(stripped(b, S)) = SubSeq(text(b), 1, k)
  BY <1>2, TextCutAt
<1>4. \A i \in (k + 1)..b.cur : text(b)[i] \in S
  <2>1. \A i \in (k + 1)..b.cur : i \in 1..b.cur /\ i - 1 \in k..(b.cur - 1)
    BY <1>1
  <2> QED
    BY <1>1, <1>2, <2>1
<1>5. k > 0 => text(b)[k] = b.mem[k - 1]
  BY <1>1
<1>6. Len(<<>>) = 0 /\ k + 0 = k
  OBVIOUS
<1>7. stripped(b, S).cur = k
  BY <1>2, <1>6 DEF written
<1>8. k > 0 => stripped(b, S).mem[k - 1] = text(b)[k]
  <2>1. SUFFICES ASSUME k > 0 PROVE stripped(b, S).mem[k - 1] = b.mem[k - 1]
    BY <1>5
  <2>2. k - 1 \in DOMAIN b.mem /\ k - 1 # k /\ ~(k <= k - 1)
    BY <1>1, <2>1 DEF Holds, TypedBuffer, Memory
  <2> QED
    BY <1>2, <1>6, <2>2 DEF written
<1> QED
  BY <1>1, <1>2, <1>3, <1>4, <1>5, <1>7, <1>8

-----------------------------------------------------------------------------
(* What each function may start with, and what it leaves behind.            *)
inline(t)     == t.fun \in tokens /\ (t.fun = "Ident" => t.text # <<>>)
Between(a, b) == settled(a) /\ settled(b) /\ a.level = b.level
Same(a, b)    == a.level = b.level /\ a.dev = b.dev

PPLeads(a, t, b) == Between(a, b) /\ (b.line = "busy" => inline(t))
RenderCLeads(a, c, b) ==
    /\ settled(a) /\ settled(b) /\ c # Newline
    /\ c = OpenBrace  => b.level = a.level + 1
    /\ c = CloseBrace => a.level = b.level + 1
    /\ c \notin {OpenBrace, CloseBrace} => a.level = b.level
    /\ c \in {OpenBrace, CloseBrace, ";"} => b.line = "short"
    /\ c = Blank => a.line = "busy"
RenderSLeads(a, s, b) ==
    /\ Between(a, b)
    /\ s = <<>> => b.line = "short"
    /\ s # <<>> => (\A i \in 1..Len(s) : plain(s[i])) /\ (s[1] = Blank => a.line = "busy")
AppendSLeads(a, s, b) == s # <<>> /\ RenderSLeads(a, s, b)
EscapeCLeads(a, c, b) == Between(a, b) /\ a.line = "busy" /\ escapable(c)
AppendCLeads(a, c, b) ==
    \/ plain(c) /\ Between(a, b) /\ (c = Blank => a.line = "busy")
    \/ c = Blank /\ Same(a, b) /\ a.line = "short" /\ b.line = "short" /\ a.r = b.r + 1
    \/ c = Newline /\ Same(a, b) /\ b.line = "empty"
    \/ c = OpenBrace /\ settled(a) /\ a.level = b.level /\ b.dev = 1 /\ b.line = "free"
    \/ /\ c = CloseBrace /\ a.line = "short" /\ a.r = 0 /\ a.dev = 1
       /\ a.level = b.level /\ settled(b)
PlainLeads(a, f, b) ==
    /\ f = "removeTrailingWhitespace" => Between(a, b) /\ b.line = "short"
    /\ f = "backup"      => Between(a, b) /\ a.line = "busy"
    /\ f = "onEmptyLine" => Same(a, b) /\ b.line = "short" /\ b.r = 0
    /\ f = "indent"      => Same(a, b) /\ a.line = "empty" /\ b.line = "short" /\ b.r = 0
    /\ f = "indentBy"    => a.dev = 1 /\ b.dev = 0 /\ b.level = a.level + 1 /\ b.line = "free"

Leads(a, f, b) ==
    /\ f[1] = "pp"         => PPLeads(a, f[2], b)
    /\ f[1] = "renderC"    => RenderCLeads(a, f[2], b)
    /\ f[1] = "renderS"    => RenderSLeads(a, f[2], b)
    /\ f[1] = "bufAppendS" => AppendSLeads(a, f[2], b)
    /\ f[1] = "bufAppendC" => AppendCLeads(a, f[2], b)
    /\ f[1] = "bufEscapeC" => EscapeCLeads(a, f[2], b)
    /\ PlainLeads(a, f[1], b)

LEMMA LeadsAre ==
    ASSUME NEW a, NEW b
    PROVE  /\ \A c : Leads(a, append(c), b) <=> AppendCLeads(a, c, b)
           /\ \A c : Leads(a, <<"bufEscapeC", c>>, b) <=> EscapeCLeads(a, c, b)
           /\ \A c : Leads(a, <<"renderC", c>>, b) <=> RenderCLeads(a, c, b)
           /\ \A s : Leads(a, <<"bufAppendS", s>>, b) <=> AppendSLeads(a, s, b)
           /\ \A s : Leads(a, <<"renderS", s>>, b) <=> RenderSLeads(a, s, b)
           /\ \A t, i : Leads(a, <<"pp", t, i>>, b) <=> PPLeads(a, t, b)
           /\ \A f \in {"indent", "backup", "removeTrailingWhitespace", "onEmptyLine"} :
                 Leads(a, call(f), b) <=> PlainLeads(a, f, b)
           /\ Leads(a, <<"indentBy", 1>>, b) <=> PlainLeads(a, "indentBy", b)
<1>1. \A c : Leads(a, append(c), b) <=> AppendCLeads(a, c, b)
  BY DEF Leads, PlainLeads, append
<1>2. \A c : Leads(a, <<"bufEscapeC", c>>, b) <=> EscapeCLeads(a, c, b)
  BY DEF Leads, PlainLeads
<1>3. \A c : Leads(a, <<"renderC", c>>, b) <=> RenderCLeads(a, c, b)
  BY DEF Leads, PlainLeads
<1>4. \A s : Leads(a, <<"bufAppendS", s>>, b) <=> AppendSLeads(a, s, b)
  BY DEF Leads, PlainLeads
<1>5. \A s : Leads(a, <<"renderS", s>>, b) <=> RenderSLeads(a, s, b)
  BY DEF Leads, PlainLeads
<1>6. \A t, i : Leads(a, <<"pp", t, i>>, b) <=> PPLeads(a, t, b)
  BY DEF Leads, PlainLeads
<1>7. \A f \in {"indent", "backup", "removeTrailingWhitespace", "onEmptyLine"} :
         Leads(a, call(f), b) <=> PlainLeads(a, f, b)
  BY DEF Leads, call
<1>8. Leads(a, <<"indentBy", 1>>, b) <=> PlainLeads(a, "indentBy", b)
  BY DEF Leads
<1> QED
  BY <1>1, <1>2, <1>3, <1>4, <1>5, <1>6, <1>7, <1>8

(* The calls to come lead from a to b, through a mode between any two.      *)
Runs(a, fs, b) ==
    \E mu \in [0..Len(fs) -> Mode] :
        /\ mu[0] = a /\ mu[Len(fs)] = b
        /\ \A k \in 1..Len(fs) : Leads(mu[k - 1], fs[k], mu[k])

LEMMA RunsNone ==
    ASSUME NEW a \in Mode
    PROVE  Runs(a, <<>>, a)
<1> DEFINE mu == [k \in 0..0 |-> a]
<1>1. Len(<<>>) = 0 /\ mu \in [0..0 -> Mode] /\ mu[0] = a
  OBVIOUS
<1> HIDE DEF mu
<1> QED
  BY <1>1 DEF Runs

LEMMA RunsOne ==
    ASSUME NEW a \in Mode, NEW b \in Mode, NEW f, Leads(a, f, b)
    PROVE  Runs(a, <<f>>, b)
<1> DEFINE mu == [k \in 0..1 |-> IF k = 0 THEN a ELSE b]
<1>1. mu \in [0..1 -> Mode] /\ mu[0] = a /\ mu[1] = b
  OBVIOUS
<1>2. Len(<<f>>) = 1 /\ <<f>>[1] = f /\ \A k \in 1..1 : k = 1 /\ k - 1 = 0
  OBVIOUS
<1> HIDE DEF mu
<1>3. \A k \in 1..1 : Leads(mu[k - 1], <<f>>[k], mu[k])
  BY <1>1, <1>2
<1> QED
  BY <1>1, <1>2, <1>3 DEF Runs

LEMMA RunsJoin ==
    ASSUME NEW a \in Mode, NEW b \in Mode, NEW c \in Mode,
           NEW S, NEW fs \in Seq(S), NEW gs \in Seq(S), Runs(a, fs, b), Runs(b, gs, c)
    PROVE  Runs(a, fs \o gs, c)
<1> DEFINE m == Len(fs)
           n == Len(gs)
           hs == fs \o gs
<1>1. m \in Nat /\ n \in Nat /\ Len(hs) = m + n
  OBVIOUS
<1>2. \A k \in 1..m : hs[k] = fs[k]
  OBVIOUS
<1>3. \A k \in (m + 1)..(m + n) : hs[k] = gs[k - m]
  OBVIOUS
<1>4. PICK mu \in [0..m -> Mode] :
         mu[0] = a /\ mu[m] = b /\ \A k \in 1..m : Leads(mu[k - 1], fs[k], mu[k])
  BY DEF Runs
<1>5. PICK nu \in [0..n -> Mode] :
         nu[0] = b /\ nu[n] = c /\ \A k \in 1..n : Leads(nu[k - 1], gs[k], nu[k])
  BY DEF Runs
<1> HIDE DEF m, n, hs
<1> DEFINE xi == [k \in 0..(m + n) |-> IF k <= m THEN mu[k] ELSE nu[k - m]]
<1>6. xi \in [0..(m + n) -> Mode]
  <2>1. ASSUME NEW k \in 0..(m + n) PROVE (IF k <= m THEN mu[k] ELSE nu[k - m]) \in Mode
    <3>1. CASE k <= m
      BY <1>1, <1>4, <3>1
    <3>2. CASE k > m
      <4>1. k - m \in 0..n /\ ~(k <= m)
        BY <1>1, <3>2
      <4> QED
        BY <1>5, <4>1
    <3> QED
      BY <1>1, <3>1, <3>2
  <2> QED
    BY <2>1
<1>7. \A k \in 0..m : xi[k] = mu[k]
  BY <1>1
<1>8. \A k \in m..(m + n) : xi[k] = nu[k - m]
  <2>1. ASSUME NEW k \in m..(m + n) PROVE xi[k] = nu[k - m]
    <3>1. CASE k = m
      <4>1. k - m = 0 /\ k \in 0..m
        BY <1>1, <3>1
      <4> QED
        BY <1>4, <1>5, <1>7, <3>1, <4>1
    <3>2. CASE k > m
      BY <1>1, <3>2
    <3> QED
      BY <1>1, <3>1, <3>2
  <2> QED
    BY <2>1
<1> HIDE DEF xi
<1>9. xi[0] = a
  BY <1>1, <1>4, <1>7
<1>10. xi[m + n] = c
  <2>1. m + n \in m..(m + n) /\ (m + n) - m = n
    BY <1>1
  <2> QED
    BY <1>5, <1>8, <2>1
<1>11. ASSUME NEW k \in 1..(m + n) PROVE Leads(xi[k - 1], hs[k], xi[k])
  <2>1. CASE k <= m
    <3>1. k \in 1..m /\ k \in 0..m /\ k - 1 \in 0..m
      BY <1>1, <2>1
    <3> QED
      BY <1>2, <1>4, <1>7, <3>1
  <2>2. CASE k > m
    <3>1. /\ k \in (m + 1)..(m + n) /\ k \in m..(m + n) /\ k - 1 \in m..(m + n)
          /\ k - m \in 1..n /\ (k - 1) - m = (k - m) - 1
      BY <1>1, <2>2
    <3>2. Leads(nu[(k - m) - 1], gs[k - m], nu[k - m])
      BY <1>5, <3>1
    <3>3. xi[k - 1] = nu[(k - m) - 1] /\ xi[k] = nu[k - m] /\ hs[k] = gs[k - m]
      BY <1>3, <1>8, <3>1
    <3> QED
      BY <3>2, <3>3
  <2> QED
    BY <1>1, <2>1, <2>2
<1>12. Runs(a, hs, c)
  BY <1>1, <1>6, <1>9, <1>10, <1>11 DEF Runs
<1> QED
  BY <1>12 DEF hs

LEMMA RunsFirst ==
    ASSUME NEW a \in Mode, NEW c \in Mode, NEW S, NEW fs \in Seq(S), fs # <<>>, Runs(a, fs, c)
    PROVE  \E b \in Mode : Leads(a, fs[1], b) /\ Runs(b, Tail(fs), c)
<1> DEFINE n == Len(fs)
<1>1. n \in Nat /\ n >= 1 /\ Len(Tail(fs)) = n - 1 /\ n - 1 \in Nat
  OBVIOUS
<1>2. \A k \in 1..(n - 1) : Tail(fs)[k] = fs[k + 1]
  OBVIOUS
<1>3. PICK mu \in [0..n -> Mode] :
         mu[0] = a /\ mu[n] = c /\ \A k \in 1..n : Leads(mu[k - 1], fs[k], mu[k])
  BY DEF Runs
<1> HIDE DEF n
<1> DEFINE nu == [k \in 0..(n - 1) |-> mu[k + 1]]
<1>4. \A k \in 0..(n - 1) : k + 1 \in 0..n
  BY <1>1
<1>5. nu \in [0..(n - 1) -> Mode] /\ \A k \in 0..(n - 1) : nu[k] = mu[k + 1]
  BY <1>3, <1>4
<1> HIDE DEF nu
<1>6. mu[1] \in Mode /\ Leads(a, fs[1], mu[1])
  <2>1. 1 \in 0..n /\ 1 \in 1..n /\ 1 - 1 = 0
    BY <1>1
  <2> QED
    BY <1>3, <2>1
<1>7. nu[0] = mu[1]
  <2>1. 0 \in 0..(n - 1) /\ 0 + 1 = 1
    BY <1>1
  <2> QED
    BY <1>5, <2>1
<1>8. nu[n - 1] = c
  <2>1. n - 1 \in 0..(n - 1) /\ (n - 1) + 1 = n
    BY <1>1
  <2> QED
    BY <1>3, <1>5, <2>1
<1>9. ASSUME NEW k \in 1..(n - 1) PROVE Leads(nu[k - 1], Tail(fs)[k], nu[k])
  <2>1. k + 1 \in 1..n /\ k \in 0..(n - 1) /\ k - 1 \in 0..(n - 1)
        /\ (k - 1) + 1 = k /\ (k + 1) - 1 = k
    BY <1>1
  <2>2. Leads(mu[(k + 1) - 1], fs[k + 1], mu[k + 1])
    BY <1>3, <2>1
  <2>3. nu[k - 1] = mu[k] /\ nu[k] = mu[k + 1]
    BY <1>5, <2>1
  <2> QED
    BY <1>2, <2>1, <2>2, <2>3
<1>10. Runs(mu[1], Tail(fs), c)
  BY <1>1, <1>5, <1>7, <1>8, <1>9 DEF Runs
<1> QED
  BY <1>6, <1>10

LEMMA TwoJoined ==
    ASSUME NEW f1 \in Call, NEW f2 \in Call
    PROVE  <<f1, f2>> = <<f1>> \o <<f2>>
<1> DEFINE t == <<f1>> \o <<f2>>
<1>1. t \in Seq(Call) /\ Len(t) = 2 /\ t[1] = f1 /\ t[2] = f2
  OBVIOUS
<1> HIDE DEF t
<1>2. t = <<f1, f2>>
  BY <1>1
<1> QED
  BY <1>2 DEF t

(* Some calls in a row.                                                     *)
LEMMA RunsMore ==
    ASSUME NEW f1 \in Call, NEW f2 \in Call, NEW f3 \in Call, NEW f4 \in Call, NEW f5 \in Call,
           NEW m0 \in Mode, NEW m1 \in Mode, NEW m2 \in Mode, NEW m3 \in Mode, NEW m4 \in Mode,
           NEW m5 \in Mode, Leads(m0, f1, m1)
    PROVE  /\ Leads(m1, f2, m2) => Runs(m0, <<f1, f2>>, m2)
           /\ Leads(m1, f2, m2) /\ Leads(m2, f3, m3) => Runs(m0, <<f1, f2, f3>>, m3)
           /\ Leads(m1, f2, m2) /\ Leads(m2, f3, m3) /\ Leads(m3, f4, m4)
                 => Runs(m0, <<f1, f2, f3, f4>>, m4)
           /\ Leads(m1, f2, m2) /\ Leads(m2, f3, m3) /\ Leads(m3, f4, m4) /\ Leads(m4, f5, m5)
                 => Runs(m0, <<f1, f2, f3, f4, f5>>, m5)
<1>1. /\ <<f1>> \in Seq(Call) /\ <<f2>> \in Seq(Call) /\ <<f3>> \in Seq(Call)
      /\ <<f4>> \in Seq(Call) /\ <<f5>> \in Seq(Call)
      /\ <<f1, f2>> \in Seq(Call) /\ <<f1, f2, f3>> \in Seq(Call) /\ <<f1, f2, f3, f4>> \in Seq(Call)
  OBVIOUS
<1>2. <<f1, f2>> = <<f1>> \o <<f2>>
  BY TwoJoined
<1>3. <<f1, f2, f3>> = <<f1, f2>> \o <<f3>>
  OBVIOUS
<1>4. <<f1, f2, f3, f4>> = <<f1, f2, f3>> \o <<f4>>
  OBVIOUS
<1>5. <<f1, f2, f3, f4, f5>> = <<f1, f2, f3, f4>> \o <<f5>>
  OBVIOUS
<1>6. Runs(m0, <<f1>>, m1)
  BY RunsOne
<1>7. ASSUME Leads(m1, f2, m2) PROVE Runs(m0, <<f1, f2>>, m2)
  <2>1. Runs(m1, <<f2>>, m2)
    BY <1>7, RunsOne
  <2> QED
    BY <1>1, <1>2, <1>6, <2>1, RunsJoin
<1>8. ASSUME Leads(m1, f2, m2), Leads(m2, f3, m3) PROVE Runs(m0, <<f1, f2, f3>>, m3)
  <2>1. Runs(m2, <<f3>>, m3)
    BY <1>8, RunsOne
  <2> QED
    BY <1>1, <1>3, <1>7, <1>8, <2>1, RunsJoin
<1>9. ASSUME Leads(m1, f2, m2), Leads(m2, f3, m3), Leads(m3, f4, m4)
      PROVE  Runs(m0, <<f1, f2, f3, f4>>, m4)
  <2>1. Runs(m3, <<f4>>, m4)
    BY <1>9, RunsOne
  <2> QED
    BY <1>1, <1>4, <1>8, <1>9, <2>1, RunsJoin
<1>10. ASSUME Leads(m1, f2, m2), Leads(m2, f3, m3), Leads(m3, f4, m4), Leads(m4, f5, m5)
      PROVE  Runs(m0, <<f1, f2, f3, f4, f5>>, m5)
  <2>1. Runs(m4, <<f5>>, m5)
    BY <1>10, RunsOne
  <2> QED
    BY <1>1, <1>5, <1>9, <1>10, <2>1, RunsJoin
<1> QED
  BY <1>7, <1>8, <1>9, <1>10

-----------------------------------------------------------------------------
(* Each function does what it may: the calls that it makes lead from the new*)
(* text to where its caller goes on.                                        *)
Serves(b) ==
    /\ WellIndented(text(buf'))
    /\ \E fs \in Seq(Call), c \in Mode : Do(fs) /\ At(c, text(buf'), _n_') /\ Runs(c, fs, b)

LEMMA ServesNone ==
    ASSUME NEW b \in Mode, Do(<<>>), WellIndented(text(buf')), At(b, text(buf'), _n_')
    PROVE  Serves(b)
<1>1. <<>> \in Seq(Call)
  OBVIOUS
<1> QED
  BY <1>1, RunsNone DEF Serves

LEMMA PlainChars ==
    plain(Blank) /\ plain(Quote) /\ plain(Apostrophe) /\ plain(Backslash)
    /\ Blank # Quote /\ Blank # Apostrophe /\ Blank # Backslash
BY Zenon DEF plain, OpenBrace, CloseBrace, Blank, Newline, Quote, Apostrophe, Backslash

LEMMA bufAppendSServes ==
    ASSUME Holds(buf), calls \in Seq(Call), NEW a \in Mode, NEW b \in Mode,
           At(a, text(buf), _n_), WellIndented(text(buf)), Leads(a, calls[1], b), bufAppendS
    PROVE  Serves(b)
<1>1. calls # <<>> /\ arg \in Seq(Chars) /\ calls[1][1] = "bufAppendS"
  BY ArgTyped DEF bufAppendS, Calls
<1>2. AppendSLeads(a, arg, b)
  BY <1>1 DEF Leads, arg
<1>3. text(buf') = text(buf) \o arg
  BY <1>1, TextAppended DEF bufAppendS
<1>4. text(buf) \in Seq(Chars)
  BY TextTyped
<1>5. WellIndented(text(buf) \o arg) /\ At(b, text(buf) \o arg, _n_)
  BY <1>1, <1>2, <1>4, AtText DEF AppendSLeads, RenderSLeads, Between
<1> QED
  BY <1>3, <1>5, ServesNone DEF bufAppendS

LEMMA bufAppendCServes ==
    ASSUME Holds(buf), calls \in Seq(Call), NEW a \in Mode, NEW b \in Mode,
           At(a, text(buf), _n_), WellIndented(text(buf)), Leads(a, calls[1], b), bufAppendC
    PROVE  Serves(b)
<1>1. calls # <<>> /\ arg \in Chars /\ calls[1][1] = "bufAppendC"
  BY ArgTyped DEF bufAppendC, Calls
<1>2. AppendCLeads(a, arg, b)
  BY <1>1 DEF Leads, arg
<1> DEFINE larger == resized(buf, 2 * buf.size)
           w == IF full THEN larger ELSE buf
<1>3. Holds(w) /\ text(w) = text(buf) /\ w.cur + 1 < w.size
  <2>1. buf.size \in Nat /\ buf.cur \in Nat /\ buf.cur < buf.size
    BY DEF Holds, TypedBuffer
  <2>2. 2 * buf.size \in Nat /\ buf.size <= 2 * buf.size /\ buf.cur + 1 < 2 * buf.size
    BY <2>1
  <2>3. Holds(larger) /\ larger.size = 2 * buf.size /\ larger.cur = buf.cur /\ text(larger) = text(buf)
    BY <2>2, ResizedHolds, TextResized
  <2> HIDE DEF larger
  <2>4. CASE full
    BY <2>2, <2>3, <2>4
  <2>5. CASE ~full
    BY <2>1, <2>5 DEF full
  <2> QED
    BY <2>4, <2>5
<1>4. buf' = written(w, w.cur, <<arg>>)
  BY DEF bufAppendC
<1> HIDE DEF w
<1>5. <<arg>> \in Seq(Chars) /\ Len(<<arg>>) = 1 /\ <<arg>> # <<>> /\ <<arg>>[1] = arg
  BY <1>1
<1>6. text(buf') = text(buf) \o <<arg>>
  BY <1>3, <1>4, <1>5, TextAppended
<1>7. text(buf) \in Seq(Chars)
  BY TextTyped
<1>8. WellIndented(text(buf) \o <<arg>>) /\ At(b, text(buf) \o <<arg>>, _n_)
  <2>1. CASE plain(arg) /\ Between(a, b) /\ (arg = Blank => a.line = "busy")
    <3>1. \A i \in 1..Len(<<arg>>) : plain(<<arg>>[i])
      BY <1>5, <2>1
    <3> QED
      BY <1>5, <1>7, <2>1, <3>1, AtText DEF Between
  <2>2. CASE arg = Blank /\ Same(a, b) /\ a.line = "short" /\ b.line = "short" /\ a.r = b.r + 1
    BY <1>7, <2>2, AtBlank DEF Same
  <2>3. CASE arg = Newline /\ Same(a, b) /\ b.line = "empty"
    BY <1>7, <2>3, AtNewline DEF Same
  <2>4. CASE arg = OpenBrace /\ settled(a) /\ a.level = b.level /\ b.dev = 1 /\ b.line = "free"
    BY <1>7, <2>4, AtOpen
  <2>5. CASE /\ arg = CloseBrace /\ a.line = "short" /\ a.r = 0 /\ a.dev = 1
             /\ a.level = b.level /\ settled(b)
    BY <1>7, <2>5, AtClose
  <2> QED
    BY <1>2, <2>1, <2>2, <2>3, <2>4, <2>5 DEF AppendCLeads
<1> QED
  BY <1>6, <1>8, ServesNone DEF bufAppendC

LEMMA backupServes ==
    ASSUME Holds(buf), calls \in Seq(Call), NEW a \in Mode, NEW b \in Mode,
           At(a, text(buf), _n_), WellIndented(text(buf)), Leads(a, calls[1], b), backup
    PROVE  Serves(b)
<1>1. Between(a, b) /\ a.line = "busy"
  BY DEF backup, Calls, Leads, PlainLeads
<1>2. Do(<<>>) /\ _n_' = _n_
  BY DEF backup, Strip
<1>3. text(buf) \in Seq(Chars) /\ Len(text(buf)) = buf.cur /\ buf.cur \in Nat
      /\ \A i \in 1..buf.cur : text(buf)[i] = buf.mem[i - 1]
  BY TextTyped DEF text
<1>4. CASE buf.cur > 0 /\ buf.mem[buf.cur - 1] = Blank
  <2>1. buf' = written(buf, buf.cur - 1, <<>>) /\ buf.cur - 1 \in 0..buf.cur
    BY <1>3, <1>4 DEF backup, Strip
  <2>2. text(buf') = SubSeq(text(buf), 1, Len(text(buf)) - 1)
    BY <1>3, <2>1, TextCutAt
  <2>3. text(buf) # <<>> /\ text(buf)[Len(text(buf))] = Blank
    BY <1>3, <1>4
  <2>4. WellIndented(text(buf')) /\ At(b, text(buf'), _n_)
    BY <1>1, <1>3, <2>2, <2>3, AtBackup DEF Between, settled
  <2> QED
    BY <1>2, <2>4, ServesNone
<1>5. CASE ~(buf.cur > 0 /\ buf.mem[buf.cur - 1] = Blank)
  <2>1. buf' = buf
    BY <1>5 DEF backup, Strip
  <2>2. At(b, text(buf), _n_)
    BY <1>1, <1>3, AtSettled DEF Between, settled
  <2> QED
    BY <1>2, <2>1, <2>2, ServesNone
<1> QED
  BY <1>4, <1>5

LEMMA removeTrailingWhitespaceServes ==
    ASSUME Holds(buf), calls \in Seq(Call), NEW a \in Mode, NEW b \in Mode,
           At(a, text(buf), _n_), WellIndented(text(buf)), Leads(a, calls[1], b),
           removeTrailingWhitespace
    PROVE  Serves(b)
<1>1. Between(a, b) /\ b.line = "short"
  BY DEF removeTrailingWhitespace, Calls, Leads, PlainLeads
<1>2. Do(<<>>) /\ _n_' = _n_ /\ buf' = stripped(buf, {Blank, Newline})
  BY DEF removeTrailingWhitespace, Strip
<1>3. text(buf) \in Seq(Chars)
  BY TextTyped
<1>4. PICK k \in 0..Len(text(buf)) :
         /\ text(buf') = SubSeq(text(buf), 1, k)
         /\ \A i \in (k + 1)..Len(text(buf)) : text(buf)[i] \in {Blank, Newline}
         /\ k > 0 => text(buf)[k] \notin {Blank, Newline}
  BY <1>2, TextStripped
<1>5. WellIndented(text(buf')) /\ At(b, text(buf'), _n_)
  BY <1>1, <1>3, <1>4, AtStripped DEF Between
<1> QED
  BY <1>2, <1>5, ServesNone

LEMMA onEmptyLineServes ==
    ASSUME Holds(buf), calls \in Seq(Call), NEW a \in Mode, NEW b \in Mode,
           At(a, text(buf), _n_), WellIndented(text(buf)), Leads(a, calls[1], b), onEmptyLine
    PROVE  Serves(b)
<1>1. Same(a, b) /\ b.line = "short" /\ b.r = 0
  BY DEF onEmptyLine, Calls, Leads, PlainLeads
<1> DEFINE w == stripped(buf, {Blank})
           free  == M(a.level, a.dev, "free", 0)
           empty == M(a.level, a.dev, "empty", 0)
<1>2. buf' = w /\ _n_' = _n_
  BY DEF onEmptyLine
<1>3. text(buf) \in Seq(Chars)
  BY TextTyped
<1>4. PICK k \in 0..Len(text(buf)) :
         /\ text(w) = SubSeq(text(buf), 1, k)
         /\ \A i \in (k + 1)..Len(text(buf)) : text(buf)[i] \in {Blank}
         /\ k > 0 => text(buf)[k] \notin {Blank}
         /\ w.cur = k
         /\ k > 0 => w.mem[k - 1] = text(buf)[k]
  BY TextStripped
<1>5. a.level \in Nat /\ a.dev \in {0, 1}
  BY DEF Mode
<1>6. /\ free \in Mode /\ free.level = a.level /\ free.dev = a.dev /\ free.line = "free"
      /\ empty \in Mode /\ empty.level = a.level /\ empty.dev = a.dev /\ empty.line = "empty"
  BY <1>5 DEF M, Mode
<1> HIDE DEF w, free, empty
<1>7. /\ append(Newline) \in Call /\ call("indent") \in Call
      /\ <<append(Newline), call("indent")>> \in Seq(Call) /\ <<call("indent")>> \in Seq(Call)
  <2>1. append(Newline) \in Call /\ call("indent") \in Call
    BY CallTyped, OwnChars
  <2> QED
    BY <2>1
<1>8. Leads(empty, call("indent"), b)
  <2>1. PlainLeads(empty, "indent", b)
    BY <1>1, <1>6 DEF PlainLeads, Same
  <2> QED
    BY <2>1, LeadsAre
<1>9. CASE k > 0 /\ text(buf)[k] # Newline
  <2>1. Do(<<append(Newline), call("indent")>>)
    <3>1. w.cur > 0 /\ w.mem[w.cur - 1] # Newline
      BY <1>4, <1>9
    <3>2. Do(<<append(Newline)>> \o <<call("indent")>>)
      BY <3>1 DEF onEmptyLine, w
    <3>3. <<append(Newline)>> \o <<call("indent")>> = <<append(Newline), call("indent")>>
      BY <1>7, TwoJoined
    <3> QED
      BY <3>2, <3>3
  <2>2. Leads(free, append(Newline), empty)
    <3>1. AppendCLeads(free, Newline, empty)
      BY <1>6 DEF AppendCLeads, Same
    <3> QED
      BY <3>1, LeadsAre
  <2>3. Runs(free, <<append(Newline), call("indent")>>, b)
    BY <1>6, <1>7, <1>8, <2>2, RunsMore
  <2>4. WellIndented(text(w)) /\ At(free, text(w), _n_)
    BY <1>3, <1>4, <1>6, AtCut
  <2> QED
    BY <1>2, <1>6, <1>7, <2>1, <2>3, <2>4 DEF Serves
<1>10. CASE ~(k > 0 /\ text(buf)[k] # Newline)
  <2>1. Do(<<call("indent")>>)
    <3>1. ~(w.cur > 0 /\ w.mem[w.cur - 1] # Newline)
      BY <1>4, <1>10
    <3>2. Do(<<>> \o <<call("indent")>>)
      BY <3>1 DEF onEmptyLine, w
    <3>3. <<>> \o <<call("indent")>> = <<call("indent")>>
      BY <1>7
    <3> QED
      BY <3>2, <3>3
  <2>2. Runs(empty, <<call("indent")>>, b)
    BY <1>6, <1>8, RunsOne
  <2>3. WellIndented(text(w)) /\ At(empty, text(w), _n_)
    BY <1>3, <1>4, <1>6, <1>10, AtCut
  <2> QED
    BY <1>2, <1>6, <1>7, <2>1, <2>2, <2>3 DEF Serves
<1> QED
  BY <1>9, <1>10

LEMMA indentByServes ==
    ASSUME Holds(buf), calls \in Seq(Call), NEW a \in Mode, NEW b \in Mode,
           At(a, text(buf), _n_), WellIndented(text(buf)), Leads(a, calls[1], b), indentBy
    PROVE  Serves(b)
<1>1. a.dev = 1 /\ b.dev = 0 /\ b.level = a.level + 1 /\ b.line = "free"
  BY DEF indentBy, Calls, Leads, PlainLeads
<1>2. Do(<<>>) /\ _n_' = _n_ + INDENT_WIDTH /\ buf' = buf
  BY DEF indentBy, Only
<1>3. text(buf) \in Seq(Chars)
  BY TextTyped
<1>4. At(b, text(buf), _n_ + INDENT_WIDTH)
  BY <1>1, <1>3, AtDeeper
<1> QED
  BY <1>2, <1>4, ServesNone

LEMMA indentServes ==
    ASSUME Holds(buf), calls \in Seq(Call), NEW a \in Mode, NEW b \in Mode,
           At(a, text(buf), _n_), WellIndented(text(buf)), Leads(a, calls[1], b), indent
    PROVE  Serves(b)
<1>1. Same(a, b) /\ a.line = "empty" /\ b.line = "short" /\ b.r = 0
  BY DEF indent, Calls, Leads, PlainLeads
<1> DEFINE fs == [k \in 1.._n_ |-> append(Blank)]
           mu == [k \in 0.._n_ |-> M(a.level, a.dev, "short", _n_ - k)]
<1>2. Do(fs) /\ _n_' = _n_ /\ buf' = buf
  BY DEF indent, Only
<1>3. text(buf) \in Seq(Chars)
  BY TextTyped
<1>4. a.level \in Nat /\ a.dev \in {0, 1} /\ _n_ \in Nat
  BY WidthTyped DEF Mode, At
<1>5. \A k \in 0.._n_ : /\ mu[k] \in Mode /\ mu[k].level = a.level /\ mu[k].dev = a.dev
                        /\ mu[k].line = "short" /\ mu[k].r = _n_ - k
  <2>1. ASSUME NEW k \in 0.._n_
        PROVE  /\ mu[k] \in Mode /\ mu[k].level = a.level /\ mu[k].dev = a.dev
               /\ mu[k].line = "short" /\ mu[k].r = _n_ - k
    <3>1. _n_ - k \in Nat /\ mu[k] = M(a.level, a.dev, "short", _n_ - k)
      BY <1>4
    <3> HIDE DEF mu
    <3> QED
      BY <1>4, <3>1 DEF M, Mode
  <2> QED
    BY <2>1
<1>6. fs \in Seq(Call) /\ Len(fs) = _n_ /\ \A k \in 1.._n_ : fs[k] = append(Blank)
  <2>1. append(Blank) \in Call
    BY CallTyped, OwnChars
  <2> QED
    BY <1>4, <2>1
<1>7. mu[_n_] = b
  <2>1. mu[_n_] = M(a.level, a.dev, "short", 0)
    BY <1>4
  <2> QED
    BY <1>1, <2>1 DEF M, Mode, Same
<1>8. mu \in [0.._n_ -> Mode]
  BY <1>5
<1> HIDE DEF fs, mu
<1>9. ASSUME NEW k \in 1.._n_ PROVE Leads(mu[k - 1], fs[k], mu[k])
  <2>1. k \in 0.._n_ /\ k - 1 \in 0.._n_ /\ _n_ - (k - 1) = (_n_ - k) + 1
    BY <1>4
  <2>2. AppendCLeads(mu[k - 1], Blank, mu[k])
    BY <1>5, <2>1 DEF AppendCLeads, Same
  <2> QED
    BY <1>6, <2>2, LeadsAre
<1>10. 0 \in 0.._n_ /\ _n_ - 0 = _n_
  BY <1>4
<1>11. Runs(mu[0], fs, b)
  BY <1>6, <1>7, <1>8, <1>9 DEF Runs
<1>12. mu[0] \in Mode /\ At(mu[0], text(buf), _n_)
  BY <1>1, <1>3, <1>5, <1>10, AtIndent
<1> QED
  BY <1>2, <1>6, <1>11, <1>12 DEF Serves

(* The calls that an action makes are no worse than one of the next mode.   *)
LEMMA ServesCalls ==
    ASSUME WellIndented(text(buf)), Only, NEW b \in Mode, NEW c \in Mode, NEW fs \in Seq(Call),
           Do(fs), Runs(c, fs, b), At(c, text(buf), _n_')
    PROVE  Serves(b)
<1>1. buf' = buf
  BY DEF Only
<1> QED
  BY <1>1 DEF Serves

(* A line that begins, and goes on.                                         *)
Empty(l) == M(l, 0, "empty", 0)
LEMMA EmptyIs ==
    \A l \in Nat : /\ Empty(l) \in Mode /\ Empty(l).level = l /\ Empty(l).line = "empty"
                   /\ Empty(l).dev = 0
BY DEF Empty, M, Mode

LEMMA renderOpenBraceServes ==
    ASSUME Holds(buf), calls \in Seq(Call), NEW a \in Mode, NEW b \in Mode,
           At(a, text(buf), _n_), WellIndented(text(buf)), Leads(a, calls[1], b), renderOpenBrace
    PROVE  Serves(b)
<1> DEFINE f1 == call("onEmptyLine")
           f2 == append(OpenBrace)
           f3 == <<"indentBy", 1>>
           f4 == append(Newline)
           f5 == call("indent")
           l  == a.level
           m2 == M(l, 1, "free", 0)
           m3 == M(l + 1, 0, "free", 0)
<1>1. arg = OpenBrace /\ calls[1][1] = "renderC" /\ calls # <<>>
  BY Zenon DEF renderOpenBrace, OpenBrace, Calls
<1>2. Do(<<f1, f2, f3, f4, f5>>) /\ Only /\ _n_' = _n_
  <2>1. append(arg) = append(OpenBrace)
    BY <1>1
  <2> QED
    BY <2>1 DEF renderOpenBrace
<1>3. settled(a) /\ settled(b) /\ b.level = l + 1 /\ b.line = "short" /\ l \in Nat
  BY <1>1 DEF Leads, RenderCLeads, arg, Mode
<1>4. a.dev = 0 /\ b.dev = 0 /\ b.r = 0
  BY <1>3 DEF settled
<1>5. f1 \in Call /\ f2 \in Call /\ f3 \in Call /\ f4 \in Call /\ f5 \in Call
  <2>1. OpenBrace \in Chars /\ Newline \in Chars
    BY Zenon, CharsAssumption DEF OpenBrace
  <2> QED
    BY <2>1, CallTyped
<1>6. /\ m2 \in Mode /\ m2.level = l /\ m2.dev = 1 /\ m2.line = "free"
      /\ m3 \in Mode /\ m3.level = l + 1 /\ m3.dev = 0 /\ m3.line = "free"
  BY <1>3 DEF M, Mode
<1>7. Leads(a, f1, Settled(l))
  <2>1. PlainLeads(a, "onEmptyLine", Settled(l))
    BY <1>3, <1>4, SettledIs DEF PlainLeads, Same
  <2> QED
    BY <2>1, LeadsAre
<1> HIDE DEF m2, m3
<1>8. Leads(Settled(l), f2, m2)
  <2>1. AppendCLeads(Settled(l), OpenBrace, m2)
    BY <1>3, <1>6, SettledIs DEF AppendCLeads
  <2> QED
    BY <2>1, LeadsAre
<1>9. Leads(m2, f3, m3)
  <2>1. PlainLeads(m2, "indentBy", m3)
    BY <1>6 DEF PlainLeads
  <2> QED
    BY <2>1, LeadsAre
<1>10. Leads(m3, f4, Empty(l + 1))
  <2>1. AppendCLeads(m3, Newline, Empty(l + 1))
    BY <1>3, <1>6, EmptyIs DEF AppendCLeads, Same
  <2> QED
    BY <2>1, LeadsAre
<1>11. Leads(Empty(l + 1), f5, b)
  <2>1. PlainLeads(Empty(l + 1), "indent", b)
    BY <1>3, <1>4, EmptyIs DEF PlainLeads, Same
  <2> QED
    BY <2>1, LeadsAre
<1>12. Settled(l) \in Mode /\ Empty(l + 1) \in Mode
  BY <1>3, SettledIs, EmptyIs
<1> HIDE DEF f1, f2, f3, f4, f5
<1>13. Runs(a, <<f1, f2, f3, f4, f5>>, b)
  BY <1>5, <1>6, <1>7, <1>8, <1>9, <1>10, <1>11, <1>12, RunsMore
<1>14. <<f1, f2, f3, f4, f5>> \in Seq(Call)
  BY <1>5, CallSequences
<1> QED
  BY <1>2, <1>13, <1>14, ServesCalls

LEMMA renderCloseBraceServes ==
    ASSUME Holds(buf), calls \in Seq(Call), NEW a \in Mode, NEW b \in Mode,
           At(a, text(buf), _n_), WellIndented(text(buf)), Leads(a, calls[1], b), renderCloseBrace
    PROVE  Serves(b)
<1> DEFINE f1 == call("onEmptyLine")
           f2 == append(CloseBrace)
           f3 == append(Newline)
           f4 == call("indent")
           l  == b.level
           m0 == M(l, 1, "free", 0)
           m1 == M(l, 1, "short", 0)
<1>1. arg = CloseBrace /\ calls[1][1] = "renderC" /\ calls # <<>>
  BY Zenon DEF renderCloseBrace, CloseBrace, Calls
<1>2. Do(<<f1, f2, f3, f4>>) /\ Only /\ _n_' = _n_ - INDENT_WIDTH
  <2>1. append(arg) = append(CloseBrace)
    BY <1>1
  <2> QED
    BY <2>1 DEF renderCloseBrace
<1>3. settled(a) /\ settled(b) /\ a.level = l + 1 /\ b.line = "short" /\ l \in Nat
  BY <1>1 DEF Leads, RenderCLeads, arg, Mode
<1>4. a.dev = 0 /\ b.dev = 0 /\ b.r = 0
  BY <1>3 DEF settled
<1>5. f1 \in Call /\ f2 \in Call /\ f3 \in Call /\ f4 \in Call
  <2>1. CloseBrace \in Chars /\ Newline \in Chars
    BY Zenon, CharsAssumption DEF CloseBrace
  <2> QED
    BY <2>1, CallTyped
<1>6. /\ m0 \in Mode /\ m0.level = l /\ m0.dev = 1 /\ m0.line = "free"
      /\ m1 \in Mode /\ m1.level = l /\ m1.dev = 1 /\ m1.line = "short" /\ m1.r = 0
  BY <1>3 DEF M, Mode
<1> HIDE DEF m0, m1
<1>7. At(m0, text(buf), _n_')
  <2>1. text(buf) \in Seq(Chars)
    BY TextTyped
  <2> QED
    BY <1>2, <1>3, <1>4, <1>6, <2>1, AtDeeper
<1>8. Leads(m0, f1, m1)
  <2>1. PlainLeads(m0, "onEmptyLine", m1)
    BY <1>6 DEF PlainLeads, Same
  <2> QED
    BY <2>1, LeadsAre
<1>9. Leads(m1, f2, Busy(l))
  <2>1. AppendCLeads(m1, CloseBrace, Busy(l))
    BY <1>3, <1>6, SettledIs DEF AppendCLeads
  <2> QED
    BY <2>1, LeadsAre
<1>10. Leads(Busy(l), f3, Empty(l))
  <2>1. AppendCLeads(Busy(l), Newline, Empty(l))
    BY <1>3, SettledIs, EmptyIs DEF AppendCLeads, Same
  <2> QED
    BY <2>1, LeadsAre
<1>11. Leads(Empty(l), f4, b)
  <2>1. PlainLeads(Empty(l), "indent", b)
    BY <1>3, <1>4, EmptyIs DEF PlainLeads, Same
  <2> QED
    BY <2>1, LeadsAre
<1>12. Busy(l) \in Mode /\ Empty(l) \in Mode
  BY <1>3, SettledIs, EmptyIs
<1> HIDE DEF f1, f2, f3, f4
<1>13. Runs(m0, <<f1, f2, f3, f4>>, b)
  BY <1>5, <1>6, <1>8, <1>9, <1>10, <1>11, <1>12, RunsMore
<1>14. <<f1, f2, f3, f4>> \in Seq(Call)
  BY <1>5, CallSequences
<1> QED
  BY <1>2, <1>6, <1>7, <1>13, <1>14, ServesCalls

(* Most characters and words stand in a line that goes on, with a blank     *)
(* behind them.                                                             *)
LEMMA ThenBlank ==
    ASSUME NEW a \in Mode, NEW b \in Mode, NEW f \in Call, Between(a, b),
           \A m \in Mode : Between(a, m) => Leads(a, f, m)
    PROVE  <<f, append(Blank)>> \in Seq(Call) /\ Runs(a, <<f, append(Blank)>>, b)
<1>1. a.level \in Nat /\ append(Blank) \in Call
  BY CallTyped, OwnChars DEF Mode
<1>2. Leads(a, f, Busy(a.level)) /\ Busy(a.level) \in Mode
  BY <1>1, SettledIs DEF Between
<1>3. Leads(Busy(a.level), append(Blank), b)
  <2>1. AppendCLeads(Busy(a.level), Blank, b)
    BY <1>1, SettledIs, PlainChars DEF AppendCLeads, Between
  <2> QED
    BY <2>1, LeadsAre
<1>4. <<f, append(Blank)>> \in Seq(Call)
  BY <1>1
<1>5. Runs(a, <<f, append(Blank)>>, b)
  <2>1. /\ <<f, append(Blank)>> = <<f>> \o <<append(Blank)>>
        /\ <<f>> \in Seq(Call) /\ <<append(Blank)>> \in Seq(Call)
    BY <1>1, TwoJoined
  <2>2. Runs(a, <<f>>, Busy(a.level)) /\ Runs(Busy(a.level), <<append(Blank)>>, b)
    BY <1>2, <1>3, RunsOne
  <2> QED
    BY <1>2, <2>1, <2>2, RunsJoin
<1> QED
  BY <1>4, <1>5

LEMMA RenderChoice ==
    ASSUME renderC
    PROVE  LET f2 == append(arg)
               f1 == call("removeTrailingWhitespace")
           IN  \/ Do(<<f2>>)
               \/ Do(<<f1, f2, append(Blank)>>) /\ arg # Blank
               \/ Do(<<f1, f2, append(Newline), call("indent")>>) /\ arg = ";"
               \/ Do(<<f2, append(Blank)>>)
BY Zenon DEF renderC, Blank

LEMMA renderCServes ==
    ASSUME Holds(buf), calls \in Seq(Call), NEW a \in Mode, NEW b \in Mode,
           At(a, text(buf), _n_), WellIndented(text(buf)), Leads(a, calls[1], b), renderC
    PROVE  Serves(b)
<1> DEFINE l == a.level
           f1 == call("removeTrailingWhitespace")
           f2 == append(arg)
           f3 == append(Newline)
           f4 == call("indent")
<1>1. /\ calls # <<>> /\ arg \in Chars /\ calls[1][1] = "renderC"
      /\ arg \notin {OpenBrace, CloseBrace} /\ Only /\ _n_' = _n_
  <2>1. arg \notin {OpenBrace, CloseBrace} /\ calls[1][1] = "renderC" /\ calls # <<>>
    BY Zenon DEF renderC, OpenBrace, CloseBrace, Calls
  <2> QED
    BY <2>1, ArgTyped DEF renderC, Calls
<1>2. RenderCLeads(a, arg, b)
  BY <1>1 DEF Leads, arg
<1>3. /\ Between(a, b) /\ plain(arg) /\ l \in Nat /\ b.level = l
      /\ arg = Blank => a.line = "busy"
      /\ arg = ";" => b.line = "short"
  BY <1>1, <1>2 DEF RenderCLeads, Between, plain, Mode
<1>4. f1 \in Call /\ f2 \in Call /\ f3 \in Call /\ f4 \in Call /\ append(Blank) \in Call
      /\ <<f2>> \in Seq(Call)
  <2>1. f2 \in Call /\ f1 \in Call /\ f3 \in Call /\ f4 \in Call /\ append(Blank) \in Call
    BY <1>1, CallTyped, OwnChars
  <2> QED
    BY <2>1
<1>5. \A m \in Mode : Between(a, m) => Leads(a, f2, m)
  <2>1. \A m \in Mode : Between(a, m) => AppendCLeads(a, arg, m)
    BY <1>3 DEF AppendCLeads
  <2> QED
    BY <2>1, LeadsAre
<1>6. Leads(a, f1, Settled(l)) /\ Settled(l) \in Mode /\ Busy(l) \in Mode /\ Empty(l) \in Mode
  <2>1. PlainLeads(a, "removeTrailingWhitespace", Settled(l))
    BY <1>3, SettledIs DEF PlainLeads, Between
  <2> QED
    BY <1>3, <2>1, LeadsAre, SettledIs, EmptyIs
<1>7. ASSUME arg # Blank
      PROVE  Leads(Settled(l), f2, Busy(l))
  <2>1. AppendCLeads(Settled(l), arg, Busy(l))
    BY <1>3, <1>7, SettledIs DEF AppendCLeads, Between
  <2> QED
    BY <2>1, LeadsAre
<1> HIDE DEF f1, f2, f3, f4
<1>8. CASE Do(<<f2>>)
  <2>1. Runs(a, <<f2>>, b)
    BY <1>3, <1>5, RunsOne
  <2> QED
    BY <1>1, <1>4, <1>8, <2>1, ServesCalls
<1>9. CASE Do(<<f1, f2, append(Blank)>>) /\ arg # Blank
  <2>1. Leads(Busy(l), append(Blank), b)
    <3>1. AppendCLeads(Busy(l), Blank, b)
      BY <1>3, SettledIs, PlainChars DEF AppendCLeads, Between
    <3> QED
      BY <3>1, LeadsAre
  <2>2. Runs(a, <<f1, f2, append(Blank)>>, b)
    BY <1>4, <1>6, <1>7, <1>9, <2>1, RunsMore
  <2>3. <<f1, f2, append(Blank)>> \in Seq(Call)
    BY <1>4
  <2> QED
    BY <1>1, <1>9, <2>2, <2>3, ServesCalls
<1>10. CASE Do(<<f1, f2, f3, f4>>) /\ arg = ";"
  <2>1. arg # Blank
    BY <1>10 DEF Blank
  <2>2. Leads(Busy(l), f3, Empty(l))
    <3>1. AppendCLeads(Busy(l), Newline, Empty(l))
      BY <1>3, SettledIs, EmptyIs DEF AppendCLeads, Same
    <3> QED
      BY <3>1, LeadsAre DEF f3
  <2>3. Leads(Empty(l), f4, b)
    <3>1. PlainLeads(Empty(l), "indent", b)
      BY <1>3, <1>10, EmptyIs DEF PlainLeads, Same, Between, settled
    <3> QED
      BY <3>1, LeadsAre DEF f4
  <2>4. Runs(a, <<f1, f2, f3, f4>>, b)
    BY <1>4, <1>6, <1>7, <2>1, <2>2, <2>3, RunsMore
  <2>5. <<f1, f2, f3, f4>> \in Seq(Call)
    BY <1>4, CallSequences
  <2> QED
    BY <1>1, <1>10, <2>4, <2>5, ServesCalls
<1>11. CASE Do(<<f2, append(Blank)>>)
  <2>1. <<f2, append(Blank)>> \in Seq(Call) /\ Runs(a, <<f2, append(Blank)>>, b)
    BY <1>3, <1>4, <1>5, ThenBlank
  <2> QED
    BY <1>1, <1>11, <2>1, ServesCalls
<1>12. \/ Do(<<f2>>)
       \/ Do(<<f1, f2, append(Blank)>>) /\ arg # Blank
       \/ Do(<<f1, f2, f3, f4>>) /\ arg = ";"
       \/ Do(<<f2, append(Blank)>>)
  BY RenderChoice DEF renderC, f1, f2, f3, f4
<1> QED
  BY <1>8, <1>9, <1>10, <1>11, <1>12

LEMMA renderSServes ==
    ASSUME Holds(buf), calls \in Seq(Call), NEW a \in Mode, NEW b \in Mode,
           At(a, text(buf), _n_), WellIndented(text(buf)), Leads(a, calls[1], b), renderS
    PROVE  Serves(b)
<1> DEFINE f1 == call("backup")
           f2 == <<"bufAppendS", arg>>
           l  == a.level
<1>1. calls # <<>> /\ arg \in Seq(Chars) /\ calls[1][1] = "renderS" /\ Only /\ _n_' = _n_
      /\ buf' = buf
  BY ArgTyped DEF renderS, Calls, Only
<1>2. RenderSLeads(a, arg, b)
  BY <1>1 DEF Leads, arg
<1>3. Between(a, b) /\ l \in Nat
  BY <1>2 DEF RenderSLeads, Mode
<1>4. f1 \in Call /\ f2 \in Call
  BY <1>1, CallTyped
<1>5. CASE arg = <<>>
  <2>1. Do(<<>>)
    BY <1>5 DEF renderS
  <2>2. text(buf) \in Seq(Chars)
    BY TextTyped
  <2>3. At(b, text(buf), _n_)
    BY <1>2, <1>5, <2>2, AtSettled DEF RenderSLeads, Between, settled
  <2> QED
    BY <1>1, <2>1, <2>3, ServesNone
<1>6. \A m \in Mode : Between(a, m) /\ arg # <<>> => Leads(a, f2, m)
  <2>1. \A m \in Mode : Between(a, m) /\ arg # <<>> => AppendSLeads(a, arg, m)
    BY <1>2 DEF AppendSLeads, RenderSLeads
  <2> QED
    BY <2>1, LeadsAre
<1>7. CASE arg # <<>> /\ AllIsSpace(arg)
  <2>1. Do(<<f1, f2>>)
    BY <1>7 DEF renderS
  <2>2. a.line = "busy"
    <3>1. 1 \in DOMAIN arg /\ 1 \in 1..Len(arg)
      BY <1>1, <1>7
    <3>2. arg[1] = Blank
      BY <1>2, <1>7, <3>1 DEF RenderSLeads, AllIsSpace, plain
    <3> QED
      BY <1>2, <1>7, <3>2 DEF RenderSLeads
  <2>3. Leads(a, f1, Busy(l)) /\ Busy(l) \in Mode
    <3>1. PlainLeads(a, "backup", Busy(l))
      BY <1>3, <2>2, SettledIs DEF PlainLeads, Between
    <3> QED
      BY <1>3, <3>1, LeadsAre, SettledIs
  <2>4. Leads(Busy(l), f2, b)
    <3>1. AppendSLeads(Busy(l), arg, b)
      BY <1>2, <1>3, <1>7, SettledIs DEF AppendSLeads, RenderSLeads, Between
    <3> QED
      BY <3>1, LeadsAre
  <2> HIDE DEF f1, f2
  <2>5. Runs(a, <<f1, f2>>, b)
    BY <1>4, <2>3, <2>4, RunsMore
  <2>6. <<f1, f2>> \in Seq(Call)
    BY <1>4
  <2> QED
    BY <1>1, <2>1, <2>5, <2>6, ServesCalls
<1>8. CASE arg # <<>> /\ ~AllIsSpace(arg)
  <2>1. Do(<<f2, append(Blank)>>)
    BY <1>8 DEF renderS
  <2> HIDE DEF f2
  <2>2. <<f2, append(Blank)>> \in Seq(Call) /\ Runs(a, <<f2, append(Blank)>>, b)
    BY <1>3, <1>4, <1>6, <1>8, ThenBlank
  <2> QED
    BY <1>1, <2>1, <2>2, ServesCalls
<1> QED
  BY <1>5, <1>7, <1>8

-----------------------------------------------------------------------------
(* What a Tidy grammar says of the single parts.                            *)
LEMMA UnbrokenPlain == \A s : unbroken(s) => \A i \in DOMAIN s : plain(s[i])
BY Zenon DEF unbroken, plain, OpenBrace, CloseBrace

LEMMA EscapableIs ==
    \A c : escapable(c) => (c = Newline => c \in DOMAIN Controls) /\ c # OpenBrace /\ c # CloseBrace
BY Zenon DEF escapable, OpenBrace, CloseBrace

LEMMA ControlsPlain == Tidy => \A c \in DOMAIN Controls : plain(Controls[c])
BY Zenon DEF Tidy, plain, OpenBrace, CloseBrace

LEMMA EscapePlain ==
    ASSUME Tidy, NEW c \in Chars, escapable(c)
    PROVE  /\ Len(escape(c)) = 1 => plain(c)
           /\ escape(c) # <<>> /\ \A i \in 1..Len(escape(c)) : plain(escape(c)[i])
<1>1. CASE c \in {Backslash, Quote, Apostrophe}
  <2>1. escape(c) = <<Backslash, c>>
    BY <1>1 DEF escape
  <2>2. plain(c) /\ plain(Backslash)
    BY <1>1, PlainChars
  <2> QED
    BY <2>1, <2>2
<1>2. CASE c \notin {Backslash, Quote, Apostrophe} /\ c \in DOMAIN Controls
  <2>1. escape(c) = <<Backslash, Controls[c]>>
    BY <1>2 DEF escape
  <2>2. plain(Controls[c]) /\ plain(Backslash)
    BY <1>2, PlainChars, ControlsPlain
  <2> QED
    BY <2>1, <2>2
<1>3. CASE c \notin {Backslash, Quote, Apostrophe} /\ c \notin DOMAIN Controls
  <2>1. escape(c) = <<c>>
    BY <1>3 DEF escape
  <2>2. plain(c)
    BY <1>3, EscapableIs DEF plain
  <2> QED
    BY <2>1, <2>2
<1> QED
  BY <1>1, <1>2, <1>3

LEMMA LeafTidy ==
    ASSUME Tidy, NEW t \in Trees, t.fun \in tokens
    PROVE  /\ t.fun = "Ident"  => t.text = <<>> \/ word(t.text)
           /\ t.fun = "String" => \A i \in DOMAIN t.text : escapable(t.text[i])
           /\ t.fun = "Char"   => escapable(t.text[1])
<1>1. tidyLeaf(t)
  BY Zenon DEF Tidy
<1> QED
  BY <1>1, Zenon DEF tidyLeaf

-----------------------------------------------------------------------------
(* Leaves, and their characters.                                            *)
LEMMA bufEscapeCServes ==
    ASSUME Tidy, Holds(buf), calls \in Seq(Call), NEW a \in Mode, NEW b \in Mode,
           At(a, text(buf), _n_), WellIndented(text(buf)), Leads(a, calls[1], b), bufEscapeC
    PROVE  Serves(b)
<1>1. calls # <<>> /\ arg \in Chars /\ calls[1][1] = "bufEscapeC" /\ Only /\ _n_' = _n_
  BY ArgTyped DEF bufEscapeC, Calls, Only
<1>2. EscapeCLeads(a, arg, b)
  BY <1>1 DEF Leads, arg
<1>3. CASE Len(escape(arg)) = 1
  <2>1. Do(<<append(arg)>>)
    BY <1>3 DEF bufEscapeC, append
  <2>2. <<append(arg)>> \in Seq(Call)
    <3>1. append(arg) \in Call
      BY <1>1, CallTyped
    <3> QED
      BY <3>1
  <2>3. AppendCLeads(a, arg, b)
    BY <1>1, <1>2, <1>3, EscapePlain DEF EscapeCLeads, AppendCLeads
  <2>4. Runs(a, <<append(arg)>>, b)
    BY <2>3, LeadsAre, RunsOne
  <2> QED
    BY <1>1, <2>1, <2>2, <2>4, ServesCalls
<1>4. CASE Len(escape(arg)) # 1
  <2> DEFINE f == <<"bufAppendS", escape(arg)>>
  <2>1. Do(<<f>>)
    BY <1>4 DEF bufEscapeC
  <2>2. <<f>> \in Seq(Call)
    <3>1. f \in Call
      BY <1>1, EscapeTyped, CallTyped
    <3> QED
      BY <3>1
  <2>3. AppendSLeads(a, escape(arg), b)
    BY <1>1, <1>2, EscapePlain DEF EscapeCLeads, AppendSLeads, RenderSLeads
  <2>4. Leads(a, f, b)
    BY <2>3, LeadsAre
  <2> HIDE DEF f
  <2>5. Runs(a, <<f>>, b)
    BY <2>4, RunsOne
  <2> QED
    BY <1>1, <2>1, <2>2, <2>5, ServesCalls
<1> QED
  BY <1>3, <1>4

LEMMA ppIdentServes ==
    ASSUME Tidy, Holds(buf), calls \in Seq(Call), NEW a \in Mode, NEW b \in Mode,
           At(a, text(buf), _n_), WellIndented(text(buf)), Leads(a, calls[1], b), ppIdent
    PROVE  Serves(b)
<1>1. calls # <<>> /\ arg \in Trees /\ calls[1][1] = "pp" /\ Only /\ _n_' = _n_ /\ arg.fun = "Ident"
  BY ArgTyped DEF ppIdent, Calls, Only
<1>2. PPLeads(a, arg, b)
  BY <1>1 DEF Leads, arg
<1>3. arg.text \in Seq(Chars) /\ arg.fun \in tokens
  BY <1>1, TreesAssumption DEF tokens
<1>4. arg.text = <<>> \/ word(arg.text)
  BY <1>1, <1>3, LeafTidy
<1> DEFINE f == <<"renderS", arg.text>>
<1>5. Leads(a, f, b)
  <2>1. RenderSLeads(a, arg.text, b)
    <3>1. CASE arg.text = <<>>
      <4>1. b.line # "busy" /\ Between(a, b)
        BY <1>1, <1>2, <3>1 DEF PPLeads, inline
      <4> QED
        BY <3>1, <4>1 DEF RenderSLeads, Between, settled
    <3>2. CASE word(arg.text)
      <4>1. arg.text # <<>> /\ arg.text[1] # Blank /\ unbroken(arg.text)
        BY <3>2 DEF word
      <4>2. \A i \in 1..Len(arg.text) : plain(arg.text[i])
        <5>1. \A i \in 1..Len(arg.text) : i \in DOMAIN arg.text
          BY <1>3
        <5> QED
          BY <4>1, <5>1, UnbrokenPlain
      <4> QED
        BY <1>2, <4>1, <4>2 DEF RenderSLeads, PPLeads
    <3> QED
      BY <1>4, <3>1, <3>2
  <2> QED
    BY <2>1, LeadsAre
<1>6. Do(<<f>>)
  BY DEF ppIdent
<1>7. <<f>> \in Seq(Call)
  <2>1. f \in Call
    BY <1>3, CallTyped
  <2> QED
    BY <2>1
<1> HIDE DEF f
<1>8. Runs(a, <<f>>, b)
  BY <1>5, RunsOne
<1> QED
  BY <1>1, <1>6, <1>7, <1>8, ServesCalls

LEMMA QuotedRuns ==
    ASSUME NEW a \in Mode, NEW b \in Mode, Between(a, b), NEW q \in {Quote, Apostrophe},
           NEW s \in Seq(Chars), \A i \in DOMAIN s : escapable(s[i])
    PROVE  quoted(q, s) \in Seq(Call) /\ Runs(a, quoted(q, s), b)
<1> DEFINE busy == Busy(a.level)
           fs == [i \in DOMAIN s |-> <<"bufEscapeC", s[i]>>]
<1>1. a.level \in Nat /\ b.level = a.level /\ busy \in Mode /\ Between(busy, busy)
      /\ busy.line = "busy" /\ Between(a, busy) /\ Between(busy, b)
  BY SettledIs DEF Between, Mode
<1>2. append(q) \in Call /\ append(Blank) \in Call /\ plain(q) /\ q # Blank
      /\ <<append(q)>> \in Seq(Call) /\ <<append(q), append(Blank)>> \in Seq(Call)
  <2>1. append(q) \in Call /\ append(Blank) \in Call
    BY CallTyped, OwnChars
  <2>2. plain(q) /\ q # Blank
    BY PlainChars
  <2> QED
    BY <2>1, <2>2
<1> HIDE DEF busy
<1>3. fs \in Seq(Call) /\ Len(fs) = Len(s) /\ Len(s) \in Nat
      /\ \A i \in 1..Len(s) : fs[i] = <<"bufEscapeC", s[i]>> /\ escapable(s[i])
  <2>1. DOMAIN s = 1..Len(s) /\ Len(s) \in Nat /\ \A i \in DOMAIN s : s[i] \in Chars
    OBVIOUS
  <2>2. \A i \in DOMAIN s : <<"bufEscapeC", s[i]>> \in Call
    BY <2>1, CallTyped
  <2> QED
    BY <2>1, <2>2
<1> HIDE DEF fs
<1>4. Runs(a, <<append(q)>>, busy)
  <2>1. AppendCLeads(a, q, busy)
    BY <1>1, <1>2 DEF AppendCLeads
  <2> QED
    BY <1>1, <2>1, LeadsAre, RunsOne
<1>5. Runs(busy, fs, busy)
  <2> DEFINE mu == [k \in 0..Len(s) |-> busy]
  <2>1. mu \in [0..Len(s) -> Mode] /\ \A k \in 0..Len(s) : mu[k] = busy
    BY <1>1
  <2>2. 0 \in 0..Len(s) /\ Len(s) \in 0..Len(s)
    BY <1>3
  <2> HIDE DEF mu
  <2>3. ASSUME NEW k \in 1..Len(s) PROVE Leads(mu[k - 1], fs[k], mu[k])
    <3>1. k \in 0..Len(s) /\ k - 1 \in 0..Len(s)
      BY <1>3
    <3>2. EscapeCLeads(busy, s[k], busy)
      BY <1>1, <1>3 DEF EscapeCLeads
    <3>3. Leads(busy, fs[k], busy)
      BY <1>3, <3>2, LeadsAre
    <3> QED
      BY <2>1, <3>1, <3>3
  <2> QED
    BY <1>3, <2>1, <2>2, <2>3 DEF Runs
<1>6. Runs(busy, <<append(q), append(Blank)>>, b)
  <2>1. \A m \in Mode : Between(busy, m) => Leads(busy, append(q), m)
    <3>1. \A m \in Mode : Between(busy, m) => AppendCLeads(busy, q, m)
      BY <1>2 DEF AppendCLeads
    <3> QED
      BY <3>1, LeadsAre
  <2> QED
    BY <1>1, <1>2, <2>1, ThenBlank
<1>7. <<append(q)>> \o fs \in Seq(Call) /\ Runs(a, <<append(q)>> \o fs, busy)
  <2>1. <<append(q)>> \o fs \in Seq(Call)
    BY <1>2, <1>3
  <2>2. <<append(q)>> \in Seq(Call) /\ fs \in Seq(Call) /\ a \in Mode /\ busy \in Mode
    BY <1>1, <1>2, <1>3
  <2>3. Runs(a, <<append(q)>> \o fs, busy)
    BY <1>4, <1>5, <2>2, RunsJoin
  <2> QED
    BY <2>1, <2>3
<1>8. quoted(q, s) = (<<append(q)>> \o fs) \o <<append(q), append(Blank)>>
  BY DEF quoted, fs
<1>9. (<<append(q)>> \o fs) \o <<append(q), append(Blank)>> \in Seq(Call)
  BY <1>2, <1>7
<1> QED
  BY <1>1, <1>2, <1>6, <1>7, <1>8, <1>9, RunsJoin

LEMMA ppStringServes ==
    ASSUME Tidy, Holds(buf), calls \in Seq(Call), NEW a \in Mode, NEW b \in Mode,
           At(a, text(buf), _n_), WellIndented(text(buf)), Leads(a, calls[1], b), ppString
    PROVE  Serves(b)
<1>1. calls # <<>> /\ arg \in Trees /\ calls[1][1] = "pp" /\ Only /\ _n_' = _n_ /\ arg.fun = "String"
  BY ArgTyped DEF ppString, Calls, Only
<1>2. Between(a, b)
  BY <1>1 DEF Leads, arg, PPLeads
<1>3. arg.text \in Seq(Chars) /\ arg.fun \in tokens
  BY <1>1, TreesAssumption DEF tokens
<1>4. \A i \in DOMAIN arg.text : escapable(arg.text[i])
  BY <1>1, <1>3, LeafTidy
<1>5. quoted(Quote, arg.text) \in Seq(Call) /\ Runs(a, quoted(Quote, arg.text), b)
  BY <1>2, <1>3, <1>4, QuotedRuns
<1>6. Do(quoted(Quote, arg.text))
  BY DEF ppString
<1> QED
  BY <1>1, <1>5, <1>6, ServesCalls

LEMMA ppCharServes ==
    ASSUME Tidy, Holds(buf), calls \in Seq(Call), NEW a \in Mode, NEW b \in Mode,
           At(a, text(buf), _n_), WellIndented(text(buf)), Leads(a, calls[1], b), ppChar
    PROVE  Serves(b)
<1>1. calls # <<>> /\ arg \in Trees /\ calls[1][1] = "pp" /\ Only /\ _n_' = _n_ /\ arg.fun = "Char"
  BY ArgTyped DEF ppChar, Calls, Only
<1>2. Between(a, b)
  BY <1>1 DEF Leads, arg, PPLeads
<1>3. arg.text \in Seq(Chars) /\ arg.text # <<>> /\ arg.fun \in tokens
  BY <1>1, TreesAssumption DEF tokens
<1> DEFINE s == <<arg.text[1]>>
<1>4. s \in Seq(Chars) /\ \A i \in DOMAIN s : escapable(s[i])
  <2>1. arg.text[1] \in Chars
    BY <1>3
  <2>2. escapable(arg.text[1])
    BY <1>1, <1>3, LeafTidy
  <2> QED
    BY <2>1, <2>2
<1>5. Do(quoted(Apostrophe, s))
  BY DEF ppChar
<1> HIDE DEF s
<1>6. quoted(Apostrophe, s) \in Seq(Call) /\ Runs(a, quoted(Apostrophe, s), b)
  BY <1>2, <1>4, QuotedRuns
<1> QED
  BY <1>1, <1>5, <1>6, ServesCalls

-----------------------------------------------------------------------------
(* The nesting after k items of a rule.                                     *)
OpenTerminal  == Terminal(<<OpenBrace>>)
CloseTerminal == Terminal(<<CloseBrace>>)

LEMMA NestingIs ==
    \A rhs, k : nesting(rhs, k) = count(rhs, OpenTerminal, k) - count(rhs, CloseTerminal, k)
BY Zenon DEF nesting, OpenTerminal, CloseTerminal, OpenBrace, CloseBrace

LEMMA NestingNext ==
    ASSUME Tidy, NEW r \in Rules
    PROVE  /\ nesting(r.rhs, 0) = 0
           /\ \A k \in 0..Len(r.rhs) : nesting(r.rhs, k) \in Nat
           /\ nesting(r.rhs, Len(r.rhs)) = 0
           /\ \A k \in 1..Len(r.rhs) :
                 nesting(r.rhs, k) + is(r.rhs[k], CloseTerminal)
                    = nesting(r.rhs, k - 1) + is(r.rhs[k], OpenTerminal)
<1>1. r.rhs \in Seq(Items)
  BY RulesAssumption
<1> DEFINE rhs == r.rhs
           n == Len(rhs)
<1>2. n \in Nat /\ DOMAIN rhs = 1..n
  BY <1>1
<1>3. balanced(rhs)
  BY Zenon DEF Tidy
<1> HIDE DEF rhs, n
<1>4. nesting(rhs, 0) = 0
  <2>1. count(rhs, OpenTerminal, 0) = 0 /\ count(rhs, CloseTerminal, 0) = 0
    BY CountNone
  <2> QED
    BY <2>1, NestingIs
<1>5. \A k \in Nat : count(rhs, OpenTerminal, k) \in Nat /\ count(rhs, CloseTerminal, k) \in Nat
  BY CountTyped
<1>6. \A k \in Nat : nesting(rhs, k) \in Int
  BY <1>5, NestingIs
<1>7. ASSUME NEW k \in 0..n PROVE nesting(rhs, k) \in Nat
  <2>1. CASE k = 0
    BY <1>4, <2>1
  <2>2. CASE k # 0
    <3>1. k \in DOMAIN rhs /\ k \in Nat
      BY <1>2, <2>2
    <3>2. nesting(rhs, k) >= 0
      BY <1>3, <3>1 DEF balanced
    <3> QED
      BY <1>6, <3>1, <3>2
  <2> QED
    BY <2>1, <2>2
<1>8. nesting(rhs, n) = 0
  BY <1>3 DEF balanced, n
<1>9. ASSUME NEW k \in 1..n
      PROVE  nesting(rhs, k) + is(rhs[k], CloseTerminal) = nesting(rhs, k - 1) + is(rhs[k], OpenTerminal)
  <2>1. k - 1 \in Nat /\ (k - 1) + 1 = k /\ k \in Nat
    BY <1>2
  <2> DEFINE i == k - 1
  <2> HIDE DEF i
  <2>2. i \in Nat /\ i + 1 = k
    BY <2>1 DEF i
  <2>3. /\ count(rhs, OpenTerminal, k) = count(rhs, OpenTerminal, i) + is(rhs[k], OpenTerminal)
        /\ count(rhs, CloseTerminal, k) = count(rhs, CloseTerminal, i) + is(rhs[k], CloseTerminal)
    BY <2>2, CountNext
  <2>4. is(rhs[k], OpenTerminal) \in Nat /\ is(rhs[k], CloseTerminal) \in Nat
    BY DEF is
  <2>5. /\ nesting(rhs, k) = count(rhs, OpenTerminal, k) - count(rhs, CloseTerminal, k)
        /\ nesting(rhs, i) = count(rhs, OpenTerminal, i) - count(rhs, CloseTerminal, i)
    BY NestingIs
  <2>6. nesting(rhs, k) + is(rhs[k], CloseTerminal) = nesting(rhs, i) + is(rhs[k], OpenTerminal)
    BY <1>5, <2>1, <2>2, <2>3, <2>4, <2>5
  <2> QED
    BY <2>6 DEF i
<1> QED
  BY <1>4, <1>7, <1>8, <1>9 DEF rhs, n

LEMMA StaysIs ==
    ASSUME NEW t, NEW item, item[1] = "terminal", staysInLine(t, item)
    PROVE  item[2] \notin {<<OpenBrace>>, <<CloseBrace>>, <<";">>}
BY Zenon DEF staysInLine, OpenBrace, CloseBrace

(* What prints an item of a rule may do so.                                 *)
LEMMA ItemLeads ==
    ASSUME Tidy, NEW t \in Trees, t.fun \notin tokens, NEW r \in rulesFor(t), NEW k \in DOMAIN r.rhs,
           NEW a \in Mode, NEW b \in Mode, settled(a), settled(b),
           b.level + is(r.rhs[k], CloseTerminal) = a.level + is(r.rhs[k], OpenTerminal),
           isSpace(r.rhs[k]) => a.line = "busy",
           b.line = "busy" => staysInLine(t, r.rhs[k])
    PROVE  Leads(a, prPrintItem(t, r.rhs[k]), b)
<1> DEFINE item == r.rhs[k]
           x == item[2]
<1>1. r \in Rules /\ r.rhs \in Seq(Items)
  BY RulesAssumption DEF rulesFor
<1>2. item \in Items
  BY <1>1
<1>3. a.level \in Nat /\ b.level \in Nat
  BY DEF Mode
<1>4. CASE item[1] = "terminal"
  <2>1. x \in Seq(Chars) /\ x # <<>> /\ item = Terminal(x)
    BY <1>2, <1>4 DEF Items, Terminal
  <2>2. tidyTerminal(x)
    BY <1>1, <1>4, Zenon DEF Tidy
  <2> HIDE DEF x
  <2>3. /\ item = OpenTerminal  <=> x = <<OpenBrace>>
        /\ item = CloseTerminal <=> x = <<CloseBrace>>
    BY <2>1 DEF Terminal, OpenTerminal, CloseTerminal
  <2>4. CASE Len(x) = 1
    <3> DEFINE c == x[1]
    <3>1. x = <<c>> /\ c \in Chars /\ c # Newline
      BY <2>1, <2>2, <2>4 DEF tidyTerminal
    <3> HIDE DEF c
    <3>2. /\ is(item, OpenTerminal) = is(c, OpenBrace)
          /\ is(item, CloseTerminal) = is(c, CloseBrace)
      BY <2>3, <3>1 DEF is
    <3>3. c \in {OpenBrace, CloseBrace, ";"} => b.line = "short"
      <4>1. SUFFICES ASSUME c \in {OpenBrace, CloseBrace, ";"}, b.line = "busy" PROVE FALSE
        BY DEF settled
      <4>2. x \notin {<<OpenBrace>>, <<CloseBrace>>, <<";">>}
        BY <1>4, <4>1, StaysIs DEF x
      <4> QED
        BY <3>1, <4>1, <4>2
    <3>4. c = Blank => a.line = "busy"
      <4>1. SUFFICES ASSUME c = Blank PROVE isSpace(item)
        OBVIOUS
      <4>2. AllIsSpace(x)
        BY <3>1, <4>1 DEF AllIsSpace
      <4> QED
        BY <1>4, <4>2 DEF isSpace, x
    <3>5. /\ c = OpenBrace  => is(c, OpenBrace) = 1 /\ is(c, CloseBrace) = 0
          /\ c = CloseBrace => is(c, OpenBrace) = 0 /\ is(c, CloseBrace) = 1
          /\ c \notin {OpenBrace, CloseBrace} => is(c, OpenBrace) = 0 /\ is(c, CloseBrace) = 0
      BY BraceChars DEF is
    <3>6. RenderCLeads(a, c, b)
      <4>1. b.level + is(c, CloseBrace) = a.level + is(c, OpenBrace)
        BY <3>2
      <4>2. c = OpenBrace => b.level = a.level + 1
        BY <1>3, <3>5, <4>1
      <4>3. c = CloseBrace => a.level = b.level + 1
        BY <1>3, <3>5, <4>1
      <4>4. c \notin {OpenBrace, CloseBrace} => a.level = b.level
        BY <1>3, <3>5, <4>1
      <4> QED
        BY <3>1, <3>3, <3>4, <4>2, <4>3, <4>4 DEF RenderCLeads
    <3>7. prPrintItem(t, item) = <<"renderC", c>>
      BY <1>4, <2>4 DEF prPrintItem, renderX, x, c
    <3> QED
      BY <3>6, <3>7, LeadsAre
  <2>5. CASE Len(x) # 1
    <3>1. /\ is(item, OpenTerminal) = 0 /\ is(item, CloseTerminal) = 0
      <4>1. x # <<OpenBrace>> /\ x # <<CloseBrace>>
        BY <2>5
      <4> QED
        BY <2>3, <4>1 DEF is
    <3>2. unbroken(x) /\ (x[1] = Blank => AllIsSpace(x))
      BY <2>2, <2>5 DEF tidyTerminal, word
    <3>3. \A i \in 1..Len(x) : plain(x[i])
      <4>1. \A i \in 1..Len(x) : i \in DOMAIN x
        BY <2>1
      <4> QED
        BY <3>2, <4>1, UnbrokenPlain
    <3>4. x[1] = Blank => a.line = "busy"
      BY <1>4, <3>2 DEF isSpace, x
    <3>5. Between(a, b)
      BY <1>3, <3>1 DEF Between
    <3>6. RenderSLeads(a, x, b)
      BY <2>1, <3>3, <3>4, <3>5 DEF RenderSLeads
    <3>7. prPrintItem(t, item) = <<"renderS", x>>
      BY <1>4, <2>5 DEF prPrintItem, renderX, x
    <3> QED
      BY <3>6, <3>7, LeadsAre
  <2> QED
    BY <2>4, <2>5
<1>5. CASE item[1] = "argument"
  <2>1. is(item, OpenTerminal) = 0 /\ is(item, CloseTerminal) = 0
    <3>1. OpenTerminal[1] # "argument" /\ CloseTerminal[1] # "argument"
      BY DEF OpenTerminal, CloseTerminal, Terminal
    <3> QED
      BY <1>5, <3>1 DEF is
  <2>2. Between(a, b)
    BY <1>3, <2>1 DEF Between
  <2>3. b.line = "busy" => inline(child(t, item[2]))
    BY <1>5 DEF staysInLine, inline
  <2>4. PPLeads(a, child(t, item[2]), b)
    BY <2>2, <2>3 DEF PPLeads
  <2>5. prPrintItem(t, item) = <<"pp", child(t, item[2]), item[3]>>
    BY <1>5 DEF prPrintItem
  <2> QED
    BY <2>4, <2>5, LeadsAre
<1> QED
  BY <1>2, <1>4, <1>5 DEF Items

(* The items of a rule go down and up again with the braces.                *)
LEMMA ItemsRun ==
    ASSUME Tidy, NEW t \in Trees, t.fun \notin tokens, NEW r \in rulesFor(t), NEW l \in Nat
    PROVE  LET items == [k \in DOMAIN r.rhs |-> prPrintItem(t, r.rhs[k])]
           IN  items \in Seq(Call) /\ Runs(Settled(l), items, Settled(l))
<1> DEFINE rhs == r.rhs
           n == Len(rhs)
           items == [k \in DOMAIN rhs |-> prPrintItem(t, rhs[k])]
           mu == [k \in 0..n |->
                     IF k < n /\ isSpace(rhs[k + 1]) THEN Busy(l + nesting(rhs, k))
                     ELSE Settled(l + nesting(rhs, k))]
<1>1. r \in Rules /\ rhs \in Seq(Items)
  BY RulesAssumption DEF rulesFor
<1>2. n \in Nat /\ DOMAIN rhs = 1..n
  BY <1>1
<1>3. items \in Seq(Call) /\ Len(items) = n /\ \A k \in 1..n : items[k] = prPrintItem(t, rhs[k])
  <2>1. \A k \in DOMAIN rhs : prPrintItem(t, rhs[k]) \in Call
    BY ItemTyped
  <2> QED
    BY <1>2, <2>1
<1>4. /\ nesting(rhs, 0) = 0 /\ nesting(rhs, n) = 0
      /\ \A k \in 0..n : nesting(rhs, k) \in Nat
      /\ \A k \in 1..n :
            nesting(rhs, k) + is(rhs[k], CloseTerminal) = nesting(rhs, k - 1) + is(rhs[k], OpenTerminal)
  BY <1>1, NestingNext
<1>5. \A k \in 1..n : isSpace(rhs[k]) => k > 1 /\ staysInLine(t, rhs[k - 1])
  <2>1. \A k \in DOMAIN rhs : isSpace(rhs[k]) => k > 1 /\ staysInLine(t, rhs[k - 1])
    BY Zenon DEF Tidy
  <2> QED
    BY <1>2, <2>1
<1> HIDE DEF rhs, n, items
<1>6. ASSUME NEW k \in 0..n
      PROVE  /\ mu[k] \in Mode /\ settled(mu[k]) /\ mu[k].level = l + nesting(rhs, k)
             /\ k < n /\ isSpace(rhs[k + 1]) => mu[k].line = "busy"
             /\ mu[k].line = "busy" => k < n /\ isSpace(rhs[k + 1])
  <2> DEFINE d == l + nesting(rhs, k)
  <2>1. d \in Nat
    BY <1>4
  <2>2. /\ Busy(d) \in Mode /\ settled(Busy(d)) /\ Busy(d).level = d /\ Busy(d).line = "busy"
        /\ Settled(d) \in Mode /\ settled(Settled(d)) /\ Settled(d).level = d
        /\ Settled(d).line = "short"
    BY <2>1, SettledIs
  <2>3. CASE k < n /\ isSpace(rhs[k + 1])
    <3>1. mu[k] = Busy(d)
      BY <2>3
    <3> HIDE DEF mu, d
    <3> QED
      BY <2>2, <2>3, <3>1 DEF d
  <2>4. CASE ~(k < n /\ isSpace(rhs[k + 1]))
    <3>1. mu[k] = Settled(d)
      BY <2>4
    <3> HIDE DEF mu, d
    <3> QED
      BY <2>2, <2>4, <3>1 DEF d
  <2> QED
    BY <2>3, <2>4
<1>7. mu \in [0..n -> Mode]
  BY <1>6
<1> HIDE DEF mu
<1>8. 0 \in 0..n /\ n \in 0..n
  BY <1>2
<1>9. mu[n] = Settled(l)
  <2>1. mu[n].line # "busy" /\ mu[n].level = l /\ settled(mu[n]) /\ mu[n] \in Mode
    BY <1>2, <1>4, <1>6, <1>8
  <2> QED
    BY <2>1, SettledIs DEF settled
<1>10. mu[0] = Settled(l)
  <2>1. CASE n = 0
    BY <1>9, <2>1
  <2>2. CASE n > 0
    <3>1. 1 \in 1..n /\ 0 + 1 = 1
      BY <1>2, <2>2
    <3>2. ~isSpace(rhs[0 + 1])
      BY <1>5, <3>1
    <3>3. mu[0].line # "busy" /\ mu[0].level = l /\ settled(mu[0]) /\ mu[0] \in Mode
      BY <1>4, <1>6, <1>8, <3>2
    <3> QED
      BY <3>3, SettledIs DEF settled
  <2> QED
    BY <1>2, <2>1, <2>2
<1>11. ASSUME NEW k \in 1..n PROVE Leads(mu[k - 1], items[k], mu[k])
  <2>1. k \in 0..n /\ k - 1 \in 0..n /\ k - 1 < n /\ (k - 1) + 1 = k /\ k \in DOMAIN rhs
    BY <1>2
  <2>2. /\ mu[k - 1] \in Mode /\ settled(mu[k - 1]) /\ mu[k - 1].level = l + nesting(rhs, k - 1)
        /\ isSpace(rhs[k]) => mu[k - 1].line = "busy"
    BY <1>6, <2>1
  <2>3. /\ mu[k] \in Mode /\ settled(mu[k]) /\ mu[k].level = l + nesting(rhs, k)
    BY <1>6, <2>1
  <2>4. mu[k].line = "busy" => staysInLine(t, rhs[k])
    <3>1. SUFFICES ASSUME mu[k].line = "busy" PROVE staysInLine(t, rhs[k])
      OBVIOUS
    <3>2. k < n /\ isSpace(rhs[k + 1])
      BY <1>6, <2>1, <3>1
    <3>3. k + 1 \in 1..n /\ (k + 1) - 1 = k
      BY <1>2, <3>2
    <3> QED
      BY <1>5, <3>2, <3>3
  <2>5. mu[k].level + is(rhs[k], CloseTerminal) = mu[k - 1].level + is(rhs[k], OpenTerminal)
    <3>1. is(rhs[k], CloseTerminal) \in Nat /\ is(rhs[k], OpenTerminal) \in Nat
      BY DEF is
    <3>2. nesting(rhs, k) \in Nat /\ nesting(rhs, k - 1) \in Nat
      BY <1>4, <2>1
    <3>3. nesting(rhs, k) + is(rhs[k], CloseTerminal) = nesting(rhs, k - 1) + is(rhs[k], OpenTerminal)
      BY <1>4
    <3> QED
      BY <2>2, <2>3, <3>1, <3>2, <3>3
  <2>6. Leads(mu[k - 1], prPrintItem(t, r.rhs[k]), mu[k])
    BY <2>1, <2>2, <2>3, <2>4, <2>5, ItemLeads DEF rhs
  <2> QED
    BY <1>3, <2>6 DEF rhs
<1>12. Runs(Settled(l), items, Settled(l))
  BY <1>3, <1>7, <1>9, <1>10, <1>11 DEF Runs
<1> QED
  BY <1>3, <1>12 DEF items, rhs

LEMMA ParenRuns ==
    ASSUME NEW r, NEW c \in {"(", ")"}, NEW l \in Nat
    PROVE  paren(r, c) \in Seq(Call) /\ Runs(Settled(l), paren(r, c), Settled(l))
<1>1. c \in Chars /\ c # Newline /\ c # OpenBrace /\ c # CloseBrace /\ c # ";" /\ c # Blank
  BY Zenon, CharsAssumption DEF Newline, OpenBrace, CloseBrace, Blank
<1>2. Settled(l) \in Mode /\ Runs(Settled(l), <<>>, Settled(l))
  BY SettledIs, RunsNone
<1>3. <<"renderC", c>> \in Call
  BY <1>1, CallTyped
<1>4. <<<<"renderC", c>>>> \in Seq(Call) /\ <<>> \in Seq(Call)
  BY <1>3
<1>5. Leads(Settled(l), <<"renderC", c>>, Settled(l))
  <2>1. RenderCLeads(Settled(l), c, Settled(l))
    BY <1>1, SettledIs DEF RenderCLeads
  <2> QED
    BY <2>1, LeadsAre
<1>6. Runs(Settled(l), <<<<"renderC", c>>>>, Settled(l))
  BY <1>2, <1>5, RunsOne
<1>7. paren(r, c) = <<>> \/ paren(r, c) = <<<<"renderC", c>>>>
  BY DEF paren
<1> QED
  BY <1>2, <1>4, <1>6, <1>7

LEMMA prPrintRuleServes ==
    ASSUME Tidy, Holds(buf), calls \in Seq(Call), NEW a \in Mode, NEW b \in Mode,
           At(a, text(buf), _n_), WellIndented(text(buf)), Leads(a, calls[1], b), prPrintRule
    PROVE  Serves(b)
<1>1. /\ calls # <<>> /\ arg \in Trees /\ calls[1][1] = "pp" /\ Only /\ _n_' = _n_
      /\ arg.fun \notin tokens
  BY ArgTyped DEF prPrintRule, Calls, Only
<1>2. PPLeads(a, arg, b)
  BY <1>1 DEF Leads, arg
<1> DEFINE l == a.level
<1>3. settled(a) /\ b = Settled(l) /\ l \in Nat /\ Settled(l) \in Mode
  <2>1. settled(b) /\ b.line = "short" /\ b.level = l
    BY <1>1, <1>2 DEF PPLeads, inline, Between, settled
  <2>2. settled(a) /\ l \in Nat
    BY <1>2 DEF PPLeads, Between, Mode
  <2> QED
    BY <2>1, <2>2, SettledIs
<1> HIDE DEF l
<1>4. PICK r \in rulesFor(arg) :
         Do(paren(r, "(") \o [k \in DOMAIN r.rhs |-> prPrintItem(arg, r.rhs[k])] \o paren(r, ")"))
  BY DEF prPrintRule
<1> DEFINE items == [k \in DOMAIN r.rhs |-> prPrintItem(arg, r.rhs[k])]
           fs == paren(r, "(") \o items \o paren(r, ")")
<1>5. items \in Seq(Call) /\ Runs(Settled(l), items, Settled(l))
  BY <1>1, <1>3, ItemsRun
<1>6. Do(fs)
  BY <1>4
<1> HIDE DEF items
<1>7. /\ paren(r, "(") \in Seq(Call) /\ Runs(Settled(l), paren(r, "("), Settled(l))
      /\ paren(r, ")") \in Seq(Call) /\ Runs(Settled(l), paren(r, ")"), Settled(l))
  BY <1>3, ParenRuns
<1>8. paren(r, "(") \o items \in Seq(Call) /\ fs \in Seq(Call)
  BY <1>5, <1>7
<1>9. Runs(Settled(l), paren(r, "(") \o items, Settled(l))
  BY <1>3, <1>5, <1>7, RunsJoin
<1>10. Runs(Settled(l), fs, b)
  BY <1>3, <1>7, <1>8, <1>9, RunsJoin
<1>11. At(Settled(l), text(buf), _n_)
  <2>1. text(buf) \in Seq(Chars)
    BY TextTyped
  <2> QED
    BY <1>3, <2>1, SettledIs, AtSettled DEF settled, l
<1> HIDE DEF fs
<1> QED
  BY <1>1, <1>3, <1>6, <1>8, <1>10, <1>11, ServesCalls

-----------------------------------------------------------------------------
(* The text of a Tidy grammar is well indented at any time, and so it will be*)
(* after the calls to come.                                                 *)
Indenting ==
    prints > 0 =>
        /\ WellIndented(text(buf))
        /\ \E a, e \in Mode : At(a, text(buf), _n_) /\ Runs(a, calls, e)

LEMMA PrintIndents ==
    ASSUME IInv, NEW t \in Printed, print(t)
    PROVE  Indenting'
<1>1. text(buf') = <<>>
  BY DEF print, bufReset, text
<1>2. Len(<<>>) = 0 /\ <<>> \in Seq(Chars)
  OBVIOUS
<1>3. WellIndented(text(buf'))
  BY <1>1, <1>2 DEF WellIndented
<1>4. At(Settled(0), text(buf'), _n_')
  <2>1. _n_' = 0
    BY DEF print
  <2>2. ASSUME NEW p \in LastBlank(<<>>) PROVE p = 1
    BY <1>2, <2>2 DEF LastBlank
  <2>3. Settled(0).level = 0 /\ Settled(0).dev = 0 /\ Settled(0).line = "short" /\ Settled(0).r = 0
    BY SettledIs
  <2>4. \A p \in LastBlank(<<>>) : Len(<<>>) + 1 - p + 0 = 0
    BY <1>2, <2>2
  <2> QED
    BY <1>1, <2>1, <2>3, <2>4, DepthEmpty, WidthZero DEF At
<1>5. Runs(Settled(0), <<<<"pp", t, 0>>>>, Settled(0))
  <2>1. PPLeads(Settled(0), t, Settled(0))
    BY SettledIs DEF PPLeads, Between
  <2> QED
    BY <2>1, SettledIs, LeadsAre, RunsOne
<1>6. calls' = <<<<"pp", t, 0>>>>
  BY DEF print
<1> QED
  BY <1>3, <1>4, <1>5, <1>6, SettledIs DEF Indenting

LEMMA PrinterServes ==
    ASSUME Tidy, Holds(buf), calls \in Seq(Call), NEW a \in Mode, NEW b \in Mode,
           At(a, text(buf), _n_), WellIndented(text(buf)), Leads(a, calls[1], b),
           Printer, ~resizeBuffer
    PROVE  Serves(b)
BY bufAppendSServes, bufAppendCServes, backupServes, removeTrailingWhitespaceServes,
   onEmptyLineServes, indentByServes, indentServes, renderOpenBraceServes,
   renderCloseBraceServes, renderCServes, renderSServes, bufEscapeCServes, ppIdentServes,
   ppStringServes, ppCharServes, prPrintRuleServes DEF Printer

LEMMA PrinterIndents ==
    ASSUME Tidy, IInv, Indenting, Printer
    PROVE  Indenting'
<1>1. calls # <<>> /\ prints' = prints
  BY DEF Printer, resizeBuffer, bufAppendS, bufAppendC, bufEscapeC, indent, backup,
         removeTrailingWhitespace, onEmptyLine, renderOpenBrace, indentBy, renderCloseBrace,
         renderC, renderS, prPrintRule, ppIdent, ppString, ppChar, Calls, Only, Strip
<1>2. calls \in Seq(Call) /\ prints > 0 /\ Holds(buf)
  BY <1>1 DEF IInv, Typed
<1>3. PICK a \in Mode, e \in Mode : At(a, text(buf), _n_) /\ Runs(a, calls, e)
  BY <1>2 DEF Indenting
<1>4. WellIndented(text(buf))
  BY <1>2 DEF Indenting
<1>5. CASE resizeBuffer
  <2>1. text(buf') = text(buf)
    <3>1. 2 * buf.size \in Nat /\ buf.size <= 2 * buf.size
      BY <1>2 DEF Holds, TypedBuffer
    <3> QED
      BY <1>2, <1>5, <3>1, TextResized DEF resizeBuffer
  <2>2. calls' = calls /\ _n_' = _n_
    BY <1>5 DEF resizeBuffer
  <2> QED
    BY <1>3, <1>4, <2>1, <2>2 DEF Indenting
<1>6. CASE ~resizeBuffer
  <2>1. PICK b \in Mode : Leads(a, calls[1], b) /\ Runs(b, Tail(calls), e)
    BY <1>1, <1>2, <1>3, RunsFirst
  <2>2. Serves(b)
    BY <1>2, <1>3, <1>4, <1>6, <2>1, PrinterServes
  <2>3. PICK fs \in Seq(Call), c \in Mode : Do(fs) /\ At(c, text(buf'), _n_') /\ Runs(c, fs, b)
    BY <2>2 DEF Serves
  <2>4. Tail(calls) \in Seq(Call)
    BY <1>1, <1>2
  <2>5. Runs(c, fs \o Tail(calls), e)
    BY <2>1, <2>3, <2>4, RunsJoin
  <2> QED
    BY <2>2, <2>3, <2>5 DEF Indenting, Serves, Do
<1> QED
  BY <1>5, <1>6

LEMMA StepIndents == Tidy /\ IInv /\ Indenting /\ [Next]_vars => Indenting'
<1>1. ASSUME Tidy, IInv, Indenting, Printer PROVE Indenting'
  BY <1>1, PrinterIndents
<1>2. ASSUME IInv, NEW t \in Printed, print(t) PROVE Indenting'
  BY <1>2, PrintIndents
<1>3. ASSUME Indenting, UNCHANGED vars PROVE Indenting'
  BY <1>3 DEF Indenting, vars
<1> QED
  BY <1>1, <1>2, <1>3 DEF Next

(* What the client reads is the text of the buffer.                         *)
LEMMA TextIs ==
    ASSUME Holds(buf)
    PROVE  Text = text(buf)
<1>1. buf.size \in Nat /\ buf.cur \in Nat /\ buf.cur < buf.size
  BY DEF Holds, TypedBuffer
<1> DEFINE Ends(n) == /\ \A i \in 0..(n - 1) : buf.mem[i] # NUL
                      /\ n < buf.size => buf.mem[n] = NUL
           n == CHOOSE n \in 0..buf.size : Ends(n)
           whole == [i \in 1..buf.size |-> buf.mem[i - 1]]
<1>2. buf.cur \in 0..buf.size /\ Ends(buf.cur)
  BY <1>1 DEF Holds
<1>3. n \in 0..buf.size /\ Ends(n)
  BY <1>2
<1>4. Text = SubSeq(whole, 1, n)
  BY DEF Text
<1> HIDE DEF n, whole
<1>5. n = buf.cur
  <2>1. ~(n < buf.cur)
    <3>1. SUFFICES ASSUME n < buf.cur PROVE FALSE
      OBVIOUS
    <3>2. n \in 0..(buf.cur - 1) /\ n < buf.size
      BY <1>1, <1>3, <3>1
    <3> QED
      BY <1>3, <3>2 DEF Holds
  <2>2. ~(n > buf.cur)
    <3>1. SUFFICES ASSUME n > buf.cur PROVE FALSE
      OBVIOUS
    <3>2. buf.cur \in 0..(n - 1)
      BY <1>1, <1>3, <3>1
    <3> QED
      BY <1>3, <3>2 DEF Holds
  <2> QED
    BY <1>1, <1>3, <2>1, <2>2
<1>6. SubSeq(whole, 1, buf.cur) = text(buf)
  <2>1. SubSeq(whole, 1, buf.cur) = [i \in 1..buf.cur |-> whole[i]]
    <3>1. whole \in Seq({buf.mem[i] : i \in 0..(buf.size - 1)}) /\ Len(whole) = buf.size
      BY <1>1 DEF whole
    <3> QED
      BY <1>1, <3>1
  <2>2. \A i \in 1..buf.cur : whole[i] = buf.mem[i - 1]
    BY <1>1 DEF whole
  <2> QED
    BY <2>1, <2>2 DEF text
<1> QED
  BY <1>4, <1>5, <1>6

LEMMA IndentedIs ==
    ASSUME Holds(buf), WellIndented(text(buf))
    PROVE  Indented
<1> DEFINE s == text(buf)
           begins == {p \in DOMAIN s : p = 1 \/ s[p - 1] = Newline}
           first(p) == CHOOSE q \in p..(Len(s) + 1) :
                          /\ \A i \in p..(q - 1) : s[i] = Blank
                          /\ q <= Len(s) => s[q] # Blank
           visible == {p \in begins : first(p) <= Len(s) /\ s[first(p)] # Newline}
<1>1. s \in Seq(Chars) /\ Len(s) \in Nat /\ DOMAIN s = 1..Len(s)
  <2>1. s \in Seq(Chars)
    BY TextTyped
  <2> QED
    BY <2>1
<1>2. Text = s
  BY TextIs
<1> HIDE DEF s
<1>3. ASSUME NEW p \in 1..Len(s)
      PROVE  /\ first(p) \in p..(Len(s) + 1) /\ \A i \in p..(first(p) - 1) : s[i] = Blank
             /\ first(p) <= Len(s) => s[first(p)] # Blank
  <2> DEFINE stops == {q \in p..(Len(s) + 1) : q <= Len(s) => s[q] # Blank}
  <2>1. stops \in SUBSET Nat /\ Len(s) + 1 \in stops
    BY <1>1
  <2>2. PICK q \in stops : \A m \in stops : q <= m
    BY <2>1, LeastNumber
  <2>3. \A i \in p..(q - 1) : s[i] = Blank
    <3>1. SUFFICES ASSUME NEW i \in p..(q - 1), s[i] # Blank PROVE FALSE
      OBVIOUS
    <3>2. i \in stops /\ i < q
      BY <1>1, <2>2, <3>1
    <3> QED
      BY <2>2, <3>2
  <2>4. \E m \in p..(Len(s) + 1) :
           /\ \A i \in p..(m - 1) : s[i] = Blank
           /\ m <= Len(s) => s[m] # Blank
    BY <2>2, <2>3
  <2> QED
    BY <2>4
<1>4. ASSUME NEW p \in 1..Len(s), NEW q \in p..(Len(s) + 1), LineAt(s, p),
             \A i \in p..(q - 1) : s[i] = Blank, q <= Len(s), s[q] # Blank, s[q] # Newline
      PROVE  q - p = INDENT_WIDTH * (count(s, "{", p - 1) - count(s, "}", q))
  <2> HIDE DEF first, begins, visible
  <2>1. q \in p..Len(s) /\ Blanks(s, p, q - 1)
    BY <1>1, <1>4 DEF Blanks
  <2>2. q - p = width(count(s, OpenBrace, p - 1) - count(s, CloseBrace, q))
    BY <1>4, <2>1 DEF WellIndented, s
  <2> QED
    BY <2>2, Zenon DEF width, OpenBrace, CloseBrace
<1>5. ASSUME NEW p \in visible
      PROVE  first(p) - p = INDENT_WIDTH * (count(s, "{", p - 1) - count(s, "}", first(p)))
  <2>1. p \in 1..Len(s) /\ LineAt(s, p) /\ first(p) <= Len(s) /\ s[first(p)] # Newline
    BY <1>1 DEF LineAt
  <2>2. /\ first(p) \in p..(Len(s) + 1) /\ \A i \in p..(first(p) - 1) : s[i] = Blank
        /\ s[first(p)] # Blank
    BY <1>3, <2>1
  <2> HIDE DEF first, begins, visible
  <2> QED
    BY <1>4, <2>1, <2>2
<1> QED
  BY <1>2, <1>5, Zenon DEF Indented

(* For every Tidy grammar, its trees, initial size and INDENT_WIDTH: each   *)
(* line of the text that the client gets is indented by the braces that are *)
(* open there.                                                              *)
THEOREM IndentedAlways ==
    ASSUME Tidy
    PROVE  Spec => []Indented
<1>1. Init => Indenting
  BY DEF Init, Indenting
<1>2. IInv /\ Indenting /\ [Next]_vars => Indenting'
  BY StepIndents
<1>3. Spec => []Indenting
  BY <1>1, <1>2, Invariant, PTL DEF Spec
<1>4. IInv /\ Indenting => Indented
  <2>1. CASE prints > 0
    BY <2>1, IndentedIs DEF IInv, Indenting
  <2>2. CASE ~(prints > 0)
    BY <2>2 DEF Indented, Returned
  <2> QED
    BY <2>1, <2>2
<1> QED
  BY <1>3, <1>4, Invariant, PTL
=============================================================================
