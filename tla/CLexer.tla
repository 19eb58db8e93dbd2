-------------------------------- MODULE CLexer --------------------------------
(***************************************************************************)
(* The lexer that the C and C++ backends generate (C/CFtoFlexC.hs), with   *)
(* the growing buffer for string literals (Buffer.c, from C.hs) and the    *)
(* parser that calls it (entry code of C/CFtoBisonC.hs).                   *)
(*                                                                         *)
(* A Flex rule is an action, guarded by its start condition; Flex copies a *)
(* character to the output if no rule matches.  The grammar uses String,   *)
(* Char and Ident; each comment delimiter is one character.  Positions are *)
(* left out.  Buffers are counted as they are allocated and freed, and the *)
(* memory for them does not run out.                                       *)
(***************************************************************************)
EXTENDS LexicalSyntax

CONSTANTS
    Input,         \* the texts that are lexed
    InitialSize,   \* LITERAL_BUFFER_INITIAL_SIZE
    Word           \* one more than the largest unsigned int

ASSUME InputAssumption == \A s \in Input : s \in Seq(STRING)
ASSUME SizeAssumption  == InitialSize \in Nat \ {0} /\ Word \in Nat

(* The buffer may hold each text, and the doubling does not overflow.       *)
ASSUME WordAssumption ==
    /\ InitialSize < Word
    /\ \A s \in Input : 2 * Len(s) + 2 < Word

VARIABLES
    input,    \* the text
    rest,     \* what of it has not been matched
    start,    \* the start condition
    buffer,   \* literal_buffer; meaningless unless heap is 1
    heap,     \* the number of Buffers allocated
    pending,  \* the character that bufferAppendChar is at work on, or <<>>
    tokens,   \* the tokens returned
    echoed,   \* what the default rule has copied to the output
    turn      \* "lexer", "parser", "accepted", "rejected"

vars == <<input, rest, start, buffer, heap, pending, tokens, echoed, turn>>

COMMENT(k) == <<"COMMENT", k>>
Condition(x) == <<x, 0>>
Conditions == {Condition(x) : x \in {"INITIAL", "STRING", "ESCAPED", "CHAR", "CHARESC", "CHAREND"}}
                  \cup {COMMENT(k) : k \in Comments}

newBuffer == [size |-> InitialSize, current |-> 0, chars |-> <<>>]

Init ==
    /\ input \in Input /\ rest = input
    /\ start = Condition("INITIAL")
    /\ buffer = newBuffer /\ heap = 0 /\ pending = <<>>
    /\ tokens = <<>> /\ echoed = <<>> /\ turn = "lexer"

-----------------------------------------------------------------------------
(* Matching. *)

In(x)   == turn = "lexer" /\ pending = <<>> /\ start = Condition(x)
More   == rest # <<>>
Sees(c) == rest # <<>> /\ rest[1] = c

BEGIN(x) == start' = Condition(x)

(* The length of the longest prefix of the text in the set of characters.   *)
Span(S, s) ==
    CHOOSE n \in 0..Len(s) : /\ \A i \in 1..n : s[i] \in S
                             /\ n < Len(s) => s[n + 1] \notin S

(* A rule matches n characters.                                             *)
Match(n) == rest' = SubSeq(rest, n + 1, Len(rest)) /\ UNCHANGED input

Return(type, value) ==
    /\ tokens' = Append(tokens, [type |-> type, value |-> value])
    /\ turn' = "parser"

Silent == UNCHANGED <<tokens, turn>>
NoBuffer == UNCHANGED <<buffer, heap, pending>>

(* No rule matches.                                                         *)
Echo ==
    /\ More /\ turn = "lexer" /\ pending = <<>>
    /\ \/ start \in {Condition("STRING"), Condition("ESCAPED"), Condition("CHARESC")}
             /\ rest[1] = Newline
       \/ start = Condition("CHAR") /\ rest[1] = Apostrophe
       \/ start = Condition("CHAREND") /\ rest[1] # Apostrophe
    /\ Match(1) /\ echoed' = Append(echoed, rest[1])
    /\ UNCHANGED start /\ Silent /\ NoBuffer

-----------------------------------------------------------------------------
(* Start condition INITIAL. *)

Skip(n) == Match(n) /\ UNCHANGED <<start, echoed>> /\ Silent /\ NoBuffer

lexSingleComment ==
    /\ In("INITIAL") /\ Sees(LineComment)
    /\ Skip(Span({c \in {rest[i] : i \in DOMAIN rest} : c # Newline}, rest))

WhiteSpace == In("INITIAL") /\ More /\ rest[1] \in {Newline, Blank} /\ Skip(1)

BeginComment ==
    /\ In("INITIAL")
    /\ \E k \in Comments : Sees(BlockComment[k][1]) /\ start' = COMMENT(k)
    /\ Match(1) /\ UNCHANGED echoed /\ Silent /\ NoBuffer

(* The longest match; of a reserved word and an identifier the first rule.  *)
lexWord ==
    /\ In("INITIAL") /\ More /\ rest[1] \in Letters
    /\ LET n == Span(Letters \cup {Apostrophe}, rest)
           w == SubSeq(rest, 1, n)
       IN  Match(n) /\ Return(wordToken(w).type, w)
    /\ UNCHANGED <<start, echoed>> /\ NoBuffer

(* The longest match among the symbols.                                     *)
symbolEnds == {n \in 1..Len(rest) : SubSeq(rest, 1, n) \in Symbols}

lexSymbol ==
    /\ In("INITIAL")
    /\ \E n \in symbolEnds :
          /\ \A m \in symbolEnds : m <= n
          /\ Match(n) /\ Return("symbol", SubSeq(rest, 1, n))
    /\ UNCHANGED <<start, echoed>> /\ NoBuffer

BeginString ==
    /\ In("INITIAL") /\ Sees(Quote)
    /\ Match(1) /\ BEGIN("STRING")
    /\ buffer' = newBuffer /\ heap' = heap + 1
    /\ UNCHANGED <<pending, echoed>> /\ Silent

BeginChar ==
    /\ In("INITIAL") /\ Sees(Apostrophe)
    /\ Match(1) /\ BEGIN("CHAR")
    /\ UNCHANGED echoed /\ Silent /\ NoBuffer

Unexpected ==
    /\ In("INITIAL") /\ More /\ rest[1] \notin Begins /\ symbolEnds = {}
    /\ Match(1) /\ Return("ERROR", <<>>)
    /\ UNCHANGED <<start, echoed>> /\ NoBuffer

-----------------------------------------------------------------------------
(* Strings, and the buffer. *)

BackslashInString ==
    /\ In("STRING") /\ Sees(Backslash)
    /\ Match(1) /\ BEGIN("ESCAPED")
    /\ UNCHANGED echoed /\ Silent /\ NoBuffer

EndStringKeeping ==
    /\ In("STRING") /\ Sees(Quote)
    /\ Match(1) /\ BEGIN("INITIAL") /\ Return("STRING", buffer.chars)
    /\ UNCHANGED <<buffer, heap, pending, echoed>>
EndString ==
    /\ In("STRING") /\ Sees(Quote)
    /\ Match(1) /\ BEGIN("INITIAL") /\ Return("STRING", buffer.chars)
    /\ heap' = heap - 1
    /\ UNCHANGED <<buffer, pending, echoed>>

AppendChar(c) ==
    /\ Match(1) /\ BEGIN("STRING")
    /\ pending' = <<c>>
    /\ UNCHANGED <<buffer, heap, echoed>> /\ Silent

CharInString ==
    /\ In("STRING") /\ More /\ rest[1] \notin {Backslash, Quote, Newline}
    /\ AppendChar(rest[1])

EscapedCharStaying ==
    /\ In("ESCAPED") /\ More /\ rest[1] # Newline
    /\ Match(1) /\ pending' = <<Unescaped(rest[1])>>
    /\ UNCHANGED <<start, buffer, heap, echoed>> /\ Silent
EscapedChar ==
    /\ In("ESCAPED") /\ More /\ rest[1] # Newline
    /\ AppendChar(Unescaped(rest[1]))

(* bufferAppendChar: bufferAllocateChars doubles the size until it suffices,  *)
(* then the character and a terminating 0 are written.                      *)
requiredSizeShort == buffer.current + 1
requiredSize      == buffer.current + 1 + 1

doubledNarrow == (2 * buffer.size) % 4
doubled       == (2 * buffer.size) % Word

Double ==
    /\ turn = "lexer" /\ pending # <<>>
    /\ buffer.size < requiredSize
    /\ buffer' = [buffer EXCEPT !.size = doubled]
    /\ UNCHANGED <<input, rest, start, heap, pending, tokens, echoed, turn>>

Put ==
    /\ turn = "lexer" /\ pending # <<>>
    /\ buffer.size >= requiredSize
    /\ buffer' = [buffer EXCEPT !.current = @ + 1, !.chars = @ \o pending]
    /\ pending' = <<>>
    /\ UNCHANGED <<input, rest, start, heap, tokens, echoed, turn>>

-----------------------------------------------------------------------------
(* Characters.  The token is returned before the closing apostrophe is read. *)

BackslashInChar ==
    /\ In("CHAR") /\ Sees(Backslash)
    /\ Match(1) /\ BEGIN("CHARESC")
    /\ UNCHANGED echoed /\ Silent /\ NoBuffer

ReturnChar(c) ==
    /\ Match(1) /\ BEGIN("CHAREND") /\ Return("CHAR", <<c>>)
    /\ UNCHANGED echoed /\ NoBuffer

PlainChar ==
    /\ In("CHAR") /\ More /\ rest[1] \notin {Backslash, Apostrophe}
    /\ ReturnChar(rest[1])

EscapedCharacter ==
    /\ In("CHARESC") /\ More /\ rest[1] # Newline
    /\ ReturnChar(Unescaped(rest[1]))

EndChar ==
    /\ In("CHAREND") /\ Sees(Apostrophe)
    /\ Match(1) /\ BEGIN("INITIAL")
    /\ UNCHANGED echoed /\ Silent /\ NoBuffer

-----------------------------------------------------------------------------
(* Block comments, and the end of the input. *)

InComment(k) == turn = "lexer" /\ start = COMMENT(k)

EndComment ==
    /\ \E k \in Comments : InComment(k) /\ Sees(BlockComment[k][2])
    /\ Match(1) /\ BEGIN("INITIAL")
    /\ UNCHANGED echoed /\ Silent /\ NoBuffer

CharInComment ==
    /\ \E k \in Comments : InComment(k) /\ More /\ rest[1] # BlockComment[k][2]
    /\ Skip(1)

EofInStringKeeping ==
    /\ In("STRING") \/ In("ESCAPED")
    /\ rest = <<>>
    /\ Return("ERROR", <<>>)
    /\ UNCHANGED <<input, rest, start, buffer, heap, pending, echoed>>
EofInString ==
    /\ In("STRING") \/ In("ESCAPED")
    /\ rest = <<>>
    /\ heap' = heap - 1 /\ Return("ERROR", <<>>)
    /\ UNCHANGED <<input, rest, start, buffer, pending, echoed>>

Eof ==
    /\ turn = "lexer" /\ pending = <<>> /\ rest = <<>>
    /\ start \notin {Condition("STRING"), Condition("ESCAPED")}
    /\ Return("EOF", <<>>)
    /\ UNCHANGED <<input, rest, start, echoed>> /\ NoBuffer

-----------------------------------------------------------------------------
(* The parser takes a token.  It ends with a syntax error at _ERROR_, which  *)
(* no rule has, and perhaps at any other; it accepts at the end of the text *)
(* only.  Then the scanner is destroyed, but not a Buffer.                  *)
Last == tokens[Len(tokens)].type

Parser ==
    /\ turn = "parser"
    /\ turn' \in CASE Last = "ERROR" -> {"rejected"}
                   [] Last = "EOF"   -> {"accepted", "rejected"}
                   [] OTHER          -> {"lexer", "rejected"}
    /\ UNCHANGED <<input, rest, start, buffer, heap, pending, tokens, echoed>>

Lexer == \/ Echo \/ lexSingleComment \/ WhiteSpace \/ BeginComment \/ lexWord \/ lexSymbol
         \/ BeginString \/ BeginChar \/ Unexpected
         \/ BackslashInString \/ EndString \/ CharInString \/ EscapedChar
         \/ Double \/ Put
         \/ BackslashInChar \/ PlainChar \/ EscapedCharacter \/ EndChar
         \/ EndComment \/ CharInComment \/ EofInString \/ Eof

Next == Lexer \/ Parser

(* yyparse calls yylex until it has a token, and goes on until it is done.  *)
Spec == Init /\ [][Next]_vars
FairSpec == Spec /\ WF_vars(Next)

-----------------------------------------------------------------------------
TypeOK ==
    /\ input \in Input /\ rest \in Seq(STRING)
    /\ start \in Conditions
    /\ buffer.size \in Nat /\ buffer.current \in Nat /\ buffer.chars \in Seq(STRING)
    /\ heap \in {0, 1}
    /\ pending \in Seq(STRING) /\ Len(pending) <= 1
    /\ turn \in {"lexer", "parser", "accepted", "rejected"}

(* There is a buffer exactly while a string literal is read: on no path     *)
(* through the start conditions (lexStrings) is it used before it is there, *)
(* and however the parse ends, none is left behind.                         *)
BufferLive ==
    /\ heap = 1 <=> turn = "lexer" /\ start \in {Condition("STRING"), Condition("ESCAPED")}
    /\ pending # <<>> => heap = 1

(* The comments in Buffer.h: the next free position lies inside the buffer, *)
(* so that the characters and the terminating 0 fit, whatever the initial   *)
(* size; and an append ends with the first doubling (bufferAllocateChars).  *)
Capacity ==
    /\ buffer.current = Len(buffer.chars) /\ buffer.current < buffer.size
    /\ pending # <<>> /\ buffer.size < requiredSize => doubled >= requiredSize

(* The start conditions, entered and left one character at a time, read a   *)
(* text as its documented reading does, newlines in strings apart: token by *)
(* token, without an error.  A text that has no such reading and is accepted *)
(* all the same leaves traces: characters copied to the output, or a start  *)
(* condition other than INITIAL.                                            *)
Lexes ==
    LET r == Reading(WithinLine, input)
    IN  turn \in {"parser", "accepted"} =>
            /\ r.ok => /\ Len(tokens) <= Len(r.tokens)
                       /\ tokens = SubSeq(r.tokens, 1, Len(tokens))
            /\ turn = "accepted" =>
                  /\ r.ok <=> echoed = <<>> /\ start = Condition("INITIAL")
                  /\ r.ok => tokens = r.tokens

(* The scanner always gives the parser its next token, in spite of start    *)
(* conditions and the loop that doubles the buffer, so a parse ends.        *)
Ends == <>(turn \in {"accepted", "rejected"})

(* What docs/lbnf.rst says: a String literal consists of `char`, which      *)
(* matches any character, so a newline in it is part of its value.          *)
NewlineKept ==
    LET r == Reading({}, input)
    IN  turn = "accepted" /\ r.ok => tokens = r.tokens
=============================================================================
