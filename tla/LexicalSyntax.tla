---------------------------- MODULE LexicalSyntax ----------------------------
(***************************************************************************)
(* The tokens of a language as docs/lbnf.rst documents them: regular       *)
(* expressions, of which the longest match counts, reserved words before   *)
(* identifiers, white space and comments dropped.  A text is a sequence of *)
(* characters, and is read position by position, without the start         *)
(* conditions of the generated lexers.  The language has String, Char and  *)
(* Ident; a comment delimiter is one character.                            *)
(***************************************************************************)
EXTENDS Integers, Sequences

CONSTANTS
    Letters,       \* letters
    Escapes,       \* Escapes[c]: what backslash c stands for, for some letters
    Reserved,      \* reserved words, sequences of letters
    Symbols,       \* the other terminals
    LineComment,   \* what begins a comment up to the end of the line
    BlockComment   \* BlockComment[k] = <<begin, end>> of the k-th block comment

Quote      == "\""
Apostrophe == "'"
Backslash  == "\\"
Newline    == "newline"
Blank      == "blank"

Comments == DOMAIN BlockComment

(* Characters that begin something else than a symbol.                      *)
Begins == {LineComment, Quote, Apostrophe, Newline, Blank}
             \cup Letters \cup {BlockComment[k][1] : k \in Comments}

(* What begins a comment begins only that comment and nothing else.         *)
ASSUME BeginsAssumption ==
    /\ LineComment \notin {Quote, Apostrophe, Newline, Blank}
    /\ Letters \cap {LineComment, Quote, Apostrophe, Newline, Blank} = {}
    /\ \A k \in Comments :
          /\ BlockComment[k][1] \notin
                {LineComment, Quote, Apostrophe, Newline, Blank} \cup Letters
          /\ \A l \in Comments : BlockComment[l][1] = BlockComment[k][1] => l = k

ASSUME EscapesAssumption == \A c \in DOMAIN Escapes : Escapes[c] \in STRING
ASSUME SymbolsAssumption ==
    \A s \in Symbols : s \in Seq(STRING) /\ s # <<>> /\ s[1] \notin Begins

Unescaped(c) == IF c \in DOMAIN Escapes THEN Escapes[c] ELSE c

-----------------------------------------------------------------------------
(* escaped[p]: after i, the character at p stands behind a backslash that   *)
(* begins an escape sequence.                                               *)
Escaped(s, i) ==
    LET escaped[p \in i..Len(s)] == p > i + 1 /\ s[p - 1] = Backslash /\ ~escaped[p - 1]
    IN  escaped

(* values[p]: what the characters of a literal after i, up to p, stand for.  *)
Values(s, i) ==
    LET esc == Escaped(s, i)
        values[p \in i..Len(s)] ==
            IF p = i THEN <<>>
            ELSE IF s[p] = Backslash /\ ~esc[p] THEN values[p - 1]
            ELSE Append(values[p - 1], IF esc[p] THEN Unescaped(s[p]) ELSE s[p])
    IN  values

Value(s, i, j) == Values(s, i)[j - 1]

(* The text from i to j is a word, a symbol, a literal, white space or a    *)
(* comment.  Any character but a newline may follow a backslash (so it is   *)
(* in the code; the documentation lists some).  `without` says what may not *)
(* stand in literals: pairs of the delimiter and either a character or a    *)
(* backslash and a character.                                               *)
IsWord(s, i, j)   == s[i] \in Letters /\ \A p \in i..j : s[p] \in Letters \cup {Apostrophe}
IsSymbol(s, i, j) == SubSeq(s, i, j) \in Symbols
Written(esc, c) == IF esc THEN <<Backslash, c>> ELSE <<c>>
IsQuoted(q, without, s, i, j) ==
    LET esc == Escaped(s, i)
    IN  /\ i < j /\ s[i] = q /\ s[j] = q /\ ~esc[j]
        /\ \A p \in (i + 1)..(j - 1) :
              /\ (s[p] = q => esc[p]) /\ (s[p] = Newline => ~esc[p])
              /\ <<q, Written(esc[p], s[p])>> \notin without
IsChar(without, s, i, j) ==
    IsQuoted(Apostrophe, without, s, i, j) /\ Len(Value(s, i, j)) = 1
IsSpace(s, i, j) ==
    \/ i = j /\ s[i] \in {Newline, Blank}
    \/ s[i] = LineComment /\ \A p \in i..j : s[p] # Newline
    \/ \E k \in Comments :
          /\ i < j /\ s[i] = BlockComment[k][1] /\ s[j] = BlockComment[k][2]
          /\ \A p \in (i + 1)..(j - 1) : s[p] # BlockComment[k][2]

wordToken(w) == [type |-> IF w \in Reserved THEN "reserved" ELSE "IDENT", value |-> w]
EndOfText    == [type |-> "EOF", value |-> <<>>]

IsItem(without, s, i, j) ==
    \/ IsWord(s, i, j) \/ IsSymbol(s, i, j) \/ IsSpace(s, i, j)
    \/ IsQuoted(Quote, without, s, i, j) \/ IsChar(without, s, i, j)

TokensOf(s, i, j) ==
    CASE IsSpace(s, i, j)  -> <<>>
      [] IsWord(s, i, j)   -> <<wordToken(SubSeq(s, i, j))>>
      [] IsSymbol(s, i, j) -> <<[type |-> "symbol", value |-> SubSeq(s, i, j)]>>
      [] s[i] = Quote      -> <<[type |-> "STRING", value |-> Value(s, i, j)]>>
      [] OTHER             -> <<[type |-> "CHAR", value |-> Value(s, i, j)]>>

(* readings[i]: whether the text from i on has a reading, and its tokens.   *)
Readings(without, s) ==
    LET readings[i \in 1..(Len(s) + 1)] ==
            IF i > Len(s) THEN [ok |-> TRUE, tokens |-> <<EndOfText>>]
            ELSE LET ends == {j \in i..Len(s) : IsItem(without, s, i, j)}
                     last == CHOOSE j \in ends : \A k \in ends : k <= j
                 IN  IF ends = {} THEN [ok |-> FALSE, tokens |-> <<>>]
                     ELSE LET rest == readings[last + 1]
                          IN  [ok |-> rest.ok, tokens |-> TokensOf(s, i, last) \o rest.tokens]
    IN  readings

Reading(without, s) == Readings(without, s)[1]

(* A string does not extend over a line (so it is in the code).             *)
WithinLine == {<<Quote, <<Newline>>>>}
=============================================================================
