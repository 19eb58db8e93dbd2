-------------------------- MODULE CPrinterProperties --------------------------
(***************************************************************************)
(* What the generated printer promises: the text fits in its buffer, reads *)
(* back as the tree, and is indented by its braces.                        *)
(***************************************************************************)
EXTENDS CPrinter, SequencesExt

(* The client has its text: the characters in the buffer up to a NUL.       *)
Returned == calls = <<>> /\ prints > 0
Text ==
    LET n == CHOOSE n \in 0..buf.size :
                /\ \A i \in 0..(n - 1) : buf.mem[i] # NUL
                /\ n < buf.size => buf.mem[n] = NUL
    IN  SubSeq([i \in 1..buf.size |-> buf.mem[i - 1]], 1, n)

(* The sentence of a tree, by the grammar: an argument of higher precedence  *)
(* than its rule has to go through the coercions, and these have            *)
(* parentheses; a terminal of white space is no token.                      *)
terminalTokens(text) ==
    IF AllIsSpace(text) THEN <<>>
    ELSE IF text \in Symbols THEN <<[type |-> "symbol", value |-> text]>>
    ELSE <<[type |-> "reserved", value |-> text]>>

leafType == [Ident |-> "IDENT", String |-> "STRING", Char |-> "CHAR"]

Precedences == {r.prec : r \in Rules} \cup {0} \cup
    UNION {{r.rhs[k][3] : k \in {k \in DOMAIN r.rhs : r.rhs[k][1] = "argument"}} : r \in Rules}

sentence[t \in Trees, i \in Precedences] ==
    IF t.fun \in tokens THEN <<[type |-> leafType[t.fun], value |-> t.text]>>
    ELSE LET part(item) == IF item[1] = "terminal" THEN terminalTokens(item[2])
                           ELSE sentence[child(t, item[2]), item[3]]
             body(r) == FlattenSeq([k \in DOMAIN r.rhs |-> part(r.rhs[k])])
             r == CHOOSE r \in rulesFor(t) : TRUE
         IN  IF t.fun = "list" \/ i <= r.prec THEN body(r)
             ELSE terminalTokens(<<"(">>) \o sentence[t, 0] \o terminalTokens(<<")">>)

(* How often c is among the first p elements of s.                          *)
count(s, c, p) == Cardinality({i \in 1..p : s[i] = c})

(* Grammars and trees whose texts say by their braces how they are indented: *)
(* no brace or newline is hidden inside of a token, the braces of each rule *)
(* are balanced, and a terminal of blanks stands behind something in its    *)
(* line.                                                                    *)
unbroken(s)  == \A i \in DOMAIN s : s[i] \notin {"{", "}", Newline}
word(s)      == unbroken(s) /\ s # <<>> /\ s[1] # Blank
escapable(c) == c \notin {"{", "}"} /\ (c = Newline => c \in DOMAIN Controls)

tidyLeaf(t) ==
    /\ t.fun = "Ident"  => t.text = <<>> \/ word(t.text)
    /\ t.fun = "String" => \A i \in DOMAIN t.text : escapable(t.text[i])
    /\ t.fun = "Char"   => escapable(t.text[1])

tidyTerminal(text) ==
    IF Len(text) = 1 THEN text[1] # Newline ELSE word(text) \/ (unbroken(text) /\ AllIsSpace(text))

nesting(rhs, k) == count(rhs, Terminal(<<"{">>), k) - count(rhs, Terminal(<<"}">>), k)
balanced(rhs)   == nesting(rhs, Len(rhs)) = 0 /\ \A k \in DOMAIN rhs : nesting(rhs, k) >= 0

isSpace(item) == item[1] = "terminal" /\ AllIsSpace(item[2])
staysInLine(t, item) ==
    IF item[1] = "terminal" THEN item[2] \notin {<<"{">>, <<"}">>, <<";">>}
    ELSE LET c == child(t, item[2]) IN c.fun \in tokens /\ (c.fun = "Ident" => c.text # <<>>)

Tidy ==
    /\ \A c \in DOMAIN Controls : Controls[c] \notin {"{", "}", Newline}
    /\ \A r \in Rules :
          /\ balanced(r.rhs)
          /\ \A k \in DOMAIN r.rhs : r.rhs[k][1] = "terminal" => tidyTerminal(r.rhs[k][2])
    /\ \A t \in Trees :
          IF t.fun \in tokens THEN tidyLeaf(t)
          ELSE \A r \in rulesFor(t) : \A k \in DOMAIN r.rhs :
                  isSpace(r.rhs[k]) => k > 1 /\ staysInLine(t, r.rhs[k - 1])

-----------------------------------------------------------------------------
TypeOK ==
    /\ tree \in Printed \cup {<<>>}
    /\ buf.size \in Nat /\ buf.cur \in Nat /\ buf.mem \in [0..(buf.size - 1) -> Chars \cup {NUL}]
    /\ _n_ \in Int /\ prints \in 0..MaxPrints

(* The text and its NUL fit, however large the initial buffer is and in     *)
(* whatever order the text grows and is cut back; no NUL is inside the text. *)
(* So growing the buffer copies all of it and reads nothing else            *)
(* (resizeBuffer, bufAppendS, bufAppendC, removeTrailingWhitespace).        *)
Terminated ==
    prints > 0 =>
        /\ buf.cur < buf.size /\ buf.mem[buf.cur] = NUL
        /\ \A i \in 0..(buf.cur - 1) : buf.mem[i] # NUL

(* The escapes that docs/lbnf.rst does not list for Char and String, but the *)
(* two that the printer writes all the same: an escaped apostrophe in a     *)
(* String and an escaped quote in a Char.                                   *)
Undocumented ==
    {<<q, <<Backslash, c>>>> : q \in {Quote, Apostrophe},
                               c \in Chars \ ({Quote, Apostrophe, Backslash} \cup DOMAIN Escapes)}

(* A client that gets the text reads in it exactly the sentence of the tree, *)
(* by the documented lexical syntax with these two escapes added, and so by *)
(* the documented one if no String has an apostrophe and no Char is a quote: *)
(* the heuristics that drop and insert white space neither join nor split   *)
(* tokens, escapes are undone, parentheses stand where the grammar needs    *)
(* them and nowhere else, and nothing is left of an earlier text in the     *)
(* buffer (renderC, renderS, bufEscapeC, prPrintRule, bufReset).            *)
ReadsBack ==
    Returned => Reading(Undocumented, Text) =
                [ok |-> TRUE, tokens |-> sentence[tree, 0] \o <<EndOfText>>]

(* Each line of the text that is not empty is indented by INDENT_WIDTH for   *)
(* each brace that is open there, one that closes at its beginning apart,   *)
(* for a Tidy grammar (indent, onEmptyLine).                                *)
Indented ==
    Returned =>
        LET s == Text
            begins == {p \in DOMAIN s : p = 1 \/ s[p - 1] = Newline}
            first(p) == CHOOSE q \in p..(Len(s) + 1) :
                           /\ \A i \in p..(q - 1) : s[i] = Blank
                           /\ q <= Len(s) => s[q] # Blank
            visible == {p \in begins : first(p) <= Len(s) /\ s[first(p)] # Newline}
        IN  \A p \in visible :
               first(p) - p = INDENT_WIDTH * (count(s, "{", p - 1) - count(s, "}", first(p)))

(* Each call of the printer returns: the loop that doubles the buffer ends,  *)
(* and so does the recursion over the tree.                                 *)
Returns == calls # <<>> ~> calls = <<>>
=============================================================================
