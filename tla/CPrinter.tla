------------------------------- MODULE CPrinter -------------------------------
(***************************************************************************)
(* The pretty printer that the C backend generates                         *)
(* (Backend/C/CFtoCPrinter.hs), for any grammar: printing functions for    *)
(* trees, which call rendering functions with simple rules of layout,      *)
(* which append to a buffer that grows and is handed to the client.        *)
(*                                                                         *)
(* The functions of the printer are actions.  The functions that are still *)
(* to be called stand in `calls`, innermost first: what the C program has  *)
(* on its stack.  A list category has rules of one precedence.  Numbers    *)
(* are left out, and malloc does not fail.                                 *)
(***************************************************************************)
EXTENDS LexicalSyntax

CONSTANTS
    Chars,            \* characters
    Rules,            \* the rules of the grammar, without coercions
    Trees,            \* trees of the grammar, each with its subtrees
    Printed,          \* those that the client prints
    Controls,         \* Controls[c]: the letter of the escape for control character c
    BUFFER_INITIAL,   \* the initial size of the buffer
    INDENT_WIDTH,
    MaxPrints         \* bound: how often the client calls the printer

NUL == "NUL"

(* An item of a rule is a terminal or the k-th argument at a precedence.    *)
Terminal(text) == <<"terminal", text>>
Argument(k, i) == <<"argument", k, i>>
Items == ({"terminal"} \X (Seq(Chars) \ {<<>>})) \cup ({"argument"} \X Nat \X Nat)

(* A tree is a token, a list, or a node, named by the label of its rule.    *)
tokens == {"Ident", "String", "Char"}
list(cat, elems) == [fun |-> "list", cat |-> cat, args |-> elems]

Has(cat, fun) == \E r \in Rules : r.cat = cat /\ r.fun = fun

(* The rule that prints a tree: of a list, by the number of elements (nil,   *)
(* last, cons).                                                             *)
label(t) ==
    IF t.fun # "list" THEN t.fun
    ELSE IF t.args = <<>> THEN "[]"
    ELSE IF Len(t.args) = 1 /\ Has(t.cat, "(:[])") THEN "(:[])"
    ELSE "(:)"
rulesFor(t) == {r \in Rules : r.fun = label(t) /\ (t.fun = "list" => r.cat = t.cat)}

child(t, k) ==
    IF t.fun = "list" /\ k = 2 THEN list(t.cat, Tail(t.args)) ELSE t.args[k]

ASSUME CharsAssumption ==
    /\ {"{", "}", "(", ")", "[", "]", ",", ";", Quote, Apostrophe, Backslash, Newline, Blank}
          \subseteq Chars
    /\ NUL \notin Chars
ASSUME RulesAssumption ==
    \A r \in Rules : r.prec \in Nat /\ r.rhs \in Seq(Items)
ASSUME TreesAssumption ==
    /\ Printed \subseteq Trees
    /\ \A t \in Trees :
          IF t.fun \in tokens THEN t.text \in Seq(Chars) /\ (t.fun = "Char" => t.text # <<>>)
          ELSE /\ rulesFor(t) # {}
               /\ \A r \in rulesFor(t) : \A k \in DOMAIN r.rhs :
                     r.rhs[k][1] = "argument" => child(t, r.rhs[k][2]) \in Trees
ASSUME ControlsAssumption == \A c \in DOMAIN Controls : Controls[c] \in Chars
ASSUME SizesAssumption ==
    BUFFER_INITIAL \in Nat \ {0} /\ INDENT_WIDTH \in Nat /\ MaxPrints \in Nat

VARIABLES
    tree,     \* the tree printed last, <<>> before the first call
    calls,    \* the function calls to come
    buf,      \* the buffer: its size, the next position, the memory
    _n_,      \* the indentation
    prints    \* how often the client has called the printer

vars == <<tree, calls, buf, _n_, prints>>

(* Before the first call there is no buffer.                                *)
Init ==
    /\ tree = <<>> /\ calls = <<>>
    /\ buf = [size |-> 0, cur |-> 0, mem |-> <<>>]
    /\ _n_ = 0 /\ prints = 0

-----------------------------------------------------------------------------
(* The buffer. *)

(* strncpy copies up to a NUL, and fills the rest with NUL.                 *)
copied(b, size) ==
    [i \in 0..(size - 1) |->
        IF i < b.size /\ \A j \in 0..i : b.mem[j] # NUL THEN b.mem[i] ELSE NUL]
resizedFirst(b, size) == [size |-> size, cur |-> b.cur, mem |-> copied(b, b.size)]
resized(b, size) == [size |-> size, cur |-> b.cur, mem |-> copied(b, size)]

(* The text s and a NUL are written at a position.                          *)
written(b, at, s) ==
    [size |-> b.size, cur |-> at + Len(s),
     mem |-> [i \in DOMAIN b.mem |->
                 IF i = at + Len(s) THEN NUL
                 ELSE IF at <= i /\ i < at + Len(s) THEN s[i - at + 1]
                 ELSE b.mem[i]]]

(* The buffer without the characters of S at its end.                       *)
stripped(b, S) ==
    LET n == CHOOSE n \in 0..b.cur :
                /\ \A i \in n..(b.cur - 1) : b.mem[i] \in S
                /\ n > 0 => b.mem[n - 1] \notin S
    IN  written(b, n, <<>>)

Calls(f) == calls # <<>> /\ calls[1][1] = f
arg      == calls[1][2]
Do(fs)   == calls' = fs \o Tail(calls)

bufReset == [size |-> BUFFER_INITIAL, cur |-> 0,
             mem |-> [i \in 0..(BUFFER_INITIAL - 1) |-> NUL]]

(* The client calls print for a tree.                                       *)
print(t) ==
    /\ calls = <<>> /\ prints < MaxPrints
    /\ tree' = t /\ calls' = <<<<"pp", t, 0>>>>
    /\ _n_' = 0 /\ buf' = bufReset
    /\ prints' = prints + 1

resizeKept ==
    /\ Calls("bufAppendS") /\ buf.cur + Len(arg) >= buf.size
    /\ buf' = resized(buf, buf.size)
    /\ UNCHANGED <<tree, calls, _n_, prints>>
resizeBuffer ==
    /\ Calls("bufAppendS") /\ buf.cur + Len(arg) >= buf.size
    /\ buf' = resized(buf, 2 * buf.size)
    /\ UNCHANGED <<tree, calls, _n_, prints>>

bufAppendS ==
    /\ Calls("bufAppendS") /\ buf.cur + Len(arg) < buf.size
    /\ buf' = written(buf, buf.cur, arg)
    /\ Do(<<>>) /\ UNCHANGED <<tree, _n_, prints>>

fullLate == buf.cur >= buf.size
full     == buf.cur + 1 >= buf.size

bufAppendC ==
    /\ Calls("bufAppendC")
    /\ LET b == IF full THEN resized(buf, 2 * buf.size) ELSE buf
       IN  buf' = written(b, b.cur, <<arg>>)
    /\ Do(<<>>) /\ UNCHANGED <<tree, _n_, prints>>

escape(c) ==
    IF c \in {Backslash, Quote, Apostrophe} THEN <<Backslash, c>>
    ELSE IF c \in DOMAIN Controls THEN <<Backslash, Controls[c]>>
    ELSE <<c>>

bufEscapeC ==
    /\ Calls("bufEscapeC")
    /\ IF Len(escape(arg)) = 1 THEN Do(<<<<"bufAppendC", arg>>>>)
       ELSE Do(<<<<"bufAppendS", escape(arg)>>>>)
    /\ UNCHANGED <<tree, buf, _n_, prints>>

-----------------------------------------------------------------------------
(* Rendering. *)

append(c) == <<"bufAppendC", c>>
call(f)   == <<f, 0>>
Only      == UNCHANGED <<tree, buf, prints>>

indent ==
    /\ Calls("indent")
    /\ Do([k \in 1.._n_ |-> append(Blank)])
    /\ Only /\ UNCHANGED _n_

(* Functions that shorten the text.                                         *)
Strip(b) ==
    /\ buf' = b
    /\ Do(<<>>) /\ UNCHANGED <<tree, _n_, prints>>

backup ==
    /\ Calls("backup")
    /\ Strip(IF buf.cur > 0 /\ buf.mem[buf.cur - 1] = Blank
             THEN written(buf, buf.cur - 1, <<>>) ELSE buf)

removeTrailingWhitespace ==
    /\ Calls("removeTrailingWhitespace")
    /\ Strip(stripped(buf, {Blank, Newline}))

(* removeTrailingSpaces comes first.                                        *)
onEmptyLine ==
    /\ Calls("onEmptyLine")
    /\ LET b == stripped(buf, {Blank})
       IN  /\ buf' = b
           /\ Do((IF b.cur > 0 /\ b.mem[b.cur - 1] # Newline THEN <<append(Newline)>> ELSE <<>>)
                    \o <<call("indent")>>)
    /\ UNCHANGED <<tree, _n_, prints>>

renderOpenBrace ==
    /\ Calls("renderC") /\ arg = "{"
    /\ Do(<<call("onEmptyLine"), append(arg), <<"indentBy", 1>>,
            append(Newline), call("indent")>>)
    /\ Only /\ UNCHANGED _n_

(* _n_ changes between two calls.                                           *)
indentBy ==
    /\ Calls("indentBy")
    /\ _n_' = _n_ + INDENT_WIDTH
    /\ Do(<<>>) /\ Only

closeBraceInline ==
    /\ Calls("renderC") /\ arg = "}"
    /\ _n_' = _n_ - INDENT_WIDTH
    /\ Do(<<append(arg), append(Newline), call("indent")>>)
    /\ Only
renderCloseBrace ==
    /\ Calls("renderC") /\ arg = "}"
    /\ _n_' = _n_ - INDENT_WIDTH
    /\ Do(<<call("onEmptyLine"), append(arg), append(Newline), call("indent")>>)
    /\ Only

renderC ==
    /\ Calls("renderC") /\ arg \notin {"{", "}"}
    /\ Do(CASE arg \in {"(", "[", Blank} -> <<append(arg)>>
            [] arg \in {")", "]", ","}   -> <<call("removeTrailingWhitespace"), append(arg), append(Blank)>>
            [] arg = ";" -> <<call("removeTrailingWhitespace"), append(arg), append(Newline), call("indent")>>
            [] OTHER     -> <<append(arg), append(Blank)>>)
    /\ Only /\ UNCHANGED _n_

AllIsSpace(s) == \A i \in DOMAIN s : s[i] \in {Blank, Newline}

renderS ==
    /\ Calls("renderS")
    /\ Do(IF arg = <<>> THEN <<>>
          ELSE IF AllIsSpace(arg) THEN <<call("backup"), <<"bufAppendS", arg>>>>
          ELSE <<<<"bufAppendS", arg>>, append(Blank)>>)
    /\ Only /\ UNCHANGED _n_

-----------------------------------------------------------------------------
(* Printing trees. *)

renderX(text) == IF Len(text) = 1 THEN <<"renderC", text[1]>> ELSE <<"renderS", text>>

prPrintItem(t, item) ==
    IF item[1] = "terminal" THEN renderX(item[2])
    ELSE <<"pp", child(t, item[2]), item[3]>>

precedence == calls[1][3]

parenNever(r, c) == <<>>
paren(r, c) ==
    IF arg.fun # "list" /\ precedence > r.prec THEN <<<<"renderC", c>>>> ELSE <<>>

prPrintRule ==
    /\ Calls("pp") /\ arg.fun \notin tokens
    /\ \E r \in rulesFor(arg) :
          Do(paren(r, "(") \o [k \in DOMAIN r.rhs |-> prPrintItem(arg, r.rhs[k])] \o paren(r, ")"))
    /\ Only /\ UNCHANGED _n_

ppIdent ==
    /\ Calls("pp") /\ arg.fun = "Ident"
    /\ Do(<<<<"renderS", arg.text>>>>)
    /\ Only /\ UNCHANGED _n_

quoted(q, s) == <<append(q)>> \o [i \in DOMAIN s |-> <<"bufEscapeC", s[i]>>]
                    \o <<append(q), append(Blank)>>

ppString ==
    /\ Calls("pp") /\ arg.fun = "String"
    /\ Do(quoted(Quote, arg.text))
    /\ Only /\ UNCHANGED _n_

ppChar ==
    /\ Calls("pp") /\ arg.fun = "Char"
    /\ Do(quoted(Apostrophe, <<arg.text[1]>>))
    /\ Only /\ UNCHANGED _n_

Printer == \/ resizeBuffer \/ bufAppendS \/ bufAppendC \/ bufEscapeC
           \/ indent \/ backup \/ removeTrailingWhitespace \/ onEmptyLine
           \/ renderOpenBrace \/ indentBy \/ renderCloseBrace \/ renderC \/ renderS
           \/ prPrintRule \/ ppIdent \/ ppString \/ ppChar

Next == Printer \/ \E t \in Printed : print(t)

Spec == Init /\ [][Next]_vars
(* The printer is one sequential program, which runs on.                    *)
FairSpec == Spec /\ WF_vars(Printer)
=============================================================================
