--------------------------- MODULE LayoutResolver ---------------------------
(***************************************************************************)
(* The layout resolver that BNFC puts into every generated Haskell parser  *)
(* whose grammar has layout pragmas: the function resolveLayout of         *)
(* Backend/Haskell/CFtoLayout.hs.  It reads the token stream of the lexer, *)
(* keeps a stack of blocks, and inserts braces and separators where the    *)
(* indentation asks for them.                                              *)
(*                                                                         *)
(* One action is one equation of the recursive function res; an equation   *)
(* is tried only when the earlier ones fail, so a guard carries the        *)
(* negation of the guards above it.  The stack has its innermost block at  *)
(* index 1, as the Haskell list has it.                                    *)
(*                                                                         *)
(* A definition whose name extends that of the definition below it         *)
(* (nextPosBefore, nextPos) is a mutated form: the same code with a likely *)
(* bug, kept to show that the properties would notice.                     *)
(***************************************************************************)
EXTENDS Integers, Sequences

CONSTANTS
    Sym,            \* the reserved words and symbols of the grammar
    LayoutWords,    \* words that start a block     (layoutWords)
    StopWords,      \* words that end a block       (layoutStopWords)
    ParenOpen,      \* further opening brackets     (parenOpen)
    ParenClose,     \* further closing brackets     (parenClose)
    HasTop,         \* TRUE iff the grammar says "layout toplevel"
    SymLen,         \* the length of a token in characters (tokenLength)
    MaxLine,        \* bound: last line of the input
    MaxCol,         \* bound: last column a token of the input starts at
    NoTok           \* "Nothing": no previous token

Brackets == {"{", "}", ";"}

ASSUME SymAssumption ==
    /\ LayoutWords \subseteq Sym
    /\ StopWords \subseteq Sym
    /\ ParenOpen \subseteq Sym
    /\ ParenClose \subseteq Sym
    /\ Brackets \subseteq Sym
    /\ HasTop \in BOOLEAN
    /\ SymLen \in [Sym -> Nat \ {0}]

(* The further brackets are parentheses and square brackets, if any.        *)
ASSUME ParenAssumption == (ParenOpen \cup ParenClose) \cap Brackets = {}

ASSUME BoundAssumption == MaxLine \in Nat /\ MaxCol \in Nat

(* Two fields serve the properties only: head says that a token is the first *)
(* of its line, virtual that the resolver inserted it.                      *)
Token == [sym : Sym, line : Nat, col : Nat, head : BOOLEAN, virtual : BOOLEAN]

ASSUME NoTokAssumption == NoTok \notin Token

Kinds    == {"Explicit", "Implicit", "Toplevel"}
Statuses == {"Tentative", "Definitive"}
Block    == [kind : Kinds, status : Statuses, col : Nat]

VARIABLES
    ts,       \* the next tokens of the input: at most two are looked at
    eof,      \* the lexer has no token after ts
    pt,       \* the previous token, or NoTok
    st,       \* the stack of blocks
    out,      \* the tokens put out by the last step
    outcome   \* "running", "done", or the error that ended the run

vars == <<ts, eof, pt, st, out, outcome>>

Outcomes == {"running", "done", "unmatchedClose",
             "emptyStack", "closeTop", "noPattern"}

-----------------------------------------------------------------------------
(* The tokens that matter to the resolver. *)

layoutOpen  == IF LayoutWords = {} THEN {} ELSE {"{"}
layoutClose == IF LayoutWords = {} THEN {} ELSE {"}"}
layoutSep   == IF LayoutWords = {} /\ ~HasTop THEN {} ELSE {";"}

isOpen(t)  == t.sym \in layoutOpen \cup ParenOpen
isClose(t) == t.sym \in layoutClose \cup ParenClose
isStop(t)  == t.sym \in StopWords

newLine(p, t) == p # NoTok => t.line > p.line

(* The position right of a token, as nextPos computes it; afterPrev is the  *)
(* first position of the file when there is no token.                       *)
sToken(p, s) ==
    [sym |-> s, line |-> p.line, col |-> p.col, head |-> FALSE, virtual |-> TRUE]
nextPosBefore(t) == [line |-> t.line, col |-> t.col - SymLen[t.sym] - 1]
nextPos(t)       == [line |-> t.line, col |-> t.col + SymLen[t.sym] + 1]
afterPrev(p)     == IF p = NoTok THEN [line |-> 1, col |-> 1] ELSE nextPos(p)

-----------------------------------------------------------------------------
(* Blocks. *)

ExplicitBlock      == [kind |-> "Explicit", status |-> "Definitive", col |-> 0]
ToplevelBlock      == [kind |-> "Toplevel", status |-> "Definitive", col |-> 1]
ImplicitBlock(s, c) == [kind |-> "Implicit", status |-> s, col |-> c]

isImplicit(b)  == b.kind # "Explicit"
isTentative(b) == b.status = "Tentative"
definitive(b)  == [b EXCEPT !.status = "Definitive"]

(* The first block of the list that fails the test, or the index after it.  *)
FirstNot(bs, Test(_)) ==
    LET D == {i \in DOMAIN bs : /\ ~Test(bs[i])
                                /\ \A j \in 1..(i-1) : Test(bs[j])}
    IN  IF D = {} THEN Len(bs) + 1 ELSE CHOOSE i \in D : TRUE

From(bs, i) == SubSeq(bs, i, Len(bs))

(* confirm: the leading tentative blocks that are not more indented than c0 *)
(* become definitive.                                                       *)
confirm(c0, bs) ==
    [i \in DOMAIN bs |->
        IF \A j \in 1..i : isTentative(bs[j]) /\ bs[j].col <= c0
        THEN definitive(bs[i])
        ELSE bs[i]]

definiteIndentation(bs) ==
    LET i == FirstNot(bs, isTentative)
    IN  IF i \in DOMAIN bs THEN bs[i].col ELSE 0

newColumnLax(c1, bs) ==
    LET least == definiteIndentation(bs)
    IN  IF c1 >= least THEN c1 ELSE least
newColumn(c1, bs) ==
    LET least == 1 + definiteIndentation(bs)
    IN  IF c1 >= least THEN c1 ELSE least

(* The stack with the block that the layout word t0 opens before token t1.  *)
addImplicit(t0, t1, bs) ==
    IF t1.line > t0.line
    THEN LET cs == confirm(t1.col, bs)
         IN  <<ImplicitBlock("Definitive", newColumn(t1.col, cs))>> \o cs
    ELSE <<ImplicitBlock("Tentative", newColumn(t1.col, bs))>> \o bs

(* maybeInsertSeparator: the separator put out before t0, if any.           *)
separator(p, t0, bs) ==
    IF /\ isImplicit(bs[1])
       /\ p # NoTok /\ newLine(p, t0)
       /\ t0.col = bs[1].col
       /\ p.sym \notin layoutSep \cup layoutOpen
    THEN <<sToken(afterPrev(p), ";")>>
    ELSE <<>>

(* n closing braces at position p. *)
closersOfOuter(n, p) == [i \in 1..(n-1) |-> sToken(p, "}")]
closers(n, p) == [i \in 1..n |-> sToken(p, "}")]
-----------------------------------------------------------------------------
(* The lexer: tokens come with increasing positions.                        *)

Follows(p, line, col) ==
    \/ line > p.line
    \/ line = p.line /\ col >= p.col + SymLen[p.sym]

Lex ==
    /\ outcome = "running" /\ ~eof /\ Len(ts) < 2
    /\ \E s \in Sym, line \in 1..MaxLine, col \in 1..MaxCol :
          /\ ts # <<>> => Follows(ts[Len(ts)], line, col)
          /\ ts' = Append(ts, [sym |-> s, line |-> line, col |-> col,
                               head |-> ts = <<>> \/ line > ts[Len(ts)].line,
                               virtual |-> FALSE])
    /\ UNCHANGED <<eof, pt, st, out, outcome>>

LexEof ==
    /\ outcome = "running" /\ ~eof /\ Len(ts) < 2
    /\ eof' = TRUE
    /\ UNCHANGED <<ts, pt, st, out, outcome>>

-----------------------------------------------------------------------------
(* What res is looking at.  It looks at one token, and at a second one after *)
(* a layout word; waiting for both does not change its output.              *)

Ready == outcome = "running" /\ (eof \/ Len(ts) = 2)
AtTok == Ready /\ ts # <<>> /\ st # <<>>
AtEnd == Ready /\ ts = <<>> /\ st # <<>>

AtClose    == AtTok /\ ~isOpen(ts[1]) /\ isClose(ts[1])
AtWord     == AtTok /\ ~isOpen(ts[1]) /\ ~isClose(ts[1])
AtStop     == AtWord /\ isImplicit(st[1]) /\ isStop(ts[1])
AtLineHead == AtWord /\ isImplicit(st[1]) /\ ~isStop(ts[1]) /\ newLine(pt, ts[1])
AtDedent   == AtLineHead /\ ts[1].col < st[1].col
AtConfirm  == AtLineHead /\ ts[1].col >= st[1].col /\ isTentative(st[1])

(* No implicit block ends at this token, and none is confirmed.             *)
Settled == AtWord /\ ~AtStop /\ ~AtDedent /\ ~AtConfirm

(* The number of implicit blocks that the token closes.                     *)
closing ==
    LET moreIndented(b) == ts[1].col < b.col
    IN  CASE AtClose                     -> FirstNot(st, isImplicit) - 1
          [] AtStop /\ st[1].col > 1     -> FirstNot(Tail(st), moreIndented)
          [] AtDedent                    -> 1
          [] OTHER                       -> 0

(* A closing bracket with no explicit block above the outermost block.      *)
unmatchedIfNone == AtClose /\ closing >= Len(st)
unmatched       == AtClose /\ closing + 1 >= Len(st)

(* The error that the next equation of res raises, "none" if it raises none. *)
layoutError ==
    CASE st = <<>>
           -> "emptyStack"
      [] unmatched
           -> "unmatchedClose"
      [] AtTok /\ ~unmatched /\ \E i \in 1..closing : st[i].kind = "Toplevel"
           -> "closeTop"
      [] AtEnd /\ pt # NoTok /\ st[1].kind = "Toplevel" /\ Len(st) > 1
           -> "noPattern"
      [] OTHER
           -> "none"

-----------------------------------------------------------------------------
(* The equations of res.                                                    *)

Fail ==
    /\ Ready /\ layoutError # "none"
    /\ outcome' = layoutError
    /\ out' = <<>>
    /\ UNCHANGED <<ts, eof, pt, st>>

(* Put out a chunk and the input token ts[1]; go on with the stack s.       *)
Pass(chunk, s) ==
    /\ layoutError = "none"
    /\ out' = Append(chunk, ts[1])
    /\ pt' = ts[1]
    /\ st' = s
    /\ ts' = Tail(ts)
    /\ UNCHANGED <<eof, outcome>>

(* Put out one inserted token, which becomes the previous token.            *)
Insert(t, s) ==
    /\ layoutError = "none"
    /\ out' = <<t>>
    /\ pt' = t
    /\ st' = s
    /\ UNCHANGED <<ts, eof, outcome>>

(* Change only the stack.                                                   *)
Restack(s) ==
    /\ out' = <<>>
    /\ st' = s
    /\ UNCHANGED <<ts, eof, pt, outcome>>

OpenExplicit ==
    /\ AtTok /\ isOpen(ts[1])
    /\ Pass(<<>>, <<ExplicitBlock>> \o st)

CloseExplicit ==
    /\ AtClose
    /\ Pass(closers(closing, ts[1]), From(st, closing + 2))

StopAtTop ==
    /\ AtStop /\ st[1].col <= 1
    /\ Pass(<<>>, st)

StopBlock ==
    /\ AtStop /\ st[1].col > 1
    /\ Pass(closers(closing, afterPrev(pt)), From(st, closing + 1))

DedentAtToken ==
    /\ AtDedent
    /\ Insert(sToken(ts[1], "}"), Tail(st))
Dedent ==
    /\ AtDedent
    /\ Insert(sToken(afterPrev(pt), "}"), Tail(st))

ConfirmBelow ==
    /\ AtConfirm
    /\ Restack(<<st[1]>> \o confirm(st[1].col, Tail(st)))
Confirm ==
    /\ AtConfirm
    /\ Restack(<<definitive(st[1])>> \o confirm(st[1].col, Tail(st)))

(* A layout word that an open brace follows: the next step opens the block. *)
StartExplicit ==
    /\ Settled /\ ts[1].sym \in LayoutWords
    /\ Len(ts) > 1 /\ ts[2].sym \in layoutOpen
    /\ Pass(separator(pt, ts[1], st), st)

StartImplicit ==
    /\ Settled /\ ts[1].sym \in LayoutWords
    /\ ~(Len(ts) > 1 /\ ts[2].sym \in layoutOpen)
    /\ LET b  == sToken(nextPos(ts[1]), "{")
           t1 == IF Len(ts) > 1 THEN ts[2] ELSE ts[1]
       IN  /\ out' = separator(pt, ts[1], st) \o <<ts[1], b>>
           /\ pt' = b
           /\ st' = addImplicit(ts[1], t1, st)
           /\ ts' = Tail(ts)
           /\ UNCHANGED <<eof, outcome>>

Plain ==
    /\ Settled /\ ts[1].sym \notin LayoutWords
    /\ Pass(separator(pt, ts[1], st), st)

Finish(chunk) ==
    /\ out' = chunk
    /\ outcome' = "done"
    /\ UNCHANGED <<ts, eof, pt, st>>

EndEmptyInput == AtEnd /\ pt = NoTok /\ Finish(<<>>)

(* At the end of the input the explicit blocks left open are dropped.       *)
EndExplicit ==
    /\ AtEnd /\ pt # NoTok /\ st[1].kind = "Explicit"
    /\ IF Len(st) = 1 THEN Finish(<<>>) ELSE Restack(Tail(st))

EndTop ==
    /\ AtEnd /\ pt # NoTok /\ isImplicit(st[1]) /\ Len(st) = 1
    /\ Finish(IF pt.sym \in layoutSep THEN <<>>
              ELSE <<sToken(nextPos(pt), ";")>>)

EndImplicit ==
    /\ AtEnd /\ pt # NoTok /\ st[1].kind = "Implicit" /\ Len(st) > 1
    /\ Insert(sToken(nextPos(pt), "}"), Tail(st))

-----------------------------------------------------------------------------
Init ==
    /\ ts = <<>> /\ eof = FALSE
    /\ pt = NoTok
    /\ \E topLayout \in BOOLEAN :
          st = IF HasTop /\ topLayout THEN <<ToplevelBlock>> ELSE <<ExplicitBlock>>
    /\ out = <<>>
    /\ outcome = "running"

res == \/ Fail \/ OpenExplicit \/ CloseExplicit
       \/ StopAtTop \/ StopBlock \/ Dedent \/ Confirm
       \/ StartExplicit \/ StartImplicit \/ Plain
       \/ EndEmptyInput \/ EndExplicit \/ EndTop \/ EndImplicit

Next == Lex \/ LexEof \/ res

(* The parser drains the lazy token list, so a step that can be taken is.   *)
Spec     == Init /\ [][Next]_vars
FairSpec == Spec /\ WF_vars(Next)
=============================================================================
