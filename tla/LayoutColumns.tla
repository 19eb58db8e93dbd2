---------------------------- MODULE LayoutColumns ----------------------------
(***************************************************************************)
(* The discipline of columns that the layout resolver keeps when the input *)
(* is tidy: no line begins with a bracket, and a line inside brackets is   *)
(* not left of a block around them.  The resolver handles brackets before  *)
(* it looks at columns, and looks at no column outside the innermost       *)
(* brackets, so on other inputs the columns of its stack get out of order. *)
(***************************************************************************)
EXTENDS LayoutProperties

VARIABLE tidy   \* the input that has been passed on so far is tidy

Passes == Ready /\ ts # <<>> /\ Len(ts') < Len(ts)

TidySoFar ==
    Passes /\ ts[1].head =>
        /\ ~IsBracket(ts[1])
        /\ \A i \in DOMAIN st \ Scope(st) : st[i].col <= ts[1].col

columnVars  == <<vars, tidy>>
HistoryInit == Init /\ tidy = TRUE
HistoryNext == Next /\ tidy' = (tidy /\ TidySoFar)
HistorySpec == HistoryInit /\ [][HistoryNext]_columnVars /\ WF_vars(Next)

(* On tidy input confirmed columns increase inwards (addImplicit, confirm).  *)
Indented == tidy => StrictlyIndented

(* On tidy input a line closes every confirmed block to the right of it,     *)
(* however many are nested (res, the equation for dedentation).             *)
OffsideRule == [][tidy' => OffsideStep]_columnVars

-----------------------------------------------------------------------------
(* The inductive invariant behind them.                                     *)

(* Blocks i to j of the stack lie inside the same brackets; none of them is  *)
(* confirmed.                                                               *)
Together(bs, i, j)    == \A k \in i..j : isImplicit(bs[k])
Unconfirmed(bs, i, j) == \A k \in i..j : isTentative(bs[k])

(* A block is more indented than a confirmed one around it, and than a       *)
(* tentative one around it if both may yet be confirmed together.           *)
OverConfirmed(bs) ==
    \A i, j \in DOMAIN bs :
        i < j /\ Together(bs, i, j) /\ ~isTentative(bs[j]) => bs[i].col > bs[j].col
OverTentative(bs) ==
    \A i, j \in DOMAIN bs :
        i < j /\ Together(bs, i, j) /\ Unconfirmed(bs, i, j) => bs[i].col > bs[j].col

(* The innermost block inside some brackets, or of all.                     *)
Innermost(bs, i) == isImplicit(bs[i]) /\ (i > 1 => ~isImplicit(bs[i - 1]))

(* From the n-th block outwards, those lie at column c or left of it.        *)
Within(bs, n, c) ==
    \A i \in DOMAIN bs : i >= n /\ Innermost(bs, i) => bs[i].col <= c

(* The head of a line is told from the lines of two tokens.                 *)
HeadsKnown ==
    /\ ts # <<>> /\ pt = NoTok => ts[1].head
    /\ ts # <<>> /\ pt # NoTok => (ts[1].head <=> ts[1].line > pt.line)
    /\ Len(ts) = 2 => /\ ts[2].head <=> ts[2].line > ts[1].line
                      /\ ~ts[2].head => ts[2].col > ts[1].col
    /\ ts = <<>> /\ ~eof => pt = NoTok

(* What the kind of a block says of it.                                     *)
Known(bs) ==
    \A i \in DOMAIN bs : IF isImplicit(bs[i]) THEN layoutSep # {}
                         ELSE bs[i].col = 0 /\ ~isTentative(bs[i])
BlocksKnown == Known(st) /\ (pt = NoTok => Len(st) = 1)

(* A token inside a line is not left of any block that it may add to.       *)
Reached == ts # <<>> /\ ~ts[1].head => Within(st, 1, ts[1].col)

LinesInv == HeadsKnown /\ BlocksKnown
OrderInv == tidy => /\ OverConfirmed(st)
                    /\ ts # <<>> => OverTentative(st)
                    /\ Reached

ColumnInv == LinesInv /\ OrderInv
=============================================================================
