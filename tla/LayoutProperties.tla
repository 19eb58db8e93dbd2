-------------------------- MODULE LayoutProperties --------------------------
(***************************************************************************)
(* What the layout resolver does right, and what its documentation says of *)
(* it that it does not do.                                                 *)
(***************************************************************************)
EXTENDS LayoutResolver

(* Type correctness of the resolver's state.                                *)
TypeOK ==
    /\ ts \in Seq(Token) /\ Len(ts) <= 2
    /\ eof \in BOOLEAN
    /\ pt \in Token \cup {NoTok}
    /\ st \in Seq(Block)
    /\ out \in Seq(Token)
    /\ outcome \in Outcomes

(* The outermost block is explicit or the top-level one and is there to     *)
(* stay; above it no block is top-level.                                    *)
Based(bs) ==
    /\ bs \in Seq(Block) /\ bs # <<>>
    /\ \A i \in 1..(Len(bs) - 1) : bs[i].kind # "Toplevel"
    /\ bs[Len(bs)].kind # "Implicit" /\ bs[Len(bs)].col <= 1

(* The inductive invariant.                                                 *)
IInv ==
    /\ TypeOK
    /\ Based(st)
    /\ \A i \in DOMAIN ts : ts[i].col >= 1
    /\ outcome \in {"running", "done", "unmatchedClose"}

(* Whatever the input, res never runs into an equation that its comments    *)
(* call impossible: the stack never becomes empty ("The stack should never  *)
(* be empty"), no top-level block is closed, and at the end of the input no *)
(* stack is left without an equation.  The only error is a closing bracket  *)
(* without an opening one.                                                  *)
NoInternalError == outcome \notin {"emptyStack", "closeTop", "noPattern"}

(* What is open in the output: a bracket of the input for an explicit block, *)
(* an inserted brace for an implicit one.  The outermost block has none.    *)
bracketOf(b) == IF b.kind = "Explicit" THEN "input" ELSE "inserted"
openOf(bs)   == [i \in 1..(Len(bs) - 1) |-> bracketOf(bs[i])]

toplevelOf(bs) == bs[Len(bs)].kind = "Toplevel"

phaseOf(o) == CASE o = "done"    -> "done"
                [] o = "running" -> IF eof /\ ts = <<>> THEN "ending" ELSE "reading"
                [] OTHER         -> "failed"

(* The words and brackets of the layout algorithm are different tokens.     *)
(* BNFC does not ask for it, but without it Bracketed is false: a layout    *)
(* word that is a stop word, too, opens no block where it stops one.        *)
SeparateWords ==
    /\ LayoutWords \cap StopWords = {}
    /\ LayoutWords \cap (Brackets \cup ParenOpen \cup ParenClose) = {}

(* The output nests: each brace that the resolver inserts is closed by one  *)
(* that it inserts, in the right order with the brackets of the input, and  *)
(* a separator is inserted only between two elements of a layout list.      *)
Nesting == INSTANCE BracketedOutput WITH
    Openers    <- layoutOpen \cup ParenOpen,
    Closers    <- layoutClose \cup ParenClose,
    Separators <- layoutSep,
    toplevel   <- toplevelOf(st),
    open       <- openOf(st),
    last       <- pt,
    phase      <- phaseOf(outcome)

Bracketed == Nesting!Spec

(* The resolver comes to an end on every input: it never circles between    *)
(* confirming, closing and re-reading the same token.                       *)
Terminates == <>(outcome # "running")

-----------------------------------------------------------------------------
(* The discipline of columns.  The blocks that count are those inside the   *)
(* innermost explicit block.                                                *)

Scope(bs) == 1..(FirstNot(bs, isImplicit) - 1)

IsBracket(t) == isOpen(t) \/ isClose(t)

(* The step puts out the input token at the head of the list, which is the  *)
(* first token of its line and neither a bracket nor a stop word.           *)
PassesLineHead ==
    /\ Ready /\ ts # <<>> /\ ts[1].head
    /\ ~IsBracket(ts[1]) /\ ~isStop(ts[1])
    /\ Len(ts') < Len(ts)

(* "The next block needs to be strictly more indented than the previous     *)
(* block" (comment of addImplicit): confirmed columns increase inwards.     *)
StrictlyIndented ==
    \A i, j \in Scope(st) :
        i < j /\ ~isTentative(st[i]) /\ ~isTentative(st[j])
            => st[i].col > st[j].col

(* Offside rule: when the first token of a line is put out, every confirmed *)
(* block that lies to the right of it has been closed, however deep.        *)
OffsideStep ==
    PassesLineHead =>
        \A i \in Scope(st) : ~isTentative(st[i]) => st[i].col <= ts[1].col

(* A word that begins a line at the column of its block begins an element:  *)
(* it comes after a separator or an opening brace, also when blocks have    *)
(* been closed in front of it.                                              *)
ElementsSeparated ==
    [][PassesLineHead /\ isImplicit(st[1]) /\ st[1].col = ts[1].col =>
         \/ pt = NoTok
         \/ pt.sym \in layoutSep \cup layoutOpen
         \/ out'[1].sym \in layoutSep]_vars

-----------------------------------------------------------------------------
(* Statements of the documentation and of comments, which the code does not *)
(* keep.                                                                    *)

(* docs/lbnf.rst: the column of the first token "is remembered as the       *)
(* position at which the elements of the layout list must begin. Semicolons *)
(* are inserted at those positions" - also before an element that begins    *)
(* with a parenthesis.  What follows a layout word begins no element of the *)
(* list around it.                                                          *)
BracketElementSeparated ==
    [][Ready /\ ts # <<>> /\ ts[1].head /\ ts[1].sym \in ParenOpen
         /\ isImplicit(st[1]) /\ st[1].col = ts[1].col /\ Len(ts') < Len(ts) =>
         \/ pt = NoTok
         \/ pt.sym \in layoutSep \cup layoutOpen \cup LayoutWords
         \/ out'[1].sym \in layoutSep]_vars
=============================================================================
