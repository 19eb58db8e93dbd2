--------------------------- MODULE BracketedOutput ---------------------------
(***************************************************************************)
(* What a layout resolver promises about its output, whatever its rules of *)
(* indentation are: inserted braces and the brackets of the input nest,    *)
(* every inserted brace is closed when the run ends, a layout word is      *)
(* followed by an opening brace, and no separator stands where there is    *)
(* nothing to separate.  LayoutResolver is shown to implement this module. *)
(***************************************************************************)
EXTENDS Integers, Sequences, SequencesExt

CONSTANTS LayoutWords, Openers, Closers, Separators, NoTok

VARIABLES
    toplevel,   \* the whole input is one layout list
    open,       \* what is open in the output, innermost first
    last,       \* the last token put out, or NoTok
    out,        \* the tokens put out by the last step
    phase       \* "reading", "ending", "done" or "failed"

vars == <<toplevel, open, last, out, phase>>

Broken == [open |-> <<"broken">>, last |-> NoTok]

AfterWord(p)      == p # NoTok /\ p.sym \in LayoutWords
AfterSeparator(p) == p # NoTok /\ p.sym \in Separators \cup (Openers \cap {"{"})
InList(o)         == IF o = <<>> THEN toplevel ELSE o[1] = "inserted"

(* The effect of one token on the brackets that are open: the right hand    *)
(* sides are the only tokens allowed in each place.                         *)
Effect(s, t) ==
    LET Opened(who) == [open |-> <<who>> \o s.open, last |-> t]
        Closed      == [open |-> Tail(s.open), last |-> t]
        Same        == [open |-> s.open, last |-> t]
        Top(who)    == s.open # <<>> /\ s.open[1] = who
    IN  CASE t.virtual /\ t.sym = "{" /\ AfterWord(s.last)          -> Opened("inserted")
          [] t.virtual /\ t.sym = "}" /\ Top("inserted")            -> Closed
          [] t.virtual /\ t.sym = ";" /\ InList(s.open)
                /\ s.last # NoTok /\ ~AfterSeparator(s.last)
                /\ ~AfterWord(s.last)                               -> Same
          [] ~t.virtual /\ AfterWord(s.last) /\ t.sym = "{"         -> Opened("input")
          [] ~t.virtual /\ ~AfterWord(s.last) /\ t.sym \in Openers  -> Opened("input")
          [] ~t.virtual /\ ~AfterWord(s.last) /\ t.sym \in Closers \ Openers
                /\ Top("input")                                     -> Closed
          [] ~t.virtual /\ ~AfterWord(s.last)
                /\ t.sym \notin Openers \cup Closers                -> Same
          [] OTHER                                                  -> Broken

Init ==
    /\ toplevel \in BOOLEAN
    /\ open = <<>> /\ last = NoTok /\ out = <<>>
    /\ phase = "reading"

Write ==
    /\ phase \in {"reading", "ending"}
    /\ LET s == FoldLeft(Effect, [open |-> open, last |-> last], out')
       IN  s # Broken /\ open' = s.open /\ last' = s.last
    /\ phase = "ending" => \A i \in DOMAIN out' : out'[i].virtual
    /\ phase' \in {"ending"} \cup {phase}
    /\ UNCHANGED toplevel

(* Brackets that the input leaves open are left to the parser.              *)
Forget ==
    /\ phase = "ending"
    /\ open # <<>> /\ open[1] = "input" /\ open' = Tail(open)
    /\ out' = <<>>
    /\ UNCHANGED <<toplevel, last, phase>>

(* The last top-level element is ended by a separator, too.                 *)
Done ==
    /\ phase = "ending" /\ phase' = "done"
    /\ open = <<>>
    /\ IF toplevel /\ last # NoTok /\ last.sym \notin Separators
       THEN Len(out') = 1 /\ out'[1].sym = ";" /\ out'[1].virtual
       ELSE out' = <<>>
    /\ UNCHANGED <<toplevel, open, last>>

(* The only input refused is a closing bracket without an opening one.      *)
Refuse ==
    /\ phase = "reading" /\ phase' = "failed"
    /\ ~Contains(open, "input")
    /\ out' = <<>>
    /\ UNCHANGED <<toplevel, open, last>>

Next == Write \/ Forget \/ Done \/ Refuse

Spec == Init /\ [][Next]_vars
=============================================================================
