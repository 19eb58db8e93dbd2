----------------------------- MODULE EmptyMatches -----------------------------
(***************************************************************************)
(* The tree-sitter backend (Backend/TreeSitter/MatchesEmpty.hs,            *)
(* CFtoTreeSitter.hs): tree-sitter allows no rule, but that of the start   *)
(* symbol, to match the empty text.  The backend computes the categories   *)
(* that do, step by step, and then takes the empty matches out of every    *)
(* rule and makes each use of such a category optional.                    *)
(*                                                                         *)
(* A rule is a record of its category, its right-hand side (a sequence of  *)
(* symbols) and its label.  Terminals, and tokens, are not empty.          *)
(***************************************************************************)
EXTENDS Integers, Sequences, FiniteSets

CONSTANTS
    Cats,        \* categories
    Terminals,   \* terminals and token categories
    Start,       \* the virtual start symbol, BNFCStart
    Grammars,    \* sets of rules for Cats
    Entries      \* the entry points

NonTerminals == Cats \cup {Start}
Symbols      == NonTerminals \cup Terminals

ASSUME SymbolsAssumption ==
    /\ Cats \cap Terminals = {} /\ Start \notin Cats \cup Terminals
    /\ Entries \subseteq Cats /\ Entries # {}
ASSUME GrammarsAssumption ==
    \A G \in Grammars : \A r \in G : r.cat \in Cats /\ r.rhs \in Seq(Cats \cup Terminals)
ASSUME FiniteAssumption == IsFiniteSet(Cats)

VARIABLES
    rules,        \* the rules, with those of the start symbol
    knownEmpty,   \* the categories known to match the empty text
    output        \* output[r]: the alternatives printed for rule r; {} before

vars == <<rules, knownEmpty, output>>

toVirtRule(c) == [cat |-> Start, rhs |-> <<c>>, label |-> c]

Init ==
    /\ \E G \in Grammars : rules = G \cup {toVirtRule(c) : c \in Entries}
    /\ knownEmpty = {} /\ output = {}

Optional(x)    == [sym |-> x, optional |-> TRUE]
NonOptional(x) == [sym |-> x, optional |-> FALSE]
OptSym         == [sym : Symbols, optional : BOOLEAN]

possiblyEmptySym(x) == IF x \in knownEmpty THEN Optional(x) ELSE NonOptional(x)

sentence(rhs) == [k \in DOMAIN rhs |-> possiblyEmptySym(rhs[k])]

(* A sequence matches the empty text if all of its symbols do.              *)
seqMatchesEmpty(rhs) == \A k \in DOMAIN rhs : sentence(rhs)[k].optional

(* Of a sequence of optional symbols each can be the first that is there.   *)
headNonOptional(s, k) ==
    [i \in 1..(Len(s) - k + 1) |-> IF i = 1 THEN NonOptional(s[k].sym) ELSE s[k + i - 1]]

(* Ways to get it wrong: only the first symbol, the symbols before it left   *)
(* in, the empty sequence kept.                                             *)
subtractFirst(s)         == [k \in DOMAIN s \cap {1} |-> headNonOptional(s, k)]
subtractKeepingPrefix(s) == [k \in DOMAIN s |-> [s EXCEPT ![k].optional = FALSE]]
subtractKeepingNil(s)    ==
    [k \in 1..(Len(s) + 1) |-> IF k > Len(s) THEN <<>> ELSE headNonOptional(s, k)]

subtractEmptyString(s) == [k \in DOMAIN s |-> headNonOptional(s, k)]

possiblyEmptyRule(rhs) ==
    IF seqMatchesEmpty(rhs) THEN subtractEmptyString(sentence(rhs))
    ELSE <<sentence(rhs)>>

newEmptyCats == {r.cat : r \in {q \in rules : seqMatchesEmpty(q.rhs)}}

onlyNewCats       == newEmptyCats \ knownEmpty
possiblyEmptyCats == newEmptyCats \cup knownEmpty

(* One step of fixPointKnownEmpty.                                          *)
go ==
    /\ output = {} /\ possiblyEmptyCats # knownEmpty
    /\ knownEmpty' = possiblyEmptyCats
    /\ UNCHANGED <<rules, output>>

fixedOnce == knownEmpty # {} \/ possiblyEmptyCats = knownEmpty
fixed     == possiblyEmptyCats = knownEmpty

(* The rules are printed when a step adds nothing.  Those of the start       *)
(* symbol are made optional as a whole.                                     *)
prRules ==
    /\ output = {} /\ fixed
    /\ output' = {[rule |-> r, alternatives |-> possiblyEmptyRule(r.rhs)] : r \in rules}
    /\ UNCHANGED <<rules, knownEmpty>>

Next == go \/ prRules

Spec     == Init /\ [][Next]_vars
FairSpec == Spec /\ WF_vars(Next)

-----------------------------------------------------------------------------
TypeOK ==
    /\ knownEmpty \subseteq NonTerminals
    /\ \A o \in output : /\ o.rule \in rules
                         /\ o.alternatives \in Seq(Seq(OptSym) \ {<<>>})

(* What matches the empty text by the rules: the least set that is closed    *)
(* under them.  No category is taken to be empty that is not, and when the   *)
(* rules are printed none is missing.                                       *)
Closed(X) == \A r \in rules : (\A k \in DOMAIN r.rhs : r.rhs[k] \in X) => r.cat \in X
Least ==
    /\ \A X \in SUBSET NonTerminals : Closed(X) => knownEmpty \subseteq X
    /\ output # {} => Closed(knownEmpty)
=============================================================================
