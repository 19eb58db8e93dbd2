------------------------------- MODULE MCDriver -------------------------------
(***************************************************************************)
(* Command lines and grammars for TLC.                                     *)
(***************************************************************************)
EXTENDS Driver

GrammarFiles == {"G.cf"}

(* For the checks: few options, and grammars with up to two defects and      *)
(* what these imply.                                                        *)
CheckNames ==
    GrammarFiles \cup {"--java", "--c", "--cpp-nostl", "--latex", "--check",
                      "--force", "--makefile"}
Defective ==
    LET pairs == {{}} \cup {{c, d} : c \in Defects, d \in Defects}
        implied(g) == g \cup (IF "noRules" \in g THEN {"noTerminals"} ELSE {})
                        \cup (IF g \cap {"layoutSymbols", "unusedWord"} # {}
                             THEN {"layout"} ELSE {})
    IN  {g \in {implied(p) : p \in pairs} : Possible(g)}

(* For the options: those that override one another, those that belong to    *)
(* different targets, old forms, and good grammars only.                    *)
OptionNames ==
    GrammarFiles \cup
    {"--haskell-gadt", "--java-antlr", "--ocaml-menhir", "--agda", "-gadt", "--ghc",
     "--string-token", "--bytestrings", "-d", "--functor",
     "--positions=range", "--name-space=P", "--xml", "--xmlt",
     "--makefile", "--force", "--outputdir=out", "--version", "--bogus"}
AllNames == CheckNames \cup OptionNames

(* A command line of up to three arguments for the checks or up to four of   *)
(* the options; the latter reads a grammar without defects, and once it has  *)
(* left a Makefile the user only calls make.                                *)
CheckLine(line) == Len(line) <= 3 /\ ToSet(line) \subseteq CheckNames
OptionLine(line) == ToSet(line) \subseteq OptionNames
CheckMode(m) ==
    /\ m.kind = "Target" /\ m.opts.target \in {"Haskell", "Java", "C", "CppNoStl", "Latex", "Check"}
    /\ \A f \in DOMAIN defaultOptions \ {"target", "optMake", "force"} :
          m.opts[f] = defaultOptions[f]

DriverSpec ==
    /\ Init
    /\ [][/\ Next
          /\ CheckLine(args') \/ OptionLine(args')
          /\ grammar' # {} => CheckMode(mode')
          /\ makefile' # <<>> /\ args' # <<>> =>
                CheckMode(made') /\ CheckLine(args')]_vars
=============================================================================
