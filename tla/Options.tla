------------------------------- MODULE Options -------------------------------
(***************************************************************************)
(* The command line of bnfc, Options.hs: how arguments become a mode, and  *)
(* how the options of a run are printed again for the recipe of a          *)
(* generated Makefile.  An argument is a name: an option with an argument  *)
(* is one name for each argument that matters, and an abbreviation stands  *)
(* for its long form.                                                      *)
(***************************************************************************)
EXTENDS Integers, Sequences, SequencesExt

CONSTANT Files    \* arguments that are no options

Targets == {"C", "Cpp", "CppNoStl", "Haskell", "HaskellGadt", "Latex", "Java",
            "OCaml", "Pygments", "TreeSitter", "Check"}
haskellTargets == {"Haskell", "HaskellGadt"}

defaultOptions ==
    [target |-> "Haskell", outDir |-> ".", force |-> "no", optMake |-> "none",
     inPackage |-> "none", linenumbers |-> "no", ansi |-> "no", inDir |-> "no",
     positions |-> "none", generic |-> "no", tokenText |-> "string",
     glr |-> "no", xml |-> "0", agda |-> "no", ocamlParser |-> "yacc",
     javaLexerParser |-> "jlex", treeSitterWord |-> "Ident"]

-----------------------------------------------------------------------------
(* The options.  A table of them says which fields each sets, and to what:   *)
(* <<option, field, value>>.                                                *)

globalOptions == {"--help", "--license", "--version", "--numeric-version"}

targetOptions ==
    {<<"--java",         "target", "Java">>,
     <<"--java-antlr",   "target", "Java">>, <<"--java-antlr", "javaLexerParser", "antlr4">>,
     <<"--haskell",      "target", "Haskell">>,
     <<"--haskell-gadt", "target", "HaskellGadt">>,
     <<"--latex",        "target", "Latex">>,
     <<"--c",            "target", "C">>,
     <<"--cpp",          "target", "Cpp">>,
     <<"--cpp-nostl",    "target", "CppNoStl">>,
     <<"--ocaml",        "target", "OCaml">>,
     <<"--ocaml-menhir", "target", "OCaml">>, <<"--ocaml-menhir", "ocamlParser", "menhir">>,
     <<"--pygments",     "target", "Pygments">>,
     <<"--tree-sitter",  "target", "TreeSitter">>,
     <<"--check",        "target", "Check">>}

commonOptions ==
    {<<"--makefile", "optMake", "Makefile">>, <<"--outputdir=out", "outDir", "out">>,
     <<"--force", "force", "yes">>}

specificOptions ==
    {<<"--line-numbers", "linenumbers", "yes">>,   <<"--ansi", "ansi", "yes">>,
     <<"--name-space=P", "inPackage", "P">>,
     <<"--jlex", "javaLexerParser", "jlex">>,      <<"--jflex", "javaLexerParser", "jflex">>,
     <<"--antlr4", "javaLexerParser", "antlr4">>,
     <<"--yacc", "ocamlParser", "yacc">>,          <<"--menhir", "ocamlParser", "menhir">>,
     <<"-d", "inDir", "yes">>,                     <<"--bytestrings", "tokenText", "bytestring">>,
     <<"--text-token", "tokenText", "text">>,      <<"--string-token", "tokenText", "string">>,
     <<"--glr", "glr", "yes">>,                    <<"--functor", "positions", "start">>,
     <<"--positions=range", "positions", "range">>, <<"--positions=line", "positions", "none">>,
     <<"--generic", "generic", "yes">>,            <<"--xml", "xml", "1">>,
     <<"--xmlt", "xml", "2">>,                     <<"--agda", "agda", "yes">>,
     <<"--agda", "tokenText", "text">>,            <<"--tree-sitter-word=W", "treeSitterWord", "W">>}

Applies(o) ==
    CASE o = "--line-numbers"           -> {"C", "Cpp", "Java"}
      [] o = "--ansi"                   -> {"Cpp"}
      [] o = "--name-space=P"           -> {"Cpp", "Java"} \cup haskellTargets
      [] o \in {"--jlex", "--jflex", "--antlr4"} -> {"Java"}
      [] o \in {"--yacc", "--menhir"}   -> {"OCaml"}
      [] o = "--agda"                   -> {"Haskell"}
      [] o = "--tree-sitter-word=W"     -> {"TreeSitter"}
      [] OTHER                          -> haskellTargets

allOptions == targetOptions \cup commonOptions \cup specificOptions
allOptionsAny(t) == allOptions
allOptionsOf(t) ==
    targetOptions \cup commonOptions \cup {s \in specificOptions : t \in Applies(s[1])}

names(table) == {s[1] : s \in table}
values == {defaultOptions[f] : f \in DOMAIN defaultOptions} \cup {s[3] : s \in allOptions}

(* classifyUnknownOption: all other unknown options are refused.             *)
obsolete == {"--alex3"}

translation ==
    {<<"-agda", "--agda">>,        <<"-java", "--java">>,         <<"-java1.5", "--java">>,
     <<"-c", "--c">>,              <<"-cpp", "--cpp">>,           <<"-cpp_stl", "--cpp">>,
     <<"-cpp_no_stl", "--cpp-nostl">>,                            <<"-csharp", "--csharp">>,
     <<"-ocaml", "--ocaml">>,      <<"-haskell", "--haskell">>,   <<"-prof", "--profile">>,
     <<"-gadt", "--haskell-gadt">>, <<"-alex1", "--alex1">>,      <<"-alex2", "--alex2">>,
     <<"-alex3", "--alex3">>,      <<"-sharestrings", "--sharestrings">>,
     <<"-bytestrings", "--bytestrings">>,                         <<"-glr", "--glr">>,
     <<"-xml", "--xml">>,          <<"-xmlt", "--xmlt">>,         <<"-vs", "--vs">>,
     <<"-wcf", "--wcf">>,          <<"-generic", "--generic">>,   <<"--ghc", "--generic">>,
     <<"--deriveGeneric", "--generic">>}

translateOldOptions(args) ==
    [i \in DOMAIN args |->
        IF args[i] \in names(translation)
        THEN (CHOOSE p \in translation : p[1] = args[i])[2] ELSE args[i]]

(* A file name does not begin with a hyphen.                                *)
ASSUME FilesAssumption ==
    Files \cap (names(allOptions) \cup names(translation) \cup globalOptions) = {}

-----------------------------------------------------------------------------
(* The option record.  The updates are composed with foldl (.), so the      *)
(* leftmost option is applied last: of several options that set a field,    *)
(* the first one on the command line wins.                                  *)

at(args, S) == {i \in DOMAIN args : args[i] \in S}
first(I)    == CHOOSE i \in I : \A j \in I : i <= j
several(I)  == \E i, j \in I : i # j

setting(table, f) == {s \in table : s[2] = f}
valueOf(table, o) == (CHOOSE s \in table : s[1] = o)[3]

options(args, table) ==
    [f \in DOMAIN defaultOptions |->
        LET I == at(args, names(setting(table, f)))
        IN  IF I = {} THEN defaultOptions[f]
            ELSE valueOf(setting(table, f), args[first(I)])]

UsageError(e) == [kind |-> "UsageError", error |-> e]

parse(args) ==
    LET target   == options(args, targetOptions).target
        Other(S) == DOMAIN args \ at(args, Files \cup S)
        files    == at(args, Files)
    IN  CASE args = <<>> -> [kind |-> "Help"]
          [] at(args, globalOptions) # {}
               -> [kind |-> "Info", of |-> args[first(at(args, globalOptions))]]
          [] OTHER ->
             IF Other(names(allOptions) \cup obsolete) # {} THEN UsageError("unrecognized")
             ELSE IF several(at(args, names(targetOptions))) THEN UsageError("targets")
             ELSE IF Other(names(allOptionsOf(target))) # {} THEN UsageError("notSupported")
             ELSE IF files = {} THEN UsageError("missing")
             ELSE IF several(files) THEN UsageError("tooMany")
             ELSE [kind |-> "Target", opts |-> options(args, allOptions),
                   file |-> args[first(files)]]

parseMode(args) == parse(translateOldOptions(args))

-----------------------------------------------------------------------------
(* printOptions: the arguments that are to give the same options again.     *)

printTargetOption(t) ==
    CASE t = "C"           -> "--c"            [] t = "Cpp"        -> "--cpp"
      [] t = "CppNoStl"    -> "--cpp-nostl"    [] t = "Haskell"    -> "--haskell"
      [] t = "HaskellGadt" -> "--haskell-gadt" [] t = "Latex"      -> "--latex"
      [] t = "Java"        -> "--java"         [] t = "OCaml"      -> "--ocaml"
      [] t = "Pygments"    -> "--pygments"     [] t = "TreeSitter" -> "--tree-sitter"
      [] t = "Check"       -> "--check"

PrintsSimply(opts, o) == \A s \in allOptions : s[1] = o => opts[s[2]] = s[3]
Prints(opts, o) ==
    CASE o = "--text-token"   -> opts.tokenText = "text" /\ opts.agda = "no"
      [] o = "--string-token" -> opts.tokenText = "string" /\ opts.agda = "yes"
      [] o = "--agda"         -> opts.agda = "yes"
      [] OTHER                -> \A s \in allOptions : s[1] = o => opts[s[2]] = s[3]

printOption(opts, o) == IF Prints(opts, o) THEN <<o>> ELSE <<>>

printFields(opts) ==
    LET on(o) == printOption(opts, o)
    IN  on("--outputdir=out") \o on("--makefile") \o on("--name-space=P")
        \o on("--line-numbers") \o on("--ansi") \o on("-d") \o on("--functor")
        \o on("--positions=range") \o on("--generic") \o on("--bytestrings")
        \o on("--text-token") \o on("--string-token") \o on("--glr") \o on("--xml")
        \o on("--xmlt") \o on("--agda") \o on("--jflex") \o on("--antlr4") \o on("--menhir")

printOptions(opts, file) ==
    <<printTargetOption(opts.target)>> \o printFields(opts) \o <<file>>
=============================================================================
