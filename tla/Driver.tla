-------------------------------- MODULE Driver --------------------------------
(***************************************************************************)
(* main: one run of bnfc after another in a directory.  The command line   *)
(* is parsed, the grammar is read, parseCF of GetCF.hs checks it against   *)
(* the target, and a backend writes the files; with --makefile a Haskell   *)
(* backend leaves a Makefile whose recipe is the command line for the next *)
(* run.  Of a grammar only its defects count: the facts that a check of    *)
(* parseCF reports.  How the files are written is the subject of           *)
(* OutputFiles and Regeneration; here writing is one step.                 *)
(***************************************************************************)
EXTENDS Options, FiniteSets

CONSTANTS
    Names,       \* the arguments that the user types
    MaxArgs,     \* bound: the longest command line
    Grammars     \* sets of defects

(* A grammar has a layout pragma (`layout`), and there the words of one may *)
(* be in no rule (`unusedWord`); the other defects are named for checks.    *)
Defects ==
    {"javaName", "layout", "layoutSymbols", "unusedWord", "numericToken",
     "duplicateToken", "tokenIsCategory", "notUnique", "notUniqueCase",
     "positionToken", "undefinedLabel", "emptyComment", "nullableToken",
     "noRules", "noTerminals", "emptyData"}

(* What a grammar can have: without rules there are no terminals and hence  *)
(* no symbols for layout, and nothing that a rule would contain.            *)
Possible(g) ==
    /\ g \cap {"layoutSymbols", "unusedWord"} # {} => "layout" \in g
    /\ "noRules" \in g => "noTerminals" \in g /\ g \cap {"undefinedLabel", "emptyData"} = {}
    /\ "noTerminals" \in g /\ "layout" \in g => "layoutSymbols" \in g

ASSUME BoundAssumption == MaxArgs \in Nat
ASSUME GrammarsAssumption == \A g \in Grammars : g \subseteq Defects /\ Possible(g)

VARIABLES
    pc,         \* "shell", "parsed", "checking", "writing"
    args,       \* the command line
    mode,       \* what parseMode makes of it
    grammar,    \* the defects of the grammar read
    next,       \* the check that comes next
    log,        \* the defects reported
    output,     \* what the run has written: "nothing", "some" or "all"
    exit,       \* how the last run ended: "none", "success", "failure", "crash"
    makefile,   \* the recipe in the Makefile of the directory, <<>> for none
    made        \* the mode of the run that wrote this recipe

vars == <<pc, args, mode, grammar, next, log, output, exit, makefile, made>>

NoMode == [kind |-> "None"]

Init ==
    /\ pc = "shell" /\ args = <<>> /\ mode = NoMode
    /\ grammar = {} /\ next = 1 /\ log = {} /\ output = "nothing"
    /\ exit = "none" /\ makefile = <<>> /\ made = NoMode

opts   == mode.opts
target == opts.target

-----------------------------------------------------------------------------
(* The checks of parseCF, in order; a fatal one goes through               *)
(* dieUnlessForce, for any other target it only warns, or says nothing.    *)

withoutLayout == Targets \ {"Haskell", "HaskellGadt", "Latex", "Pygments", "Check"}

checks ==
    <<[of |-> "javaName",        fatal |-> {"Java"},      warns |-> {}],
      [of |-> "layout",          fatal |-> withoutLayout, warns |-> {}],
      [of |-> "layoutSymbols",   fatal |-> Targets,       warns |-> {}],
      [of |-> "numericToken",    fatal |-> Targets,       warns |-> {}],
      [of |-> "duplicateToken",  fatal |-> Targets,       warns |-> {}],
      [of |-> "tokenIsCategory", fatal |-> Targets,       warns |-> {}],
      [of |-> "notUnique",       fatal |-> {"C", "Cpp", "CppNoStl", "Java"}, warns |-> Targets],
      [of |-> "notUniqueCase",   fatal |-> {"Java"},      warns |-> Targets],
      [of |-> "positionToken",   fatal |-> {},            warns |-> {"CppNoStl"}],
      [of |-> "undefinedLabel",  fatal |-> Targets,       warns |-> {}],
      [of |-> "emptyComment",    fatal |-> Targets,       warns |-> {}],
      [of |-> "nullableToken",   fatal |-> Targets,       warns |-> {}],
      [of |-> "noRules",         fatal |-> Targets,       warns |-> {}],
      [of |-> "noTerminals",     fatal |-> Targets,       warns |-> {}],
      [of |-> "emptyData",       fatal |-> Targets,       warns |-> {}]>>

Fatal(t)    == {c.of : c \in {c \in ToSet(checks) : t \in c.fatal}}
Reported(t) == {c.of : c \in {c \in ToSet(checks) : t \in c.fatal \cup c.warns}}

-----------------------------------------------------------------------------
(* A run ends; of what it read and found nothing remains.                   *)
Exit(e) ==
    /\ pc' = "shell" /\ args' = <<>> /\ mode' = NoMode
    /\ grammar' = {} /\ next' = 1 /\ log' = {} /\ output' = "nothing" /\ exit' = e

Type ==
    /\ pc = "shell" /\ Len(args) < MaxArgs
    /\ \E a \in Names : args' = Append(args, a)
    /\ exit' = "none"
    /\ UNCHANGED <<pc, mode, grammar, next, log, output, makefile, made>>

Enter(line) ==
    /\ pc = "shell"
    /\ pc' = "parsed" /\ args' = <<>> /\ mode' = parseMode(line) /\ exit' = "none"
    /\ UNCHANGED <<grammar, next, log, output, makefile, made>>

RunBnfc == Enter(args)
Remake  == makefile # <<>> /\ args = <<>> /\ Enter(makefile)

(* printUsageErrors, and the modes that print something.                    *)
Inform ==
    /\ pc = "parsed" /\ mode.kind # "Target"
    /\ Exit(IF mode.kind = "UsageError" THEN "failure" ELSE "success")
    /\ UNCHANGED <<makefile, made>>

(* readFile raises an exception, or parseRawCF gives an error, which no     *)
(* option ignores; otherwise the grammar has some of the defects.           *)
ReadGrammar ==
    /\ pc = "parsed" /\ mode.kind = "Target"
    /\ UNCHANGED <<makefile, made>>
    /\ \/ Exit("failure")
       \/ /\ pc' = "checking" /\ grammar' \in Grammars
          /\ UNCHANGED <<args, mode, next, log, output, exit>>

dieAlways ==
    /\ Exit("failure")
    /\ UNCHANGED <<makefile, made>>
dieNever ==
    /\ next' = next + 1 /\ log' = log \cup {checks[next].of}
    /\ UNCHANGED <<pc, args, mode, grammar, output, exit, makefile, made>>
dieUnlessForce ==
    IF opts.force = "yes"
    THEN /\ next' = next + 1 /\ log' = log \cup {checks[next].of}
         /\ UNCHANGED <<pc, args, mode, grammar, output, exit, makefile, made>>
    ELSE /\ Exit("failure")
         /\ UNCHANGED <<makefile, made>>

ReportAny(c) == IF target \in c.warns THEN log \cup {c.of} ELSE log
Report(c)    == IF c.of \in grammar /\ target \in c.warns THEN log \cup {c.of} ELSE log

parseCF ==
    /\ pc = "checking" /\ next \in DOMAIN checks
    /\ LET c == checks[next]
       IN  IF c.of \in grammar /\ target \in c.fatal THEN dieUnlessForce
           ELSE /\ next' = next + 1
                /\ log' = Report(c)
                /\ UNCHANGED <<pc, args, mode, grammar, output, exit, makefile, made>>

Accept ==
    /\ pc = "checking" /\ next > Len(checks)
    /\ UNCHANGED <<makefile, made>>
    /\ IF target = "Check" THEN Exit("success")
       ELSE /\ pc' = "writing"
            /\ UNCHANGED <<args, mode, grammar, next, log, output, exit>>

(* The recipe of the Makefile: bnfcRule.  It is dropped if the files go     *)
(* elsewhere, and Makefiles of other backends have none.                    *)
recipeWithMakefile == printOptions(opts, mode.file)
recipe             == printOptions([opts EXCEPT !.optMake = "none"], mode.file)

writeFiles ==
    /\ pc = "writing" /\ output = "nothing"
    /\ \/ /\ \/ target \in haskellTargets /\ "unusedWord" \in grammar
             \/ log \cap Fatal(target) # {}
          /\ output' = "some"
          /\ UNCHANGED <<makefile, made>>
       \/ /\ ~(target \in haskellTargets /\ "unusedWord" \in grammar)
          /\ output' = "all"
          /\ IF opts.optMake = "none" \/ opts.outDir # "." \/ target = "Pygments"
             THEN UNCHANGED <<makefile, made>>
             ELSE IF target \in haskellTargets
             THEN makefile' = recipe /\ made' = mode
             ELSE makefile' = <<>> /\ made' = NoMode
    /\ UNCHANGED <<pc, args, mode, grammar, next, log, exit>>

Return ==
    /\ pc = "writing" /\ output # "nothing"
    /\ Exit(IF output = "all" THEN "success" ELSE "crash")
    /\ UNCHANGED <<makefile, made>>

Next == \/ Type \/ RunBnfc \/ Remake \/ Inform \/ ReadGrammar
        \/ parseCF \/ Accept \/ writeFiles \/ Return

Spec == Init /\ [][Next]_vars
-----------------------------------------------------------------------------
TypeOK ==
    /\ pc \in {"shell", "parsed", "checking", "writing"}
    /\ args \in Seq(Names) /\ Len(args) <= MaxArgs
    /\ mode.kind \in {"None", "Help", "Info", "UsageError", "Target"}
    /\ pc = "shell" <=> mode = NoMode
    /\ pc \in {"checking", "writing"} =>
          mode.kind = "Target" /\ opts \in [DOMAIN defaultOptions -> values]
    /\ grammar \in Grammars \cup {{}} /\ log \subseteq grammar
    /\ next \in 1..(Len(checks) + 1)
    /\ output \in {"nothing", "some", "all"}
    /\ exit \in {"none", "success", "failure", "crash"}
    /\ makefile = <<>> <=> made = NoMode

(* A backend is called only with a grammar that has been checked in full:   *)
(* every defect that concerns the target has been reported, whatever was    *)
(* found before it, and only --force lets it pass (parseCF).                *)
OutputChecked ==
    pc = "writing" =>
        /\ log = grammar \cap Reported(target)
        /\ log \cap Fatal(target) # {} => opts.force = "yes"

(* The checks as a whole: they refuse a grammar exactly when it has a defect *)
(* that is fatal for the target and --force was not given; that defects     *)
(* are found one by one, some only to warn, does not change the verdict.    *)
Verdict ==
    [][pc = "checking" /\ pc' # "checking" =>
          (exit' = "failure" <=> opts.force # "yes" /\ grammar \cap Fatal(target) # {})]_vars

(* A target gets only what it supports: a field that has not its default was *)
(* set by an option for this target, even if that option came before the    *)
(* one that names the target.                                               *)
FieldsMatchTarget ==
    mode.kind = "Target" =>
        \A f \in DOMAIN defaultOptions : opts[f] # defaultOptions[f] =>
            \E s \in allOptions :
                /\ s[2] = f /\ s[3] = opts[f]
                /\ s \in targetOptions   => <<s[1], "target", target>> \in targetOptions
                /\ s \in specificOptions => target \in Applies(s[1])

(* The recipe in a generated Makefile runs bnfc with the options of the run  *)
(* that wrote it, in spite of options that override one another, and does   *)
(* not write the Makefile again.  Only --force is lost.                     *)
RecipeFaithful ==
    makefile # <<>> =>
        parseMode(makefile) =
            [made EXCEPT !.opts = [@ EXCEPT !.optMake = "none", !.force = "no"]]

-----------------------------------------------------------------------------
(* What comments of the repository say, and the code does not do.           *)

(* The comment on parseCF: the grammar is checked against all requirements   *)
(* of the backend; one that passes without --force can be written.          *)
AcceptedCompletes ==
    pc = "writing" /\ opts.force = "no" => output # "some"
=============================================================================
