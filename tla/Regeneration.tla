---------------------------- MODULE Regeneration ----------------------------
(***************************************************************************)
(* The life of a directory of generated files.  The user runs bnfc with    *)
(* the option --makefile, edits the grammar and generated files, and calls *)
(* make, whose generated Makefile runs bnfc again: the rule bnfcRule of    *)
(* Backend/Haskell.hs names several files as targets of one recipe, and    *)
(* GNU make runs the recipe once for each target that is older than the    *)
(* grammar when make comes to it, as many at once as it has jobs: one,     *)
(* unless -j is given.  This module composes make with OutputFiles.        *)
(***************************************************************************)
EXTENDS OutputFiles, FiniteSets

CONSTANTS
    SourceFiles,   \* the files of the backend, in the order it lists them
    Targets,       \* those that bnfcRule names, in its order
    Makefile,      \* the Makefile, written last and only for --makefile
    Edited,        \* contents that the user gives to a generated file
    Jobs           \* numbers of jobs that make may be given

ASSUME FilesAssumption ==
    /\ SourceFiles \in Seq(Path \ {Makefile}) /\ SourceFiles # <<>>
    /\ Targets \in Seq({SourceFiles[i] : i \in DOMAIN SourceFiles})
    /\ Makefile \in Path
    /\ Edited \subseteq Content \ {Absent, Partial}
    /\ IsFiniteSet(Procs) /\ Jobs \subseteq 1..Cardinality(Procs)

VARIABLES
    jobs,      \* how many recipes make runs at once; it does not change
    user,      \* what the user waits for: "nothing", "bnfc" or "make"
    todo,      \* the targets make has still to look at
    started,   \* the targets make has run the recipe for
    failed,    \* a process of the command has died
    before     \* the disk and the .bak files when the command began

vars == <<disk, bak, fresh, grammar, proc, jobs, user, todo, started, failed,
          before>>

IsTarget(p) == \E i \in DOMAIN Targets : Targets[i] = p

Blank == [p \in Path |-> Absent]

Init ==
    /\ disk = Blank /\ bak = Blank
    /\ fresh = {} /\ grammar = 1
    /\ proc = [b \in Procs |-> Idle]
    /\ jobs \in Jobs
    /\ user = "nothing" /\ todo = <<>> /\ started = {} /\ failed = FALSE
    /\ before = [disk |-> disk, bak |-> bak]

Resting == user = "nothing"
Busy    == {b \in Procs : proc[b].step # "idle"}
Quiet   == Busy = {}
FreeJob == Cardinality(Busy) < jobs
NewProc == CHOOSE b \in Procs : proc[b].step = "idle"

Command(c) ==
    /\ Resting
    /\ user' = c /\ UNCHANGED <<failed, started>>
    /\ before' = [disk |-> disk, bak |-> bak]

-----------------------------------------------------------------------------
(* The user. *)

EditGrammar ==
    /\ Resting /\ grammar < MaxVersion
    /\ grammar' = grammar + 1 /\ fresh' = {}
    /\ UNCHANGED <<disk, bak, proc, user, todo, started, failed, before>>

EditFile ==
    /\ Resting
    /\ \E p \in Path, c \in Edited :
          /\ disk[p] # Absent
          /\ disk' = [disk EXCEPT ![p] = c]
          /\ fresh' = fresh \cup {p}
    /\ UNCHANGED <<bak, grammar, proc, user, todo, started, failed, before>>

RunBnfc ==
    /\ Command("bnfc")
    /\ Start(NewProc, Append(SourceFiles, Makefile))
    /\ UNCHANGED todo

RunMake ==
    /\ Command("make")
    /\ disk[Makefile] \notin {Absent, Partial}
    /\ todo' = Targets
    /\ UNCHANGED filesVars

(* distCleanRule: the files that it lists with a .bak variant, and the      *)
(* Makefile, which it lists without.                                        *)
DistClean ==
    /\ Resting
    /\ disk[Makefile] \notin {Absent, Partial}
    /\ disk' = [p \in Path |-> Absent]
    /\ bak' = [p \in Path |-> IF p = Makefile THEN bak[p] ELSE Absent]
    /\ fresh' = {}
    /\ UNCHANGED <<grammar, proc, user, todo, started, failed, before>>

-----------------------------------------------------------------------------
(* make, and the processes. *)

(* make comes to the next target when it has a free job.                    *)
Consider ==
    /\ user = "make" /\ todo # <<>> /\ ~failed /\ FreeJob
    /\ todo' = Tail(todo)
    /\ LET t == todo[1]
       IN  IF disk[t] # Absent /\ t \in fresh
           THEN UNCHANGED <<proc, disk, bak, fresh, grammar, started>>
           ELSE /\ Start(NewProc, SourceFiles)
                /\ started' = started \cup {t}
    /\ UNCHANGED <<user, failed, before>>

Run(b) ==
    /\ writeFileRep(b)
    /\ UNCHANGED <<user, todo, started, failed, before>>

Crash(b) ==
    /\ Die(b)
    /\ failed' = TRUE
    /\ UNCHANGED <<user, todo, started, before>>

(* The command ends: all is done, or make has seen a recipe fail and has    *)
(* waited for the others.                                                   *)
Finish ==
    /\ user # "nothing" /\ Quiet
    /\ todo = <<>> \/ failed
    /\ user' = "nothing" /\ todo' = <<>> /\ started' = {} /\ failed' = FALSE
    /\ before' = [disk |-> Blank, bak |-> Blank]
    /\ UNCHANGED filesVars

-----------------------------------------------------------------------------
Tools == Consider \/ Finish \/ \E b \in Procs : Run(b)

Next == \/ EditGrammar \/ EditFile \/ RunBnfc \/ RunMake \/ DistClean
        \/ Tools \/ \E b \in Procs : Crash(b)

Spec == Init /\ [][Next /\ UNCHANGED jobs]_vars

(* The tools run on; nothing makes the user act or a process die.           *)
Fairness == WF_vars(Tools /\ UNCHANGED jobs)
FairSpec == Spec /\ Fairness

-----------------------------------------------------------------------------
TypeOK ==
    /\ disk \in [Path -> Content] /\ bak \in [Path -> Content]
    /\ fresh \subseteq Path /\ grammar \in Version
    /\ proc \in [Procs -> Proc] /\ jobs \in Jobs
    /\ \A b \in Procs : proc[b].step = "idle" <=> proc[b].files = <<>>
    /\ user \in {"nothing", "bnfc", "make"}
    /\ todo \in Seq(Path) /\ started \subseteq Path /\ failed \in BOOLEAN
    /\ before \in [disk : [Path -> Content], bak : [Path -> Content]]

Ran       == user = "bnfc" \/ started # {}
Written   == {SourceFiles[i] : i \in DOMAIN SourceFiles}
                 \cup (IF user = "bnfc" THEN {Makefile} ELSE {})
Succeeds  == Finish /\ ~failed

(* make converges: when it ends without an error, no target is older than   *)
(* the grammar any more, so that a second make has nothing to do.  For this *)
(* writeFileRep has to write files whose content does not change.           *)
Converges ==
    [][Succeeds /\ user = "make" => \A p \in Path : IsTarget(p) => p \in fresh]_vars

(* One bnfc run brings all targets up to date: without -j, make runs the    *)
(* recipe at most once.                                                     *)
RunsOnce == jobs = 1 => Cardinality(started) <= 1

(* After a command that ran bnfc and saw no error, each file holds what the *)
(* grammar generates, whatever had happened to the files before: half       *)
(* written files of a run that died are repaired.                           *)
Regenerated ==
    [][Succeeds /\ Ran => \A p \in Written : disk[p] = Gen[p][grammar]]_vars

(* The command keeps what it replaces: the old content of a file that was   *)
(* different is in the .bak file, and the .bak file of a file that was the  *)
(* same is left alone, so that running bnfc again does not cost a backup.   *)
(* Recipes that run at once may back up what another has just written.      *)
Saved(p, new) ==
    IF before.disk[p] \in {Absent, new} \cup Undecodable
    THEN before.bak[p] ELSE before.disk[p]

BackupKept ==
    [][Succeeds /\ Ran /\ jobs = 1 =>
          \A p \in Written : bak[p] = Saved(p, disk[p])]_vars

(* Without -j, at most one file is in hand at any time; every other file is  *)
(* as it was, or replaced and its old content saved.  So a process that dies *)
(* costs at most one file, and at most one file's old content.              *)
Untouched(p) == disk[p] = before.disk[p] /\ bak[p] = before.bak[p]
Replaced(p)  == LET new == Gen[p][grammar] IN disk[p] = new /\ bak[p] = Saved(p, new)

OneInHand ==
    jobs = 1 /\ user # "nothing" =>
        Cardinality({p \in Path : ~Untouched(p) /\ ~Replaced(p)}) <= 1

(* Each command ends.                                                       *)
CommandEnds == user # "nothing" ~> user = "nothing"

-----------------------------------------------------------------------------
(* Statements of comments, which the code does not keep.                    *)

(* Utils.hs: "Write a file, after making a backup of an existing file with  *)
(* the same name."                                                          *)
BackupFirst ==
    [][\A p \in Path :
         disk'[p] = Partial /\ disk[p] \notin {Absent, Partial}
             => bak[p] = disk[p]]_vars
=============================================================================
