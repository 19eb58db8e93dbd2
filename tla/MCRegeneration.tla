--------------------------- MODULE MCRegeneration ---------------------------
(***************************************************************************)
(* Three files for TLC: the abstract syntax and the printer, which are     *)
(* targets of the recipe, and the Makefile.  The printer is the same for   *)
(* both versions of the grammar.                                           *)
(***************************************************************************)
EXTENDS Regeneration, TLC

Paths       == {"Abs", "Print", "Makefile"}
Sources     == <<"Abs", "Print">>
Contents    == {"absent", "partial", "abs1", "abs2", "print", "make1", "make2",
                "edited", "latin1"}
Generated   == ("Abs" :> <<"abs1", "abs2">>)
            @@ ("Print" :> <<"print", "print">>)
            @@ ("Makefile" :> <<"make1", "make2">>)

(* The user gives a file an encoding that cannot be read only if make runs   *)
(* one job.                                                                 *)
CommandSpec ==
    /\ Init
    /\ [][/\ Next /\ UNCHANGED jobs
          /\ jobs = 2 => \A p \in Path : disk'[p] # "latin1"]_vars
    /\ Fairness
=============================================================================
