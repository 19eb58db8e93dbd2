-------------------------- MODULE MCLayoutResolver --------------------------
(***************************************************************************)
(* Instances of the layout resolver for TLC.  The words "of" and "in" have *)
(* length 2, the other tokens length 1.                                    *)
(***************************************************************************)
EXTENDS LayoutColumns

WordLen == [s \in Sym |-> IF s \in {"of", "in"} THEN 2 ELSE 1]

(* The hypothesis of the refinement proof holds in these instances.         *)
ASSUME WordsAreSeparate == SeparateWords

PlainInit == Init /\ tidy = FALSE
PlainSpec == PlainInit /\ [][Next /\ UNCHANGED tidy]_<<vars, tidy>>
=============================================================================
