----------------------------- MODULE OutputFiles -----------------------------
(***************************************************************************)
(* How bnfc puts the files it generates on disk: writeFiles of             *)
(* Backend/Base.hs, which calls writeFileRep of Utils.hs for each file.    *)
(* A file is written in place and its old content is then written to a     *)
(* .bak file, so a process is between the two for a while, and may die     *)
(* there: it is killed, or the content, which is computed only as it is    *)
(* written, raises an error.                                               *)
(*                                                                         *)
(* Several processes may run at once; Regeneration says who starts them.   *)
(***************************************************************************)
EXTENDS Integers, Sequences

CONSTANTS
    Path,         \* the generated files
    Procs,        \* bnfc processes
    MaxVersion,   \* bound: how often the grammar is edited
    Content,      \* contents of files
    Gen,          \* Gen[p][v]: what version v of the grammar generates for p
    Undecodable,  \* contents that are no text in the user's encoding
    Absent,       \* there is no such file
    Partial       \* a file that has been truncated and not yet filled

Version == 1..MaxVersion

ASSUME VersionAssumption == MaxVersion \in Nat \ {0}
ASSUME ContentAssumption ==
    /\ Absent \in Content /\ Partial \in Content /\ Absent # Partial
    /\ Undecodable \subseteq Content \ {Absent, Partial}
    /\ Gen \in [Path -> [Version -> Content \ ({Absent, Partial} \cup Undecodable)]]

Steps == {"idle", "read", "truncate", "fill", "compare", "truncateBak", "fillBak"}
Proc  == [step : Steps, version : Version, files : Seq(Path), old : Content]

VARIABLES
    disk,      \* the content of each file
    bak,       \* the content of its .bak file
    fresh,     \* the files that are newer than the grammar
    grammar,   \* the version of the grammar
    proc       \* the bnfc processes

filesVars == <<disk, bak, fresh, grammar, proc>>

Idle == [step |-> "idle", version |-> 1, files |-> <<>>, old |-> Absent]

-----------------------------------------------------------------------------
(* writeFiles: the backend has run and has listed its files; they are       *)
(* written one after the other.                                             *)
Start(b, files) ==
    /\ proc[b].step = "idle"
    /\ proc' = [proc EXCEPT ![b] = [step |-> "read", version |-> grammar,
                                    files |-> files, old |-> Absent]]
    /\ UNCHANGED <<disk, bak, fresh, grammar>>

Goto(b, step) == proc' = [proc EXCEPT ![b].step = step]

NextFileSame(b) ==
    proc' = [proc EXCEPT ![b] = IF Len(@.files) = 0 THEN Idle
                                ELSE [@ EXCEPT !.step = "read", !.old = Absent]]
NextFileLate(b) ==
    proc' = [proc EXCEPT ![b] = IF Len(@.files) = 0 THEN Idle
                                ELSE [@ EXCEPT !.step = "read", !.old = Absent,
                                               !.files = Tail(proc[b].files)]]
NextFile(b) ==
    proc' = [proc EXCEPT ![b] = IF Len(@.files) = 1 THEN Idle
                                ELSE [@ EXCEPT !.step = "read", !.old = Absent,
                                               !.files = Tail(proc[b].files)]]

path(b)    == proc[b].files[1]
content(b) == Gen[path(b)][proc[b].version]

(* A file that cannot be read is treated as one that does not exist.        *)
Read(b) ==
    /\ proc[b].step = "read"
    /\ proc' = [proc EXCEPT ![b].old = IF disk[path(b)] \in Undecodable
                                       THEN Absent ELSE disk[path(b)],
                            ![b].step = "truncate"]
    /\ UNCHANGED <<disk, bak, fresh, grammar>>

TruncateIfChanged(b) ==
    /\ proc[b].step = "truncate"
    /\ IF content(b) = proc[b].old
       THEN NextFile(b) /\ UNCHANGED <<disk, fresh>>
       ELSE /\ disk' = [disk EXCEPT ![path(b)] = Partial]
            /\ fresh' = fresh \cup {path(b)}
            /\ Goto(b, "fill")
    /\ UNCHANGED <<bak, grammar>>
TruncateNew(b) ==
    /\ proc[b].step = "truncate"
    /\ IF proc[b].old # Absent
       THEN NextFile(b) /\ UNCHANGED <<disk, fresh>>
       ELSE /\ disk' = [disk EXCEPT ![path(b)] = Partial]
            /\ fresh' = fresh \cup {path(b)}
            /\ Goto(b, "fill")
    /\ UNCHANGED <<bak, grammar>>
Truncate(b) ==
    /\ proc[b].step = "truncate"
    /\ disk' = [disk EXCEPT ![path(b)] = Partial]
    /\ fresh' = fresh \cup {path(b)}
    /\ Goto(b, "fill")
    /\ UNCHANGED <<bak, grammar>>

(* newFile ends here; updateFile goes on to compare.                        *)
Fill(b) ==
    /\ proc[b].step = "fill"
    /\ disk' = [disk EXCEPT ![path(b)] = content(b)]
    /\ fresh' = fresh \cup {path(b)}
    /\ IF proc[b].old = Absent THEN NextFile(b) ELSE Goto(b, "compare")
    /\ UNCHANGED <<bak, grammar>>

CompareEdited(b) ==
    /\ proc[b].step = "compare"
    /\ Goto(b, "truncateBak")
    /\ UNCHANGED <<disk, bak, fresh, grammar>>
Compare(b) ==
    /\ proc[b].step = "compare"
    /\ IF content(b) = proc[b].old THEN NextFile(b) ELSE Goto(b, "truncateBak")
    /\ UNCHANGED <<disk, bak, fresh, grammar>>

TruncateBak(b) ==
    /\ proc[b].step = "truncateBak"
    /\ bak' = [bak EXCEPT ![path(b)] = Partial]
    /\ Goto(b, "fillBak")
    /\ UNCHANGED <<disk, fresh, grammar>>

FillBakNew(b) ==
    /\ proc[b].step = "fillBak"
    /\ bak' = [bak EXCEPT ![path(b)] = disk[path(b)]]
    /\ NextFile(b)
    /\ UNCHANGED <<disk, fresh, grammar>>
FillBak(b) ==
    /\ proc[b].step = "fillBak"
    /\ bak' = [bak EXCEPT ![path(b)] = proc[b].old]
    /\ NextFile(b)
    /\ UNCHANGED <<disk, fresh, grammar>>

writeFileRep(b) == \/ Read(b) \/ Truncate(b) \/ Fill(b) \/ Compare(b)
                   \/ TruncateBak(b) \/ FillBak(b)

(* The process dies and leaves the disk as it is.                           *)
Die(b) ==
    /\ proc[b].step # "idle"
    /\ proc' = [proc EXCEPT ![b] = Idle]
    /\ UNCHANGED <<disk, bak, fresh, grammar>>
=============================================================================
