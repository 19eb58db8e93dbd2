------------------------- MODULE Regeneration_proofs -------------------------
(***************************************************************************)
(* Proofs about Regeneration, for any files, contents, grammars and        *)
(* numbers of processes.                                                   *)
(***************************************************************************)
EXTENDS Regeneration, TLAPS, FiniteSetTheorems, SequenceTheorems

-----------------------------------------------------------------------------
(* The inductive invariant. *)

Unfilled == {"read", "truncate", "fill"}

(* Process b will write p before it ends: p comes later in its list, or is  *)
(* the file it is at and has not been filled.                               *)
Owes(b, p) == \E i \in DOMAIN proc[b].files :
                 proc[b].files[i] = p /\ (i = 1 => proc[b].step \in Unfilled)
Owed(p)    == \E b \in Procs : Owes(b, p)

UpToDate(p) == disk[p] = Gen[p][grammar] /\ p \in fresh

(* Nothing is left over from a command that has ended.                      *)
AtRest == Resting => Quiet /\ todo = <<>> /\ started = {} /\ ~failed

(* The user edits the grammar only between commands.                        *)
SameVersion == \A b \in Busy : proc[b].version = grammar

(* What a process has not brought up to date some process still owes.       *)
WorkLeft == Ran /\ ~failed => \A p \in Written : UpToDate(p) \/ Owed(p)

(* A target that make has come to is fresh, or a process owes it.           *)
TargetsLeft ==
    user = "make" /\ ~failed =>
        \A p \in Path : IsTarget(p) =>
            p \in fresh \/ Owed(p) \/ \E j \in DOMAIN todo : todo[j] = p
TargetsOnly == \A j \in DOMAIN todo : IsTarget(todo[j])

(* Without -j, one process runs at a time, and none after one has died; the *)
(* recipe has run for one target at most.                                   *)
OneJob == jobs = 1 => /\ \A b, c \in Busy : b = c
                      /\ failed => Quiet
                      /\ \A s, t \in started : s = t

Kept(p) == Untouched(p) \/ Replaced(p)

Legible(c) == IF c \in Undecodable THEN Absent ELSE c

(* The old content that process b has in memory is that of before the       *)
(* command, or the file had been replaced already.                          *)
Remembers(b) ==
    \/ bak[path(b)] = before.bak[path(b)] /\ proc[b].old = Legible(before.disk[path(b)])
    \/ bak[path(b)] = Saved(path(b), content(b)) /\ proc[b].old = content(b)

InHand(b) ==
    LET p == path(b)  s == proc[b].step  old == proc[b].old
    IN  /\ s = "read" => Kept(p)
        /\ s = "truncate" => Kept(p) /\ old = Legible(disk[p])
        /\ s \in {"fill", "compare", "truncateBak"} => Remembers(b)
        /\ s \in {"compare", "truncateBak", "fillBak"} => disk[p] = content(b)
        /\ s \in {"compare", "truncateBak"} => old # Absent
        /\ s = "truncateBak" => old # content(b)
        /\ s = "fillBak" => old = Saved(p, content(b))

(* The files that are not in hand are kept.                                 *)
HandKept ==
    jobs = 1 /\ user # "nothing" =>
        /\ \A b \in Busy : InHand(b)
        /\ ~failed => \A p \in Path : Kept(p) \/ \E b \in Busy : path(b) = p
        /\ failed  => \E q \in Path : \A p \in Path \ {q} : Kept(p)

IInv == /\ TypeOK /\ AtRest /\ SameVersion /\ WorkLeft
        /\ TargetsLeft /\ TargetsOnly /\ OneJob /\ HandKept

-----------------------------------------------------------------------------
(* Facts about the constants. *)

LEMMA Sources ==
    /\ SourceFiles \in Seq(Path) /\ SourceFiles # <<>>
    /\ \A i \in DOMAIN SourceFiles : SourceFiles[i] # Makefile
    /\ Append(SourceFiles, Makefile) \in Seq(Path)
    /\ Append(SourceFiles, Makefile) # <<>>
    /\ Targets \in Seq(Path)
    /\ \A p : IsTarget(p) => \E i \in DOMAIN SourceFiles : SourceFiles[i] = p
<1> DEFINE S == {SourceFiles[i] : i \in DOMAIN SourceFiles}
<1>1. SourceFiles \in Seq(Path) /\ SourceFiles # <<>>
  BY FilesAssumption, SeqMonotonic, Path \ {Makefile} \subseteq Path
<1>2. \A i \in DOMAIN SourceFiles : SourceFiles[i] # Makefile
  BY FilesAssumption
<1>3. S \subseteq Path
  BY <1>1
<1>4. Append(SourceFiles, Makefile) \in Seq(Path) /\ Append(SourceFiles, Makefile) # <<>>
  BY <1>1, FilesAssumption, AppendProperties
<1>5. Targets \in Seq(S)
  BY FilesAssumption
<1>6. Targets \in Seq(Path)
  BY <1>3, <1>5, SeqMonotonic
<1>7. \A i \in DOMAIN Targets : Targets[i] \in S
  BY <1>5
<1> QED
  BY <1>1, <1>2, <1>4, <1>6, <1>7 DEF IsTarget

(* The list of a bnfc command ends with the Makefile.                       *)
LEMMA WithMakefile ==
    ASSUME NEW p, p = Makefile \/ \E i \in DOMAIN SourceFiles : SourceFiles[i] = p
    PROVE  \E i \in DOMAIN Append(SourceFiles, Makefile) :
               Append(SourceFiles, Makefile)[i] = p
<1>1. SourceFiles \in Seq(Path) /\ Makefile \in Path
  BY Sources, FilesAssumption
<1>2. DOMAIN SourceFiles = 1..Len(SourceFiles)
      /\ DOMAIN Append(SourceFiles, Makefile) = 1..(Len(SourceFiles) + 1)
      /\ Len(SourceFiles) \in Nat
  BY <1>1
<1> QED
  BY <1>1, <1>2, AppendProperties

LEMMA Generated ==
    ASSUME NEW p \in Path, NEW v \in Version
    PROVE  /\ Gen[p][v] \in Content
           /\ Gen[p][v] # Absent /\ Gen[p][v] # Partial
           /\ Gen[p][v] \notin Undecodable
  BY ContentAssumption

LEMMA Processes ==
    ASSUME TypeOK
    PROVE  /\ IsFiniteSet(Busy) /\ Cardinality(Busy) \in Nat
           /\ jobs \in Nat \ {0}
           /\ FreeJob => Busy # Procs
           /\ FreeJob /\ jobs = 1 => Quiet
           /\ Quiet => Busy # Procs
<1>1. IsFiniteSet(Procs) /\ Cardinality(Procs) \in Nat /\ Busy \subseteq Procs
  BY FilesAssumption, FS_CardinalityType DEF Busy
<1>2. IsFiniteSet(Busy) /\ Cardinality(Busy) \in Nat
  BY <1>1, FS_Subset, FS_CardinalityType
<1>3. jobs \in Nat \ {0} /\ jobs <= Cardinality(Procs)
  BY <1>1, FilesAssumption DEF TypeOK
<1>4. FreeJob => Busy # Procs
  BY <1>1, <1>2, <1>3 DEF FreeJob
<1>5. FreeJob /\ jobs = 1 => Quiet
  BY <1>2, FS_EmptySet DEF FreeJob, Quiet
<1>6. Quiet => Busy # Procs
  BY <1>1, <1>3, FS_EmptySet DEF Quiet
<1> QED
  BY <1>2, <1>3, <1>4, <1>5, <1>6

LEMMA NewProcIdle ==
    ASSUME Busy # Procs
    PROVE  NewProc \in Procs /\ proc[NewProc].step = "idle"
<1>1. \E b \in Procs : proc[b].step = "idle"
  BY DEF Busy
<1> QED
  BY <1>1 DEF NewProc

LEMMA BusyProc ==
    ASSUME TypeOK, NEW b \in Busy
    PROVE  /\ b \in Procs /\ proc[b] \in Proc
           /\ proc[b].files \in Seq(Path) /\ proc[b].files # <<>>
           /\ Len(proc[b].files) \in Nat \ {0}
           /\ 1 \in DOMAIN proc[b].files
           /\ path(b) \in Path
           /\ proc[b].version \in Version
           /\ content(b) \in Content /\ content(b) # Absent /\ content(b) # Partial
           /\ content(b) \notin Undecodable
<1>1. b \in Procs /\ proc[b] \in Proc /\ proc[b].files # <<>>
  BY DEF TypeOK, Busy
<1>2. proc[b].files \in Seq(Path) /\ proc[b].version \in Version
  BY <1>1 DEF Proc
<1>3. Len(proc[b].files) \in Nat \ {0} /\ 1 \in DOMAIN proc[b].files
      /\ path(b) \in Path
  BY <1>1, <1>2 DEF path
<1> QED
  BY <1>1, <1>2, <1>3, Generated DEF content

-----------------------------------------------------------------------------
(* What a step of one process does to the processes. *)

(* The process b of the next state, or of this one, is a proper one.        *)
Proper(r) == r \in Proc /\ (r.step = "idle" <=> r.files = <<>>)

LEMMA ProcUpdate ==
    ASSUME TypeOK, NEW b \in Procs, NEW r, Proper(r), proc' = [proc EXCEPT ![b] = r]
    PROVE  /\ proc' \in [Procs -> Proc] /\ proc'[b] = r
           /\ \A c \in Procs : Proper(proc'[c])
           /\ \A c \in Procs \ {b} : proc'[c] = proc[c]
  BY DEF TypeOK, Proper

LEMMA IdleProper == Proper(Idle)
<1>1. 1 \in Version
  BY VersionAssumption DEF Version
<1>2. <<>> \in Seq(Path) /\ Absent \in Content
  BY ContentAssumption
<1> QED
  BY <1>1, <1>2 DEF Proper, Idle, Proc, Steps

LEMMA LongTail ==
    ASSUME NEW S, NEW fs \in Seq(S), fs # <<>>, Len(fs) # 1
    PROVE  /\ Tail(fs) \in Seq(S) /\ Tail(fs) # <<>>
           /\ \A i \in 2..Len(fs) : i - 1 \in DOMAIN Tail(fs) /\ Tail(fs)[i - 1] = fs[i]
<1>1. Len(fs) \in Nat /\ Len(fs) # 0
  BY EmptySeq
<1>2. Len(fs) > 1
  BY <1>1
<1>3. Tail(fs) \in Seq(S) /\ Len(Tail(fs)) = Len(fs) - 1
      /\ \A j \in 1..Len(Tail(fs)) : Tail(fs)[j] = fs[j + 1]
  BY HeadTailProperties
<1>4. Len(Tail(fs)) # 0
  BY <1>1, <1>2, <1>3
<1>5. Tail(fs) # <<>>
  <2>1. Len(<<>>) = 0
    OBVIOUS
  <2> QED
    BY <1>4, <2>1, Zenon
<1>6. DOMAIN Tail(fs) = 1..(Len(fs) - 1)
  BY <1>1, <1>3
<1> QED
  BY <1>1, <1>2, <1>3, <1>5, <1>6

(* A process goes on to its next file, or ends after the last.              *)
LEMMA NextFileStep ==
    ASSUME TypeOK, NEW b \in Busy, NextFile(b)
    PROVE  /\ proc' \in [Procs -> Proc]
           /\ \A c \in Procs : Proper(proc'[c])
           /\ \A c \in Procs \ {b} : proc'[c] = proc[c]
           /\ proc'[b].step \in {"idle", "read"}
           /\ proc'[b].step # "idle" => proc'[b].version = proc[b].version
           /\ \A p : Owes(b, p) =>
                 Owes(b, p)' \/ (p = path(b) /\ proc[b].step \in Unfilled)
<1> DEFINE fs == proc[b].files
           r == [proc[b] EXCEPT !.step = "read", !.old = Absent, !.files = Tail(proc[b].files)]
<1>1. /\ b \in Procs /\ proc[b] \in Proc /\ fs \in Seq(Path) /\ fs # <<>>
      /\ Len(fs) \in Nat \ {0}
  BY BusyProc
<1>2. CASE Len(fs) = 1
  <2>1. proc' = [proc EXCEPT ![b] = Idle]
    BY <1>1, <1>2 DEF NextFile, TypeOK
  <2>2. \A p : Owes(b, p) => p = path(b) /\ proc[b].step \in Unfilled
    BY <1>1, <1>2 DEF Owes, path
  <2>3. Idle.step = "idle"
    BY DEF Idle
  <2> QED
    BY <1>1, <2>1, <2>2, <2>3, IdleProper, ProcUpdate
<1>3. CASE Len(fs) # 1
  <2>1. proc' = [proc EXCEPT ![b] = r]
    <3>1. proc' = [proc EXCEPT ![b] = IF Len(fs) = 1 THEN Idle ELSE r]
      BY <1>1, Zenon DEF NextFile, TypeOK
    <3> QED
      BY <1>3, <3>1, Zenon
  <2>2. /\ Tail(fs) \in Seq(Path) /\ Tail(fs) # <<>>
        /\ \A i \in 2..Len(fs) : i - 1 \in DOMAIN Tail(fs) /\ Tail(fs)[i - 1] = fs[i]
    BY <1>1, <1>3, LongTail
  <2>3. /\ r.step = "read" /\ r.files = Tail(fs) /\ r.version = proc[b].version
        /\ Proper(r)
    BY <1>1, <2>2, ContentAssumption DEF Proper, Proc, Steps
  <2>4. proc'[b] = r
    BY <1>1, <2>1, <2>3, ProcUpdate
  <2>5. ASSUME NEW p, Owes(b, p)
        PROVE  Owes(b, p)' \/ (p = path(b) /\ proc[b].step \in Unfilled)
    <3>1. PICK i \in DOMAIN fs : fs[i] = p /\ (i = 1 => proc[b].step \in Unfilled)
      BY <2>5 DEF Owes
    <3>2. CASE i = 1
      BY <3>1, <3>2 DEF path
    <3>3. CASE i # 1
      <4>1. i \in 2..Len(fs)
        BY <1>1, <3>1, <3>3
      <4>2. i - 1 \in DOMAIN proc'[b].files /\ proc'[b].files[i - 1] = p
            /\ proc'[b].step \in Unfilled
        BY <2>2, <2>3, <2>4, <3>1, <4>1 DEF Unfilled
      <4> QED
        BY <4>2 DEF Owes
    <3> QED
      BY <3>2, <3>3
  <2> QED
    BY <1>1, <2>1, <2>3, <2>4, <2>5, ProcUpdate
<1> QED
  BY <1>2, <1>3

(* A process goes on with the file it is at.                                *)
Stays(b, s, o) == proc' = [proc EXCEPT ![b] = [@ EXCEPT !.step = s, !.old = o]]

LEMMA GotoStep ==
    ASSUME TypeOK, NEW b \in Busy, NEW s \in Steps \ {"idle"}, NEW o \in Content,
           Stays(b, s, o),
           proc[b].step \in Unfilled => s \in Unfilled \/ proc[b].step = "fill"
    PROVE  /\ proc' \in [Procs -> Proc]
           /\ \A c \in Procs : Proper(proc'[c])
           /\ \A c \in Procs \ {b} : proc'[c] = proc[c]
           /\ proc'[b].step = s /\ proc'[b].old = o
           /\ proc'[b].version = proc[b].version /\ proc'[b].files = proc[b].files
           /\ path(b)' = path(b)
           /\ \A p : Owes(b, p) => Owes(b, p)' \/ (p = path(b) /\ proc[b].step = "fill")
<1> DEFINE r == [proc[b] EXCEPT !.step = s, !.old = o]
<1>1. b \in Procs /\ proc[b] \in Proc /\ proc[b].files # <<>>
  BY BusyProc
<1>2. proc' = [proc EXCEPT ![b] = r]
  BY <1>1 DEF Stays, TypeOK
<1>3. /\ r.step = s /\ r.old = o /\ r.version = proc[b].version
      /\ r.files = proc[b].files
  BY <1>1 DEF Proc
<1>4. Proper(r)
  BY <1>1, <1>3 DEF Proper, Proc
<1>5. proc'[b] = r
  BY <1>1, <1>2, <1>4, ProcUpdate
<1>6. \A p : Owes(b, p) => Owes(b, p)' \/ (p = path(b) /\ proc[b].step = "fill")
  BY <1>3, <1>5 DEF Owes, path
<1> QED
  BY <1>1, <1>2, <1>3, <1>4, <1>5, <1>6, ProcUpdate DEF path

(* What a step of writeFileRep does: it touches the file that the process   *)
(* is at, and what the process owed is owed still or has been written.      *)
LEMMA WriteStep ==
    ASSUME TypeOK, SameVersion, NEW b \in Procs, writeFileRep(b)
    PROVE  /\ b \in Busy /\ grammar' = grammar
           /\ proc' \in [Procs -> Proc]
           /\ \A c \in Procs : Proper(proc'[c])
           /\ \A c \in Procs \ {b} : proc'[c] = proc[c]
           /\ proc'[b].step # "idle" => proc'[b].version = proc[b].version
           /\ disk' \in [Path -> Content] /\ bak' \in [Path -> Content]
           /\ fresh \subseteq fresh' /\ fresh' \subseteq Path
           /\ \A p \in Path \ {path(b)} : disk'[p] = disk[p] /\ bak'[p] = bak[p]
           /\ \A p \in Path : Owes(b, p) => Owes(b, p)' \/ UpToDate(p)'
           /\ \A p \in Path : UpToDate(p) => UpToDate(p)' \/ Owes(b, p)'
<1>1. b \in Busy
  BY DEF writeFileRep, Read, Truncate, Fill, Compare, TruncateBak, FillBak, Busy
<1> DEFINE fs == proc[b].files
<1>2. /\ proc[b] \in Proc /\ path(b) \in Path /\ 1 \in DOMAIN fs
      /\ content(b) \in Content /\ proc[b].old \in Content
      /\ proc[b].version = grammar /\ content(b) = Gen[path(b)][grammar]
  BY <1>1, BusyProc DEF SameVersion, Proc, content
<1>3. Absent \in Content /\ Partial \in Content
  BY ContentAssumption
<1>4. CASE Read(b)
  <2> DEFINE o == IF disk[path(b)] \in Undecodable THEN Absent ELSE disk[path(b)]
  <2>1. proc[b].step = "read" /\ UNCHANGED <<disk, bak, fresh, grammar>>
    BY <1>4 DEF Read
  <2>2. Stays(b, "truncate", o)
    BY <1>2, <1>4 DEF Stays, Read, TypeOK, Proc
  <2>3. o \in Content
    BY <1>2, <1>3 DEF TypeOK
  <2>4. "truncate" \in Steps \ {"idle"} /\ "truncate" \in Unfilled
    BY DEF Steps, Unfilled
  <2> HIDE DEF o
  <2> QED
    BY <1>1, <2>1, <2>2, <2>3, <2>4, GotoStep DEF TypeOK, UpToDate
<1>5. CASE Truncate(b)
  <2>1. /\ proc[b].step = "truncate" /\ UNCHANGED <<bak, grammar>>
        /\ disk' = [disk EXCEPT ![path(b)] = Partial]
        /\ fresh' = fresh \cup {path(b)}
    BY <1>5 DEF Truncate
  <2>2. Stays(b, "fill", proc[b].old)
    BY <1>2, <1>5 DEF Stays, Truncate, Goto, TypeOK, Proc
  <2>3. "fill" \in Steps \ {"idle"} /\ "fill" \in Unfilled
    BY DEF Steps, Unfilled
  <2>4. /\ proc' \in [Procs -> Proc]
        /\ \A c \in Procs : Proper(proc'[c])
        /\ \A c \in Procs \ {b} : proc'[c] = proc[c]
        /\ proc'[b].step = "fill" /\ proc'[b].files = fs
        /\ proc'[b].version = proc[b].version
        /\ \A p : Owes(b, p) => Owes(b, p)'
    BY <1>1, <1>2, <2>1, <2>2, <2>3, GotoStep
  <2>5. \A p : p = path(b) => Owes(b, p)'
    BY <1>2, <2>3, <2>4 DEF Owes, path
  <2> QED
    BY <1>1, <1>2, <1>3, <2>1, <2>4, <2>5 DEF TypeOK, UpToDate
<1>6. CASE Fill(b)
  <2>1. /\ proc[b].step = "fill" /\ UNCHANGED <<bak, grammar>>
        /\ disk' = [disk EXCEPT ![path(b)] = content(b)]
        /\ fresh' = fresh \cup {path(b)}
    BY <1>6 DEF Fill
  <2>2. \A p : p = path(b) => UpToDate(p)'
    <3>1. disk'[path(b)] = Gen[path(b)][grammar] /\ path(b) \in fresh'
      BY <1>2, <2>1 DEF TypeOK
    <3> QED
      BY <2>1, <3>1 DEF UpToDate
  <2>3. /\ disk' \in [Path -> Content]
        /\ \A p \in Path \ {path(b)} : disk'[p] = disk[p] /\ bak'[p] = bak[p]
    BY <1>2, <2>1 DEF TypeOK
  <2>4. CASE proc[b].old = Absent
    <3>1. NextFile(b)
      BY <1>6, <2>4 DEF Fill
    <3> QED
      BY <1>1, <1>2, <2>1, <2>2, <2>3, <3>1, NextFileStep DEF TypeOK, UpToDate
  <2>5. CASE proc[b].old # Absent
    <3>1. Stays(b, "compare", proc[b].old)
      BY <1>2, <1>6, <2>5 DEF Stays, Fill, Goto, TypeOK, Proc
    <3>2. "compare" \in Steps \ {"idle"}
      BY DEF Steps
    <3>3. /\ proc' \in [Procs -> Proc]
          /\ \A c \in Procs : Proper(proc'[c])
          /\ \A c \in Procs \ {b} : proc'[c] = proc[c]
          /\ proc'[b].version = proc[b].version
          /\ \A p : Owes(b, p) => Owes(b, p)' \/ p = path(b)
      BY <1>1, <1>2, <2>1, <3>1, <3>2, GotoStep
    <3>4. /\ fresh \subseteq fresh' /\ fresh' \subseteq Path
          /\ bak' \in [Path -> Content] /\ grammar' = grammar
      BY <1>2, <2>1 DEF TypeOK
    <3>5. \A p \in Path : UpToDate(p) => UpToDate(p)'
      BY <2>1, <2>2, <2>3, <3>4 DEF UpToDate
    <3> QED
      BY <1>1, <2>1, <2>2, <2>3, <3>3, <3>4, <3>5
  <2> QED
    BY <2>4, <2>5
<1>7. CASE Compare(b)
  <2>1. /\ proc[b].step = "compare" /\ UNCHANGED <<disk, bak, fresh, grammar>>
        /\ proc[b].step \notin Unfilled
    BY <1>7 DEF Compare, Unfilled
  <2>2. CASE content(b) = proc[b].old
    <3>1. NextFile(b)
      BY <1>7, <2>2 DEF Compare
    <3> QED
      BY <1>1, <1>2, <2>1, <3>1, NextFileStep DEF TypeOK, UpToDate
  <2>3. CASE content(b) # proc[b].old
    <3>1. Stays(b, "truncateBak", proc[b].old)
      BY <1>2, <1>7, <2>3 DEF Stays, Compare, Goto, TypeOK, Proc
    <3>2. "truncateBak" \in Steps \ {"idle"}
      BY DEF Steps
    <3> QED
      BY <1>1, <1>2, <2>1, <3>1, <3>2, GotoStep DEF TypeOK, UpToDate
  <2> QED
    BY <2>2, <2>3
<1>8. CASE TruncateBak(b)
  <2>1. /\ proc[b].step = "truncateBak" /\ UNCHANGED <<disk, fresh, grammar>>
        /\ proc[b].step \notin Unfilled
        /\ bak' = [bak EXCEPT ![path(b)] = Partial]
    BY <1>8 DEF TruncateBak, Unfilled
  <2>2. Stays(b, "fillBak", proc[b].old)
    BY <1>2, <1>8 DEF Stays, TruncateBak, Goto, TypeOK, Proc
  <2>3. "fillBak" \in Steps \ {"idle"}
    BY DEF Steps
  <2> QED
    BY <1>1, <1>2, <1>3, <2>1, <2>2, <2>3, GotoStep DEF TypeOK, UpToDate
<1>9. CASE FillBak(b)
  <2>1. /\ proc[b].step = "fillBak" /\ UNCHANGED <<disk, fresh, grammar>>
        /\ proc[b].step \notin Unfilled
        /\ bak' = [bak EXCEPT ![path(b)] = proc[b].old] /\ NextFile(b)
    BY <1>9 DEF FillBak, Unfilled
  <2> QED
    BY <1>1, <1>2, <1>3, <2>1, NextFileStep DEF TypeOK, UpToDate
<1> QED
  BY <1>4, <1>5, <1>6, <1>7, <1>8, <1>9 DEF writeFileRep

LEMMA StartStep ==
    ASSUME TypeOK, NEW b \in Procs, NEW files \in Seq(Path), files # <<>>,
           Start(b, files)
    PROVE  /\ proc' \in [Procs -> Proc]
           /\ \A c \in Procs : Proper(proc'[c])
           /\ \A c \in Procs \ {b} : proc'[c] = proc[c]
           /\ b \notin Busy /\ Busy' = Busy \cup {b}
           /\ proc'[b].step = "read" /\ proc'[b].files = files
           /\ proc'[b].version = grammar
           /\ \A p : (\E i \in DOMAIN files : files[i] = p) => Owes(b, p)'
           /\ \A p : Owes(b, p) => Owes(b, p)'
<1> DEFINE r == [step |-> "read", version |-> grammar, files |-> files, old |-> Absent]
<1>1. r.step = "read" /\ r.files = files /\ r.version = grammar
  OBVIOUS
<1>2. Proper(r)
  BY ContentAssumption DEF Proper, Proc, Steps, TypeOK
<1>3. proc' = [proc EXCEPT ![b] = r] /\ proc[b].step = "idle"
  BY DEF Start
<1>4. /\ proc' \in [Procs -> Proc] /\ proc'[b] = r
      /\ \A c \in Procs : Proper(proc'[c])
      /\ \A c \in Procs \ {b} : proc'[c] = proc[c]
  BY <1>2, <1>3, ProcUpdate
<1>5. b \notin Busy /\ Busy' = Busy \cup {b}
  BY <1>1, <1>3, <1>4 DEF Busy
<1>6. \A p : (\E i \in DOMAIN files : files[i] = p) => Owes(b, p)'
  BY <1>1, <1>4 DEF Owes, Unfilled
<1>7. \A p : ~Owes(b, p)
  BY <1>3, EmptySeq DEF Owes, TypeOK
<1> QED
  BY <1>1, <1>4, <1>5, <1>6, <1>7

LEMMA DieStep ==
    ASSUME TypeOK, NEW b \in Procs, Die(b)
    PROVE  /\ b \in Busy /\ Busy' = Busy \ {b}
           /\ proc' \in [Procs -> Proc]
           /\ \A c \in Procs : Proper(proc'[c])
           /\ \A c \in Procs \ {b} : proc'[c] = proc[c]
<1>1. proc' = [proc EXCEPT ![b] = Idle] /\ proc[b].step # "idle" /\ Idle.step = "idle"
  BY DEF Die, Idle
<1>2. /\ proc' \in [Procs -> Proc] /\ proc'[b] = Idle
      /\ \A c \in Procs : Proper(proc'[c])
      /\ \A c \in Procs \ {b} : proc'[c] = proc[c]
  BY <1>1, IdleProper, ProcUpdate
<1> QED
  BY <1>1, <1>2 DEF Busy

(* A file that a process other than b owes, it owes still.                  *)
LEMMA StillOwed ==
    ASSUME NEW b \in Procs, \A c \in Procs \ {b} : proc'[c] = proc[c],
           NEW p, Owed(p), Owes(b, p) => Owes(b, p)' \/ UpToDate(p)'
    PROVE  Owed(p)' \/ UpToDate(p)'
<1>1. PICK c \in Procs : Owes(c, p)
  BY DEF Owed
<1>2. CASE c = b
  BY <1>1, <1>2 DEF Owed
<1>3. CASE c # b
  BY <1>1, <1>3 DEF Owed, Owes
<1> QED
  BY <1>2, <1>3

(* When no process runs, nothing is owed.                                   *)
LEMMA QuietOwes ==
    ASSUME TypeOK, Quiet
    PROVE  \A p : ~Owed(p)
<1>1. \A b \in Procs : proc[b].files = <<>>
  BY DEF Quiet, Busy, TypeOK
<1> QED
  BY <1>1, EmptySeq DEF Owed, Owes

-----------------------------------------------------------------------------
(* Each part of the invariant. *)

LEMMA TypeInv ==
    ASSUME TypeOK, AtRest, SameVersion, Next, UNCHANGED jobs
    PROVE  TypeOK'
<1>1. jobs' \in Jobs
  BY DEF TypeOK
<1>2. CASE EditGrammar
  <2>1. grammar' \in Version
    BY <1>2, VersionAssumption DEF EditGrammar, TypeOK, Version
  <2> QED
    BY <1>1, <1>2, <2>1 DEF EditGrammar, TypeOK
<1>3. CASE EditFile
  <2>1. PICK p \in Path, c \in Edited :
           disk' = [disk EXCEPT ![p] = c] /\ fresh' = fresh \cup {p}
    BY <1>3 DEF EditFile
  <2>2. c \in Content
    BY FilesAssumption
  <2> QED
    BY <1>1, <1>3, <2>1, <2>2 DEF EditFile, TypeOK
<1>4. CASE RunBnfc
  <2>1. Busy # Procs
    BY <1>4, Processes DEF RunBnfc, Command, AtRest
  <2>2. Start(NewProc, Append(SourceFiles, Makefile))
    BY <1>4 DEF RunBnfc
  <2>3. proc' \in [Procs -> Proc] /\ \A c \in Procs : Proper(proc'[c])
    BY <2>1, <2>2, NewProcIdle, Sources, StartStep
  <2>4. /\ user' = "bnfc" /\ before' = [disk |-> disk, bak |-> bak]
        /\ UNCHANGED <<disk, bak, fresh, grammar, todo, started, failed>>
    BY <1>4, <2>2 DEF RunBnfc, Command, Start
  <2> QED
    BY <1>1, <2>3, <2>4 DEF TypeOK, Proper
<1>5. CASE RunMake
  <2>1. todo' \in Seq(Path)
    BY <1>5, Sources DEF RunMake
  <2>2. /\ user' = "make" /\ before' = [disk |-> disk, bak |-> bak]
        /\ UNCHANGED <<disk, bak, fresh, grammar, proc, started, failed>>
    BY <1>5 DEF RunMake, Command, filesVars
  <2> QED
    BY <1>1, <2>1, <2>2 DEF TypeOK
<1>6. CASE DistClean
  BY <1>1, <1>6, ContentAssumption DEF DistClean, TypeOK
<1>7. CASE Consider
  <2>1. /\ todo' = Tail(todo) /\ todo # <<>> /\ FreeJob
        /\ UNCHANGED <<user, failed, before>>
    BY <1>7 DEF Consider
  <2>2. todo' \in Seq(Path) /\ todo[1] \in Path
    BY <2>1 DEF TypeOK
  <2>3. CASE UNCHANGED <<proc, disk, bak, fresh, grammar, started>>
    BY <1>1, <2>1, <2>2, <2>3 DEF TypeOK
  <2>4. CASE Start(NewProc, SourceFiles) /\ started' = started \cup {todo[1]}
    <3>1. NewProc \in Procs
      BY <2>1, Processes, NewProcIdle
    <3>2. proc' \in [Procs -> Proc] /\ \A c \in Procs : Proper(proc'[c])
      BY <2>4, <3>1, Sources, StartStep
    <3>3. UNCHANGED <<disk, bak, fresh, grammar>>
      BY <2>4 DEF Start
    <3> QED
      BY <1>1, <2>1, <2>2, <2>4, <3>2, <3>3 DEF TypeOK, Proper
  <2> QED
    BY <1>7, <2>3, <2>4 DEF Consider
<1>8. CASE Finish
  <2>1. Blank \in [Path -> Content] /\ <<>> \in Seq(Path)
    BY ContentAssumption DEF Blank
  <2> QED
    BY <1>1, <1>8, <2>1 DEF Finish, filesVars, TypeOK
<1>9. ASSUME NEW b \in Procs, Run(b)
      PROVE  TypeOK'
  <2>1. writeFileRep(b) /\ UNCHANGED <<user, todo, started, failed, before>>
    BY <1>9 DEF Run
  <2> QED
    BY <1>1, <2>1, WriteStep DEF TypeOK, Proper
<1>10. ASSUME NEW b \in Procs, Crash(b)
       PROVE  TypeOK'
  <2>1. Die(b) /\ failed' = TRUE /\ UNCHANGED <<user, todo, started, before>>
    BY <1>10 DEF Crash
  <2>2. UNCHANGED <<disk, bak, fresh, grammar>>
    BY <2>1 DEF Die
  <2> QED
    BY <1>1, <2>1, <2>2, DieStep DEF TypeOK, Proper
<1> QED
  BY <1>2, <1>3, <1>4, <1>5, <1>6, <1>7, <1>8, <1>9, <1>10 DEF Next, Tools

(* How RunBnfc and Consider start a process.                                *)
LEMMA BnfcStarts ==
    ASSUME TypeOK, AtRest, RunBnfc
    PROVE  /\ NewProc \in Procs /\ Start(NewProc, Append(SourceFiles, Makefile))
           /\ user = "nothing" /\ user' = "bnfc" /\ Quiet
           /\ before' = [disk |-> disk, bak |-> bak]
           /\ todo = <<>> /\ started = {} /\ ~failed
           /\ UNCHANGED <<disk, bak, fresh, grammar, todo, started, failed>>
<1>1. Quiet
  BY DEF RunBnfc, Command, AtRest
<1> QED
  BY <1>1, Processes, NewProcIdle DEF RunBnfc, Command, Start, AtRest, Resting

LEMMA MakeConsiders ==
    ASSUME TypeOK, Consider
    PROVE  /\ user = "make" /\ ~failed /\ FreeJob
           /\ todo # <<>> /\ todo \in Seq(Path) /\ todo[1] \in Path
           /\ todo' = Tail(todo)
           /\ UNCHANGED <<disk, bak, fresh, grammar, user, failed, before>>
           /\ \/ /\ disk[todo[1]] # Absent /\ todo[1] \in fresh
                 /\ UNCHANGED <<proc, started>>
              \/ /\ ~(disk[todo[1]] # Absent /\ todo[1] \in fresh)
                 /\ NewProc \in Procs /\ Start(NewProc, SourceFiles)
                 /\ started' = started \cup {todo[1]}
<1>1. todo # <<>> /\ todo \in Seq(Path) /\ todo[1] \in Path
  BY DEF Consider, TypeOK
<1>2. FreeJob /\ NewProc \in Procs
  BY Processes, NewProcIdle DEF Consider
<1> QED
  BY <1>1, <1>2 DEF Consider, Start

LEMMA RestInv ==
    ASSUME TypeOK, AtRest, SameVersion, Next
    PROVE  AtRest'
<1>1. CASE EditGrammar \/ EditFile \/ DistClean
  BY <1>1 DEF EditGrammar, EditFile, DistClean, AtRest, Resting, Quiet, Busy
<1>2. CASE RunBnfc \/ RunMake
  BY <1>2 DEF RunBnfc, RunMake, Command, AtRest, Resting
<1>3. CASE Consider
  BY <1>3 DEF Consider, AtRest, Resting
<1>4. CASE Finish
  BY <1>4 DEF Finish, filesVars, AtRest, Resting, Quiet, Busy
<1>5. ASSUME NEW b \in Procs, Run(b) \/ Crash(b)
      PROVE  AtRest'
  <2>1. b \in Busy /\ user' = user
    BY <1>5, WriteStep, DieStep DEF Run, Crash
  <2> QED
    BY <2>1 DEF AtRest, Resting, Quiet
<1> QED
  BY <1>1, <1>2, <1>3, <1>4, <1>5 DEF Next, Tools

LEMMA VersionInv ==
    ASSUME TypeOK, AtRest, SameVersion, Next
    PROVE  SameVersion'
<1>1. CASE EditGrammar \/ EditFile \/ DistClean \/ RunMake \/ Finish
  <2>1. Busy' = Busy
    BY <1>1 DEF EditGrammar, EditFile, DistClean, RunMake, Finish, filesVars, Busy
  <2>2. CASE Quiet
    BY <2>1, <2>2 DEF Quiet, SameVersion
  <2>3. CASE ~Quiet
    <3>1. UNCHANGED <<proc, grammar>>
      BY <1>1, <2>3 DEF EditGrammar, EditFile, DistClean, RunMake, Finish, Command,
                        filesVars, AtRest
    <3> QED
      BY <2>1, <3>1 DEF SameVersion
  <2> QED
    BY <2>2, <2>3
<1>2. ASSUME NEW b \in Procs, NEW files \in Seq(Path), files # <<>>, Start(b, files)
      PROVE  SameVersion'
  <2>1. UNCHANGED grammar
    BY <1>2 DEF Start
  <2> QED
    BY <1>2, <2>1, StartStep DEF SameVersion, Busy
<1>3. CASE RunBnfc
  BY <1>2, <1>3, BnfcStarts, Sources
<1>4. CASE Consider
  <2>1. CASE UNCHANGED <<proc, grammar>>
    BY <2>1 DEF SameVersion, Busy
  <2> QED
    BY <1>2, <1>4, <2>1, MakeConsiders, Sources
<1>5. ASSUME NEW b \in Procs, Run(b)
      PROVE  SameVersion'
  BY <1>5, WriteStep DEF Run, SameVersion, Busy
<1>6. ASSUME NEW b \in Procs, Crash(b)
      PROVE  SameVersion'
  BY <1>6, DieStep DEF Crash, Die, SameVersion, Busy
<1> QED
  BY <1>1, <1>3, <1>4, <1>5, <1>6 DEF Next, Tools

LEMMA WrittenFiles ==
    /\ Written \subseteq Path
    /\ \A p : IsTarget(p) => p \in Written
    /\ \A p \in Written : p = Makefile \/ \E i \in DOMAIN SourceFiles : SourceFiles[i] = p
    /\ user # "bnfc" => \A p \in Written : \E i \in DOMAIN SourceFiles : SourceFiles[i] = p
  BY Sources, FilesAssumption DEF Written

LEMMA WorkInv ==
    ASSUME TypeOK, AtRest, SameVersion, WorkLeft, Next
    PROVE  WorkLeft'
<1>1. CASE EditGrammar \/ EditFile \/ DistClean \/ RunMake \/ Finish
  <2>1. ~Ran'
    BY <1>1 DEF EditGrammar, EditFile, DistClean, RunMake, Finish, Command, AtRest,
                Resting, Ran
  <2> QED
    BY <2>1 DEF WorkLeft
<1>2. CASE RunBnfc
  <2>1. PICK b \in Procs : Start(b, Append(SourceFiles, Makefile))
    BY <1>2, BnfcStarts
  <2>2. \A p \in Written' : Owes(b, p)'
    <3>1. \A p \in Written' : p = Makefile \/ \E i \in DOMAIN SourceFiles : SourceFiles[i] = p
      BY DEF Written
    <3> DEFINE L == Append(SourceFiles, Makefile)
    <3>2. L \in Seq(Path) /\ L # <<>>
      BY Sources
    <3>3. \A p \in Written' : \E i \in DOMAIN L : L[i] = p
      BY <3>1, WithMakefile
    <3>4. Start(b, L)
      BY <2>1
    <3> HIDE DEF L
    <3> QED
      BY <3>2, <3>3, <3>4, StartStep
  <2>3. \A p \in Written' : Owed(p)'
    BY <2>2 DEF Owed
  <2> QED
    BY <2>3 DEF WorkLeft
<1>3. CASE Consider
  <2>1. Written' = Written /\ failed' = failed /\ user # "bnfc"
    BY <1>3, MakeConsiders DEF Written
  <2>2. CASE UNCHANGED <<proc, started>>
    BY <1>3, <2>1, <2>2, MakeConsiders DEF WorkLeft, UpToDate, Owed, Owes, Ran
  <2>3. CASE NewProc \in Procs /\ Start(NewProc, SourceFiles)
    <3>1. PICK b \in Procs : Start(b, SourceFiles)
      BY <2>3
    <3>2. \A p \in Written' : Owes(b, p)'
      BY <2>1, <3>1, Sources, StartStep, WrittenFiles
    <3>3. \A p \in Written' : Owed(p)'
      BY <3>2 DEF Owed
    <3> QED
      BY <3>3 DEF WorkLeft
  <2> QED
    BY <1>3, <2>2, <2>3, MakeConsiders
<1>4. ASSUME NEW b \in Procs, Run(b)
      PROVE  WorkLeft'
  <2>1. writeFileRep(b) /\ UNCHANGED <<user, started, failed>>
    BY <1>4 DEF Run
  <2>2. Written' = Written /\ Ran' = Ran
    BY <2>1 DEF Written, Ran
  <2>3. ASSUME NEW p \in Written, UpToDate(p) \/ Owed(p)
        PROVE  UpToDate(p)' \/ Owed(p)'
    <3>1. p \in Path
      BY WrittenFiles
    <3>2. CASE UpToDate(p)
      BY <2>1, <3>1, <3>2, WriteStep DEF Owed
    <3>3. CASE Owed(p)
      BY <2>1, <3>1, <3>3, WriteStep, StillOwed
    <3> QED
      BY <2>3, <3>2, <3>3
  <2> QED
    BY <2>1, <2>2, <2>3 DEF WorkLeft
<1>5. ASSUME NEW b \in Procs, Crash(b)
      PROVE  WorkLeft'
  BY <1>5 DEF Crash, WorkLeft
<1> QED
  BY <1>1, <1>2, <1>3, <1>4, <1>5 DEF Next, Tools

LEMMA NextTarget ==
    ASSUME NEW s \in Seq(Path), s # <<>>
    PROVE  /\ \A j \in DOMAIN s : s[j] = s[1] \/ \E i \in DOMAIN Tail(s) : Tail(s)[i] = s[j]
           /\ \A i \in DOMAIN Tail(s) : \E j \in DOMAIN s : Tail(s)[i] = s[j]
<1>1. Len(s) \in Nat \ {0} /\ DOMAIN s = 1..Len(s)
  BY EmptySeq
<1>2. Tail(s) \in Seq(Path) /\ Len(Tail(s)) = Len(s) - 1
      /\ \A j \in 1..Len(Tail(s)) : Tail(s)[j] = s[j + 1]
  BY HeadTailProperties
<1>3. DOMAIN Tail(s) = 1..(Len(s) - 1)
  BY <1>1, <1>2
<1>4. ASSUME NEW j \in DOMAIN s, j # 1
      PROVE  j - 1 \in DOMAIN Tail(s) /\ Tail(s)[j - 1] = s[j]
  BY <1>1, <1>2, <1>3, <1>4
<1>5. ASSUME NEW i \in DOMAIN Tail(s)
      PROVE  i + 1 \in DOMAIN s /\ Tail(s)[i] = s[i + 1]
  BY <1>1, <1>2, <1>3, <1>5
<1> QED
  BY <1>4, <1>5

LEMMA TargetsInv ==
    ASSUME TypeOK, AtRest, SameVersion, TargetsLeft, TargetsOnly, Next
    PROVE  TargetsLeft' /\ TargetsOnly'
<1>1. CASE EditGrammar \/ EditFile \/ DistClean \/ Finish
  <2>1. user' = "nothing" /\ todo' = <<>>
    BY <1>1 DEF EditGrammar, EditFile, DistClean, Finish, AtRest, Resting
  <2> QED
    BY <2>1, EmptySeq DEF TargetsLeft, TargetsOnly
<1>2. CASE RunBnfc
  BY <1>2, BnfcStarts DEF TargetsLeft, TargetsOnly, IsTarget
<1>3. CASE RunMake
  <2>1. todo' = Targets
    BY <1>3 DEF RunMake
  <2> QED
    BY <2>1 DEF TargetsLeft, TargetsOnly, IsTarget
<1>4. CASE Consider
  <2>1. TargetsOnly'
    BY <1>4, MakeConsiders, NextTarget DEF TargetsOnly, IsTarget
  <2>2. ASSUME NEW p \in Path, IsTarget(p)
        PROVE  p \in fresh' \/ Owed(p)' \/ \E j \in DOMAIN todo' : todo'[j] = p
    <3>1. p \in fresh \/ Owed(p) \/ \E j \in DOMAIN todo : todo[j] = p
      BY <1>4, <2>2, MakeConsiders DEF TargetsLeft
    <3>2. Owed(p) => Owed(p)'
      <4>1. CASE UNCHANGED proc
        BY <4>1 DEF Owed, Owes
      <4>2. CASE NewProc \in Procs /\ Start(NewProc, SourceFiles)
        <5>1. PICK b \in Procs : Start(b, SourceFiles)
          BY <4>2
        <5>2. /\ \A c \in Procs \ {b} : proc'[c] = proc[c]
              /\ \A q : Owes(b, q) => Owes(b, q)'
          BY <5>1, Sources, StartStep
        <5>3. ASSUME NEW c \in Procs, Owes(c, p)
              PROVE  Owes(c, p)'
          <6>1. CASE c = b
            BY <5>2, <5>3, <6>1
          <6>2. CASE c # b
            BY <5>2, <5>3, <6>2 DEF Owes
          <6> QED
            BY <6>1, <6>2
        <5> QED
          BY <5>3 DEF Owed
      <4> QED
        BY <1>4, <4>1, <4>2, MakeConsiders
    <3>3. p = todo[1] => p \in fresh' \/ Owed(p)'
      <4>1. CASE NewProc \in Procs /\ Start(NewProc, SourceFiles)
        BY <2>2, <4>1, Sources, StartStep DEF Owed
      <4> QED
        BY <1>4, <4>1, MakeConsiders
    <3> QED
      BY <1>4, <3>1, <3>2, <3>3, MakeConsiders, NextTarget
  <2> QED
    BY <2>1, <2>2 DEF TargetsLeft, IsTarget
<1>5. ASSUME NEW b \in Procs, Run(b)
      PROVE  TargetsLeft' /\ TargetsOnly'
  <2>1. writeFileRep(b) /\ UNCHANGED <<user, todo, failed>>
    BY <1>5 DEF Run
  <2>2. \A p \in Path : Owed(p) => Owed(p)' \/ p \in fresh'
    BY <2>1, WriteStep, StillOwed DEF UpToDate
  <2>3. fresh \subseteq fresh'
    BY <2>1, WriteStep
  <2> QED
    BY <2>1, <2>2, <2>3 DEF TargetsLeft, TargetsOnly, IsTarget
<1>6. ASSUME NEW b \in Procs, Crash(b)
      PROVE  TargetsLeft' /\ TargetsOnly'
  BY <1>6 DEF Crash, TargetsLeft, TargetsOnly, IsTarget
<1> QED
  BY <1>1, <1>2, <1>3, <1>4, <1>5, <1>6 DEF Next, Tools

(* Without -j, make does not run the recipe again once it has run.          *)
LEMMA RecipeOnce ==
    ASSUME TypeOK, WorkLeft, TargetsOnly, jobs = 1, started # {}, Consider
    PROVE  UNCHANGED <<proc, started>>
<1>1. Quiet /\ ~failed /\ todo # <<>> /\ todo \in Seq(Path) /\ todo[1] \in Path
  BY MakeConsiders, Processes
<1>2. 1 \in DOMAIN todo
  BY <1>1, EmptySeq
<1>3. todo[1] \in Written
  BY <1>2, WrittenFiles DEF TargetsOnly
<1>4. UpToDate(todo[1])
  BY <1>1, <1>3, QuietOwes DEF WorkLeft, Ran
<1>5. disk[todo[1]] # Absent /\ todo[1] \in fresh
  BY <1>1, <1>4, Generated DEF UpToDate, TypeOK
<1> QED
  BY <1>5, MakeConsiders

LEMMA JobInv ==
    ASSUME TypeOK, AtRest, SameVersion, WorkLeft, TargetsOnly, OneJob,
           Next, UNCHANGED jobs
    PROVE  OneJob'
<1> SUFFICES ASSUME jobs = 1
             PROVE  /\ \A b, c \in Busy' : b = c
                    /\ failed' => Quiet'
                    /\ \A s, t \in started' : s = t
  BY DEF OneJob
<1>1. CASE EditGrammar \/ EditFile \/ DistClean \/ RunMake
  BY <1>1 DEF EditGrammar, EditFile, DistClean, RunMake, Command, filesVars, OneJob,
              Busy, Quiet
<1>2. CASE Finish
  BY <1>2 DEF Finish, filesVars, OneJob, Busy, Quiet
<1>3. CASE RunBnfc
  <2>1. PICK b \in Procs : Start(b, Append(SourceFiles, Makefile))
    BY <1>3, BnfcStarts
  <2>2. Busy' = Busy \cup {b}
    BY <2>1, Sources, StartStep
  <2> QED
    BY <1>3, <2>2, BnfcStarts DEF Quiet
<1>4. CASE Consider
  <2>1. Quiet /\ ~failed /\ ~failed'
    BY <1>4, MakeConsiders, Processes
  <2>2. CASE UNCHANGED <<proc, started>>
    BY <2>1, <2>2 DEF OneJob, Busy
  <2>3. CASE started = {} /\ ~UNCHANGED <<proc, started>>
    <3>1. PICK b \in Procs : Start(b, SourceFiles) /\ started' = started \cup {todo[1]}
      BY <1>4, <2>3, MakeConsiders
    <3>2. Busy' = Busy \cup {b}
      BY <3>1, Sources, StartStep
    <3> QED
      BY <2>1, <2>3, <3>1, <3>2 DEF Quiet
  <2> QED
    BY <1>4, <2>2, <2>3, RecipeOnce
<1>5. ASSUME NEW b \in Procs, Run(b)
      PROVE  Busy' \subseteq Busy /\ UNCHANGED <<failed, started>>
  BY <1>5, WriteStep DEF Run, Busy
<1>6. ASSUME NEW b \in Procs, Crash(b)
      PROVE  b \in Busy /\ Busy' = Busy \ {b} /\ UNCHANGED started
  BY <1>6, DieStep DEF Crash
<1> QED
  BY <1>1, <1>2, <1>3, <1>4, <1>5, <1>6 DEF Next, Tools, OneJob, Quiet

-----------------------------------------------------------------------------
(* The file in hand. *)

LEMMA Saving ==
    ASSUME TypeOK, NEW p \in Path, NEW new
    PROVE  /\ Saved(p, new) = IF before.disk[p] = new \/ Legible(before.disk[p]) = Absent
                              THEN before.bak[p] ELSE before.disk[p]
           /\ Legible(before.disk[p]) # Absent => Legible(before.disk[p]) = before.disk[p]
           /\ Saved(p, new) \in Content
<1>1. before.disk[p] \in Content /\ before.bak[p] \in Content
  BY DEF TypeOK
<1> QED
  BY <1>1 DEF Saved, Legible

(* What is kept stays kept while nothing writes it.                         *)
LEMMA StillKept ==
    ASSUME NEW p \in Path, Kept(p), disk'[p] = disk[p], bak'[p] = bak[p],
           UNCHANGED <<before, grammar>>
    PROVE  Kept(p)'
  BY DEF Kept, Untouched, Replaced, Saved

(* The process b ends with its file, and leaves it kept.                    *)
LEMMA HandOver ==
    ASSUME TypeOK, NEW b \in Busy, NextFile(b),
           \A p \in Path : Kept(p)'
    PROVE  b \in Busy' => InHand(b)'
<1>1. proc'[b].step = "idle" \/ proc'[b].step = "read"
  BY NextFileStep
<1>2. ASSUME b \in Busy'
      PROVE  InHand(b)'
  <2>1. proc'[b].step = "read" /\ b \in Procs
    BY <1>1, <1>2 DEF Busy
  <2>2. proc'[b].files \in Seq(Path) /\ proc'[b].files # <<>>
    BY <2>1, NextFileStep DEF Proper, Proc
  <2>3. path(b)' \in Path
    BY <2>2, EmptySeq DEF path
  <2> QED
    BY <2>1, <2>3 DEF InHand
<1> QED
  BY <1>2

(* A step of the process that runs: its file is in hand or kept after it.   *)
LEMMA HandWrite ==
    ASSUME TypeOK, SameVersion, NEW b \in Busy, writeFileRep(b), UNCHANGED before,
           InHand(b), \A p \in Path \ {path(b)} : Kept(p)
    PROVE  /\ b \in Busy' => InHand(b)'
           /\ \A p \in Path : Kept(p)' \/ (b \in Busy' /\ path(b)' = p)
<1> DEFINE q == path(b)
           new == content(b)
           old == proc[b].old
<1>1. /\ b \in Procs /\ q \in Path /\ new = Gen[q][grammar] /\ proc[b] \in Proc
      /\ new # Absent /\ new \notin Undecodable
      /\ Absent \notin Undecodable /\ Partial \notin Undecodable
  BY BusyProc, ContentAssumption DEF SameVersion, content
<1>2. /\ UNCHANGED <<before, grammar>>
      /\ \A p \in Path \ {q} : Kept(p)'
  <2>1. UNCHANGED grammar /\ \A p \in Path \ {q} : disk'[p] = disk[p] /\ bak'[p] = bak[p]
    BY <1>1, WriteStep
  <2> QED
    BY <2>1, StillKept
<1>3. /\ Saved(q, new) = IF before.disk[q] = new \/ Legible(before.disk[q]) = Absent
                        THEN before.bak[q] ELSE before.disk[q]
      /\ Legible(before.disk[q]) # Absent => Legible(before.disk[q]) = before.disk[q]
  BY <1>1, Saving
(* When the file has been replaced, the process may go on to the next.      *)
<1>4. ASSUME NextFile(b), disk'[q] = new, bak'[q] = Saved(q, new)
      PROVE  /\ b \in Busy' => InHand(b)'
             /\ \A p \in Path : Kept(p)'
  <2>1. \A p : p = q => Kept(p)'
    BY <1>1, <1>2, <1>4 DEF Kept, Replaced, Saved
  <2>2. \A p \in Path : Kept(p)'
    BY <1>2, <2>1
  <2> QED
    BY <1>4, <2>2, HandOver
(* When the process stays at its file.                                      *)
<1>5. ASSUME NEW s \in Steps \ {"idle"}, NEW o \in Content,
             Stays(b, s, o),
             proc[b].step \in Unfilled => s \in Unfilled \/ proc[b].step = "fill"
      PROVE  /\ b \in Busy' /\ path(b)' = q /\ content(b)' = new
             /\ proc'[b].step = s /\ proc'[b].old = o
             /\ \A p \in Path : Kept(p)' \/ (b \in Busy' /\ path(b)' = p)
  <2>1. /\ proc'[b].step = s /\ proc'[b].old = o /\ path(b)' = q
        /\ proc'[b].version = proc[b].version
    BY <1>5, GotoStep
  <2>2. b \in Busy'
    BY <1>1, <2>1 DEF Busy
  <2>3. content(b)' = new
    BY <2>1 DEF content
  <2> QED
    BY <1>2, <2>1, <2>2, <2>3
<1>6. CASE Read(b)
  <2> DEFINE o == Legible(disk[q])
  <2>1. /\ proc[b].step = "read" /\ UNCHANGED <<disk, bak, fresh, grammar>>
        /\ Stays(b, "truncate", o)
    BY <1>1, <1>6 DEF Stays, Read, TypeOK, Proc, Legible
  <2>2. o \in Content /\ "truncate" \in (Steps \ {"idle"}) \cap Unfilled
    BY <1>1, ContentAssumption DEF TypeOK, Legible, Steps, Unfilled
  <2>3. Kept(q)
    BY <2>1 DEF InHand
  <2>4. \A p : p = q => Kept(p)' /\ disk'[p] = disk[p]
    BY <1>1, <1>2, <2>1, <2>3, StillKept
  <2> HIDE DEF o, q, new, old
  <2>5. /\ b \in Busy' /\ path(b)' = q /\ proc'[b].step = "truncate" /\ proc'[b].old = o
        /\ \A p \in Path : Kept(p)' \/ (b \in Busy' /\ path(b)' = p)
    BY <1>5, <2>1, <2>2
  <2>6. Kept(path(b))' /\ proc'[b].old = Legible(disk'[path(b)'])
    BY <2>4, <2>5 DEF o
  <2>7. InHand(b)'
    BY <2>5, <2>6 DEF InHand, Legible
  <2> QED
    BY <2>5, <2>7
<1>7. CASE Truncate(b)
  <2>1. /\ proc[b].step = "truncate" /\ UNCHANGED <<bak, grammar>> /\ old \in Content
        /\ Stays(b, "fill", old)
    BY <1>1, <1>7 DEF Stays, Truncate, Goto, TypeOK, Proc
  <2>2. "fill" \in (Steps \ {"idle"}) \cap Unfilled
    BY DEF Steps, Unfilled
  <2>3. Kept(q) /\ old = Legible(disk[q])
    BY <2>1 DEF InHand
  <2>4. Remembers(b)
    BY <1>1, <2>3 DEF Remembers, Kept, Untouched, Replaced, Legible
  <2>5. /\ b \in Busy' /\ path(b)' = q /\ content(b)' = new /\ proc'[b].old = old
        /\ proc'[b].step = "fill"
        /\ \A p \in Path : Kept(p)' \/ (b \in Busy' /\ path(b)' = p)
    BY <1>5, <2>1, <2>2
  <2>6. Remembers(b)'
    BY <1>2, <2>1, <2>4, <2>5 DEF Remembers, Saved, Legible
  <2>7. InHand(b)'
    BY <2>5, <2>6 DEF InHand
  <2> QED
    BY <2>5, <2>7
<1>8. CASE Fill(b)
  <2>1. /\ proc[b].step = "fill" /\ UNCHANGED <<bak, grammar>> /\ old \in Content
        /\ disk'[q] = new
    BY <1>1, <1>8 DEF Fill, TypeOK, Proc
  <2>2. Remembers(b)
    BY <2>1 DEF InHand
  <2>3. CASE old = Absent
    <3>1. bak[q] = Saved(q, new)
      BY <1>1, <1>3, <2>2, <2>3 DEF Remembers
    <3> QED
      BY <1>4, <1>8, <2>1, <2>3, <3>1 DEF Fill
  <2>4. CASE old # Absent
    <3>1. Stays(b, "compare", old)
      BY <1>1, <1>8, <2>4 DEF Stays, Fill, Goto, TypeOK, Proc
    <3>2. "compare" \in Steps \ {"idle"}
      BY DEF Steps
    <3>3. /\ b \in Busy' /\ path(b)' = q /\ content(b)' = new /\ proc'[b].old = old
          /\ proc'[b].step = "compare"
          /\ \A p \in Path : Kept(p)' \/ (b \in Busy' /\ path(b)' = p)
      BY <1>5, <2>1, <3>1, <3>2
    <3>4. Remembers(b)'
      BY <1>2, <2>1, <2>2, <3>3 DEF Remembers, Saved, Legible
    <3>5. InHand(b)'
      BY <2>1, <2>4, <3>3, <3>4 DEF InHand
    <3> QED
      BY <3>3, <3>5
  <2> QED
    BY <2>3, <2>4
<1>9. CASE Compare(b)
  <2>1. /\ proc[b].step = "compare" /\ UNCHANGED <<disk, bak, fresh, grammar>>
        /\ old \in Content
    BY <1>1, <1>9 DEF Compare, Proc
  <2>2. Remembers(b) /\ disk[q] = new /\ old # Absent
    BY <2>1 DEF InHand
  <2>3. CASE new = old
    <3>1. bak[q] = Saved(q, new)
      BY <1>3, <2>2, <2>3 DEF Remembers
    <3> QED
      BY <1>4, <1>9, <2>1, <2>2, <2>3, <3>1 DEF Compare
  <2>4. CASE new # old
    <3>1. Stays(b, "truncateBak", old)
      BY <1>1, <1>9, <2>4 DEF Stays, Compare, Goto, TypeOK, Proc
    <3>2. "truncateBak" \in Steps \ {"idle"} /\ "compare" \notin Unfilled
      BY DEF Steps, Unfilled
    <3>3. /\ b \in Busy' /\ path(b)' = q /\ content(b)' = new /\ proc'[b].old = old
          /\ proc'[b].step = "truncateBak"
          /\ \A p \in Path : Kept(p)' \/ (b \in Busy' /\ path(b)' = p)
      BY <1>5, <2>1, <3>1, <3>2
    <3>4. Remembers(b)'
      BY <1>2, <2>1, <2>2, <3>3 DEF Remembers, Saved, Legible
    <3>5. InHand(b)'
      BY <2>1, <2>2, <2>4, <3>3, <3>4 DEF InHand
    <3> QED
      BY <3>3, <3>5
  <2> QED
    BY <2>3, <2>4
<1>10. CASE TruncateBak(b)
  <2>1. /\ proc[b].step = "truncateBak" /\ UNCHANGED <<disk, fresh, grammar>>
        /\ old \in Content
        /\ Stays(b, "fillBak", old)
    BY <1>1, <1>10 DEF Stays, TruncateBak, Goto, TypeOK, Proc
  <2>2. Remembers(b) /\ disk[q] = new /\ old # Absent /\ old # new
    BY <2>1 DEF InHand
  <2>3. old = Saved(q, new)
    BY <1>3, <2>2 DEF Remembers
  <2>4. "fillBak" \in Steps \ {"idle"} /\ "truncateBak" \notin Unfilled
    BY DEF Steps, Unfilled
  <2>5. /\ b \in Busy' /\ path(b)' = q /\ content(b)' = new /\ proc'[b].old = old
        /\ proc'[b].step = "fillBak"
        /\ \A p \in Path : Kept(p)' \/ (b \in Busy' /\ path(b)' = p)
    BY <1>5, <2>1, <2>4
  <2>6. InHand(b)'
    BY <1>2, <2>1, <2>2, <2>3, <2>5 DEF InHand, Saved
  <2> QED
    BY <2>5, <2>6
<1>11. CASE FillBak(b)
  <2>1. /\ proc[b].step = "fillBak" /\ UNCHANGED <<disk, fresh, grammar>>
        /\ bak'[q] = old /\ NextFile(b)
    BY <1>1, <1>11 DEF FillBak, TypeOK
  <2>2. disk[q] = new /\ old = Saved(q, new)
    BY <2>1 DEF InHand
  <2> QED
    BY <1>4, <2>1, <2>2
<1> QED
  BY <1>6, <1>7, <1>8, <1>9, <1>10, <1>11 DEF writeFileRep

(* A process that has just started has its first file in hand.              *)
LEMMA StartInHand ==
    ASSUME TypeOK, NEW b \in Procs, NEW files \in Seq(Path), files # <<>>,
           Start(b, files), \A p \in Path : Kept(p)'
    PROVE  InHand(b)'
<1>1. proc'[b].step = "read" /\ proc'[b].files = files
  BY StartStep
<1>2. files[1] \in Path
  BY EmptySeq
<1>3. path(b)' \in Path
  BY <1>1, <1>2 DEF path
<1> QED
  BY <1>1, <1>3 DEF InHand

LEMMA HandInv ==
    ASSUME TypeOK, AtRest, SameVersion, WorkLeft, TargetsOnly, OneJob, HandKept,
           Next, UNCHANGED jobs
    PROVE  HandKept'
<1> SUFFICES ASSUME jobs = 1, user' # "nothing"
             PROVE  /\ \A b \in Busy' : InHand(b)'
                    /\ ~failed' => \A p \in Path : Kept(p)' \/ \E b \in Busy' : path(b)' = p
                    /\ failed' => \E q \in Path : \A p \in Path \ {q} : Kept(p)'
  BY DEF HandKept
<1>1. CASE EditGrammar \/ EditFile \/ DistClean \/ Finish
  BY <1>1 DEF EditGrammar, EditFile, DistClean, Finish, Resting
<1>2. CASE RunMake
  <2>1. /\ Quiet /\ ~failed' /\ UNCHANGED <<disk, bak, proc>>
        /\ before' = [disk |-> disk, bak |-> bak]
    BY <1>2 DEF RunMake, Command, AtRest, filesVars
  <2>2. \A p : Kept(p)'
    BY <2>1 DEF Kept, Untouched
  <2>3. Busy' = {}
    BY <2>1 DEF Quiet, Busy
  <2> QED
    BY <2>1, <2>2, <2>3
<1>3. CASE RunBnfc
  <2>1. PICK b \in Procs : Start(b, Append(SourceFiles, Makefile))
    BY <1>3, BnfcStarts
  <2>2. \A p : Kept(p)'
    BY <1>3, BnfcStarts DEF Kept, Untouched
  <2>3. InHand(b)'
    BY <2>1, <2>2, Sources, StartInHand
  <2>4. Busy' = {b} /\ ~failed'
    <3>1. Busy' = Busy \cup {b}
      BY <2>1, Sources, StartStep
    <3>2. Busy = {} /\ ~failed'
      BY <1>3, BnfcStarts DEF Quiet
    <3> QED
      BY <3>1, <3>2
  <2> QED
    BY <2>2, <2>3, <2>4
<1>4. CASE Consider
  <2>1. /\ Quiet /\ ~failed' /\ ~failed /\ user # "nothing"
        /\ UNCHANGED <<disk, bak, grammar, before>>
    BY <1>4, MakeConsiders, Processes
  <2>2. \A p \in Path : Kept(p)
    BY <2>1 DEF HandKept, Quiet
  <2>3. \A p \in Path : Kept(p)'
    BY <2>1, <2>2, StillKept
  <2>4. CASE UNCHANGED proc
    <3>1. Busy' = {}
      BY <2>1, <2>4 DEF Quiet, Busy
    <3> QED
      BY <2>1, <2>3, <3>1
  <2>5. CASE ~UNCHANGED proc
    <3>1. PICK b \in Procs : Start(b, SourceFiles)
      BY <1>4, <2>5, MakeConsiders
    <3>2. InHand(b)'
      BY <2>3, <3>1, Sources, StartInHand
    <3>3. Busy' = {b}
      BY <2>1, <3>1, Sources, StartStep DEF Quiet
    <3> QED
      BY <2>1, <2>3, <3>2, <3>3
  <2> QED
    BY <2>4, <2>5
<1>5. ASSUME NEW b \in Procs, Run(b) \/ Crash(b)
      PROVE  /\ b \in Busy /\ Busy = {b} /\ ~failed /\ user # "nothing" /\ InHand(b)
             /\ path(b) \in Path
             /\ \A p \in Path \ {path(b)} : Kept(p)
  <2>1. b \in Busy /\ user' = user
    BY <1>5, WriteStep, DieStep DEF Run, Crash
  <2>2. Busy = {b} /\ ~failed
    BY <2>1 DEF OneJob, Quiet
  <2> QED
    BY <2>1, <2>2, BusyProc DEF HandKept
<1>6. ASSUME NEW b \in Procs, Run(b)
      PROVE  /\ \A c \in Busy' : InHand(c)'
             /\ ~failed' /\ \A p \in Path : Kept(p)' \/ \E c \in Busy' : path(c)' = p
  <2>1. writeFileRep(b) /\ UNCHANGED <<failed, before>>
    BY <1>6 DEF Run
  <2>2. /\ b \in Busy' => InHand(b)'
        /\ \A p \in Path : Kept(p)' \/ (b \in Busy' /\ path(b)' = p)
    BY <1>5, <1>6, <2>1, HandWrite
  <2>3. Busy' \subseteq {b}
    BY <1>5, <1>6, <2>1, WriteStep DEF Busy
  <2> QED
    BY <1>5, <1>6, <2>1, <2>2, <2>3
<1>7. ASSUME NEW b \in Procs, Crash(b)
      PROVE  /\ \A c \in Busy' : InHand(c)'
             /\ failed' /\ \E q \in Path : \A p \in Path \ {q} : Kept(p)'
  <2>1. Die(b) /\ failed' /\ UNCHANGED <<disk, bak, grammar, before>>
    BY <1>7 DEF Crash, Die
  <2>2. Busy' = {}
    BY <1>5, <1>7, <2>1, DieStep
  <2>3. PICK q \in Path : \A p \in Path \ {q} : Kept(p)
    BY <1>5, <1>7
  <2>4. \A p \in Path \ {q} : Kept(p)'
    BY <2>1, <2>3, StillKept
  <2> QED
    BY <2>1, <2>2, <2>4
<1> QED
  BY <1>1, <1>2, <1>3, <1>4, <1>6, <1>7 DEF Next, Tools

-----------------------------------------------------------------------------
(* The theorems. *)

LEMMA AtMostOne ==
    ASSUME NEW S, \A s, t \in S : s = t
    PROVE  Cardinality(S) <= 1
<1>1. CASE S = {}
  BY <1>1, FS_EmptySet
<1>2. CASE S # {}
  <2>1. PICK s : s \in S
    BY <1>2
  <2>2. S = {s}
    BY <2>1
  <2>3. Cardinality({s}) = 1
    BY FS_Singleton
  <2> QED
    BY <2>2, <2>3
<1> QED
  BY <1>1, <1>2

LEMMA InitInv == Init => IInv
<1> SUFFICES ASSUME Init PROVE IInv
  OBVIOUS
<1>1. Busy = {} /\ Resting
  BY DEF Init, Busy, Idle, Resting
<1>2. TypeOK
  <2>1. Blank \in [Path -> Content] /\ <<>> \in Seq(Path) /\ 1 \in Version
    BY ContentAssumption, VersionAssumption DEF Blank, Version
  <2> QED
    BY <2>1, IdleProper DEF Init, TypeOK, Proper
<1>3. AtRest /\ SameVersion /\ WorkLeft /\ TargetsLeft /\ OneJob /\ HandKept
  BY <1>1 DEF Init, AtRest, Resting, Quiet, SameVersion, WorkLeft, Ran, TargetsLeft, OneJob, HandKept
<1>4. TargetsOnly
  BY EmptySeq DEF Init, TargetsOnly
<1> QED
  BY <1>2, <1>3, <1>4 DEF IInv

LEMMA StutterInv == IInv /\ UNCHANGED vars => IInv'
<1> SUFFICES ASSUME IInv, UNCHANGED vars PROVE IInv'
  OBVIOUS
<1> USE DEF vars
<1>1. TypeOK' /\ AtRest' /\ SameVersion' /\ TargetsOnly'
  BY DEF IInv, TypeOK, AtRest, Resting, Quiet, SameVersion, Busy, TargetsOnly, IsTarget
<1>2. WorkLeft' /\ TargetsLeft'
  BY DEF IInv, WorkLeft, Ran, Written, UpToDate, Owed, Owes, TargetsLeft, IsTarget
<1>3. OneJob'
  BY DEF IInv, OneJob, Busy, Quiet
<1>4. HandKept'
  <2>1. Busy' = Busy
    BY DEF Busy
  <2>2. \A p : Kept(p)' <=> Kept(p)
    BY DEF Kept, Untouched, Replaced, Saved
  <2>3. \A b : path(b)' = path(b) /\ content(b)' = content(b)
    BY DEF path, content
  <2>4. \A b : InHand(b) => InHand(b)'
    BY <2>2, <2>3 DEF InHand, Remembers, Saved, Legible
  <2> QED
    BY <2>1, <2>2, <2>3, <2>4 DEF IInv, HandKept
<1> QED
  BY <1>1, <1>2, <1>3, <1>4 DEF IInv

LEMMA StepInv == IInv /\ [Next /\ UNCHANGED jobs]_vars => IInv'
<1>1. IInv /\ Next /\ UNCHANGED jobs => IInv'
  BY TypeInv, RestInv, VersionInv, WorkInv, TargetsInv, JobInv, HandInv DEF IInv
<1> QED
  BY <1>1, StutterInv

(* The inductive invariant holds in every reachable state.                  *)
THEOREM Invariant == Spec => []IInv
  BY InitInv, StepInv, PTL DEF Spec

(* The state of make, of the processes and of the files is well typed, and  *)
(* a process has files left exactly when it is busy.                        *)
THEOREM TypeCorrect == Spec => []TypeOK
<1>1. IInv => TypeOK
  BY DEF IInv
<1> QED
  BY <1>1, Invariant, PTL

(* Without -j, a call of make runs bnfc for one target at most, however     *)
(* many targets are older than the grammar.                                 *)
THEOREM MakeRunsOnce == Spec => []RunsOnce
<1>1. IInv => RunsOnce
  <2> SUFFICES ASSUME IInv, jobs = 1
               PROVE  Cardinality(started) <= 1
    BY DEF RunsOnce
  <2>1. \A s, t \in started : s = t
    BY DEF IInv, OneJob
  <2> QED
    BY <2>1, AtMostOne
<1> QED
  BY <1>1, Invariant, PTL

(* Without -j, every file but one is as before the command, or replaced and *)
(* saved, at every moment and after the death of a process, too.            *)
THEOREM AtMostOneInHand == Spec => []OneInHand
<1>1. IInv => OneInHand
  <2> SUFFICES ASSUME IInv, jobs = 1, user # "nothing"
               PROVE  Cardinality({p \in Path : ~Untouched(p) /\ ~Replaced(p)}) <= 1
    BY DEF OneInHand
  <2> DEFINE D == {p \in Path : ~Untouched(p) /\ ~Replaced(p)}
  <2>1. \A p \in D : p \in Path /\ ~Kept(p)
    BY DEF Kept
  <2>2. \A b, c \in Busy : b = c
    BY DEF IInv, OneJob
  <2>3. \A p, q \in D : p = q
    <3>1. CASE failed
      <4>1. PICK q \in Path : \A p \in Path \ {q} : Kept(p)
        BY <3>1 DEF IInv, HandKept
      <4>2. \A p \in D : p = q
        BY <2>1, <4>1
      <4> QED
        BY <4>2
    <3>2. CASE ~failed
      <4>1. \A p \in D : \E b \in Busy : path(b) = p
        BY <2>1, <3>2 DEF IInv, HandKept
      <4> HIDE DEF D
      <4> QED
        BY <2>2, <4>1
    <3> QED
      BY <3>1, <3>2
  <2> QED
    BY <2>3, AtMostOne
<1> QED
  BY <1>1, Invariant, PTL

(* When make ends without an error, with any number of jobs, no target is   *)
(* older than the grammar.                                                  *)
THEOREM MakeConverges == Spec => Converges
<1>1. IInv /\ Succeeds /\ user = "make" => \A p \in Path : IsTarget(p) => p \in fresh
  <2> SUFFICES ASSUME IInv, Succeeds, user = "make", NEW p \in Path, IsTarget(p)
               PROVE  p \in fresh
    OBVIOUS
  <2>1. TypeOK /\ Quiet /\ todo = <<>> /\ ~failed
    BY DEF IInv, Succeeds, Finish
  <2>2. ~Owed(p)
    BY <2>1, QuietOwes
  <2> QED
    BY <2>1, <2>2, EmptySeq DEF IInv, TargetsLeft
<1>2. IInv /\ [Next /\ UNCHANGED jobs]_vars
        => [Succeeds /\ user = "make" => \A p \in Path : IsTarget(p) => p \in fresh]_vars
  BY <1>1
<1> QED
  BY <1>2, Invariant, PTL DEF Spec, Converges

(* After a command that ran bnfc without an error, with any number of jobs, *)
(* each file of the backend holds what the grammar generates.               *)
THEOREM FilesRegenerated == Spec => Regenerated
<1>1. IInv /\ Succeeds /\ Ran => \A p \in Written : disk[p] = Gen[p][grammar]
  <2> SUFFICES ASSUME IInv, Succeeds, Ran, NEW p \in Written
               PROVE  disk[p] = Gen[p][grammar]
    OBVIOUS
  <2>1. TypeOK /\ Quiet /\ ~failed
    BY DEF IInv, Succeeds, Finish
  <2>2. ~Owed(p)
    BY <2>1, QuietOwes
  <2> QED
    BY <2>1, <2>2 DEF IInv, WorkLeft, UpToDate
<1>2. IInv /\ [Next /\ UNCHANGED jobs]_vars
        => [Succeeds /\ Ran => \A p \in Written : disk[p] = Gen[p][grammar]]_vars
  BY <1>1
<1> QED
  BY <1>2, Invariant, PTL DEF Spec, Regenerated

(* Without -j, the command keeps the old content of each file that it       *)
(* changes, and the .bak file of each file that it does not change.         *)
THEOREM OldContentKept == Spec => BackupKept
<1>1. IInv /\ Succeeds /\ Ran /\ jobs = 1 => \A p \in Written : bak[p] = Saved(p, disk[p])
  <2> SUFFICES ASSUME IInv, Succeeds, Ran, jobs = 1, NEW p \in Written
               PROVE  bak[p] = Saved(p, disk[p])
    OBVIOUS
  <2>1. TypeOK /\ Quiet /\ ~failed /\ user # "nothing" /\ p \in Path
    BY WrittenFiles DEF IInv, Succeeds, Finish
  <2>2. Kept(p)
    BY <2>1 DEF IInv, HandKept, Quiet
  <2>3. disk[p] = Gen[p][grammar]
    BY <2>1, QuietOwes DEF IInv, WorkLeft, UpToDate
  <2> QED
    BY <2>2, <2>3 DEF Kept, Untouched, Replaced, Saved
<1>2. IInv /\ [Next /\ UNCHANGED jobs]_vars
        => [Succeeds /\ Ran /\ jobs = 1 => \A p \in Written : bak[p] = Saved(p, disk[p])]_vars
  BY <1>1
<1> QED
  BY <1>2, Invariant, PTL DEF Spec, BackupKept
=============================================================================
