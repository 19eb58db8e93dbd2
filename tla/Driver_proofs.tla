----------------------------- MODULE Driver_proofs -----------------------------
(***************************************************************************)
(* What a command line is parsed to, whatever is on it; that the options   *)
(* that a Haskell backend prints are parsed to the same options; and what  *)
(* the checks of parseCF guarantee, for every command line, every set of   *)
(* grammars, and any list of checks: the proofs never look into the list,  *)
(* so that they stand when a check is added.                               *)
(***************************************************************************)
EXTENDS Driver, WellFoundedInduction, SequenceTheorems, TLAPS

fields == DOMAIN defaultOptions

-----------------------------------------------------------------------------
(* The tables of options.                                                   *)

LEMMA Fields ==
    fields = {"target", "outDir", "force", "optMake", "inPackage", "linenumbers", "ansi",
              "inDir", "positions", "generic", "tokenText", "glr", "xml", "agda",
              "ocamlParser", "javaLexerParser", "treeSitterWord"}
BY DEF fields, defaultOptions

(* An option sets a field to one value only.                                *)
LEMMA OneValue ==
    \A s, t \in allOptions : s[1] = t[1] /\ s[2] = t[2] => s[3] = t[3]
<1>1. \A s, t \in targetOptions : s[1] = t[1] /\ s[2] = t[2] => s[3] = t[3]
  BY DEF targetOptions
<1>2. \A s, t \in commonOptions \cup specificOptions :
         s[1] = t[1] /\ s[2] = t[2] => s[3] = t[3]
  BY DEF commonOptions, specificOptions
<1>3. \A s \in commonOptions \cup specificOptions, t \in targetOptions : s[1] # t[1]
  BY DEF commonOptions, specificOptions, targetOptions
<1> QED
  BY <1>1, <1>2, <1>3 DEF allOptions

LEMMA Settings ==
    \A s \in allOptions : s = <<s[1], s[2], s[3]>> /\ s[2] \in fields
<1>1. \A s \in targetOptions : s = <<s[1], s[2], s[3]>> /\ s[2] \in fields
  BY Fields DEF targetOptions
<1>2. \A s \in commonOptions : s = <<s[1], s[2], s[3]>> /\ s[2] \in fields
  BY Fields DEF commonOptions
<1>3. \A s \in specificOptions : s = <<s[1], s[2], s[3]>> /\ s[2] \in fields
  BY Fields DEF specificOptions
<1> QED
  BY <1>1, <1>2, <1>3 DEF allOptions

(* Options that set the target are those that name one.                     *)
LEMMA TargetIsSet ==
    /\ \A s \in commonOptions \cup specificOptions :
          s[2] # "target" /\ s[1] \notin names(targetOptions)
    /\ \A a \in names(targetOptions) : \E v \in Targets : <<a, "target", v>> \in targetOptions
<1>1. \A s \in commonOptions \cup specificOptions :
         s[2] # "target" /\ s[1] \notin names(targetOptions)
  BY DEF commonOptions, specificOptions, names, targetOptions
<1>2. \A s \in targetOptions : \E v \in Targets : <<s[1], "target", v>> \in targetOptions
  BY DEF Targets, targetOptions
<1> QED
  BY <1>1, <1>2 DEF names

LEMMA SpecificNames ==
    \A s \in specificOptions, t \in targetOptions \cup commonOptions : s[1] # t[1]
<1>1. \A s \in specificOptions, t \in commonOptions : s[1] # t[1]
  BY DEF specificOptions, commonOptions
<1>2. \A s \in specificOptions, t \in targetOptions : s[1] # t[1]
  BY DEF specificOptions, targetOptions
<1> QED
  BY <1>1, <1>2

-----------------------------------------------------------------------------
(* The first argument that sets a field.                                    *)

LEMMA FirstIs ==
    ASSUME NEW I \in SUBSET Nat, I # {}
    PROVE  first(I) \in I /\ \A j \in I : first(I) <= j
<1>1. IsWellFoundedOn(OpToRel(<, Nat), Nat)
  BY NatLessThanWellFounded
<1>2. PICK i \in I : \A j \in I : ~(<<j, i>> \in OpToRel(<, Nat))
  BY <1>1, WFMin
<1>3. \A j \in I : ~(j < i)
  BY <1>2 DEF OpToRel
<1>4. \A j \in I : i <= j
  BY <1>3
<1> QED
  BY <1>4 DEF first

(* A line of arguments, and what of it sets a field.                        *)
isLine(words)        == \E n \in Nat : DOMAIN words = 1..n
sets(words, table, f) == at(words, names(setting(table, f)))

LEMMA SetFirst ==
    ASSUME NEW words, isLine(words), NEW table \in SUBSET allOptions, NEW f \in fields,
           sets(words, table, f) # {}
    PROVE  LET i == first(sets(words, table, f))
           IN  /\ i \in DOMAIN words /\ \A j \in sets(words, table, f) : i <= j
               /\ <<words[i], f, options(words, table)[f]>> \in table
<1> DEFINE I == sets(words, table, f)
           i == first(I)
<1>1. I \in SUBSET Nat /\ I \subseteq DOMAIN words
  BY DEF isLine, sets, at
<1>2. i \in I /\ \A j \in I : i <= j
  BY <1>1, FirstIs
<1>3. words[i] \in names(setting(table, f))
  BY <1>2 DEF sets, at
<1>4. PICK s \in setting(table, f) : s[1] = words[i]
  BY <1>3 DEF names
<1> DEFINE c == CHOOSE r \in setting(table, f) : r[1] = words[i]
<1>5. c \in setting(table, f) /\ c[1] = words[i]
  BY <1>4
<1>6. options(words, table)[f] = c[3]
  BY <1>2 DEF options, sets, fields, valueOf
<1> HIDE DEF c, i
<1>7. c \in table /\ c \in allOptions /\ c[2] = f
  BY <1>5 DEF setting
<1>8. c = <<words[i], f, c[3]>>
  BY <1>5, <1>7, Settings
<1> QED
  BY <1>1, <1>2, <1>6, <1>7, <1>8 DEF i

LEMMA SetNone ==
    ASSUME NEW words, NEW table, NEW f \in fields, sets(words, table, f) = {}
    PROVE  options(words, table)[f] = defaultOptions[f]
BY DEF options, sets, fields

-----------------------------------------------------------------------------
(* What is accepted.                                                        *)

targetOf(words) == options(words, targetOptions)["target"]

LEMMA OptionsTyped ==
    ASSUME NEW words, isLine(words), NEW table \in SUBSET allOptions
    PROVE  options(words, table) \in [fields -> values]
<1>1. ASSUME NEW f \in fields PROVE options(words, table)[f] \in values
  <2>1. CASE sets(words, table, f) = {}
    BY <2>1, SetNone DEF values, fields
  <2>2. CASE sets(words, table, f) # {}
    <3>1. PICK a : <<a, f, options(words, table)[f]>> \in table
      BY <2>2, SetFirst
    <3> QED
      BY <3>1 DEF values
  <2> QED
    BY <2>1, <2>2
<1>2. options(words, table) = [f \in fields |-> options(words, table)[f]]
  BY DEF options, fields
<1> QED
  BY <1>1, <1>2

(* The target is the same whether the first pass or the last one reads it.  *)
LEMMA TargetsAgree == \A words : options(words, allOptions)["target"] = targetOf(words)
<1>1. setting(allOptions, "target") = setting(targetOptions, "target")
  BY TargetIsSet DEF setting, allOptions
<1>2. "target" \in DOMAIN defaultOptions
  BY Fields DEF fields
<1>3. ASSUME NEW words, NEW table
      PROVE  options(words, table)["target"] =
                LET I == at(words, names(setting(table, "target")))
                IN  IF I = {} THEN defaultOptions["target"]
                    ELSE valueOf(setting(table, "target"), words[first(I)])
  BY <1>2 DEF options
<1> QED
  BY <1>1, <1>3 DEF targetOf

LEMMA ParsedIs ==
    ASSUME NEW words, parse(words).kind = "Target"
    PROVE  /\ ~several(at(words, names(targetOptions)))
           /\ \A i \in DOMAIN words :
                 words[i] \in Files \cup names(allOptionsOf(targetOf(words)))
           /\ at(words, Files) # {}
           /\ parse(words) = [kind |-> "Target", opts |-> options(words, allOptions),
                             file |-> words[first(at(words, Files))]]
  BY DEF parse, UsageError, targetOf, at

(* A setting belongs to a target, and options have only such settings.      *)
Supports(t, s) ==
    /\ s \in targetOptions   => <<s[1], "target", t>> \in targetOptions
    /\ s \in specificOptions => t \in Applies(s[1])
Matching(record) ==
    \A f \in fields : record[f] # defaultOptions[f] =>
        \E s \in allOptions : s[2] = f /\ s[3] = record[f] /\ Supports(record["target"], s)

(* A command line that is accepted gives its target only what it supports.  *)
LEMMA AcceptedMatches ==
    ASSUME NEW words, isLine(words), parse(words).kind = "Target",
           NEW f \in fields, parse(words).opts[f] # defaultOptions[f]
    PROVE  \E s \in allOptions :
              s[2] = f /\ s[3] = parse(words).opts[f] /\ Supports(parse(words).opts["target"], s)
<1> DEFINE o == options(words, allOptions)
           i == first(sets(words, allOptions, f))
           s == <<words[i], f, o[f]>>
           t == targetOf(words)
<1>1. /\ ~several(at(words, names(targetOptions)))
      /\ \A j \in DOMAIN words : words[j] \in Files \cup names(allOptionsOf(t))
      /\ parse(words).opts = o /\ o["target"] = t
  BY ParsedIs, TargetsAgree
<1>2. sets(words, allOptions, f) # {}
  BY <1>1, SetNone
<1>3. i \in DOMAIN words /\ s \in allOptions
  BY <1>2, SetFirst
<1> HIDE DEF i, o, t
<1>4. s[1] = words[i] /\ s[2] = f /\ s[3] = o[f]
  OBVIOUS
<1> HIDE DEF s
<1>5. ASSUME s \in targetOptions
      PROVE  <<s[1], "target", t>> \in targetOptions
  <2> DEFINE J == sets(words, targetOptions, "target")
             j == first(J)
  <2>1. s[1] \in names(targetOptions)
    BY <1>5 DEF names
  <2>2. i \in J
    <3>1. PICK v \in Targets : <<s[1], "target", v>> \in targetOptions
      BY <2>1, TargetIsSet
    <3>2. s[1] \in names(setting(targetOptions, "target"))
      BY <3>1 DEF names, setting
    <3> QED
      BY <1>3, <1>4, <3>2 DEF sets, at
  <2>3. j \in DOMAIN words /\ <<words[j], "target", t>> \in targetOptions
    BY <2>2, SetFirst, Fields DEF t, targetOf, allOptions
  <2>4. words[j] \in names(targetOptions)
    BY <2>3 DEF names
  <2>5. i = j
    BY <1>1, <1>3, <1>4, <2>1, <2>3, <2>4 DEF several, at
  <2> QED
    BY <1>4, <2>3, <2>5
<1>6. ASSUME s \in specificOptions
      PROVE  t \in Applies(s[1])
  <2>1. s[1] \notin Files
    BY <1>3, FilesAssumption DEF names
  <2>2. PICK r \in allOptionsOf(t) : r[1] = s[1]
    BY <1>1, <1>3, <1>4, <2>1 DEF names
  <2>3. r \notin targetOptions \cup commonOptions
    BY <1>6, <2>2, SpecificNames
  <2> QED
    BY <2>2, <2>3 DEF allOptionsOf
<1>7. Supports(t, s)
  BY <1>5, <1>6 DEF Supports
<1>8. parse(words).opts[f] = o[f] /\ parse(words).opts["target"] = t
  BY <1>1
<1> QED
  BY <1>3, <1>4, <1>7, <1>8

-----------------------------------------------------------------------------
(* What is printed.                                                         *)

Arg == names(allOptions) \cup Files

LEMMA ConcatIndex ==
    ASSUME NEW s \in Seq(Arg), NEW r \in Seq(Arg)
    PROVE  /\ s \o r \in Seq(Arg)
           /\ Len(s) \in Nat /\ Len(r) \in Nat
           /\ DOMAIN s = 1..Len(s) /\ DOMAIN r = 1..Len(r)
           /\ DOMAIN (s \o r) = 1..(Len(s) + Len(r))
           /\ \A i \in 1..(Len(s) + Len(r)) :
                 (s \o r)[i] = IF i <= Len(s) THEN s[i] ELSE r[i - Len(s)]
<1>1. /\ s \o r \in Seq(Arg) /\ Len(s \o r) = Len(s) + Len(r)
      /\ \A i \in 1..(Len(s) + Len(r)) :
            (s \o r)[i] = IF i <= Len(s) THEN s[i] ELSE r[i - Len(s)]
  BY ConcatProperties
<1> QED
  BY <1>1

LEMMA Concat ==
    ASSUME NEW s \in Seq(Arg), NEW r \in Seq(Arg)
    PROVE  /\ s \o r \in Seq(Arg)
           /\ ToSet(s \o r) = ToSet(s) \cup ToSet(r)
<1>1. /\ s \o r \in Seq(Arg)
      /\ \A i \in 1..(Len(s) + Len(r)) :
            (s \o r)[i] = IF i <= Len(s) THEN s[i] ELSE r[i - Len(s)]
  BY ConcatIndex
<1>2. Len(s) \in Nat /\ Len(r) \in Nat /\ DOMAIN s = 1..Len(s) /\ DOMAIN r = 1..Len(r)
      /\ DOMAIN (s \o r) = 1..(Len(s) + Len(r))
  BY ConcatIndex
<1>3. ASSUME NEW x \in ToSet(s \o r) PROVE x \in ToSet(s) \cup ToSet(r)
  <2>1. PICK i \in 1..(Len(s) + Len(r)) : x = (s \o r)[i]
    BY <1>2 DEF ToSet
  <2>2. CASE i <= Len(s)
    <3>1. i \in DOMAIN s /\ x = s[i]
      BY <1>1, <1>2, <2>1, <2>2
    <3> QED
      BY <3>1 DEF ToSet
  <2>3. CASE ~(i <= Len(s))
    <3>1. i - Len(s) \in DOMAIN r /\ x = r[i - Len(s)]
      BY <1>1, <1>2, <2>1, <2>3
    <3> QED
      BY <3>1 DEF ToSet
  <2> QED
    BY <2>2, <2>3
<1>4. ASSUME NEW x \in ToSet(s) PROVE x \in ToSet(s \o r)
  <2>1. PICK i \in DOMAIN s : x = s[i]
    BY DEF ToSet
  <2>2. i \in 1..(Len(s) + Len(r)) /\ i <= Len(s)
    BY <1>2
  <2> QED
    BY <1>1, <1>2, <2>1, <2>2 DEF ToSet
<1>5. ASSUME NEW x \in ToSet(r) PROVE x \in ToSet(s \o r)
  <2>1. PICK i \in DOMAIN r : x = r[i]
    BY DEF ToSet
  <2>2. /\ i + Len(s) \in 1..(Len(s) + Len(r)) /\ ~(i + Len(s) <= Len(s))
        /\ (i + Len(s)) - Len(s) = i
    BY <1>2
  <2> QED
    BY <1>1, <1>2, <2>1, <2>2 DEF ToSet
<1> QED
  BY <1>1, <1>3, <1>4, <1>5

LEMMA OneOption ==
    ASSUME NEW record, NEW o \in names(allOptions)
    PROVE  /\ printOption(record, o) \in Seq(Arg)
           /\ ToSet(printOption(record, o)) = IF Prints(record, o) THEN {o} ELSE {}
<1>1. <<o>> \in Seq(Arg) /\ ToSet(<<o>>) = {o} /\ <<>> \in Seq(Arg) /\ ToSet(<<>>) = {}
  BY DEF Arg, ToSet
<1> QED
  BY <1>1 DEF printOption

LEMMA ConcatOption ==
    ASSUME NEW record, NEW s \in Seq(Arg), NEW o \in names(allOptions)
    PROVE  /\ s \o printOption(record, o) \in Seq(Arg)
           /\ ToSet(s \o printOption(record, o)) =
                 ToSet(s) \cup (IF Prints(record, o) THEN {o} ELSE {})
BY OneOption, Concat

printable ==
    {"--outputdir=out", "--makefile", "--name-space=P", "--line-numbers", "--ansi", "-d",
     "--functor", "--positions=range", "--generic", "--bytestrings", "--text-token", "--string-token",
     "--glr", "--xml", "--xmlt", "--agda", "--jflex", "--antlr4", "--menhir"}

LEMMA PrintableNames == printable \subseteq names(allOptions)
<1>1. \A o \in printable : \E s \in commonOptions \cup specificOptions : s[1] = o
  BY DEF printable, commonOptions, specificOptions
<1> QED
  BY <1>1 DEF names, allOptions

(* What printFields prints up to --xmlt.                                    *)
upToXmlt(record) ==
    LET on(o) == printOption(record, o)
    IN  on("--outputdir=out") \o on("--makefile") \o on("--name-space=P")
        \o on("--line-numbers") \o on("--ansi") \o on("-d") \o on("--functor")
        \o on("--positions=range") \o on("--generic") \o on("--bytestrings")
        \o on("--text-token") \o on("--string-token") \o on("--glr") \o on("--xml")
        \o on("--xmlt")

LEMMA UpToXmlt ==
    ASSUME NEW record
    PROVE  /\ upToXmlt(record) \in Seq(Arg)
           /\ ToSet(upToXmlt(record)) =
                 {o \in printable \ {"--agda", "--jflex", "--antlr4", "--menhir"} : Prints(record, o)}
<1> DEFINE R(o)  == IF Prints(record, o) THEN {o} ELSE {}
           P(s, S) == s \in Seq(Arg) /\ ToSet(s) = S
           s1 == printOption(record, "--outputdir=out")
           s2 == s1 \o printOption(record, "--makefile")
           s3 == s2 \o printOption(record, "--name-space=P")
           s4 == s3 \o printOption(record, "--line-numbers")
           s5 == s4 \o printOption(record, "--ansi")
           s6 == s5 \o printOption(record, "-d")
           s7 == s6 \o printOption(record, "--functor")
           s8 == s7 \o printOption(record, "--positions=range")
           s9 == s8 \o printOption(record, "--generic")
           s10 == s9 \o printOption(record, "--bytestrings")
           s11 == s10 \o printOption(record, "--text-token")
           s12 == s11 \o printOption(record, "--string-token")
           s13 == s12 \o printOption(record, "--glr")
           s14 == s13 \o printOption(record, "--xml")
           s15 == s14 \o printOption(record, "--xmlt")
<1>0. \A o \in printable : o \in names(allOptions)
  BY PrintableNames
<1>1. P(s1, R("--outputdir=out"))
  BY <1>0, OneOption DEF printable
<1>2. P(s2, ToSet(s1) \cup R("--makefile"))
  <2> HIDE DEF s1
  <2> QED
    BY <1>0, <1>1, ConcatOption DEF printable
<1>3. P(s3, ToSet(s2) \cup R("--name-space=P"))
  <2> HIDE DEF s2
  <2> QED
    BY <1>0, <1>2, ConcatOption DEF printable
<1>4. P(s4, ToSet(s3) \cup R("--line-numbers"))
  <2> HIDE DEF s3
  <2> QED
    BY <1>0, <1>3, ConcatOption DEF printable
<1>5. P(s5, ToSet(s4) \cup R("--ansi"))
  <2> HIDE DEF s4
  <2> QED
    BY <1>0, <1>4, ConcatOption DEF printable
<1>6. P(s6, ToSet(s5) \cup R("-d"))
  <2> HIDE DEF s5
  <2> QED
    BY <1>0, <1>5, ConcatOption DEF printable
<1>7. P(s7, ToSet(s6) \cup R("--functor"))
  <2> HIDE DEF s6
  <2> QED
    BY <1>0, <1>6, ConcatOption DEF printable
<1>8. P(s8, ToSet(s7) \cup R("--positions=range"))
  <2> HIDE DEF s7
  <2> QED
    BY <1>0, <1>7, ConcatOption DEF printable
<1>9. P(s9, ToSet(s8) \cup R("--generic"))
  <2> HIDE DEF s8
  <2> QED
    BY <1>0, <1>8, ConcatOption DEF printable
<1>10. P(s10, ToSet(s9) \cup R("--bytestrings"))
  <2> HIDE DEF s9
  <2> QED
    BY <1>0, <1>9, ConcatOption DEF printable
<1>11. P(s11, ToSet(s10) \cup R("--text-token"))
  <2> HIDE DEF s10
  <2> QED
    BY <1>0, <1>10, ConcatOption DEF printable
<1>12. P(s12, ToSet(s11) \cup R("--string-token"))
  <2> HIDE DEF s11
  <2> QED
    BY <1>0, <1>11, ConcatOption DEF printable
<1>13. P(s13, ToSet(s12) \cup R("--glr"))
  <2> HIDE DEF s12
  <2> QED
    BY <1>0, <1>12, ConcatOption DEF printable
<1>14. P(s14, ToSet(s13) \cup R("--xml"))
  <2> HIDE DEF s13
  <2> QED
    BY <1>0, <1>13, ConcatOption DEF printable
<1>15. P(s15, ToSet(s14) \cup R("--xmlt"))
  <2> HIDE DEF s14
  <2> QED
    BY <1>0, <1>14, ConcatOption DEF printable
<1>16. upToXmlt(record) = s15
  BY DEF upToXmlt
<1> HIDE DEF s1, s2, s3, s4, s5, s6, s7, s8, s9, s10, s11, s12, s13, s14, s15
<1>17. ToSet(s15) = {o \in printable \ {"--agda", "--jflex", "--antlr4", "--menhir"} : Prints(record, o)}
  BY <1>1, <1>2, <1>3, <1>4, <1>5, <1>6, <1>7, <1>8, <1>9, <1>10, <1>11, <1>12, <1>13, <1>14, <1>15 DEF printable
<1> QED
  BY <1>15, <1>16, <1>17

(* Every argument in T has one in S before it; and there is at most one in S. *)
Precedes(s, S, T) ==
    \A j \in DOMAIN s : s[j] \in T => \E i \in DOMAIN s : i < j /\ s[i] \in S
Once(s, S) == \A i, j \in DOMAIN s : s[i] \in S /\ s[j] \in S => i = j

(* An argument of a concatenation is one of either part.                    *)
LEMMA ConcatParts ==
    ASSUME NEW s \in Seq(Arg), NEW r \in Seq(Arg), NEW j \in DOMAIN (s \o r)
    PROVE  /\ j \in Nat
           /\ \/ j \in DOMAIN s /\ j <= Len(s) /\ (s \o r)[j] = s[j] /\ s[j] \in ToSet(s)
              \/ /\ j - Len(s) \in DOMAIN r /\ j > Len(s)
                 /\ (s \o r)[j] = r[j - Len(s)] /\ r[j - Len(s)] \in ToSet(r)
<1>1. /\ Len(s) \in Nat /\ Len(r) \in Nat
      /\ DOMAIN s = 1..Len(s) /\ DOMAIN r = 1..Len(r)
      /\ DOMAIN (s \o r) = 1..(Len(s) + Len(r))
      /\ \A i \in 1..(Len(s) + Len(r)) :
            (s \o r)[i] = IF i <= Len(s) THEN s[i] ELSE r[i - Len(s)]
  BY ConcatIndex
<1>2. j \in 1..(Len(s) + Len(r))
  BY <1>1
<1>3. CASE j <= Len(s)
  <2>1. j \in DOMAIN s
    BY <1>1, <1>2, <1>3
  <2> QED
    BY <1>1, <1>2, <1>3, <2>1 DEF ToSet
<1>4. CASE ~(j <= Len(s))
  <2>1. j - Len(s) \in DOMAIN r /\ j > Len(s)
    BY <1>1, <1>2, <1>4
  <2> QED
    BY <1>1, <1>2, <1>4, <2>1 DEF ToSet
<1> QED
  BY <1>3, <1>4

(* An argument of a part is one of the concatenation.                       *)
LEMMA PartsConcat ==
    ASSUME NEW s \in Seq(Arg), NEW r \in Seq(Arg)
    PROVE  /\ Len(s) \in Nat
           /\ \A i \in DOMAIN s : /\ i \in DOMAIN (s \o r) /\ (s \o r)[i] = s[i]
                                  /\ i \in Nat /\ i <= Len(s)
           /\ \A i \in DOMAIN r : /\ i + Len(s) \in DOMAIN (s \o r) /\ i \in Nat
                                  /\ (s \o r)[i + Len(s)] = r[i]
<1>1. /\ Len(s) \in Nat /\ Len(r) \in Nat
      /\ DOMAIN s = 1..Len(s) /\ DOMAIN r = 1..Len(r)
      /\ DOMAIN (s \o r) = 1..(Len(s) + Len(r))
      /\ \A i \in 1..(Len(s) + Len(r)) :
            (s \o r)[i] = IF i <= Len(s) THEN s[i] ELSE r[i - Len(s)]
  BY ConcatIndex
<1>2. ASSUME NEW i \in DOMAIN s
      PROVE  i \in 1..(Len(s) + Len(r)) /\ i <= Len(s) /\ i \in Nat
  BY <1>1
<1>3. ASSUME NEW i \in DOMAIN r
      PROVE  /\ i + Len(s) \in 1..(Len(s) + Len(r)) /\ ~(i + Len(s) <= Len(s))
             /\ (i + Len(s)) - Len(s) = i /\ i \in Nat
  BY <1>1
<1> QED
  BY <1>1, <1>2, <1>3

LEMMA PrecedesLeft ==
    ASSUME NEW s \in Seq(Arg), NEW r \in Seq(Arg), NEW S, NEW T,
           Precedes(s, S, T), ToSet(r) \cap T = {}
    PROVE  Precedes(s \o r, S, T)
<1>1. ASSUME NEW j \in DOMAIN (s \o r), (s \o r)[j] \in T
      PROVE  \E i \in DOMAIN (s \o r) : i < j /\ (s \o r)[i] \in S
  <2>1. j \in DOMAIN s /\ s[j] \in T
    BY <1>1, ConcatParts
  <2>2. PICK i \in DOMAIN s : i < j /\ s[i] \in S
    BY <2>1 DEF Precedes
  <2> QED
    BY <2>2, PartsConcat
<1> QED
  BY <1>1 DEF Precedes

LEMMA PrecedesRight ==
    ASSUME NEW s \in Seq(Arg), NEW r \in Seq(Arg), NEW S, NEW T,
           Precedes(r, S, T), ToSet(s) \cap T = {}
    PROVE  Precedes(s \o r, S, T)
<1>1. ASSUME NEW j \in DOMAIN (s \o r), (s \o r)[j] \in T
      PROVE  \E i \in DOMAIN (s \o r) : i < j /\ (s \o r)[i] \in S
  <2>1. j \in Nat /\ j - Len(s) \in DOMAIN r /\ r[j - Len(s)] \in T
    BY <1>1, ConcatParts
  <2>2. PICK i \in DOMAIN r : i < j - Len(s) /\ r[i] \in S
    BY <2>1 DEF Precedes
  <2>3. i \in Nat /\ Len(s) \in Nat
    BY PartsConcat
  <2>4. i + Len(s) < j
    BY <2>1, <2>2, <2>3
  <2>5. i + Len(s) \in DOMAIN (s \o r) /\ (s \o r)[i + Len(s)] \in S
    BY <2>2, PartsConcat
  <2> QED
    BY <2>4, <2>5
<1> QED
  BY <1>1 DEF Precedes

LEMMA PrecedesFound ==
    ASSUME NEW s \in Seq(Arg), NEW r \in Seq(Arg), NEW S, NEW T,
           ToSet(s) \cap S # {}, ToSet(s) \cap T = {}
    PROVE  Precedes(s \o r, S, T)
<1>1. PICK i \in DOMAIN s : s[i] \in S
  BY DEF ToSet
<1>2. ASSUME NEW j \in DOMAIN (s \o r), (s \o r)[j] \in T
      PROVE  i \in DOMAIN (s \o r) /\ i < j /\ (s \o r)[i] \in S
  <2>1. j \in Nat /\ j > Len(s)
    BY <1>2, ConcatParts
  <2>2. i \in Nat /\ i <= Len(s) /\ Len(s) \in Nat
    BY PartsConcat
  <2>3. i < j
    BY <2>1, <2>2
  <2> QED
    BY <1>1, <2>3, PartsConcat
<1> QED
  BY <1>2 DEF Precedes

LEMMA OnceLeft ==
    ASSUME NEW s \in Seq(Arg), NEW r \in Seq(Arg), NEW S,
           Once(s, S), ToSet(r) \cap S = {}
    PROVE  Once(s \o r, S)
<1>1. \A i \in DOMAIN (s \o r) : (s \o r)[i] \in S => i \in DOMAIN s /\ s[i] \in S
  BY ConcatParts
<1> QED
  BY <1>1 DEF Once

LEMMA OnceRight ==
    ASSUME NEW s \in Seq(Arg), NEW r \in Seq(Arg), NEW S,
           Once(r, S), ToSet(s) \cap S = {}
    PROVE  Once(s \o r, S)
<1>1. ASSUME NEW i \in DOMAIN (s \o r), (s \o r)[i] \in S
      PROVE  i \in Nat /\ Len(s) \in Nat /\ i - Len(s) \in DOMAIN r /\ r[i - Len(s)] \in S
  BY <1>1, ConcatParts, PartsConcat
<1>2. ASSUME NEW i \in DOMAIN (s \o r), NEW j \in DOMAIN (s \o r),
             (s \o r)[i] \in S, (s \o r)[j] \in S
      PROVE  i = j
  <2>1. i - Len(s) = j - Len(s)
    BY <1>1, <1>2 DEF Once
  <2> QED
    BY <1>1, <1>2, <2>1
<1> QED
  BY <1>2 DEF Once

LEMMA PrintableIsNoTarget ==
    printable \cap names(targetOptions) = {}
<1>1. \A o \in printable : \E s \in commonOptions \cup specificOptions : s[1] = o
  BY DEF printable, commonOptions, specificOptions
<1> QED
  BY <1>1, TargetIsSet

(* All that printFields prints, and that what it prints before --agda        *)
(* precedes --agda.                                                         *)
LEMMA PrintFields ==
    ASSUME NEW record, NEW S
    PROVE  /\ printFields(record) \in Seq(Arg)
           /\ ToSet(printFields(record)) = {o \in printable : Prints(record, o)}
           /\ ToSet(upToXmlt(record)) \cap S # {} => Precedes(printFields(record), S, {"--agda"})
<1> DEFINE R(o) == IF Prints(record, o) THEN {o} ELSE {}
           p0   == upToXmlt(record)
           on(o) == printOption(record, o)
           p1   == p0 \o on("--agda")
           p2   == p1 \o on("--jflex")
           p3   == p2 \o on("--antlr4")
           p4   == p3 \o on("--menhir")
<1>0. \A o \in printable : o \in names(allOptions)
  BY PrintableNames
<1>1. \A o \in {"--agda", "--jflex", "--antlr4", "--menhir"} :
         on(o) \in Seq(Arg) /\ ToSet(on(o)) = R(o)
  BY <1>0, OneOption DEF printable
<1>2. /\ p0 \in Seq(Arg)
      /\ ToSet(p0) =
            {o \in printable \ {"--agda", "--jflex", "--antlr4", "--menhir"} : Prints(record, o)}
  BY UpToXmlt
<1> HIDE DEF p0, on
<1>3. p1 \in Seq(Arg) /\ ToSet(p1) = ToSet(p0) \cup R("--agda")
      /\ (ToSet(p0) \cap S # {} => Precedes(p1, S, {"--agda"}))
  <2>1. ToSet(p0) \cap {"--agda"} = {}
    BY <1>2
  <2>2. on("--agda") \in Seq(Arg) /\ ToSet(on("--agda")) = R("--agda")
    BY <1>1
  <2>3. p1 \in Seq(Arg) /\ ToSet(p1) = ToSet(p0) \cup R("--agda")
    BY <1>2, <2>2, Concat
  <2>4. ToSet(p0) \cap S # {} => Precedes(p1, S, {"--agda"})
    BY <1>2, <2>1, <2>2, PrecedesFound
  <2> QED
    BY <2>3, <2>4
<1> HIDE DEF p1
<1>4. p2 \in Seq(Arg) /\ ToSet(p2) = ToSet(p1) \cup R("--jflex")
      /\ (ToSet(p0) \cap S # {} => Precedes(p2, S, {"--agda"}))
  <2>1. ToSet(on("--jflex")) \cap {"--agda"} = {}
    BY <1>1
  <2> QED
    BY <1>1, <1>3, <2>1, Concat, PrecedesLeft
<1> HIDE DEF p2
<1>5. p3 \in Seq(Arg) /\ ToSet(p3) = ToSet(p2) \cup R("--antlr4")
      /\ (ToSet(p0) \cap S # {} => Precedes(p3, S, {"--agda"}))
  <2>1. ToSet(on("--antlr4")) \cap {"--agda"} = {}
    BY <1>1
  <2> QED
    BY <1>1, <1>4, <2>1, Concat, PrecedesLeft
<1> HIDE DEF p3
<1>6. p4 \in Seq(Arg) /\ ToSet(p4) = ToSet(p3) \cup R("--menhir")
      /\ (ToSet(p0) \cap S # {} => Precedes(p4, S, {"--agda"}))
  <2>1. ToSet(on("--menhir")) \cap {"--agda"} = {}
    BY <1>1
  <2> QED
    BY <1>1, <1>5, <2>1, Concat, PrecedesLeft
<1>7. printFields(record) = p4
  BY DEF printFields, upToXmlt, p0, p1, p2, p3, on
<1> HIDE DEF p4
<1>8. ToSet(p4) = {o \in printable : Prints(record, o)}
  BY <1>2, <1>3, <1>4, <1>5, <1>6 DEF printable
<1> QED
  BY <1>6, <1>7, <1>8 DEF p0

(* The whole line: one target, one file, and between them the fields.       *)
LEMMA PrintOptions ==
    ASSUME NEW record, NEW file \in Files, NEW S,
           printTargetOption(record["target"]) \in names(targetOptions)
    PROVE  LET r == printOptions(record, file)
               t == printTargetOption(record["target"])
           IN  /\ r \in Seq(Arg) /\ isLine(r)
               /\ ToSet(r) = {t, file} \cup {o \in printable : Prints(record, o)}
               /\ Once(r, names(targetOptions)) /\ Once(r, Files)
               /\ ToSet(upToXmlt(record)) \cap S # {} => Precedes(r, S, {"--agda"})
<1> DEFINE t == printTargetOption(record["target"])
           f == printFields(record)
           v == <<t>>
           w == <<file>>
           q == v \o f
           r == q \o w
<1>1. /\ f \in Seq(Arg) /\ ToSet(f) = {o \in printable : Prints(record, o)}
      /\ ToSet(upToXmlt(record)) \cap S # {} => Precedes(f, S, {"--agda"})
  BY PrintFields
<1>2. t \in names(allOptions) /\ t \in names(targetOptions) /\ file \notin names(allOptions)
  BY FilesAssumption DEF names, allOptions
<1>3. /\ v \in Seq(Arg) /\ ToSet(v) = {t} /\ Once(v, names(targetOptions))
      /\ w \in Seq(Arg) /\ ToSet(w) = {file} /\ Once(w, Files)
  BY <1>2 DEF Arg, ToSet, Once
<1>4. \A o \in ToSet(f) : o \notin names(targetOptions) /\ o \notin Files
  BY <1>1, PrintableIsNoTarget, PrintableNames, FilesAssumption
<1>5. t \notin Files /\ file \notin names(targetOptions) /\ file # "--agda" /\ t # "--agda"
  <2>1. "--agda" \in names(allOptions) /\ "--agda" \notin names(targetOptions)
    BY PrintableNames, PrintableIsNoTarget DEF printable
  <2> QED
    BY <1>2, <2>1, FilesAssumption DEF names, allOptions
<1> HIDE DEF t, f, v, w
<1>6. /\ q \in Seq(Arg) /\ ToSet(q) = {t} \cup ToSet(f)
      /\ Once(q, names(targetOptions)) /\ ToSet(q) \cap Files = {}
      /\ ToSet(upToXmlt(record)) \cap S # {} => Precedes(q, S, {"--agda"})
  <2>1. q \in Seq(Arg) /\ ToSet(q) = {t} \cup ToSet(f)
    BY <1>1, <1>3, Concat
  <2>2. Once(q, names(targetOptions))
    BY <1>1, <1>3, <1>4, OnceLeft
  <2>3. ToSet(upToXmlt(record)) \cap S # {} => Precedes(q, S, {"--agda"})
    BY <1>1, <1>3, <1>5, PrecedesRight
  <2>4. ToSet(q) \cap Files = {}
    BY <1>4, <1>5, <2>1
  <2> QED
    BY <2>1, <2>2, <2>3, <2>4
<1> HIDE DEF q
<1>7. /\ r \in Seq(Arg) /\ ToSet(r) = ToSet(q) \cup {file}
      /\ Once(r, names(targetOptions)) /\ Once(r, Files)
      /\ ToSet(upToXmlt(record)) \cap S # {} => Precedes(r, S, {"--agda"})
  <2>1. r \in Seq(Arg) /\ ToSet(r) = ToSet(q) \cup {file}
    BY <1>3, <1>6, Concat
  <2>2. Once(r, names(targetOptions))
    BY <1>3, <1>5, <1>6, OnceLeft
  <2>3. Once(r, Files)
    BY <1>3, <1>6, OnceRight
  <2>4. ToSet(upToXmlt(record)) \cap S # {} => Precedes(r, S, {"--agda"})
    BY <1>3, <1>5, <1>6, PrecedesLeft
  <2> QED
    BY <2>1, <2>2, <2>3, <2>4
<1>8. printOptions(record, file) = r
  BY DEF printOptions, q, t, f, v, w
<1> HIDE DEF r
<1>9. isLine(r)
  BY <1>7 DEF isLine
<1> QED
  BY <1>1, <1>6, <1>7, <1>8, <1>9 DEF t

-----------------------------------------------------------------------------
(* What a Haskell backend prints, and what it is parsed to.                 *)

Haskell(record) == record["target"] \in haskellTargets /\ Matching(record)
special == {"--text-token", "--string-token", "--agda"}

(* What can be printed sets one field, but --agda two.                      *)
LEMMA OneSetting ==
    \A s, r \in allOptions : s[1] = r[1] /\ s[1] \in printable \ {"--agda"} => s = r
<1>1. \A s, r \in commonOptions \cup specificOptions :
         s[1] = r[1] /\ s[1] # "--agda" => s = r
  BY DEF commonOptions, specificOptions
<1>2. \A s \in allOptions : s[1] \in printable => s \in commonOptions \cup specificOptions
  BY PrintableIsNoTarget DEF names, allOptions
<1> QED
  BY <1>1, <1>2

LEMMA PrintsIff ==
    ASSUME NEW record, NEW s \in allOptions, s[1] \in printable \ special
    PROVE  Prints(record, s[1]) <=> record[s[2]] = s[3]
<1>1. \A r \in allOptions : r[1] = s[1] => r = s
  BY OneSetting DEF special
<1> QED
  BY <1>1 DEF Prints, special

(* What is printed is what is set, but for the tokens of --agda.            *)
LEMMA PrintedIsSet ==
    ASSUME NEW record, NEW s \in allOptions, s[1] \in printable, Prints(record, s[1]),
           ~(s[1] = "--agda" /\ s[2] = "tokenText")
    PROVE  record[s[2]] = s[3]
<1>1. CASE s[1] \notin special
  BY <1>1, PrintsIff
<1>2. CASE s[1] = "--text-token"
  <2>1. <<"--text-token", "tokenText", "text">> \in allOptions
    BY DEF allOptions, specificOptions
  <2>2. s = <<"--text-token", "tokenText", "text">>
    BY <1>2, <2>1, OneSetting DEF printable
  <2> QED
    BY <1>2, <2>2 DEF Prints
<1>3. CASE s[1] = "--string-token"
  <2>1. <<"--string-token", "tokenText", "string">> \in allOptions
    BY DEF allOptions, specificOptions
  <2>2. s = <<"--string-token", "tokenText", "string">>
    BY <1>3, <2>1, OneSetting DEF printable
  <2> QED
    BY <1>3, <2>2 DEF Prints
<1>4. CASE s[1] = "--agda"
  <2>1. s[2] = "agda" /\ s[3] = "yes"
    BY <1>4 DEF allOptions, specificOptions, commonOptions, targetOptions
  <2> QED
    BY <1>4, <2>1 DEF Prints
<1> QED
  BY <1>1, <1>2, <1>3, <1>4 DEF special

(* The settings that a Haskell backend supports.                            *)
LEMMA HaskellSupports ==
    ASSUME NEW t \in haskellTargets, NEW s \in allOptions, Supports(t, s)
    PROVE  /\ \/ s[1] \in printable
              \/ s[2] \in {"target", "force"}
              \/ s[2] \in fields /\ s[3] = defaultOptions[s[2]]
           /\ s[2] \notin {"linenumbers", "ansi", "javaLexerParser", "ocamlParser"}
           /\ s[2] = "agda" => t = "Haskell"
<1>1. CASE s \in targetOptions
  <2>1. s[2] = "target"
    BY <1>1 DEF Supports, targetOptions, haskellTargets
  <2> QED
    BY <2>1
<1>2. CASE s \in commonOptions
  BY <1>2 DEF commonOptions, printable
<1>3. CASE s \in specificOptions
  <2>1. t \in Applies(s[1])
    BY <1>3 DEF Supports
  <2>2. s[1] \in printable \/ s = <<"--positions=line", "positions", "none">>
        \/ s[1] \in {"--jlex", "--yacc", "--tree-sitter-word=W"}
    BY <1>3 DEF specificOptions, printable
  <2>3. s[1] \notin {"--jlex", "--yacc", "--tree-sitter-word=W", "--line-numbers", "--ansi",
                     "--jflex", "--antlr4", "--menhir"}
    BY <2>1 DEF Applies, haskellTargets
  <2>4. s[2] \notin {"linenumbers", "ansi", "javaLexerParser", "ocamlParser"}
    BY <1>3, <2>3 DEF specificOptions
  <2>5. s[2] = "agda" => s[1] = "--agda"
    BY <1>3 DEF specificOptions
  <2>6. s[1] = "--agda" => t = "Haskell"
    BY <2>1 DEF Applies
  <2>7. "positions" \in fields /\ defaultOptions["positions"] = "none"
    BY DEF fields, defaultOptions
  <2> QED
    BY <2>2, <2>3, <2>4, <2>5, <2>6, <2>7
<1> QED
  BY <1>1, <1>2, <1>3 DEF allOptions

(* Every setting of the options of a Haskell backend, but for the target and *)
(* --force, is printed.                                                     *)
LEMMA SetIsPrinted ==
    ASSUME NEW record, Haskell(record), record["optMake"] = "none",
           NEW f \in fields \ {"target", "force"}, record[f] # defaultOptions[f]
    PROVE  \E x \in printable : Prints(record, x) /\ <<x, f, record[f]>> \in allOptions
<1>1. PICK s \in allOptions : s[2] = f /\ s[3] = record[f] /\ Supports(record["target"], s)
  BY DEF Haskell, Matching
<1>2. s[1] \in printable
  BY <1>1, HaskellSupports DEF Haskell
<1>3. s = <<s[1], f, record[f]>>
  BY <1>1, Settings
<1>4. CASE s[1] \notin special
  <2>1. Prints(record, s[1])
    BY <1>1, <1>2, <1>4, PrintsIff
  <2> QED
    BY <1>2, <1>3, <2>1
<1>5. CASE s[1] = "--string-token"
  <2>1. s = <<"--string-token", "tokenText", "string">>
    BY <1>5 DEF allOptions, specificOptions, commonOptions, targetOptions
  <2>2. defaultOptions["tokenText"] = "string"
    BY DEF defaultOptions
  <2> QED
    BY <1>1, <2>1, <2>2
<1>6. record["agda"] \in {"yes", "no"}
  <2>1. defaultOptions["agda"] = "no" /\ "agda" \in fields
    BY DEF defaultOptions, fields
  <2>2. \A r \in allOptions : r[2] = "agda" => r[3] = "yes"
    BY DEF allOptions, specificOptions, commonOptions, targetOptions
  <2> QED
    BY <2>1, <2>2 DEF Haskell, Matching
<1>7. /\ <<"--agda", "agda", "yes">> \in allOptions /\ <<"--agda", "tokenText", "text">> \in allOptions
      /\ "--agda" \in printable /\ "--text-token" \in printable
      /\ <<"--text-token", "tokenText", "text">> \in allOptions
  BY DEF allOptions, specificOptions, printable
<1>8. CASE s[1] = "--text-token" \/ s = <<"--agda", "tokenText", "text">>
  <2>1. f = "tokenText" /\ record[f] = "text"
    <3>1. s[1] = "--text-token" => s = <<"--text-token", "tokenText", "text">>
      BY <1>7, OneSetting
    <3> QED
      BY <1>1, <1>8, <3>1
  <2>2. CASE record["agda"] = "yes"
    <3>1. Prints(record, "--agda")
      BY <2>2 DEF Prints
    <3> QED
      BY <1>7, <2>1, <3>1
  <2>3. CASE record["agda"] = "no"
    <3>1. Prints(record, "--text-token")
      BY <2>1, <2>3 DEF Prints
    <3> QED
      BY <1>7, <2>1, <3>1
  <2> QED
    BY <1>6, <2>2, <2>3
<1>9. CASE s = <<"--agda", "agda", "yes">>
  <2>1. f = "agda" /\ record["agda"] = "yes"
    BY <1>1, <1>9
  <2>2. Prints(record, "--agda")
    BY <2>1 DEF Prints
  <2> QED
    BY <1>7, <2>1, <2>2
<1>10. s[1] = "--agda" => s \in {<<"--agda", "agda", "yes">>, <<"--agda", "tokenText", "text">>}
  BY DEF allOptions, specificOptions, commonOptions, targetOptions
<1> QED
  BY <1>4, <1>5, <1>8, <1>9, <1>10 DEF special

(* A Haskell backend supports what is printed for it.                       *)
LEMMA PrintedIsSupported ==
    ASSUME NEW record, Haskell(record), NEW x \in printable, Prints(record, x)
    PROVE  x \in names(allOptionsOf(record["target"]))
<1>1. PICK s \in commonOptions \cup specificOptions : s[1] = x
  BY DEF printable, commonOptions, specificOptions
<1>2. s \in allOptions
  BY DEF allOptions
<1>3. CASE s \in commonOptions
  BY <1>1, <1>3 DEF names, allOptionsOf
<1>4. CASE s \in specificOptions
  <2> DEFINE t == record["target"]
  <2>1. t \in haskellTargets
    BY DEF Haskell
  <2> HIDE DEF t
  <2>2. ASSUME NEW f \in {"linenumbers", "ansi", "javaLexerParser", "ocamlParser"}
        PROVE  record[f] = defaultOptions[f]
    <3>1. f \in fields
      BY Fields
    <3> QED
      BY <2>1, <3>1, HaskellSupports DEF Haskell, Matching, t
  <2>3. x \notin {"--line-numbers", "--ansi", "--jflex", "--antlr4", "--menhir"}
    <3>1. ASSUME x \in {"--line-numbers", "--ansi", "--jflex", "--antlr4", "--menhir"}
          PROVE  FALSE
      <4>1. record[s[2]] = s[3]
        BY <1>1, <1>2, <3>1, PrintedIsSet
      <4>2. /\ s[2] \in {"linenumbers", "ansi", "javaLexerParser", "ocamlParser"}
            /\ s[3] # defaultOptions[s[2]]
        BY <1>1, <1>4, <3>1 DEF specificOptions, defaultOptions
      <4> QED
        BY <2>2, <4>1, <4>2
    <3> QED
      BY <3>1
  <2>4. x = "--agda" => t = "Haskell"
    <3>1. ASSUME x = "--agda" PROVE t = "Haskell"
      <4>1. record["agda"] = "yes" /\ "agda" \in fields /\ defaultOptions["agda"] = "no"
        BY <3>1 DEF Prints, fields, defaultOptions
      <4>2. PICK r \in allOptions : r[2] = "agda" /\ Supports(t, r)
        BY <4>1 DEF Haskell, Matching, t
      <4> QED
        BY <2>1, <4>2, HaskellSupports
    <3> QED
      BY <3>1
  <2>5. x \notin {"--jlex", "--yacc", "--tree-sitter-word=W"}
    BY DEF printable
  <2>6. t \in Applies(x)
    BY <2>1, <2>3, <2>4, <2>5 DEF Applies, haskellTargets
  <2> QED
    BY <1>1, <1>4, <2>6 DEF names, allOptionsOf, t
<1> QED
  BY <1>3, <1>4

LEMMA HaskellTarget ==
    ASSUME NEW record, Haskell(record)
    PROVE  LET t == printTargetOption(record["target"])
           IN  /\ t \in names(targetOptions) /\ t \in names(allOptions)
               /\ \A s \in allOptions :
                     s[1] = t => s[2] = "target" /\ s[3] = record["target"]
<1>1. record["target"] \in {"Haskell", "HaskellGadt"}
  BY DEF Haskell, haskellTargets
<1>2. ASSUME NEW a \in {"--haskell", "--haskell-gadt"}
      PROVE  a \in names(targetOptions) /\ a \in names(allOptions)
  <2>1. \E s \in targetOptions : s[1] = a
    BY DEF targetOptions
  <2> QED
    BY <2>1 DEF names, allOptions
<1>3. \A s \in allOptions :
         /\ s[1] = "--haskell"      => s[2] = "target" /\ s[3] = "Haskell"
         /\ s[1] = "--haskell-gadt" => s[2] = "target" /\ s[3] = "HaskellGadt"
  BY DEF allOptions, targetOptions, commonOptions, specificOptions
<1>4. /\ printTargetOption("Haskell") = "--haskell"
      /\ printTargetOption("HaskellGadt") = "--haskell-gadt"
  BY DEF printTargetOption
<1> QED
  BY <1>1, <1>2, <1>3, <1>4

(* Line r is what printOptions makes of record.                               *)
Recipe(r, record, file) ==
    /\ r \in Seq(Arg) /\ isLine(r)
    /\ ToSet(r) = {printTargetOption(record["target"]), file}
                     \cup {o \in printable : Prints(record, o)}
    /\ Once(r, names(targetOptions)) /\ Once(r, Files)
    /\ record["agda"] = "yes" /\ record["tokenText"] # "text" =>
          Precedes(r, {"--bytestrings", "--string-token"}, {"--agda"})

LEMMA RecipeIs ==
    ASSUME NEW record, Haskell(record), NEW file \in Files
    PROVE  Recipe(printOptions(record, file), record, file)
<1> DEFINE S == {"--bytestrings", "--string-token"}
<1>1. ASSUME record["agda"] = "yes", record["tokenText"] # "text"
      PROVE  ToSet(upToXmlt(record)) \cap S # {}
  <2>1. "tokenText" \in fields /\ defaultOptions["tokenText"] = "string"
    BY DEF fields, defaultOptions
  <2>2. \A s \in allOptions : s[2] = "tokenText" => s[3] \in {"bytestring", "text", "string"}
    BY DEF allOptions, targetOptions, commonOptions, specificOptions
  <2>3. record["tokenText"] \in {"bytestring", "string"}
    BY <1>1, <2>1, <2>2 DEF Haskell, Matching
  <2>4. CASE record["tokenText"] = "string"
    <3>1. Prints(record, "--string-token")
      BY <1>1, <2>4 DEF Prints
    <3> QED
      BY <3>1, UpToXmlt DEF printable
  <2>5. CASE record["tokenText"] = "bytestring"
    <3>1. <<"--bytestrings", "tokenText", "bytestring">> \in allOptions
      BY DEF allOptions, specificOptions
    <3>2. Prints(record, "--bytestrings")
      BY <2>5, <3>1, PrintsIff DEF printable, special
    <3> QED
      BY <3>2, UpToXmlt DEF printable
  <2> QED
    BY <2>3, <2>4, <2>5
<1> QED
  BY <1>1, HaskellTarget, PrintOptions DEF Recipe

(* A printed option that sets a field sets it to what it is, if it is the    *)
(* first to do so.                                                          *)
LEMMA RecipeSets ==
    ASSUME NEW record, Haskell(record), NEW file \in Files, NEW r, Recipe(r, record, file),
           NEW f \in fields, sets(r, allOptions, f) # {}
    PROVE  f # "force" /\ options(r, allOptions)[f] = record[f]
<1> DEFINE i == first(sets(r, allOptions, f))
           v == options(r, allOptions)[f]
           t == printTargetOption(record["target"])
<1>1. /\ i \in DOMAIN r /\ \A j \in sets(r, allOptions, f) : i <= j
      /\ <<r[i], f, v>> \in allOptions
  BY SetFirst DEF Recipe
<1> HIDE DEF i, v
<1>2. r[i] \in ToSet(r) /\ r[i] \in names(allOptions)
  BY <1>1 DEF ToSet, names
<1>3. r[i] = t \/ (r[i] \in printable /\ Prints(record, r[i]))
  BY <1>2, FilesAssumption DEF Recipe
<1>4. CASE r[i] = t
  BY <1>1, <1>4, HaskellTarget DEF v
<1>5. CASE r[i] \in printable /\ Prints(record, r[i])
  <2>1. f # "force"
    <3>1. \A s \in allOptions : s[2] = "force" => s[1] = "--force"
      BY DEF allOptions, targetOptions, commonOptions, specificOptions
    <3>2. "--force" \notin printable
      BY DEF printable
    <3> QED
      BY <1>1, <1>5, <3>1, <3>2
  <2>2. CASE ~(r[i] = "--agda" /\ f = "tokenText")
    <3> DEFINE s == <<r[i], f, v>>
    <3>1. s \in allOptions /\ s[1] = r[i] /\ s[2] = f /\ s[3] = v
      BY <1>1
    <3> HIDE DEF s
    <3>2. record[s[2]] = s[3]
      BY <1>5, <2>2, <3>1, PrintedIsSet
    <3> QED
      BY <2>1, <3>1, <3>2 DEF v
  <2>3. CASE r[i] = "--agda" /\ f = "tokenText"
    <3>1. record["agda"] = "yes"
      BY <1>5, <2>3 DEF Prints
    <3>2. v = "text"
      BY <1>1, <2>3 DEF allOptions, targetOptions, commonOptions, specificOptions
    <3>3. ASSUME record["tokenText"] # "text" PROVE FALSE
      <4>1. PICK j \in DOMAIN r : j < i /\ r[j] \in {"--bytestrings", "--string-token"}
        BY <1>1, <2>3, <3>1, <3>3 DEF Recipe, Precedes
      <4>2. r[j] \in names(setting(allOptions, "tokenText"))
        <5>1. \A a \in {"--bytestrings", "--string-token"} :
                 \E s \in specificOptions : s[1] = a /\ s[2] = "tokenText"
          BY DEF specificOptions
        <5> QED
          BY <4>1, <5>1 DEF names, setting, allOptions
      <4>3. j \in sets(r, allOptions, f)
        BY <2>3, <4>1, <4>2 DEF sets, at
      <4>4. i \in Nat /\ j \in Nat /\ i <= j
        BY <1>1, <4>1, <4>3 DEF Recipe, isLine
      <4> QED
        BY <4>1, <4>4
    <3> QED
      BY <2>1, <2>3, <3>2, <3>3 DEF v
  <2> QED
    BY <2>2, <2>3
<1> QED
  BY <1>3, <1>4, <1>5

(* What is printed is parsed to the same options, but for --force.          *)
LEMMA RecipeOptions ==
    ASSUME NEW record \in [fields -> values], Haskell(record), record["optMake"] = "none",
           NEW file \in Files, NEW r, Recipe(r, record, file)
    PROVE  options(r, allOptions) = [record EXCEPT !["force"] = "no"]
<1> DEFINE o == options(r, allOptions)
<1>1. o \in [fields -> values] /\ "force" \in fields /\ defaultOptions["force"] = "no"
  BY OptionsTyped DEF Recipe, fields, defaultOptions
<1>2. o["force"] = "no"
  BY <1>1, RecipeSets, SetNone
<1>3. ASSUME NEW f \in fields, f # "force"
      PROVE  o[f] = record[f]
  <2>1. CASE sets(r, allOptions, f) # {}
    BY <2>1, RecipeSets
  <2>2. CASE sets(r, allOptions, f) = {}
    <3>1. o[f] = defaultOptions[f]
      BY <2>2, SetNone
    <3>2. ASSUME NEW x \in ToSet(r), NEW v, <<x, f, v>> \in allOptions
          PROVE  FALSE
      <4>1. PICK i \in DOMAIN r : r[i] = x
        BY DEF ToSet
      <4>2. x \in names(setting(allOptions, f))
        BY <3>2 DEF names, setting
      <4> QED
        BY <2>2, <4>1, <4>2 DEF sets, at
    <3>3. f # "target"
      <4>1. ASSUME f = "target" PROVE FALSE
        <5> DEFINE t == printTargetOption(record["target"])
        <5>1. t \in ToSet(r) /\ t \in names(targetOptions)
          BY HaskellTarget DEF Recipe
        <5>2. PICK v \in Targets : <<t, "target", v>> \in targetOptions
          BY <5>1, TargetIsSet
        <5> QED
          BY <3>2, <4>1, <5>1, <5>2 DEF allOptions
      <4> QED
        BY <4>1
    <3>4. ASSUME record[f] # defaultOptions[f] PROVE FALSE
      <4>1. PICK x \in printable : Prints(record, x) /\ <<x, f, record[f]>> \in allOptions
        BY <1>3, <3>3, <3>4, SetIsPrinted
      <4> QED
        BY <3>2, <4>1 DEF Recipe
    <3> QED
      BY <3>1, <3>4
  <2> QED
    BY <2>1, <2>2
<1> HIDE DEF o
<1> QED
  BY <1>1, <1>2, <1>3 DEF o

(* No argument of it is refused, and none is an old option.                 *)
LEMMA RecipeAccepted ==
    ASSUME NEW record \in [fields -> values], Haskell(record), record["optMake"] = "none",
           NEW file \in Files, NEW r, Recipe(r, record, file)
    PROVE  /\ translateOldOptions(r) = r
           /\ parse(r) = [kind |-> "Target", opts |-> options(r, allOptions), file |-> file]
<1> DEFINE t == targetOf(r)
<1>1. PICK n \in Nat : DOMAIN r = 1..n
  BY DEF Recipe, isLine
<1>2. \A i \in DOMAIN r : r[i] \in ToSet(r)
  BY DEF ToSet
<1>3. t = record["target"]
  <2>1. "target" \in fields
    BY Fields
  <2> QED
    BY <2>1, RecipeOptions, TargetsAgree
<1>4. \A x \in ToSet(r) : x \in Files \cup names(allOptionsOf(t))
  <2>1. \A x \in names(targetOptions) : x \in names(allOptionsOf(t))
    BY DEF names, allOptionsOf
  <2> QED
    BY <1>3, <2>1, HaskellTarget, PrintedIsSupported DEF Recipe
<1>5. \A x \in names(allOptionsOf(t)) : x \in names(allOptions)
  BY DEF names, allOptionsOf, allOptions
<1>6. \A x \in names(allOptions) : x \notin names(translation) /\ x \notin globalOptions
  <2>1. \A s \in allOptions : s[1] \notin names(translation) /\ s[1] \notin globalOptions
    BY DEF allOptions, targetOptions, commonOptions, specificOptions, names, translation,
           globalOptions
  <2> QED
    BY <2>1 DEF names
<1> HIDE DEF t
<1>7. \A i \in DOMAIN r : r[i] \notin names(translation) /\ r[i] \notin globalOptions
  BY <1>2, <1>4, <1>5, <1>6, FilesAssumption
<1>8. file \in ToSet(r)
  BY DEF Recipe
<1>9. PICK k \in DOMAIN r : r[k] = file
  BY <1>8 DEF ToSet
<1>10. at(r, Files) = {k}
  BY <1>9 DEF Recipe, Once, at
<1>11. first(at(r, Files)) = k
  <2>1. k \in Nat
    BY <1>1
  <2> QED
    BY <1>10, <2>1, FirstIs
<1>12. ~several(at(r, names(targetOptions))) /\ ~several(at(r, Files))
  BY DEF Recipe, Once, several, at
<1>13. r # <<>>
  BY <1>9
<1>14. at(r, globalOptions) = {}
  BY <1>7 DEF at
<1>15. /\ DOMAIN r \ at(r, Files \cup (names(allOptions) \cup obsolete)) = {}
       /\ DOMAIN r \ at(r, Files \cup names(allOptionsOf(t))) = {}
  BY <1>2, <1>4, <1>5 DEF at
<1>16. translateOldOptions(r) = r
  <2>1. r = [i \in DOMAIN r |-> r[i]]
    BY DEF Recipe
  <2> QED
    BY <1>7, <2>1 DEF translateOldOptions
<1>17. parse(r) = [kind |-> "Target", opts |-> options(r, allOptions), file |-> file]
  BY <1>9, <1>10, <1>11, <1>12, <1>13, <1>14, <1>15 DEF parse, targetOf, t
<1> QED
  BY <1>16, <1>17

(* For every target of Haskell and all options that a command line can give  *)
(* it: what printOptions prints is parsed to the same options.              *)
THEOREM RoundTrip ==
    ASSUME NEW record \in [fields -> values], Haskell(record), record["optMake"] = "none",
           NEW file \in Files
    PROVE  parseMode(printOptions(record, file)) =
              [kind |-> "Target", opts |-> [record EXCEPT !["force"] = "no"], file |-> file]
<1>1. Recipe(printOptions(record, file), record, file)
  BY RecipeIs
<1> QED
  BY <1>1, RecipeOptions, RecipeAccepted DEF parseMode

-----------------------------------------------------------------------------
(* The driver.                                                              *)
Examining == pc \in {"checking", "writing"}

(* The checks before next are done: what of the grammar concerns the target  *)
(* is reported, nothing else is, and a fatal defect among it was forced.    *)
Done(i)    == i \in DOMAIN checks /\ i < next
Position   == next \in Nat /\ (pc = "writing" => next > Len(checks))
LogSound   == log \subseteq grammar \cap Reported(target)
LogDone    == \A i \in DOMAIN checks :
                 Done(i) /\ checks[i].of \in grammar
                    /\ target \in checks[i].fatal \cup checks[i].warns
                 => checks[i].of \in log
FatalDone  == \A i \in DOMAIN checks :
                 Done(i) /\ checks[i].of \in grammar /\ target \in checks[i].fatal
                 => opts.force = "yes"

(* The inductive invariant.                                                 *)
IInv ==
    /\ pc # "shell" => exit = "none"
    /\ pc \in {"shell", "parsed"} => next = 1 /\ log = {}
    /\ Examining => Position /\ LogSound /\ LogDone /\ FatalDone

-----------------------------------------------------------------------------
(* The list of checks is a sequence, and its members are its elements.      *)
LEMMA ChecksAreASequence ==
    /\ Len(checks) \in Nat
    /\ DOMAIN checks = 1 .. Len(checks)
    /\ ToSet(checks) = {checks[i] : i \in DOMAIN checks}
<1>1. ToSet(checks) = {checks[i] : i \in DOMAIN checks}
  BY DEF ToSet
<1>2. ASSUME NEW a, NEW b, NEW c, NEW d, NEW e, NEW f, NEW g, NEW h, NEW i,
             NEW j, NEW k, NEW l, NEW m, NEW n, NEW o
      PROVE  /\ Len(<<a, b, c, d, e, f, g, h, i, j, k, l, m, n, o>>) = 15
             /\ DOMAIN <<a, b, c, d, e, f, g, h, i, j, k, l, m, n, o>> = 1 .. 15
  OBVIOUS
<1>3. Len(checks) = 15 /\ DOMAIN checks = 1 .. 15
  BY <1>2, SMTT(60) DEF checks
<1> QED
  BY <1>1, <1>3

LEMMA FatalIsReported == \A t : Fatal(t) \subseteq Reported(t)
BY DEF Fatal, Reported

-----------------------------------------------------------------------------
LEMMA InitInvariant == Init => IInv
BY DEF Init, IInv, Examining

(* A run that ends leaves nothing behind that the invariant speaks of.      *)
LEMMA ExitInvariant ==
    ASSUME NEW e, Exit(e)
    PROVE  IInv'
BY DEF Exit, IInv, Examining

(* One check more: a fatal defect is reported if --force was given, and      *)
(* whatever else the check finds is reported if it concerns the target.     *)
LEMMA CheckInvariant ==
    ASSUME IInv, parseCF
    PROVE  IInv'
<1> DEFINE c == checks[next]
<1>1. pc = "checking" /\ next \in DOMAIN checks /\ c \in ToSet(checks)
  BY ChecksAreASequence DEF parseCF
<1>2. exit = "none" /\ next \in Nat /\ LogSound /\ LogDone /\ FatalDone
  BY <1>1 DEF IInv, Examining, Position
<1>3. CASE pc' = "shell"
  <2>1. Exit("failure")
    BY <1>1, <1>3 DEF parseCF, dieUnlessForce
  <2> QED
    BY <2>1, ExitInvariant
<1>4. CASE pc' # "shell"
  <2>1. /\ next' = next + 1
        /\ UNCHANGED <<pc, mode, grammar, exit>>
    BY <1>1, <1>4 DEF parseCF, dieUnlessForce, Exit
  <2>2. /\ log \subseteq log' /\ log' \subseteq log \cup {c.of}
        /\ c.of \in log' \ log => c.of \in grammar /\ target \in c.fatal \cup c.warns
        /\ c.of \in grammar /\ target \in c.fatal \cup c.warns => c.of \in log'
        /\ c.of \in grammar /\ target \in c.fatal => opts.force = "yes"
    <3>1. CASE c.of \in grammar /\ target \in c.fatal
      BY <1>1, <1>4, <3>1 DEF parseCF, dieUnlessForce, Exit
    <3>2. CASE ~(c.of \in grammar /\ target \in c.fatal)
      BY <1>1, <3>2 DEF parseCF, Report
    <3> QED
      BY <3>1, <3>2
  <2>3. target' = target /\ opts' = opts /\ Reported(target)' = Reported(target)
    BY <2>1 DEF target, opts, Reported
  <2>4. LogSound'
    <3>1. c.of \in log' \ log => c.of \in Reported(target)
      BY <1>1, <2>2 DEF Reported
    <3> QED
      BY <1>2, <2>1, <2>2, <2>3, <3>1 DEF LogSound
  <2>5. \A i \in DOMAIN checks : Done(i)' => Done(i) \/ i = next
    BY <1>2, <2>1, ChecksAreASequence DEF Done
  <2>6. LogDone' /\ FatalDone'
    BY <1>2, <2>1, <2>2, <2>3, <2>5 DEF LogDone, FatalDone
  <2> QED
    BY <1>1, <1>2, <2>1, <2>4, <2>6 DEF IInv, Examining, Position
<1> QED
  BY <1>3, <1>4

LEMMA StepInvariant == IInv /\ [Next]_vars => IInv'
<1> SUFFICES ASSUME IInv, [Next]_vars
             PROVE  IInv'
  OBVIOUS
<1> USE DEF Examining
<1>1. CASE Type
  BY <1>1 DEF IInv, Type
<1>2. ASSUME NEW line, Enter(line)
      PROVE  IInv'
  BY <1>2 DEF IInv, Enter
<1>3. CASE RunBnfc
  BY <1>2, <1>3 DEF RunBnfc
<1>4. CASE Remake
  BY <1>2, <1>4 DEF Remake
<1>5. CASE Inform
  BY <1>5, ExitInvariant DEF Inform
<1>6. CASE ReadGrammar
  <2>1. CASE Exit("failure")
    BY <2>1, ExitInvariant
  <2>2. CASE pc' = "checking" /\ UNCHANGED <<args, mode, next, log, output, exit>>
    <3>1. next' = 1 /\ log' = {} /\ exit' = "none" /\ pc' = "checking"
      BY <1>6, <2>2 DEF IInv, ReadGrammar
    <3>2. \A i \in DOMAIN checks : ~Done(i)'
      BY <3>1, ChecksAreASequence DEF Done
    <3> QED
      BY <3>1, <3>2 DEF IInv, Position, LogSound, LogDone, FatalDone
  <2> QED
    BY <1>6, <2>1, <2>2 DEF ReadGrammar
<1>7. CASE parseCF
  BY <1>7, CheckInvariant
<1>8. CASE Accept
  <2>1. CASE target = "Check"
    BY <1>8, <2>1, ExitInvariant DEF Accept
  <2>2. CASE target # "Check"
    BY <1>8, <2>2 DEF IInv, Accept, Position, LogSound, LogDone, FatalDone, Done,
                      target, opts, Reported
  <2> QED
    BY <2>1, <2>2
<1>9. CASE writeFiles
  BY <1>9 DEF IInv, writeFiles, Position, LogSound, LogDone, FatalDone, Done,
              target, opts, Reported
<1>10. CASE Return
  BY <1>10, ExitInvariant DEF Return
<1>11. CASE UNCHANGED vars
  BY <1>11 DEF vars, IInv, Position, LogSound, LogDone, FatalDone, Done,
               target, opts, Reported
<1> QED
  BY <1>1, <1>3, <1>4, <1>5, <1>6, <1>7, <1>8, <1>9, <1>10, <1>11 DEF Next

(* The checks that are done are always accounted for.                       *)
THEOREM ChecksAccounted == Spec => []IInv
BY InitInvariant, StepInvariant, PTL DEF Spec

-----------------------------------------------------------------------------
(* When all checks are done, the log is what the grammar has of the defects  *)
(* that concern the target, and a fatal one was forced.                     *)
LEMMA AllDone ==
    ASSUME IInv, Examining, next > Len(checks)
    PROVE  /\ log = grammar \cap Reported(target)
           /\ grammar \cap Fatal(target) # {} => opts.force = "yes"
<1>1. \A i \in DOMAIN checks : Done(i)
  BY ChecksAreASequence DEF IInv, Position, Done
<1>2. LogSound /\ LogDone /\ FatalDone
  BY DEF IInv
<1>3. grammar \cap Reported(target) \subseteq log
  BY <1>1, <1>2, ChecksAreASequence DEF LogDone, Reported
<1>4. grammar \cap Fatal(target) # {} => opts.force = "yes"
  BY <1>1, <1>2, ChecksAreASequence DEF FatalDone, Fatal
<1> QED
  BY <1>2, <1>3, <1>4 DEF LogSound

(* Nothing is written before every check has been made and has reported      *)
(* what it found, and no fatal defect passes without --force.               *)
THEOREM OutputCheckedAlways == Spec => []OutputChecked
<1>1. IInv => OutputChecked
  BY AllDone, FatalIsReported DEF IInv, OutputChecked, Position, Examining
<1> QED
  BY <1>1, ChecksAccounted, PTL

(* The checks end a run with a failure exactly when the grammar has a defect *)
(* that is fatal for the target and --force was not given.                  *)
THEOREM VerdictAlways == Spec => Verdict
<1>1. ASSUME IInv, [Next]_vars, pc = "checking", pc' # "checking"
      PROVE  exit' = "failure" <=> opts.force # "yes" /\ grammar \cap Fatal(target) # {}
  <2>1. parseCF \/ Accept
    BY <1>1 DEF Next, vars, Type, RunBnfc, Remake, Enter, Inform, ReadGrammar,
                writeFiles, Return
  <2>2. CASE parseCF
    <3> DEFINE c == checks[next]
    <3>1. /\ c.of \in grammar /\ target \in c.fatal /\ opts.force # "yes"
          /\ exit' = "failure" /\ c \in ToSet(checks)
      BY <1>1, <2>2, ChecksAreASequence DEF parseCF, dieUnlessForce, Exit
    <3> QED
      BY <3>1 DEF Fatal
  <2>3. CASE Accept
    <3>1. exit' # "failure"
      BY <1>1, <2>3 DEF Accept, Exit, IInv
    <3>2. grammar \cap Fatal(target) # {} => opts.force = "yes"
      BY <1>1, <2>3, AllDone DEF Accept, Examining
    <3> QED
      BY <3>1, <3>2
  <2> QED
    BY <2>1, <2>2, <2>3
<1>2. IInv /\ [Next]_vars => [pc = "checking" /\ pc' # "checking" =>
         (exit' = "failure" <=> opts.force # "yes" /\ grammar \cap Fatal(target) # {})]_vars
  BY <1>1
<1> QED
  BY <1>2, ChecksAccounted, PTL DEF Spec, Verdict

-----------------------------------------------------------------------------
(* Modes: what a command line was parsed to, and what a Makefile repeats.   *)

Parsed(m) == \E line : isLine(line) /\ m = parse(line) /\ m.kind = "Target"

Printed(m) == printOptions([m.opts EXCEPT !.optMake = "none"], m.file)

(* The mode of a run comes from a command line; the recipe in the Makefile  *)
(* is what is printed of the mode of a run for Haskell.                     *)
Modes ==
    /\ mode.kind = "Target" => Parsed(mode)
    /\ makefile = <<>> <=> made = NoMode
    /\ makefile # <<>> =>
          Parsed(made) /\ made.opts.target \in haskellTargets /\ makefile = Printed(made)

MInv == TypeOK /\ Modes

LEMMA ParsedIsMode ==
    ASSUME NEW m, Parsed(m)
    PROVE  /\ m.kind = "Target" /\ m # NoMode
           /\ m = [kind |-> "Target", opts |-> m.opts, file |-> m.file]
           /\ m.opts \in [fields -> values] /\ m.file \in Files
           /\ Matching(m.opts)
<1>1. PICK line : isLine(line) /\ m = parse(line) /\ m.kind = "Target"
  BY DEF Parsed
<1>2. /\ m = [kind |-> "Target", opts |-> options(line, allOptions),
              file |-> line[first(at(line, Files))]]
      /\ at(line, Files) # {}
  BY <1>1, ParsedIs
<1>3. m.opts \in [fields -> values]
  BY <1>1, <1>2, OptionsTyped
<1>4. m.file \in Files
  <2>1. at(line, Files) \in SUBSET Nat
    BY <1>1 DEF isLine, at
  <2>2. first(at(line, Files)) \in at(line, Files)
    BY <1>2, <2>1, FirstIs
  <2> QED
    BY <1>2, <2>2 DEF at
<1>5. Matching(m.opts)
  BY <1>1, AcceptedMatches DEF Matching
<1> QED
  BY <1>1, <1>2, <1>3, <1>4, <1>5 DEF NoMode

(* parseMode gives one of the modes, and an accepted one of a line.         *)
LEMMA ParseModeIs ==
    ASSUME NEW line, isLine(line)
    PROVE  /\ parseMode(line).kind \in {"Help", "Info", "UsageError", "Target"}
           /\ parseMode(line) # NoMode
           /\ parseMode(line).kind = "Target" => Parsed(parseMode(line))
<1> DEFINE t == translateOldOptions(line)
<1>1. isLine(t)
  BY DEF isLine, translateOldOptions
<1> HIDE DEF t
<1>2. parse(t).kind \in {"Help", "Info", "UsageError", "Target"}
  BY DEF parse, UsageError
<1>3. parseMode(line) = parse(t)
  BY DEF parseMode, t
<1> QED
  BY <1>1, <1>2, <1>3 DEF Parsed, NoMode

(* Without --makefile, the options of a run for Haskell still match it.      *)
LEMMA UnmadeMatches ==
    ASSUME NEW m, Parsed(m), m.opts.target \in haskellTargets
    PROVE  LET o == [m.opts EXCEPT !.optMake = "none"]
           IN  o \in [fields -> values] /\ Haskell(o) /\ o["optMake"] = "none"
<1> DEFINE o == [m.opts EXCEPT !.optMake = "none"]
<1>1. /\ m.opts \in [fields -> values] /\ Matching(m.opts)
      /\ "optMake" \in fields /\ "target" \in fields /\ defaultOptions["optMake"] = "none"
  BY ParsedIsMode DEF fields, defaultOptions
<1>2. "none" \in values
  BY <1>1 DEF values, fields
<1>3. /\ o \in [fields -> values] /\ o["optMake"] = "none"
      /\ \A f \in fields : f # "optMake" => o[f] = m.opts[f]
  BY <1>1, <1>2
<1> HIDE DEF o
<1>4. Matching(o)
  BY <1>1, <1>3 DEF Matching
<1> QED
  BY <1>1, <1>3, <1>4 DEF Haskell, o

LEMMA PrintedIsLine ==
    ASSUME NEW m, Parsed(m), m.opts.target \in haskellTargets
    PROVE  isLine(Printed(m)) /\ Printed(m) # <<>>
<1> DEFINE o == [m.opts EXCEPT !.optMake = "none"]
<1>1. Recipe(printOptions(o, m.file), o, m.file)
  BY UnmadeMatches, ParsedIsMode, RecipeIs
<1> HIDE DEF o
<1>2. m.file \in ToSet(printOptions(o, m.file))
  BY <1>1 DEF Recipe
<1>3. printOptions(o, m.file) # <<>>
  BY <1>2 DEF ToSet
<1> QED
  BY <1>1, <1>3 DEF Recipe, Printed, o

LEMMA InitModes == Init => MInv
<1> SUFFICES ASSUME Init PROVE MInv
  OBVIOUS
<1>1. TypeOK
  <2>1. <<>> \in Seq(Names) /\ Len(<<>>) = 0 /\ 0 <= MaxArgs /\ 1 \in 1..(Len(checks) + 1)
    BY ChecksAreASequence, BoundAssumption
  <2>2. NoMode.kind = "None"
    BY DEF NoMode
  <2> QED
    BY <2>1, <2>2 DEF Init, TypeOK
<1>2. Modes
  BY DEF Init, Modes, NoMode
<1> QED
  BY <1>1, <1>2 DEF MInv

LEMMA ExitModes ==
    ASSUME MInv, NEW e \in {"success", "failure", "crash"}, Exit(e),
           UNCHANGED <<makefile, made>>
    PROVE  MInv'
<1>0. NoMode.kind = "None"
  BY DEF NoMode
<1>1. TypeOK'
  <2>1. <<>> \in Seq(Names) /\ Len(<<>>) = 0 /\ 0 <= MaxArgs /\ 1 \in 1..(Len(checks) + 1)
    BY ChecksAreASequence, BoundAssumption
  <2> QED
    BY <1>0, <2>1 DEF MInv, TypeOK, Exit
<1>2. Modes'
  <2>1. mode'.kind # "Target" /\ UNCHANGED <<makefile, made>>
    BY <1>0 DEF Exit
  <2> QED
    BY <2>1 DEF MInv, Modes, Parsed, Printed
<1> QED
  BY <1>1, <1>2 DEF MInv

LEMMA EnterModes ==
    ASSUME MInv, NEW line, isLine(line), Enter(line)
    PROVE  MInv'
<1>1. /\ pc' = "parsed" /\ args' = <<>> /\ mode' = parseMode(line) /\ exit' = "none"
      /\ UNCHANGED <<grammar, next, log, output, makefile, made>>
  BY DEF Enter
<1>2. /\ mode'.kind \in {"Help", "Info", "UsageError", "Target"}
      /\ mode' # NoMode
      /\ mode'.kind = "Target" => Parsed(mode)'
  BY <1>1, ParseModeIs DEF Parsed
<1>3. TypeOK'
  <2>1. <<>> \in Seq(Names) /\ Len(<<>>) = 0 /\ 0 <= MaxArgs
    BY BoundAssumption
  <2> QED
    BY <1>1, <1>2, <2>1 DEF MInv, TypeOK
<1>4. Modes'
  BY <1>1, <1>2 DEF MInv, Modes, Parsed, Printed
<1> QED
  BY <1>3, <1>4 DEF MInv

(* A step of the checks leaves the modes alone.                             *)
LEMMA CheckModes ==
    ASSUME MInv, parseCF
    PROVE  MInv'
<1> DEFINE c == checks[next]
<1>1. pc = "checking" /\ next \in DOMAIN checks /\ mode.kind = "Target"
  BY DEF parseCF, MInv, TypeOK
<1>2. CASE Exit("failure") /\ UNCHANGED <<makefile, made>>
  BY <1>2, ExitModes
<1>3. CASE /\ next' = next + 1 /\ log' \subseteq log \cup ({c.of} \cap grammar)
           /\ UNCHANGED <<pc, args, mode, grammar, output, exit, makefile, made>>
  <2>1. next + 1 \in 1..(Len(checks) + 1)
    BY <1>1, ChecksAreASequence
  <2>2. TypeOK'
    BY <1>3, <2>1 DEF MInv, TypeOK, opts
  <2>3. Modes'
    BY <1>3 DEF MInv, Modes, Parsed, Printed
  <2> QED
    BY <2>2, <2>3 DEF MInv
<1> QED
  <2>1. CASE c.of \in grammar /\ target \in c.fatal
    BY <1>2, <1>3, <2>1 DEF parseCF, dieUnlessForce
  <2>2. CASE ~(c.of \in grammar /\ target \in c.fatal)
    <3>1. log' \subseteq log \cup ({c.of} \cap grammar)
      BY <2>2 DEF parseCF, Report
    <3> QED
      BY <1>3, <2>2, <3>1 DEF parseCF
  <2> QED
    BY <2>1, <2>2

(* A backend changes no mode, and what it leaves as Makefile is printed of   *)
(* the mode it was called with.                                             *)
LEMMA WriteModes ==
    ASSUME MInv, writeFiles
    PROVE  MInv'
<1>1. /\ pc = "writing" /\ output' \in {"some", "all"} /\ Parsed(mode)
      /\ UNCHANGED <<pc, args, mode, grammar, next, log, exit>>
  BY DEF writeFiles, MInv, TypeOK, Modes
<1>2. \/ UNCHANGED <<makefile, made>>
      \/ target \in haskellTargets /\ makefile' = recipe /\ made' = mode
      \/ makefile' = <<>> /\ made' = NoMode
  BY DEF writeFiles
<1>3. recipe = Printed(mode)
  BY DEF recipe, Printed, opts
<1>4. target \in haskellTargets => recipe # <<>> /\ mode # NoMode
  BY <1>1, <1>3, PrintedIsLine, ParsedIsMode DEF target, opts
<1>5. TypeOK'
  <2>1. makefile' = <<>> <=> made' = NoMode
    BY <1>2, <1>4 DEF MInv, TypeOK
  <2> QED
    BY <1>1, <2>1 DEF MInv, TypeOK, opts
<1>6. Modes'
  <2>1. mode'.kind = "Target" => Parsed(mode)'
    BY <1>1 DEF Parsed
  <2>2. /\ makefile' = <<>> <=> made' = NoMode
        /\ makefile' # <<>> =>
              /\ Parsed(made)' /\ made'.opts.target \in haskellTargets
              /\ makefile' = Printed(made)'
    <3>1. CASE UNCHANGED <<makefile, made>>
      BY <3>1 DEF MInv, Modes, Parsed, Printed
    <3>2. CASE target \in haskellTargets /\ makefile' = recipe /\ made' = mode
      BY <1>1, <1>3, <1>4, <3>2 DEF Parsed, Printed, target, opts
    <3>3. CASE makefile' = <<>> /\ made' = NoMode
      BY <3>3
    <3> QED
      BY <1>2, <3>1, <3>2, <3>3
  <2> QED
    BY <2>1, <2>2 DEF Modes
<1> QED
  BY <1>5, <1>6 DEF MInv

LEMMA StepModes == IInv /\ MInv /\ [Next]_vars => MInv'
<1> SUFFICES ASSUME IInv, MInv, [Next]_vars
             PROVE  MInv'
  OBVIOUS
<1>1. CASE Type
  <2>1. TypeOK'
    <3>1. PICK a \in Names : args' = Append(args, a)
      BY <1>1 DEF Type
    <3>2. args' \in Seq(Names) /\ Len(args') <= MaxArgs
      BY <1>1, <3>1, BoundAssumption DEF MInv, TypeOK, Type
    <3> QED
      BY <1>1, <3>2 DEF MInv, TypeOK, Type
  <2>2. Modes'
    BY <1>1 DEF MInv, Modes, Type, Parsed, Printed
  <2> QED
    BY <2>1, <2>2 DEF MInv
<1>2. CASE RunBnfc
  <2>1. isLine(args)
    BY DEF MInv, TypeOK, isLine
  <2> QED
    BY <1>2, <2>1, EnterModes DEF RunBnfc
<1>3. CASE Remake
  <2>1. isLine(makefile)
    BY <1>3, PrintedIsLine DEF Remake, MInv, Modes
  <2> QED
    BY <1>3, <2>1, EnterModes DEF Remake
<1>4. CASE Inform
  <2>1. \E e \in {"success", "failure", "crash"} : Exit(e)
    BY <1>4 DEF Inform
  <2> QED
    BY <1>4, <2>1, ExitModes DEF Inform
<1>5. CASE ReadGrammar
  <2>1. CASE Exit("failure")
    BY <1>5, <2>1, ExitModes DEF ReadGrammar
  <2>2. CASE /\ pc' = "checking" /\ grammar' \in Grammars
             /\ UNCHANGED <<args, mode, next, log, output, exit>>
    <3>1. /\ mode.kind = "Target" /\ mode # NoMode /\ opts \in [fields -> values]
          /\ UNCHANGED <<makefile, made>>
      BY <1>5, ParsedIsMode DEF ReadGrammar, MInv, Modes, opts
    <3>2. log = {}
      BY <1>5 DEF ReadGrammar, IInv
    <3>3. TypeOK'
      BY <2>2, <3>1, <3>2 DEF MInv, TypeOK, opts, fields
    <3>4. Modes'
      BY <2>2, <3>1 DEF MInv, Modes, Parsed, Printed
    <3> QED
      BY <3>3, <3>4 DEF MInv
  <2> QED
    BY <1>5, <2>1, <2>2 DEF ReadGrammar
<1>6. CASE parseCF
  BY <1>6, CheckModes
<1>7. CASE Accept
  <2>1. CASE Exit("success")
    BY <1>7, <2>1, ExitModes DEF Accept
  <2>2. CASE /\ pc' = "writing"
             /\ UNCHANGED <<args, mode, grammar, next, log, output, exit, makefile, made>>
    <3>1. TypeOK'
      BY <1>7, <2>2 DEF MInv, TypeOK, opts, Accept
    <3>2. Modes'
      BY <2>2 DEF MInv, Modes, Parsed, Printed
    <3> QED
      BY <3>1, <3>2 DEF MInv
  <2> QED
    BY <1>7, <2>1, <2>2 DEF Accept
<1>8. CASE writeFiles
  BY <1>8, WriteModes
<1>9. CASE Return
  <2>1. \E e \in {"success", "failure", "crash"} : Exit(e)
    BY <1>9 DEF Return
  <2> QED
    BY <1>9, <2>1, ExitModes DEF Return
<1>10. CASE UNCHANGED vars
  BY <1>10 DEF vars, MInv, TypeOK, Modes, Parsed, Printed, opts
<1> QED
  BY <1>1, <1>2, <1>3, <1>4, <1>5, <1>6, <1>7, <1>8, <1>9, <1>10 DEF Next

(* Every mode is that of a command line, and the Makefile repeats one.      *)
THEOREM ModesInvariant == Spec => []MInv
BY InitModes, StepModes, ChecksAccounted, PTL DEF Spec

(* Type correctness of the driver, for every command line and grammar.      *)
THEOREM TypeCorrect == Spec => []TypeOK
<1>1. MInv => TypeOK
  BY DEF MInv
<1> QED
  BY <1>1, ModesInvariant, PTL

(* Whatever is on the command line and in whatever order: an option that is  *)
(* accepted is one of the target's, wherever the target is named.           *)
THEOREM FieldsMatchTargetAlways == Spec => []FieldsMatchTarget
<1>1. MInv => FieldsMatchTarget
  BY ParsedIsMode DEF MInv, Modes, FieldsMatchTarget, Matching, Supports, fields, opts, target
<1> QED
  BY <1>1, ModesInvariant, PTL

(* Make runs bnfc with the options of the run that wrote the Makefile,      *)
(* whatever options that run had, but for --makefile and --force.           *)
THEOREM RecipeFaithfulAlways == Spec => []RecipeFaithful
<1>1. ASSUME MInv, makefile # <<>>
      PROVE  parseMode(makefile) =
                [made EXCEPT !.opts = [@ EXCEPT !.optMake = "none", !.force = "no"]]
  <2> DEFINE o == [made.opts EXCEPT !.optMake = "none"]
  <2>1. Parsed(made) /\ made.opts.target \in haskellTargets /\ makefile = Printed(made)
    BY <1>1 DEF MInv, Modes
  <2>2. /\ made = [kind |-> "Target", opts |-> made.opts, file |-> made.file]
        /\ made.file \in Files /\ made.opts \in [fields -> values]
    BY <2>1, ParsedIsMode
  <2>3. o \in [fields -> values] /\ Haskell(o) /\ o["optMake"] = "none"
    BY <2>1, UnmadeMatches
  <2> HIDE DEF o
  <2>4. parseMode(makefile) =
           [kind |-> "Target", opts |-> [o EXCEPT !["force"] = "no"], file |-> made.file]
    BY <2>1, <2>2, <2>3, RoundTrip DEF Printed, o
  <2>5. [made.opts EXCEPT !.optMake = "none", !.force = "no"] = [o EXCEPT !["force"] = "no"]
    BY <2>2 DEF o
  <2>6. [made EXCEPT !.opts = [@ EXCEPT !.optMake = "none", !.force = "no"]]
           = [kind |-> "Target", opts |-> [o EXCEPT !["force"] = "no"], file |-> made.file]
    BY <2>2, <2>5
  <2> QED
    BY <2>4, <2>6
<1>2. MInv => RecipeFaithful
  BY <1>1 DEF RecipeFaithful
<1> QED
  BY <1>2, ModesInvariant, PTL
=============================================================================
