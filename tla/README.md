# BNFC in TLA+

BNFC reads a labelled BNF grammar and generates a compiler front end for it: abstract
syntax, lexer, parser, layout resolver, pretty printer, test program and Makefile, for
Haskell, C, C++, Java, OCaml and some documentation formats.  This directory models
the parts of it, and of the code it generates, whose behaviour goes over many
steps: the layout resolver; the lexer and the pretty printer of the C backend with their
buffers, and the lists of their parsers; the grammar that the tree-sitter backend prints; the way
files are put on disk and made again; and the way from the command line through the checks of a
grammar to a backend.
`PROJECT.json` lists components, runs, mutants, the source lines behind each
definition, hazards, findings and theorems.

Paths below are relative to `src/source/`; `Backend/` stands for `src/BNFC/Backend/`.

## 1. The system

### Inventory

| part | code | state | operations | what is hard | what makes it correct |
|---|---|---|---|---|---|
| command line | `main/Main.hs`, `src/BNFC/Options.hs` | none; arguments in, `SharedOptions` out | `parseMode`, `printOptions` | several passes over the same arguments; options that override one another; a printed form that must parse back | only supported options reach a backend; the recipe gives the same options |
| checks | `src/BNFC/GetCF.hs`, `parseCF` | what has been reported; `--force` | 15 checks in a fixed order, for some targets fatal, for others a warning | what a forced defect does to later checks and to the backend | nothing is written before all checks are made; a refusal for each fatal defect and for nothing else |
| conversion of grammars | `GetCF.hs`, `CF.hs` | writer monad for warnings | macros for lists and coercions, names for `rules`, reversible list categories | a fact about the grammar that is computed before the grammar is changed | no conflicts; a reversible list keeps its meaning |
| lists in parsers (generated C, C++) | `Backend/C/CFtoBisonC.hs` | the parser's stack | rules, actions, entry methods | a list is linked from the head or grows at the end, its rules are turned around or not, and four places must agree on who reverses it | trees come back in the order of the text; bounded stack |
| type checker of definitions | `TypeChecker.hs` | error monad | `checkDefinitions` | recursion, list constructors | a defined label evaluates to a tree of its type |
| empty matches | `Backend/TreeSitter/MatchesEmpty.hs`, `CFtoTreeSitter.hs` | fixed-point iteration | `fixPointKnownEmpty`, `transformEmptyMatches` | mutual recursion; rules rewritten by each other's result | least fixed point; same language, as unambiguous |
| empty types | `Check/EmptyTypes.hs` | fixed-point iteration | `emptyData` | mutual recursion | least fixed point |
| regular expressions | `Regex.hs`, `regexMinus.hs` | none | nullability, simplification, difference | pure algorithms | same language |
| layout resolver (generated) | `Backend/Haskell/CFtoLayout.hs` | stack of blocks, previous token, lazy input | `res`: equations that are tried in order | tentative blocks, several blocks ended by one token, brackets against columns, end of input | never an internal error; output nests; elements are separated; it ends |
| file writer | `Backend/Base.hs`, `src/BNFC/Utils.hs` | the disk: a file and its `.bak` for each generated file | `writeFiles`, `writeFileRep` | dying half-way, lazily computed content, undecodable old files, several writers | the right content after an undisturbed run; old contents are saved |
| Makefile and regeneration (generated) | `Backend/Haskell.hs`, `Backend/Common/Makefile.hs` | modification times | rules `bnfcRule`, `distCleanRule` | several targets in one recipe, `make -j`, edits in between | make converges; one run suffices |
| lexer and buffer (generated C, C++) | `Backend/C/CFtoFlexC.hs`, `Backend/C.hs` | Flex start condition, growing buffer, comments, positions | string, character and comment rules | start conditions that are left open, overflow of sizes | buffer live only within a string; no leak; text unchanged |
| printer (generated C) | `Backend/C/CFtoCPrinter.hs` | output buffer, indentation | `renderC`, `renderS`, `bufAppendS`, `resizeBuffer`, one function for each category | growth at the boundary; white space that is put out and taken back; a result that is a view of the buffer | terminated, never beyond its size; the text reads back as the tree |
| text of the other backends | `Backend/*` | none | one function from grammar to text each | quoting, naming | the generated code compiles |

The LBNF lexer and parser of BNFC (`Lex.x`, `Par.y`, `Abs.hs`, `Print.hs`) are
generated by BNFC itself.

### How the parts interact

`main` parses the arguments, reads the grammar file, and passes both to `parseCF`,
which either ends the program or returns a `CF`.  `maketarget` selects a backend; a backend is a
`MkFiles` action that lists named contents, and `writeFiles` then writes them in
order.  Contents are lazy: the generator of a text runs while its file is being
written, so an error in a generator leaves a truncated file.  With `--makefile` the
Haskell backends write, as the last file, a Makefile whose recipe is `bnfc` and
`printOptions opts{optMake = Nothing}`; it joins the parts to a loop, as GNU make starts the next
bnfc.  The generated layout resolver stands between the generated lexer
and parser and shares only the token list with them.

### Concurrency and failure

BNFC is sequential.  Concurrency comes from `make -j` (processes that write the same
files); failure from processes that die, exceptions in lazy contents, and files that
cannot be read.  The layout resolver runs in lockstep with lazy lexing and
parsing, and its difficulty is protocol: which token sequences lead where.

## 2. Modules

| module | models | extends |
|---|---|---|
| `LayoutResolver` | `resolveLayout` as a state machine, one action per equation of `res` | |
| `LayoutProperties` | its invariants and action properties; the refinement of `BracketedOutput` | `LayoutResolver` |
| `BracketedOutput` | abstract specification: what a resolved token list looks like, without columns and blocks | |
| `LayoutColumns` | tidy input, the column properties on it, and the invariant behind them | `LayoutProperties` |
| `LayoutResolver_proofs` | proofs, for every grammar and input: the shape of the stack, and the refinement of `BracketedOutput` | `LayoutProperties` |
| `LayoutColumns_proofs` | proofs: separators and columns | `LayoutColumns`, `LayoutResolver_proofs` |
| `OutputFiles` | `writeFiles` and `writeFileRep`, step by step, for any number of processes | |
| `Regeneration` | the user, GNU make and the generated rules around `OutputFiles` | `OutputFiles` |
| `Regeneration_proofs` | proofs, for any files, texts, grammars and number of processes | `Regeneration` |
| `Options` | tables of options, `parseMode`, `printOptions` | |
| `Driver` | `main` and `parseCF`: one command after another in a directory | `Options` |
| `Driver_proofs` | proofs, for every command line, every list of checks and every set of grammars | `Driver` |
| `LexicalSyntax` | the documented reading of a text: its tokens, by regular expressions | |
| `CLexer` | the generated C lexer: start conditions, buffer, and the parse that calls it | `LexicalSyntax` |
| `CLexer_proofs` | proofs, for every lexical syntax, text, initial size and word size: the buffer, and that the tokens are those of the reading | `CLexer` |
| `CPrinter` | the generated C pretty printer, for any grammar: printing, rendering, buffer | `LexicalSyntax` |
| `CPrinterProperties` | the sentence of a tree, what the printed text owes to it, and the grammars whose indentation shows their braces (`Tidy`) | `CPrinter` |
| `CPrinter_proofs` | proofs, for every grammar, tree, initial size and width of indentation | `CPrinter`, `CPrinterProperties` |
| `ListRules` | macros for lists and coercions, reversible list categories | |
| `Bison` | an SLR automaton for a grammar (external: what Bison makes of it) | |
| `BisonLists` | the generated parsers: rules, actions and entry methods, run on a text | `ListRules`, `Bison` |
| `BisonListsProperties` | the texts of a tree, and the bound of the stack | `BisonLists` |
| `BisonDerivations` | what a grammar derives from a text, as it was declared, and that parsers keep to it | `BisonLists` |
| `BisonLists_proofs` | proofs, for every grammar and text | `BisonDerivations` |
| `EmptyMatches` | the fixed point and the rules printed for tree-sitter | |
| `EmptyMatchesProperties` | the parse trees of texts, before and after, as facts that follow from rules | `EmptyMatches` |
| `EmptyMatches_proofs` | proofs, for every grammar | `EmptyMatchesProperties` |
| `MCLayoutResolver`, `MCRegeneration`, `MCDriver`, `MCCLexer`, `MCCPrinter`, `MCBisonLists`, `MCEmptyMatches` | values of the constants for TLC | |

Before some definitions stands one whose name extends theirs (`closersOfOuter` before
`closers`, `dieNever` before `dieUnlessForce`).  It is a mutated form: the same code with
a likely bug.  Nothing uses it; put in place of the definition, it makes a property
fail, which shows that the property says something.

### LayoutResolver

State: `st`, the stack, innermost block first; `pt`, the previous token; `ts`, the next
tokens, at most two, since no equation looks further; `out`, the tokens put out by the
last step; `outcome`.  Actions `Lex` and `LexEof` supply the input, any tokens at
increasing positions; all other actions are equations of `res`:

| equation of `res` (`CFtoLayout.hs`) | action |
|---|---|
| empty stack, unmatched closing bracket, and the `error` calls | `Fail`, with the error of `layoutError` |
| opening bracket | `OpenExplicit` |
| closing bracket, ending implicit blocks in front of it | `CloseExplicit` |
| layout stop word | `StopAtTop`, `StopBlock` |
| new line, less indented | `Dedent` |
| new line, tentative block | `Confirm` |
| layout word, with or without a brace after it | `StartExplicit`, `StartImplicit` |
| other token | `Plain` |
| end of input | `EndEmptyInput`, `EndExplicit`, `EndTop`, `EndImplicit` |

Haskell tries equations in order, so a guard (`AtClose`, `AtStop`, `AtDedent`,
`AtConfirm`, `Settled`) contains the negation of the earlier ones.  `Ready` waits for
the second token also where Haskell would not yet look at it, which does
not change the output.  The fields `head` and `virtual` of a token exist only for
the properties.  Delimiters are `{`, `}` and `;`: `transDef` in `GetCF.hs` gives no others.

`LayoutColumns` adds a history variable, `tidy`: no line that has been passed on begins with a bracket,
or left of a block around the brackets that it is in (`TidySoFar`).  `res` handles
brackets before it looks at columns and looks at no column outside the innermost brackets, so
that on other inputs the columns of the stack get out of order (section 5).

### OutputFiles and Regeneration

`disk` and `bak` hold the contents of each file and its `.bak`, `fresh` the files that
are newer than the grammar.  A process goes through the steps of `writeFileRep`: read the old
file (an exception counts as "no file"), truncate, fill, and, if
there was an old file with another content, truncate and fill the `.bak` file.
Any step may be the last (`Die`).  In `Regeneration` the user edits
the grammar and the generated files, runs bnfc or make, or `make distclean`, and waits
for a command to end.  Make looks at the targets of `bnfcRule` in order and
starts the recipe for each that is missing or older than the grammar, if it has a
free job.  For more than one job this over-approximates GNU make, which may look at the
targets at other times than the model, but never runs more recipes.

### Options and Driver

An argument is a name; an option with an argument is one name for one value that is not the default
(`--outputdir=out`).  The tables of `Options` (`targetOptions`, `commonOptions`, `specificOptions`) consist of
triples: option, field, value.  `options` is the record that a command line gives: since `parseMode'`
composes updates with `foldl (.) id`, the leftmost option that sets a field
wins.  `parse` is `parseMode'`.  `parseMode` follows the passes of `parseMode'`: global options, unknown ones
(obsolete, removed, never known), target, options against the target, number of files.
In `Driver` a grammar is the set of its defects, as far as the checks tell them apart.
`checks` is the list of checks of `parseCF` with the targets for which each is fatal or
warns; `dieUnlessForce` decides.  `writeFiles` is one step (`OutputFiles` has its inside);
it crashes when a Haskell backend meets a layout word that no rule mentions, and
may crash after a forced defect ("may produce ill-formed output or crash", says the
help text).  `Remake` is the recipe of the Makefile on disk.

### CLexer

A Flex rule is an action, guarded by its start condition; `Echo` is the default rule of
Flex, for the characters that no rule of the start condition matches.  `rest` is the text not
yet matched, `turn` says whether scanner or parser runs.  `literal_buffer` is `buffer`, and `heap`
counts the Buffers between `newBuffer` and `releaseBuffer` or `freeBuffer`; its
contents stay in `buffer` afterwards as behind a dangling pointer, so that a use of them would
show.  An append goes through `pending`: `Double` is one turn of the loop in
`bufferAllocateChars`, in unsigned arithmetic (`% Word`), and `Put` writes.
`bufferAppendString` is called with one character only and is modelled by the same steps.  The
parser may reject after any token (`Parser`): the scanner is then destroyed in whatever
start condition it is.  Comment delimiters are one character each, positions are left out.

`Reading` in `LexicalSyntax` is the reference: it gives the tokens of a text by position, from the regular
expressions of `docs/lbnf.rst` and the longest match, without start conditions.  It follows the
code in one point: any character but a newline may be escaped.  What else is to be kept out of literals is its
argument: newlines in strings for the lexer (`WithinLine`), escapes for the printer (`Undocumented`).  `BeginsAssumption` is that what begins a comment
begins no literal, word, blank or other comment; Flex, of two rules with equally long matches, would take the first.

### CPrinter

The printer is a recursive C program over a tree, so its state is `calls`, the calls still to be
made, innermost first (the C stack), beside its globals: `buf` (`buf_`, `cur_`, `buf_size`) and
`_n_`.  An action is one function of the generated file, up to its calls: `print` is `printX`
(`_n_ = 0`, `bufReset`, then the tree), `prPrintRule` the case of a constructor or the branch of a list,
`renderC` is split into the cases that touch `_n_` (`renderOpenBrace`, `renderCloseBrace`) and the
rest, and `resizeBuffer` is one turn of the doubling loop in `bufAppendS`.  `copied` is
`strncpy`: it stops at the first NUL and fills up with NUL, which is why the property that no NUL
is inside the text matters.  The grammar and the trees are constants.  The client calls the
printer up to `MaxPrints` times and looks at the buffer when a call has returned, as
`return buf_` lets it.

### ListRules, Bison, BisonLists, BisonDerivations

`terminatorRules`, `separatorRules` and `coercionRules` are the macros, `findAllReversibleCats` the
list categories whose rules can be turned around, `cfgReversibleCats` those of them that the
backends find under their final name.  `checkRule` is what the front end asks of the labels of
lists; a grammar that is declared satisfies it (`DeclaredAssumption`).  `constructRules` gives the rules of the `.y` file, `metas`
the `$k` of an action with the reversals that `generatePatterns` puts around or in front of
them, and `parseMethod` the reversal at the entry.  Mode `C` stands for C and for C++ without the
STL (lists linked from the head), `STL` for vectors that grow at the end.  `Init` chooses a grammar, a tree and
one of its texts; `Shift`, `Reduce` and `Return` run the parser that `Bison` builds of the rules.
`Bison` computes lookahead as SLR does, which is coarser than Bison's LALR: a grammar that
has no conflict here has none there.  The closures in `Bison` are stated as intersections of closed sets, not by
recursion, so that the module can be proved about.

`BisonDerivations` says what a parser's result owes to the text, without a parser: `built` is what a rule
makes of its arguments, with lists from the head and in order, and a set `Y` of readings `Derives` if it is
closed under the rules as declared.  `Sound`: the result is in every such `Y`, as a
reading of the whole text by the start category.  `Sound` speaks of all sets, so it is proved and not checked;
the run's `Parses` is the converse, that there is a result, for given trees.

### EmptyMatches

`go` is one iteration of `fixPointKnownEmpty`, `prRules` the printing of all rules when an
iteration adds nothing.  `sentence` marks the symbols of a rule that are optional,
`subtractEmptyString` lists the alternatives by the first symbol that is there.  `printed` adds
the empty alternative of the start symbol, which `prOneCat` writes around its whole rule.

## 3. Runs

| run | shows | bounds, and why they suffice |
|---|---|---|
| `LayoutNesting` | `TypeOK`, `NoInternalError`, `IInv`; refinement of `BracketedOutput` (`Bracketed`); `ElementsSeparated`, `Indented`, `ColumnInv`, `OffsideRule`; `Terminates` under fairness | 3 lines, 3 columns, six symbols with a layout word and a stop word of two characters and a plain token, top-level layout on and off by choice of `topLayout`: three blocks nested, ended together by one token, re-opened in the same line; 330,000 states |
| `RegenCommands` | `TypeOK`, `RunsOnce`, `OneInHand`, `Converges`, `Regenerated`, `BackupKept`, `CommandEnds` | two source files and the Makefile, two versions of the grammar, one generated text the same in both; edits into decodable and (with one job) undecodable text; processes die anywhere; make with one job and with two; 1,100,000 states |
| `DriverRuns` | `TypeOK`, `OutputChecked`, `Verdict`, `FieldsMatchTarget`, `RecipeFaithful` | for the checks, lines of three out of eight arguments and all grammars with at most two defects and what these imply, so that each check meets one before and one after it, forced and not; for the options, lines of four out of 20 arguments in any order: a file, `--makefile` and two options that override one another |
| `CLexer` | `TypeOK`, `BufferLive`, `Capacity`, `Lexes`, `Ends` | all texts of up to four out of nine characters, one for each class that a rule tells apart, up to six of those that make strings, and up to five of those that make symbols, one of which is the beginning of another; initial size 1, so that the buffer doubles three times, word size 2^16, the least that C allows for `unsigned int` |
| `CPrinter` | `TypeOK`, `Terminated`, `ReadsBack`, `Indented`, `Returns` | a language with two infix operators, calls, blocks, `if`, lists with separator, terminator and white space, names, strings and characters, with both kinds of quotes in them; trees up to three blocks deep; each tree printed first, and again after another; initial size 1, so that each text crosses the boundary several times, and the buffer is cut back and grown between |
| `BisonLists` | `TypeOK`, `NoConflict`, `BoundedStack`, `Parses` | every macro with every kind of separator, written-out rules that must not be turned around or that have terminals around them, lists of a token type, and of expressions with three precedences; both kinds of parser; entry by the list itself and by a category that uses it; lists of up to four elements and two levels; redundant parentheses |
| `EmptyMatches` | `TypeOK`, `Least`, `SameLanguage`, `Unambiguous`, `Ends` | all grammars of two categories and two terminals with up to two rules of up to two symbols, the same with an empty rule, and some with a rule of three symbols: chains, mutual recursion and sequences that are optional as a whole occur; texts of up to three tokens, numbers of parse trees up to "more than one" |
| `LayoutBracketElement`, `RegenBackupFirst`, `DriverAccepted`, `CLexerNewline`, `BisonDummies` | violations, section 5 | |

The properties in short:

* `NoInternalError`: no input reaches an equation whose comment says it cannot be.
* `Bracketed`: every brace that is inserted is closed by one that is inserted, in
  order with the brackets of the input; separators stand only between elements;
  the only input refused has an unmatched closing bracket; at the end all inserted blocks are
  closed and the last top-level element is terminated exactly once.
* `ElementsSeparated`, `OffsideRule`, `Indented`: the layout rule itself, the last two on tidy
  inputs (section 5).
* `Converges`, `RunsOnce`: a second `make` has nothing to do, and one recipe run serves
  all targets.  This needs `writeFileRep` to write even unchanged files, as it does: a
  file left alone would keep its old modification time.
* `Regenerated`, `OneInHand`, `BackupKept`: a successful run repairs whatever an earlier
  death left; a death harms at most the file in hand; what is replaced is saved, and
  a run that changes nothing costs no backup.  Old contents that cannot be decoded are
  excepted, see section 5.
* `OutputChecked`, `Verdict`: the checks, made one at a time, amount to one verdict.
* `FieldsMatchTarget`: an option before its target is judged like one after it.
* `RecipeFaithful`: print and parse are inverse on all options but `--force`.
* `BufferLive`, `Capacity`: the token buffer exists exactly in string literals, nothing
  leaks when a parse ends or fails, and characters and terminating 0 fit.
* `Lexes`: the tokens of a documented text are those of its reading, and a text that
  has none is either refused or leaves echoed characters or an open start condition.
* `Terminated`, `ReadsBack`, `Indented` (of `CPrinterProperties`): the printed text with its NUL
  fits; a client reads in it exactly the sentence of the tree, whatever was printed before, by the documented
  escapes and two more (section 5), so by the documented ones alone for a tree in which no String has an
  apostrophe and no Char is a double quote; each line is indented by the braces open there, where
  the grammar is `Tidy`.
* `Parses`, `NoConflict`, `BoundedStack`: the parser gives back every tree with every list in
  order, never has a choice, and where all lists are left-recursive needs a stack bounded by the
  depth of tree and parentheses.
* `Least`, `SameLanguage`, `Unambiguous`, `Ends`: exactly the categories that match the empty text
  are found; the printed grammar has the same texts for each category, but the empty one, which only the
  start symbol keeps, and no text gets a second parse tree.

`CHECK_DEADLOCK FALSE` stands where the system stops: the resolver at the end of its
input and after an error, the lexer, the printer and the parser when they are through, the
tree-sitter rules when they are printed, the driver when the longest command line has been typed and is
a bound, not a behaviour.  `RegenCommands` checks for deadlock.

### Fairness

`LayoutResolver!FairSpec` has weak fairness of `Next`: the parser drains a lazy list,
so a step that can be computed is.  `Regeneration!FairSpec` has weak fairness of
`Tools`: processes that the operating system schedules, and make, run on.  Nothing
makes the user act and nothing makes a process die.  `CLexer!FairSpec` has weak fairness of
`Next`: scanner and parser are one sequential program, which runs on; so are the generated printer
(`WF_vars(Printer)`, which leaves out the client's call), the generated Bison parser and the fixed point of the
tree-sitter backend.  The driver has no liveness
property; its loop over the checks is bounded by construction.

## 4. Proofs

`LayoutResolver_proofs` proves, for every set of symbols, layout and stop words,
brackets, token lengths and every input, `TypeOK` and `NoInternalError`
(`TypeCorrect`, `NoInternalErrorEver`) from the invariant `IInv` (`Invariant`).
`NoInternalError` alone is not inductive: that `closeTop` and `emptyStack` are unreachable depends
on the shape of the stack.  `IInv` adds `Based`: the outermost block is explicit or
top-level, of column at most 1, and no other is top-level; and that columns of input tokens are at
least 1.  Then a dedent never ends the outermost block (its column would have to exceed
the token's), a stop word ends only blocks of column above 1, and a closing bracket
stops at an explicit block or, if there is none above the bottom, is refused.  The lemmas `FromBased`,
`TailBased` and `PushBased` say that the three ways to change the stack keep it based.
Assumptions: `SymAssumption` (layout words, stop words and brackets are symbols of the
grammar), `BoundAssumption`, `NoTokAssumption`.  The bounds `MaxLine` and `MaxCol`
are arbitrary numbers.

`LayoutColumns_proofs` proves `ElementsSeparated` on any input, and `Indented` and `OffsideRule` on tidy input
(`ElementsAlwaysSeparated`, `IndentedAlways`, `OffsideAlways`), again for every grammar; token lengths must be
positive.  The invariant has two halves.  `LinesInv` (any input) says that a token begins a line exactly when
the previous token, inserted ones included, is on an earlier line: this is where `Dedent` must put its
brace at the end of the last line, and why the retry of the token still finds itself on a new one.  `OrderInv` (tidy
input) says that inside the same brackets a block is more indented than each confirmed one around it
(`OverConfirmed`), than each tentative one with which it may be confirmed together (`OverTentative`), and that a
token inside a line is not left of any block that it may add to (`Reached`).  `Indented` alone is
not inductive: `confirm` makes blocks definite whose columns were fixed when they were tentative, so the
order of tentative blocks counts, and this order rests on a token inside a line being right of the innermost
block, which again has to hold for the blocks that a closing bracket will expose.  The three ways to change
a stack have their lemmas again (`SuffixOrdered`, `PushOrdered`, `ConfirmOrdered`;
`SuffixWithin`, `PushWithin`).  A last fact is arithmetic: a block opened inside a line gets the
column of its first token, as the confirmed indentation is never above the innermost block (`IndentationIs`).

The second half of `LayoutResolver_proofs` proves that the resolver implements `BracketedOutput` (`OutputNests`), one lemma for each
action (`LexMaps`, `OpenMaps` to `EndMaps`): the step writes a chunk whose
tokens take the abstract brackets from those of the old stack to those of the new one, or is a stutter.  The abstract
effect of a chunk is a fold, and a chunk has any number of closing braces, so `FoldExists` and the lemmas after it
unfold folds token by token, by induction over a set of numbers.  The invariant `NestInv` adds to `IInv` that no token of the
input is an inserted one, that explicit blocks have column 0, and that a layout word is the previous
token only in front of its explicit bracket.  The theorem has the hypothesis `SeparateWords`: layout words, stop words and
brackets are different tokens.  It is needed: a word that is both a layout and a stop word starts no block where
it stops one, and then `BracketedOutput` is not met; BNFC does not ask for it.
`ParenAssumption` says that parentheses and square brackets are not braces.

`Regeneration_proofs` proves `TypeOK`, `RunsOnce`, `Converges`, `Regenerated`, `BackupKept` and `OneInHand` for any
source files and targets among them, texts, versions of the grammar and number of
processes.  None but `TypeOK` is inductive.  `IInv` says where the work is that is not yet done: what a
process has not brought up to date, this or another process still owes (`WorkLeft`); a target
that make has come to is fresh, or owed, or still in its list (`TargetsLeft`, `TargetsOnly`); processes write for the
grammar there is, as the user edits between commands (`SameVersion`, `AtRest`).  For one job (`OneJob`)
`HandKept` follows the file in hand through the six steps of `writeFileRep`: what its process
remembers of the old content is that of before the command, or the file had been replaced
already.  `OneInHand` and `BackupKept` are stated for one job: with two, a recipe may back up what the other has half
written.  Assumptions: the
source files are a nonempty list without the Makefile, and the targets are some of them
(`FilesAssumption`); processes are finite in number; and no generated text is
missing, half-written or undecodable (`ContentAssumption`).

`Driver_proofs` proves `OutputChecked` and `Verdict` (`OutputCheckedAlways`,
`VerdictAlways`) for every `Names`, `MaxArgs` and `Grammars`.  Its invariant `IInv` says of the checks before `next` that
what concerns the target has been reported (`LogDone`), that nothing else has
(`LogSound`), and that what was fatal was forced (`FatalDone`).  The proofs use of
the list of checks only that it is a sequence, so a new check does not touch them.
`TypeOK`, `FieldsMatchTarget` and `RecipeFaithful` follow from a second invariant, `MInv`: the mode in hand is what
`parseMode` makes of some command line, and the Makefile on disk is what `printOptions` prints for
the run that made it.  So both come down to facts about command lines, of any length: `AcceptedMatches`
(every argument that is accepted is a file or an option of the target, wherever the target stands), and `RoundTrip`, that printed
options are accepted and give the same record.  For the latter, each field has to be set by what is printed for
it, to the value it had (`SetIsPrinted`, `PrintedIsSet`), by the leftmost such option: the only fields
that several printed options set are those of `--agda` and the token options, and `Precedes` is their order.
Assumptions: names of grammar files are not names of options (`FilesAssumption`), `MaxArgs` is a number.

`CLexer_proofs` proves `TypeOK`, `BufferLive`, `Capacity` and `Lexes` for every text, set of comment
delimiters, initial size and word size; `Lexes` also for every set of letters, symbols, reserved words and escapes.
None but `TypeOK` is inductive.
`Owned` adds that a token returned from inside a literal is an error, after which the
parser does not call the scanner again; `Bounded` adds that the buffer holds no more
than what has been matched.  The latter gives `DoublingSuffices`: when the buffer must grow it
is full but for the terminating 0, so one doubling is enough, and by `WordAssumption` (twice
the text and two more fit in a word) it does not overflow.  Without this assumption it
can: where the size passes half a word, doubling makes it 0, and the loop does not end.

For `Lexes` (`LexesAlways`) the scanner, which knows its start condition, is compared with a reading that knows the whole text.
The invariant `Follows` says what a start condition means (`Means`): `Goes(input, tokens, i)`, that the reading of the text is
the tokens so far and then the reading from position `i`, where `i` is the next character, or that at which the open
literal or comment began; in a string, that the buffer, with the character on its way into it, is the value of what has been
matched (`InString`, `AfterBackslash`); in a comment, that it has not ended (`InBlock`).  A character literal is the odd one:
its token is returned before the closing quote is seen, so that the meaning of the start condition is about the
character to come.  Once something has been echoed, the text has no reading, which is the other half of `Lexes`: a text
that is not in the language leaves traces.  Each action has a lemma (`BlanksFollow` to `EndFollows`).  They rest on
lemmas about the reading alone: recursive functions over positions are unfolded by the least position at which two of
them differ (`EscapedStep`, `ValuesStep`, `ReadingsStep`); an item is of one kind, told by its first
character (`Kinds`); and what a rule matches is the longest item (`WordContinues`, `SymbolContinues`,
`StringContinues`, `CharIsOne`), or where none matches there is no item (`StringFails`, `BlockFails`, `CharFails`, `SymbolFails`).
Assumptions: `BeginsAssumption`; that escapes stand for characters; and that symbols are nonempty and begin with none of the
characters that begin something else (`SymbolsAssumption`).

`CPrinter_proofs` proves `TypeOK` and `Terminated` for every grammar, set of trees, initial size
of at least 1 and number of calls.  `Terminated` is not inductive: it needs `Typed`, that every pending call
has an argument of its kind, so that nothing that is still to be printed contains a NUL.  The
lemmas `ResizedHolds`, `WrittenHolds` and `StrippedHolds` say that the three ways to change the
buffer keep `Holds`: a NUL at `cur`, none before it, and room for both.  Assumptions: of the trees that each has a rule
and its subtrees are trees (`TreesAssumption`), of the characters that NUL is none.

It also proves `Indented`, on the hypothesis `Tidy` (`IndentedAlways`), for trees of any depth and any `INDENT_WIDTH`.
That `_n_` is the number of open braces holds at some moments only: `renderC` writes a brace before it
raises `_n_` and lowers `_n_` before it writes one, and between them the last line may be blank and too short.
So the invariant `Indenting` looks at what is still to be called.  A `Mode` says how the text ends: the level that `_n_`
stands for, whether one brace more is open, and whether the last line is busy, empty, short of `_n_` by so many blanks, or
of any form (`At`).  `Leads(a, f, b)` says from which modes each function may be called, and how it
leaves the text; `Indenting` is that the text is well indented so far, in some mode, and that the pending
calls lead on from there, one after the other (`Runs`).  For each function of the printer one lemma says that the
calls it makes lead to where its caller goes on (`renderCServes` and the others): those that make calls
by a sequence of modes (for a rule, one for each place in it, by the braces of its terminals: `ItemsRun`),
those that write by what happens to the last line (`AtText`, `AtBlank`, `AtClose`, `AtStripped`).

`Tidy` is a condition on grammar and trees, and sufficient.  The printer renders without
looking at what stands around, so without it the property is false: a brace or a newline inside a token or a literal
(`x = "{";`) is counted by a reader and not by `_n_`; a rule that closes a brace which it did not open makes
`_n_` negative; and a terminal of blanks at the beginning of a line is put out as it is.  Only that rules close each brace
which they open is more than is needed.  `MCCPrinter` assumes
`Tidy`, so TLC evaluates that the grammar and the trees of the run satisfy it.

`EmptyMatches_proofs` proves `TypeOK` and `Least` for every finite set of categories and every
grammar, and that no alternative that is printed matches the empty text (`NoneOptionalAlways`).  The
invariant is that what is known is contained in every set closed under the rules; when an iteration adds
nothing the known set is closed itself (`NewEmpty`), hence the least.

It also proves `SameLanguage` and `Unambiguous`, for texts of any length and any finite set of terminals.  Both
compare two recursively defined sets, `Trees(given)` and `Trees(printed)`, the facts "this text has a parse tree of
this category" and "it has two".  `TreesLeast` says that `Trees` is the least set of facts that is closed under the rules: the
recursive function that saturates a set of facts exists, since the hull of a set satisfies its equation (`HullIsTrees`), and
is the only one, since facts are finite in number, so that a set where it were not the hull and from which the fewest facts
are missing would lead to one from which still fewer are (`TreesAreHull`).  So an induction over derivations
becomes a set that is closed.  From the printed grammar to the given one this is `Backed`: an alternative reads a text as
the whole rule does, with empty parts for the symbols in front that it is without (`Fill`, `FillFits`), and two ways to
read a text stay two (`FillDiffers`), because the first symbol of an alternative has to read
something: this is what makes `headNonOptional` preserve unambiguity.  In the other direction it is `Carried`: of a
rule whose symbols can all be empty, the alternative is taken that begins with the first symbol that reads something
(`Drop`, `DropFits`).  `EmptyRead` connects the two halves: what is known to match the empty text is what has a parse tree of it.

`BisonLists_proofs` proves `TypeOK` and `Sound` (`TypeCorrect`, `SoundAlways`) for all grammars that the front end accepts, all
texts of tokens, and both kinds of parser.  The invariant `IInv` has three parts.  `Viable`: each item of the state at a height
of the stack has in front of its dot the symbols below that height, so an action finds the
symbols of its rule, and the parser accepts only with the start category alone on the stack.
`Typed`: values are of the kinds of their categories (`ReduceKind`), from what `checkRule` asks of
a rule's label and that `normCat` leaves a list a list (`NormKind`, `Checked`).  `Spanned`: the stack stands for the text that has been
read, cut into its symbols (`ReduceStands`).  The difficulty is the last one: a list that is turned around
grows at its end, where no rule as declared extends a list.  Such a symbol therefore stands for the beginning of lists: put in front of any
list that can be read behind it, it gives a list that can be read from where it begins (`Begins`).  The
empty list makes it a reading (`StandsReads`), the left-recursive rule moves one element over (`TurnedStands`,
from where the rule's symbols were before, `TurnedAround`), and the order of elements in memory is
related to this by `ConsInOrder`, which is where C and the STL differ.  No lemma speaks of `follow`: the
theorem holds for every lookahead, Bison's included, and where there are conflicts, for every choice
between them.

`Sound` has the hypothesis `Plain`, without which it is false.  Where the elements of a list are lists, the
recursive rule takes them as they are on the stack, in the wrong order: `generatePatterns` reverses
nothing in it (TLC finds such a tree with two `terminator` macros, one for `[[C]]`).  A rule
`(:). [C] ::= C "," [C1]` is turned around as if its list were its own.  And with the STL a rule of a list that
is labelled `_` reverses it, as `BisonDummies` shows.  All grammars of the run `BisonLists` are `Plain`.  Of texts it is assumed that
the lexer gives no token that is a list or the end (`InputsAssumption`), of grammars that `list`, the constructor of
lists in the model, is none of their labels.

Only model-checked: that
a printed text is read back as the sentence of its tree (`ReadsBack`: it needs of the grammar that no two
neighbouring symbols form a third, and an induction over tree and text at once); that the macros for lists leave the parser no
conflict, which depends on the rest of the grammar (`NoConflict`), and that the stack is bounded by the depth of
the tree (`BoundedStack`: recursion over the tree); and
`Terminates`, `Ends`, `Returns`, `Parses` and `CommandEnds`, which are liveness and out of the
prover's reach.

## 5. Where code and words differ

Each of these is a run that TLC must find violated:

* `LayoutBracketElement`: an element of a layout list that begins with a parenthesis gets
  no separator, since `res` handles brackets before it looks at columns; `docs/lbnf.rst`
  says that semicolons are inserted at those positions.  TLC's input is `of x`, and below the `x`
  an opening parenthesis.
* `RegenBackupFirst`: `updateFile` replaces the file before it writes the `.bak`
  file; the comment on `writeFileRep` says "after making a backup".
* `DriverAccepted`: a grammar whose layout pragma names a word that is in no rule
  passes every check and ends the Haskell backend in `fromMaybe undefined`.
* `BisonDummies`: with the STL, the action of a rule `_. [C] ::= ";" [C]` reverses the list
  that it passes on, and the rule that uses the list reverses it again; `docs/lbnf.rst` says that such a
  rule "does not add anything to the syntax tree".  The grammar of LBNF itself, `BNFC.cf`, has one.
* `CLexerNewline`: `.` in the rules for strings does not match a newline, so Flex copies
  it to the standard output and the token lacks it; `docs/lbnf.rst` lets a string
  consist of `char`, which matches any character.

Seen while modelling, described by the models, without a run:

* `printOptions` leaves out `--force`, so the recipe of a Makefile that was made with it
  refuses the same grammar; the comment on it promises the same options.  `RecipeFaithful`
  makes the exception.
* `--alex3` is announced as ignored, and then refused.
* The C lexer returns the token of a character literal before it has seen the closing quote: `'a`
  and `'ab'` are accepted, and what follows up to a quote goes to the standard output.
* An unclosed block comment ends at the end of the text without an error.
* The C lexer takes `\x` for `x` in a literal, for any `x`; the documentation lists the escapes.
* A stop word does not end an implicit block in column 1, because `res` tests `col <= 1`
  to spare the top-level block.
* A word that is both a layout word and a stop word starts no block.
* `nextPos` adds one to the end of a token, so an inserted token has a position one
  column right of the place where it stands.
* A line that begins with a bracket neither ends nor confirms blocks, and a line inside brackets is
  compared with no block outside.  After brackets that span lines, as in

      of      (
      ) of of
              x

  the second `of` opens a tentative block at its neighbour's column, left of the tentative block of
  the first, and the next line confirms both: the inner of two blocks is less indented, where the comment in
  `addImplicit` (`CFtoLayout.hs:281`) says that "the next block needs to be strictly more indented than the
  previous block".  `tidy` in `LayoutColumns` excludes such inputs for the two properties that need
  the order; on them the comment is right, and proved.
* With `make -j`, two recipes can write a file at once and the second saves what
  the first has written: `BackupKept` does not hold there and is stated for one job.
* An old file that cannot be decoded is replaced without a backup.
* `distclean` leaves `Makefile.bak`.
* A process that dies while writing the last target leaves it truncated but newer than
  the grammar, and make takes it for up to date.  Running bnfc repairs it.

* The reversible lists are found before token types are told from other categories, so
  lists of the grammar's own tokens stay right-recursive; `docs/lbnf.rst` says that the transformation is made
  "where C is any category".  `BisonLists` has such lists: they are parsed right, but their
  stack grows, so `BoundedStack` exempts them.
* `tryRev` does not look whether the last category of a rule is the list's own, so a rule
  `(:). [C] ::= C "," [C1]` is turned around too, and then describes another language.
* The recursive rule of a list never reverses its element, so in C a list of lists comes back with the inner
  lists reversed.  The proofs exclude both (`Plain`).
* The C printer has one table of escapes for both kinds of literals (`bufEscapeC`), so it writes `\'` in a
  String and `\"` in a Char; `docs/lbnf.rst` allows `\"` in a String and `\'` in a Char only.  The C lexer
  takes both, since it takes every escape.  `ReadsBack` admits these two and no other.
* The C printer writes a vertical tab as `\v`, which the C lexer reads as `v`; a double
  without fraction is printed as an integer.  Both kinds of literals are left out of `MCCPrinter`.
* Two symbols that the grammar puts side by side are printed with a blank between only if the first is
  not an opening parenthesis or bracket; `ReadsBack` is checked for a grammar in which no
  two such symbols form a third.
* In the tree-sitter backend tokens are taken not to match the empty text, as a TODO in
  `MatchesEmpty.hs` says.

## 6. Plan

Done: layout resolver, files and regeneration, driver and options, C lexer, C printer, lists
in the C and C++ parsers, empty matches; proofs of all safety properties of the resolver, of files and
regeneration, driver and options, the lexer and the tree-sitter rules; indentation of the printer; soundness of the parsers.  In order of weight, next:

1. `ReadsBack` as a theorem, from the lemmas about the reading in `CLexer_proofs`.
2. Completeness of the parsers: a text that the declared grammar derives is one that the
   grammar with rules turned around derives.
3. `Backends`: the generated file sets and Makefile rules of each backend over all options: no two
   contents share a path, distclean removes what was generated.

## 7. Not modelled

C sources: `src/examples/C` holds sample inputs of the example grammar for C, and
`src/document/tutorial/calc/c` and `runtime.c` belong to the tutorial; none of them is part of the converter or
of what it generates from a grammar, and no definition here stands for them.  Parts of the C printer: the
`show` functions, numbers, lists whose rules have several precedences, running out of memory.  Of the
parsers: source positions, defined constructors, syntax errors, freeing of trees.  Of the front
end: the names that `rules` makes of its alternatives, the type checker of definitions, regular
expressions and empty types, which are structural recursions without a state.

Texts of the backends (their correctness is that of compilers for their output); the
generated parser of LBNF; the finders of defects behind the checks; abbreviations of
options and missing option arguments, which `System.Console.GetOpt` handles; wording of messages, help and
warnings; the C# options, which no argument sets; the tools alex, happy, ghc, flex
and bison.
