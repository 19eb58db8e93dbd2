------------------------------- MODULE MCCLexer -------------------------------
(***************************************************************************)
(* Texts for TLC: short ones of all classes of characters, and longer ones *)
(* of those that make string literals or symbols.                          *)
(***************************************************************************)
EXTENDS CLexer, TLC

Texts(S, n) == UNION {[1..k -> S] : k \in 0..n}

AllChars     == {"a", "n", "begin", "end", "#", Quote, Apostrophe, Backslash, Newline}
SymbolChars  == {"a", "-", ">", "end"}
StringChars  == {"a", Quote, Backslash, "n"}
NewlineChars == {"a", Quote, Newline}

AllTexts     == Texts(AllChars, 4) \cup Texts(StringChars, 6) \cup Texts(SymbolChars, 5)
NewlineTexts == Texts(NewlineChars, 3)

SmallLetters  == {"a", "n"}
Control       == "n" :> Newline
ReservedWords == {<<"a", "n">>}
SymbolSet     == {<<"-">>, <<"-", "-", ">">>, <<"end">>}
Blocks        == <<<<"begin", "end">>>>
=============================================================================
