SPECIFICATION PrintSpec
CONSTANTS
    Letters <- SmallLetters
    Escapes <- Escape
    Reserved <- ReservedWords
    Symbols <- SymbolSet
    LineComment = "#"
    BlockComment <- NoBlocks
    Chars <- AllChars
    Rules <- Grammar
    Trees <- AllTrees
    Printed <- Programs
    Controls <- Control
    BUFFER_INITIAL = 1
    INDENT_WIDTH = 2
    MaxPrints = 2
INVARIANTS TypeOK Terminated ReadsBack Indented
PROPERTY Returns
CHECK_DEADLOCK FALSE
