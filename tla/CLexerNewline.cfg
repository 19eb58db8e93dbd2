SPECIFICATION Spec
CONSTANTS
    Input <- NewlineTexts
    Letters <- SmallLetters
    Escapes <- Control
    Reserved <- ReservedWords
    Symbols <- SymbolSet
    LineComment = "#"
    BlockComment <- Blocks
    InitialSize = 1
    Word = 65536
INVARIANT NewlineKept
CHECK_DEADLOCK FALSE
