SPECIFICATION FairSpec
CONSTANTS
    Input <- AllTexts
    Letters <- SmallLetters
    Escapes <- Control
    Reserved <- ReservedWords
    Symbols <- SymbolSet
    LineComment = "#"
    BlockComment <- Blocks
    InitialSize = 1
    Word = 65536
INVARIANTS TypeOK BufferLive Capacity Lexes
PROPERTY Ends
CHECK_DEADLOCK FALSE
