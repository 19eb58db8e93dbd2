SPECIFICATION HistorySpec
CONSTANTS
    Sym = {"{", "}", ";", "of", "in", "x"}
    LayoutWords = {"of"}
    StopWords = {"in"}
    ParenOpen = {}
    ParenClose = {}
    HasTop = TRUE
    SymLen <- WordLen
    MaxLine = 3
    MaxCol = 3
    NoTok = NoTok
INVARIANTS TypeOK NoInternalError IInv Indented ColumnInv
PROPERTIES OffsideRule Bracketed ElementsSeparated Terminates
CHECK_DEADLOCK FALSE
