SPECIFICATION PlainSpec
CONSTANTS
    Sym = {"{", "}", ";", "of", "(", ")", "x"}
    LayoutWords = {"of"}
    StopWords = {}
    ParenOpen = {"("}
    ParenClose = {")"}
    HasTop = FALSE
    SymLen <- WordLen
    MaxLine = 2
    MaxCol = 3
    NoTok = NoTok
PROPERTY BracketElementSeparated
CHECK_DEADLOCK FALSE
