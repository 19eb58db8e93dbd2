SPECIFICATION FairSpec
CONSTANTS
    Cats <- MCCats
    Terminals <- MCTerminals
    Start = "BNFCStart"
    Grammars <- MCGrammars
    Entries <- MCEntries
    MaxLength = 3
INVARIANTS TypeOK Least SameLanguage Unambiguous
PROPERTY Ends
CHECK_DEADLOCK FALSE
