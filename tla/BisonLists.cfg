SPECIFICATION FairSpec
CONSTANTS
    Declared <- AllGrammars
    Modes = {"C", "STL"}
    Printed <- TreesOf
    MaxCoercions = 4
    Inputs <- TreesWithTexts
INVARIANTS TypeOK NoConflict BoundedStack
PROPERTY Parses
CHECK_DEADLOCK FALSE
