SPECIFICATION FairSpec
CONSTANTS
    Declared <- Dummies
    Modes = {"STL"}
    Printed <- DummyTrees
    MaxCoercions = 1
    Inputs <- TreesWithTexts
PROPERTY Parses
CHECK_DEADLOCK FALSE
