SPECIFICATION Spec
CONSTANTS
    Files <- GrammarFiles
    Names <- CheckNames
    MaxArgs = 3
    Grammars <- Defective
INVARIANT AcceptedCompletes
CHECK_DEADLOCK FALSE
