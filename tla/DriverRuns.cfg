SPECIFICATION DriverSpec
CONSTANTS
    Files <- GrammarFiles
    Names <- AllNames
    MaxArgs = 4
    Grammars <- Defective
INVARIANTS TypeOK OutputChecked FieldsMatchTarget RecipeFaithful
PROPERTY Verdict
CHECK_DEADLOCK FALSE
