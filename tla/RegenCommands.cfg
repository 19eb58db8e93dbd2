SPECIFICATION CommandSpec
CONSTANTS
    Path <- Paths
    Procs = {"b1", "b2"}
    MaxVersion = 2
    Content <- Contents
    Gen <- Generated
    Undecodable = {"latin1"}
    Absent = "absent"
    Partial = "partial"
    SourceFiles <- Sources
    Targets <- Sources
    Makefile = "Makefile"
    Edited = {"edited", "latin1"}
    Jobs = {1, 2}
INVARIANTS TypeOK RunsOnce OneInHand
PROPERTIES Converges Regenerated BackupKept CommandEnds
