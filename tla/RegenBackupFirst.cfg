SPECIFICATION Spec
CONSTANTS
    Path <- Paths
    Procs = {"b1"}
    MaxVersion = 2
    Content <- Contents
    Gen <- Generated
    Undecodable = {"latin1"}
    Absent = "absent"
    Partial = "partial"
    SourceFiles <- Sources
    Targets <- Sources
    Makefile = "Makefile"
    Edited = {"edited"}
    Jobs = {1}
PROPERTY BackupFirst
