SPECIFICATION MCSpec
CONSTANTS
    Indexed = {1, 2}
    Present = {1, 2}
    Paths = {1, 2}
    RustPaths = {2}
    Runners = {"worker", "call"}
    SourcePage = 2
    RustdocPage = 1
    MaxEdits = 1
    MaxIndexFaults = 1
    MaxCalls = 1
    LocalDoc <- OlderHasExactFile
    DocItems <- TwoDocuments
    NameHasUnderscore = FALSE
PROPERTIES
    FilesIndexed
    EnrichmentReached
INVARIANTS
    IndexTypeOK
    RustdocWhole
CHECK_DEADLOCK FALSE
