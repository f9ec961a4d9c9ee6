SPECIFICATION MCSpec
CONSTANTS
    Indexed = {1, 2}
    Present = {1, 2}
    Paths = {1, 2}
    RustPaths = {2}
    Runners = {"worker", "call"}
    SourcePage = 2
    RustdocPage = 1
    MaxEdits = 0
    MaxIndexFaults = 0
    MaxCalls = 0
    LocalDoc <- OlderHasExactFile
    DocItems <- TwoDocuments
    NameHasUnderscore = TRUE
PROPERTY
    EnrichmentReached
CHECK_DEADLOCK FALSE
