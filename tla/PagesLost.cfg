SPECIFICATION ToolsSpec
CONSTANTS
    SessionIds = {1, 2}
    IdleTimeout = 1
    MaxRestarts = 1
    MaxLines = 3
    MaxProxyFaults = 1
    LastVersion = 3
    FirstVersion = 2
    Asks = {{}, {3}, {1, 3}}
    MaxYanked = 1
    MaxCallFaults = 1
    WalkTools = {"crate_trait_impls", "crate_error_types", "crate_re_exports",
                 "crate_api", "crate_usage_patterns", "source_search"}
    MaxRows = 4
    MaxGroup = 2
    PageLimits = {1, 2}
    MatchCap = 4
    SearchCap = 4
    CandidateFactor = 2
    MaxNode = 3
    MaxPage = 5
    MaxDepth = 2
    CrawlCap = 3
    MaxCrate = 3
    MaxRank = 2
    Indexes <- ThreeCrates
    EdgeSets <- OneOrTwoEdges
    Inputs <- TwoOrThreeEntries
    Manifests <- OneOrTwoDependencies
    FactTables <- FactsOfTheFirst
    Sides <- SomeSides
    ResolveLimit = 2
    GivenVersions <- OneOrTwoVersions
    VersionLimits = {1, 2}
    PairLimits = {3, 4}
    MaxSymbol = 3
    SymbolTables <- TwoSymbolsAndANew
    Renames <- ThirdForFirst
    DiffLimits = {1, 3}
CHECK_DEADLOCK FALSE
INVARIANTS
    EveryItemOnce
