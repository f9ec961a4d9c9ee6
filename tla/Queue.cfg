SPECIFICATION Spec
CONSTANTS
    Crates = {serde}
    Tools = {t1, t2}
    Feeders = {f1}
    ToolScopes = {"crate", "rustdoc_json"}
    FeederKinds = {"freshness", "cache_watch"}
    MaxAttempts = 2
    MaxJobs = 4
    MaxFaults = 1
    MaxCrashes = 1
SYMMETRY ToolSymmetry
CONSTRAINT Explored
INVARIANTS
    TypeOK
    OnlyWorkerRuns
    AttemptBudget
    ChannelOpen
    NoLostWakeup
    SignalledOutcome
    EnrichmentFollows
PROPERTIES
    ImplementsLifecycle
