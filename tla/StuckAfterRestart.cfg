SPECIFICATION FairSpec
CONSTANTS
    Crates = {serde}
    Tools = {t1}
    Feeders = {}
    ToolScopes = {"crate"}
    FeederKinds = {}
    MaxAttempts = 2
    MaxJobs = 2
    MaxFaults = 0
    MaxCrashes = 1
PROPERTIES
    DurableJobsSettle
