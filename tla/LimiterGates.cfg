SPECIFICATION FairSpec
CONSTANTS
    Callers = {c1, c2, c3}
    Burst = 2
    WindowMax = 2
    Window = 4
    TimerLag = 0
    Prompt = FALSE
INVARIANTS
    TypeOK
    ThroughputCap
PROPERTIES
    GateSpacing
    EveryAcquireReturns
