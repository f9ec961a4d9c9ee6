SPECIFICATION Spec
CONSTANTS
    Clients = {c1, c2}
    Spellings = {"canonical"}
    Limits = {2}
    Sizes = {4}
    MaxSyncs = 2
    MaxFaults = 1
SYMMETRY ClientSymmetry
INVARIANTS
    TypeOK
    WalkComplete
    StaleOnlyByToolSync
