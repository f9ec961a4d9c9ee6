SPECIFICATION Spec
CONSTANTS
    a = a
    b = b
    Crates <- TwoCrates
    Latest <- ThreeReleases
    Dependencies <- AUsesB
    PreWarm = {a}
    BatchLimit = 1
    MaxChanges = 2
    MaxFaults = 1
INVARIANTS
    TypeOK
    NoSilentFile
PROPERTIES
    EveryCrateDiscovered
