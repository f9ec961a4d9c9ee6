SPECIFICATION Spec
CONSTANTS
    a = a
    b = b
    Crates <- TwoCrates
    Latest <- ThreeReleases
    Dependencies <- AUsesB
    PreWarm = {}
    BatchLimit = 0
    MaxChanges = 2
    MaxFaults = 0
PROPERTY
    PresenceKept
