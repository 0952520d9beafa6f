CONSTANTS
    Requests = {gif, still, cycles, bad}
    Capacity = 1
    Malformed = {bad}
    Gifs = {gif}
    Cycles = {cycles}
    HasWindow = FALSE
    EyecatchFile = "good"
    TimeoutMayOverflow = FALSE
    None = none
SPECIFICATION Spec
INVARIANTS
    Accounted
    PanelDark
    EyecatchKept
PROPERTIES
    ReasonsHonest
