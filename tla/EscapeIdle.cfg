CONSTANTS
    Requests = {still}
    Capacity = 1
    Malformed = {}
    Gifs = {}
    Cycles = {}
    HasWindow = TRUE
    EyecatchFile = "none"
    TimeoutMayOverflow = FALSE
    None = none
SPECIFICATION Spec
INVARIANTS
    PanelDark
