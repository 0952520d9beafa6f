CONSTANTS
    Requests = {gif}
    Capacity = 1
    Malformed = {}
    Gifs = {gif}
    Cycles = {}
    HasWindow = FALSE
    EyecatchFile = "none"
    TimeoutMayOverflow = FALSE
    None = none
SPECIFICATION Spec
PROPERTIES
    GifsShownInFull
