CONSTANTS
    Requests = {gif, cycles}
    Capacity = 1
    Malformed = {}
    Gifs = {gif}
    Cycles = {cycles}
    HasWindow = TRUE
    EyecatchFile = "good"
    TimeoutMayOverflow = TRUE
    None = none
SPECIFICATION FairSpec
INVARIANTS
    ExitStatusHonest
    AtMostOneLateFrame
    ExitMeansQuiescent
PROPERTIES
    StopLeadsToExit
    AdmittedIsResolved
    ImplementsService
