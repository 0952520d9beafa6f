CHECK_DEADLOCK FALSE
SPECIFICATION FairSpec
CONSTANTS
    ann = ann
    bob = bob
    v1 = v1
    v2 = v2
    v3 = v3
    Controllers <- TheControllers
    Versions <- TheVersions
    Broken <- TheBroken
    MaxRuns = 2
    MaxFaults = 2
    MaxCuts = 1
INVARIANTS
    OneDeployment
    LinksComplete
    FailedRunRestores
    SuccessRunsRequested
PROPERTIES
    RemovesOnlyItsOwn
    RunEnds
