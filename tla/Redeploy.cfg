CHECK_DEADLOCK FALSE
SPECIFICATION Spec
CONSTANTS
    ann = ann
    bob = bob
    v1 = v1
    v2 = v2
    v3 = v3
    Controllers <- TheControllers
    Versions <- TheVersions
    Broken <- TheBroken
    MaxRuns = 2
    MaxFaults = 2
    MaxCuts = 0
INVARIANTS
    SuccessVerifies
