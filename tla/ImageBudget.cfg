CONSTANTS
    U32 = 32768
    U64 = 1073741824
    Environments <- MCEnvironments
    Pictures <- MCPictures
SPECIFICATION Spec
INVARIANTS
    LimitsAsWritten
    PanelAsConfigured
    RetainedWithinBudget
    RenderWithinLimit
    RefusedOnlyOverLimit
    PanelAlwaysFits
