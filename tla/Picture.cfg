CONSTANTS
    Jobs <- MCJobs
    MaxDimension = 4
    MaxWidth = 10
    Word = 128
    PollRows = 2
SPECIFICATION Spec
INVARIANTS
    SourceInRange
    ArithmeticExact
    InOrder
    PanelShowsCanvas
