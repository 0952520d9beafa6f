CONSTANTS
    Timeout = 5
    ProbeTimeout = 3
    StartTimeout = 15
    Period = 30
    Accuracy = 1
    MaxRestarts = 1
SPECIFICATION Spec
INVARIANTS
    SnapshotComplete
    SampleFounded
    NeverTooLate
    NeverStale
