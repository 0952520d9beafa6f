CONSTANTS
    Displays <- MCDisplays
    Interval = 2
    Deadline = 8
    MinDelay = 2
    MaxDelay = 4
    MaxTime = 10
SPECIFICATION Spec
PROPERTIES
    HeldAfterRendered
