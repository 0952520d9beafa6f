CONSTANTS
    Callers = {"first", "second"}
    Args <- MCArgs
    Requests <- MCRequests
    Capacity = 1
SPECIFICATION Spec
INVARIANTS
    LetThroughIsValid
    AdmittedAsAsked
    ReportHonest
    ProbeHonest
