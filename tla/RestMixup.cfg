SPECIFICATION Spec
CONSTANTS
    None = None
    Refused = Refused
    Objects <- MCObjects
    StatusFolds <- MCStatusFolds
    Requests <- MCStartup
    Callers = {c1, c2}
    MaxCalls = 1
INVARIANTS
    OwnResponse
