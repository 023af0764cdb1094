SPECIFICATION Spec
CONSTANTS
    None = None
    Refused = Refused
    Objects <- MCObjects
    StatusFolds <- MCStatusFolds
    Requests <- MCShapes
    Callers = {c1, c2}
    MaxCalls = 2
SYMMETRY MCSymmetry
INVARIANTS
    TypeOK
    AnswerInScope
    FreshResponse
    WatchRegistered
