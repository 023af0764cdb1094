SPECIFICATION Spec
CONSTANTS
    a = a
    b = b
    c = c
    d = d
    old = old
    n1 = n1
    n2 = n2
    n3 = n3
    Sched = Sched
    Absent = Absent
    Unassigned = Unassigned
    NoReport = NoReport
    MCBatch = 4
    Pods <- MCPods
    NewPods <- MCNewPods
    Nodes = {n1, n2}
    Checkpoint <- MCCheckpoint
    Feasible <- MCFeasible
    BadPods = {c}
    Namespaced = FALSE
    RecorderCap = 2
    SleepSuffices = TRUE
    MayExpire = FALSE
INVARIANTS
    TypeOK
    ReportComplete
    SingleFlight
    StatusRaceFree
    OutcomeMatchesStore
    NoOvercommit
    RefusalStands
    RecorderCovered
    StopSentOnce
PROPERTIES
    CloseQuiesces
    ImplementsGreedy
    Terminates
