SPECIFICATION Spec
CONSTANTS
    a = a
    b = b
    c = c
    d = d
    old = old
    n1 = n1
    n2 = n2
    n3 = n3
    Sched = Sched
    Absent = Absent
    Unassigned = Unassigned
    NoReport = NoReport
    MCBatch = 3
    Pods <- MCPods
    NewPods <- MCNewPods
    Nodes = {n1, n2}
    Checkpoint <- MCCheckpoint
    Feasible <- MCFeasible
    BadPods = {c}
    Namespaced = TRUE
    RecorderCap = 2
    SleepSuffices = TRUE
    MayExpire = FALSE
INVARIANTS
    OutcomeMatchesStore
    NoOvercommit
    AssumeSucceeds
PROPERTIES
    FailedIsFinal
