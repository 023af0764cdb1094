SPECIFICATION Spec
CONSTANTS
    a = a
    b = b
    c = c
    d = d
    old = old
    n1 = n1
    n2 = n2
    n3 = n3
    Sched = Sched
    Absent = Absent
    Unassigned = Unassigned
    NoReport = NoReport
    MCBatch = 0
    Pods <- MCPods
    NewPods <- MCNewPods
    Nodes = {n1, n2, n3}
    Checkpoint <- MCCheckpoint
    Feasible <- MCFeasible
    BadPods = {}
    Namespaced = FALSE
    RecorderCap = 1
    SleepSuffices = TRUE
    MayExpire = FALSE
PROPERTIES
    Terminates
