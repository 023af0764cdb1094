SPECIFICATION Spec
CONSTANTS
    n1 = n1
    n2 = n2
    old = old
    Scalar = {"hugepages"}
    Files <- MCDecimalFile
    SampleNum = 2
    Nodes = {n1, n2}
    Running <- MCRunning
    CanHost <- MCCanHost
INVARIANTS
    DesiredPods
