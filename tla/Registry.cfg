SPECIFICATION Spec
CONSTANTS
    Watchers = {s, x}
    Scheduler = s
    Objects = {p, q}
    MayClose = {x}
    MayRefuse = {}
INVARIANTS
    TypeOK
    OnceInOrder
PROPERTIES
    CatchesUp
