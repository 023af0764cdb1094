SPECIFICATION Spec
CONSTANTS
    Watchers = {s, x}
    Scheduler = s
    Objects = {p, q}
    MayClose = {x}
    MayRefuse = {q}
PROPERTIES
    EveryWatchServed
