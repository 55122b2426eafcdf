SPECIFICATION Spec
CONSTANTS
    Evidence = {e1, e2}
    Workers = {w1, w2}
    MaxVersion = 2
    MaxFaults = 2
INVARIANT DeletedOrKept
PROPERTIES LeftoversReported
CHECK_DEADLOCK FALSE
