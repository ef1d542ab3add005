SPECIFICATION Spec
CONSTANTS
    t1 = t1
    t2 = t2
    c0 = c0
    c1 = c1
    s1 = s1
    s2 = s2
    Task <- MCTask
    CPU <- MCCPU
    Setter <- MCSetter
    Masks <- MCMasks
    Scenarios <- PendingScenarios
INVARIANT EnableFindsPending
