CONSTANTS
    s1 = s1
    s2 = s2
    c1 = c1
    c2 = c2
    Spaces = {s1, s2}
    Priority <- MCPriority
    Callers = {c1, c2}
    Plotters = {p1}
    ChanSize = 1
    MaxMonitors = 2
    Workloads <- Safety
SPECIFICATION Spec
INVARIANTS
    TypeOK
    StoppedMeansQuiet
    StateMatchesProgress
    
CHECK_DEADLOCK FALSE
