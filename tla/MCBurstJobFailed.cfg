CONSTANTS
    a1 = a1
    m1 = m1
    m2 = m2
    g1 = g1
    g2 = g2
    Scheduled = {a1}
    Manual = {m1}
    Group = {g1}
    MaxCandidates = 2
    MaxLogs = 1
    MaxOverruns = 0
SPECIFICATION Spec
INVARIANT SuccessMeansCrawled
