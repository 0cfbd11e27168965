CONSTANTS
    a1 = a1
    m1 = m1
    m2 = m2
    g1 = g1
    g2 = g2
    Scheduled = {a1}
    Manual = {m1, m2}
    Group = {g1, g2}
    MaxCandidates = 2
    MaxLogs = 2
    MaxOverruns = 1
SPECIFICATION FairSpec
INVARIANTS TypeOK OneBurstPerCooldown ConcurrencyBound
PROPERTIES RunsExclusively LockComesFree
