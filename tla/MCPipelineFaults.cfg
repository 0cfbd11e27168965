CONSTANTS
    r1 = r1
    r2 = r2
    r3 = r3
    u1 = u1
    u2 = u2
    f1 = f1
    f2 = f2
    Row = {r1, r2}
    Url = {u1, u2}
    Fingerprint = {f1, f2}
    UrlOf <- MCUrlOf
    FpOf <- MCFpOf
    Rank <- MCRank
    BatchSize = 2
    MaxScore = 0
    MaxFaults = 2
SPECIFICATION FairSpec
INVARIANT IInv
PROPERTY EveryRowFetched
