CONSTANTS
    a = a
    b = b
    Request = {a, b}
    Path = {"ideas", "scraps"}
    Plan = {0, 1}
    UserRate = 1
    QuotaLimit <- MCQuotaLimit
    TTL = 1
    Day = {0}
    DayOf <- MCDayOf
    MaxTime = 1
    MaxFaults = 1
SYMMETRY Same
SPECIFICATION Spec
INVARIANTS TypeOK RateBound QuotaBound HandledOnce EntitledRecently
    LoggedInCallsAreBooked
