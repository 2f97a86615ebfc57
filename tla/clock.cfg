SPECIFICATION FairSpec
CONSTANTS
    Gaps <- ClockGaps
    Never = 0
    JitterShare = 2
    Jitters <- ClockJitters
    Margin = 2
    TokenTimeout = 1
    CallTimeout = 1
    DefaultExpiry = 4
    Grants <- ClockGrants
    PlanTTL = 3
    PlanTimeout = 1
    MaxCalls = 2
    MaxFaults = 2
    MaxChanges = 1
INVARIANTS TypeOK TokenValid OnePerFire NoneSkipped
PROPERTIES PlanRecent PlanFollows PassesGoOn SignalEnds
CHECK_DEADLOCK FALSE
