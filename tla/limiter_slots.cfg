SPECIFICATION LimiterFairSpec
CONSTANTS
    Req = {m1, m2, m3, m4}
    Rest = {m3, m4}
    MaxConcurrentQueries = 2
INVARIANTS LimiterTypeOK SlotsMatchHandlers ResultsWithinBudget
PROPERTY NoOneQueuesForever
CHECK_DEADLOCK FALSE
