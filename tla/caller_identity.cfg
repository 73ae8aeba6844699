SPECIFICATION Spec
CONSTANTS
    Call = {c1, c2}
    Principal = {alice, boris}
    Nobody = Nobody
    analyst = analyst
    huge = huge
    Role = {analyst, huge}
    DefaultRole = analyst
    Oversized = {huge}
    Margin = 1
    MaxTime = 2
    Issued <- SomeTokens
    Configs <- SomeConfigs
    Requests <- SomeRequests
SYMMETRY Symmetries
INVARIANTS TypeOK RunsAsCaller RunsAsAuthorized
PROPERTIES Implements
CHECK_DEADLOCK FALSE
