SPECIFICATION Spec
CONSTANTS
    Req = {r1, r2}
    Identity = {ana, bob}
    Body = {revenue, payroll}
    Limit <- MCLimits
    Asks <- MCAsks
    Version = {v1, v2}
    Provider = {opa}
    ProviderOf <- MCProviderOf
    Permits <- MCPermits
    Revision = {rev1}
    EngineUser = {alice}
    Data = {small, large}
    RowsIn <- MCRowsIn
    RowBytes <- MCRowBytes
    DefaultRowLimit = 1
    MaxRowLimit = 4
    MaxResultBytes = 6
    MaxCacheEntryBytes = 4
    MaxChanges = 1
    NoProvider = NoProvider
    NoModel = NoModel
    Deny = Deny
    NoFp = NoFp
    Static = Static
    None = None
    revenue = revenue
    payroll = payroll
    ana = ana
    bob = bob
    alice = alice
    v1 = v1
    opa = opa
    small = small

INVARIANTS TypeOK OwnAnswer NeverAPrefix NotAfterRevocation
SYMMETRY ReqSymmetry
PROPERTY Implements
CHECK_DEADLOCK FALSE
