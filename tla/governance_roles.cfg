SPECIFICATION Spec
CONSTANTS
    Group = {"analyst"}
    Role = {"support"}
    Metric = {"revenue", "orders"}
    Field = {"sales.amount", "store.city"}
    IsDimension = {"store.city"}
    Uses <- MCUses
    Pattern = {"rev*", "ord*", "["}
    Malformed <- MCMalformed
    Matches <- MCMatches
    RowFilter = {"mine", "western"}
    Claim = {"region"}
    ClaimValue = {"east"}
    Absent = Absent
    Names <- MCNames
    Row = {"east", "west", "north"}
    Admits <- MCAdmits
    NoSpec = NoSpec
    NoRole = NoRole
INVARIANTS NoPooling QueryableIsListed
PROPERTY EmptyRoleIsInert
