SPECIFICATION Spec
CONSTANTS
    Resource = {cmA, cmB}
    Name = {sales, costs}
    Model = {sales1, costs1}
    NameOf <- MCNameOf
    Accessible <- MCAccessible
    Garbage = Garbage
    None = None
    sales = sales
    sales1 = sales1
    MaxWrites = 1
    MaxBreaks = 1
INVARIANT DeletedIsRemoved
CHECK_DEADLOCK FALSE
