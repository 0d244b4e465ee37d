CONSTANTS
    Runners = {r1}
    Tasks = {t1, t2}
    All = All
    None = None
    MaxCalls = 3
    MaxWire = 1
SPECIFICATION MCSpec
SYMMETRY TaskSymmetry
INVARIANTS
    TypeOK
    SignedOutShowsNothing
    QuietWhenHidden
    KeepsConnecting
    RowsMatchFilter
    DetailIsSelected
