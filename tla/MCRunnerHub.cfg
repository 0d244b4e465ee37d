CONSTANTS
    r1 = r1
    r2 = r2
    c1 = c1
    c2 = c2
    c3 = c3
    a1 = a1
    Runners = {r1, r2}
    Conns = {c1, c2, c3}
    Admins = {a1}
    OwnerOf <- MCOwnerOf
    TagOf <- MCTagOf
    Null = Null
    Admin = Admin
    Untold = Untold
SPECIFICATION Spec
INVARIANTS
    TypeOK
    AnnouncedIsPresence
    NewestStandsForRunner
    OwnTasksOnly
CHECK_DEADLOCK FALSE
