CONSTANTS
    r1 = r1
    r2 = r2
    Tasks = {1, 2, 3}
    Runners = {r1, r2}
    Statuses = {"queued", "failed"}
    RunnerOf <- MCRunnerOf
    All = All
    None = None
    Filters <- MCFilters
    Limit = 1
    MaxTime = 1
    MaxLoads = 2
    RunnerIds = {1, 2, 3}
    Encodable = {1, 3}
    Never = Never
    RunnerFilters = {All, "stale"}
    OnlineFor = 0
    StaleFor = 1
    MaxNow = 1
    MaxCalls = 2
    MaxReloads = 2
    Batches = {"b1", "b2", "b3"}
    Malformed = {"b2"}
    LeaseIds = {1, 2}
    PageSize = 1
    MaxMs = 1
SPECIFICATION MCSpec
INVARIANTS
    ApiTypeOK
    NothingSkipped
    RowsAnswerTheList
    OnlineHasCalled
    ListIsComplete
    LostToOwnLeaseOnly
    ReadingIsComplete
PROPERTIES
    NextPageIsNew
    SeenStaysSeen
    SelectionIsKept
    LoadEnds
CHECK_DEADLOCK FALSE
