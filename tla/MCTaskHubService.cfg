CONSTANTS
    t1 = t1
    t2 = t2
    t3 = t3
    r1 = r1
    r2 = r2
    q1 = q1
    q2 = q2
    l1 = l1
    l2 = l2
    shell = shell
    k1 = k1
    Tasks = {t1, t2, t3}
    Runners = {r1, r2}
    Leases = {l1, l2}
    Slots = {q1, q2}
    TaskTypes = {shell}
    Registrations = {{}, {shell}}
    NoLease = NoLease
    NoKey = NoKey
    NoGrant = NoGrant
    RunnerOf <- MCRunnerOf
    TypeOf <- MCTypeOf
    KeyOf <- MCKeyOf
    PriorityOf <- MCPriorityOf
    HasCallback = {t1}
    Results = {"failed", "done"}
    LeaseTime = 1
    MaxTime = 1
SPECIFICATION MCSpec
SYMMETRY MCSymmetry
INVARIANTS
    IInv
    RetriesNameOneTask
    WokenTaskIsRouted
    LeaseBinding
    LeasedCanExpire
    WebhookReportsStoredResult
PROPERTY LifecycleSpec
CHECK_DEADLOCK FALSE
