CONSTANTS
    t1 = t1
    t2 = t2
    r1 = r1
    q1 = q1
    q2 = q2
    l1 = l1
    l2 = l2
    l3 = l3
    shell = shell
    python = python
    Tasks = {t1, t2}
    Runners = {r1}
    Leases = {l1, l2}
    Slots = {q1, q2}
    TaskTypes = {shell, python}
    Registrations = {{shell}}
    NoLease = NoLease
    NoKey = NoKey
    NoGrant = NoGrant
    RunnerOf <- MCRunnerOf
    TypeOf <- MCTypeOf
    KeyOf <- MCKeyOf
    PriorityOf <- MCPriorityOf
    HasCallback = {t1}
    Results = {"succeeded", "failed"}
    LeaseTime = 1
    MaxTime = 1
    Handlers = {shell}
    Faults = {"consumer_fails", "claim_fails", "claim_lost", "crash_leased",
              "crash_running", "report_lost", "report_fails", "timeout",
              "join_timeout", "consumer_unacked", "redelivered", "upload_fails"}
    MaxFaults = 1
SPECIFICATION SysSpec
INVARIANT
    NoHeartbeatAfterReport
PROPERTIES
    ResultIsFinal
    RunnerKeepsClaiming
CHECK_DEADLOCK FALSE
