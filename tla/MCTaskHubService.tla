-------------------------- MODULE MCTaskHubService --------------------------
(* TaskHubService in two scenarios, chosen at the start:                    *)
(*   submission  two submissions with one idempotency key (t1 and t2), from *)
(*               the first registration to the first claim, while the runner *)
(*               registers again with other types;                          *)
(*   lease       two tasks for one runner (t1 and t3), submitted and routed *)
(*               one after the other, and then two runners, two leases and  *)
(*               the message of t1 that was not acknowledged.               *)
(* Two invocations work at a time in both.                                  *)
EXTENDS TaskHubService, TLC

CONSTANTS t1, t2, t3, r1, r2, q1, q2, l1, l2, shell, k1

VARIABLES
    scenario,
    routed      \* lease: the tasks have been routed

MCRunnerOf == t1 :> r1 @@ t2 :> r1 @@ t3 :> r1
MCTypeOf == [t \in {t1, t2, t3} |-> shell]
MCKeyOf == t1 :> k1 @@ t2 :> k1 @@ t3 :> NoKey
MCPriorityOf == t1 :> 1 @@ t2 :> 1 @@ t3 :> 0
MCSymmetry == Permutations({q1, q2}) \cup Permutations({l1, l2})

Untouched(t) == ~Stored(t) /\ \A q \in Slots : req[q].pc # "idle" => req[q].task # t
BusySlots == {q \in Slots : req[q].pc # "idle"}
LeasesIssued == {l \in Leases : issued[l] # NoGrant}

AllRouted ==
    /\ queue = {t1} /\ BusySlots = {} /\ accepted = {t1, t3} /\ notified = {t1, t3}
    /\ \A r \in Runners : runners[r].registered

\* On the way there: one invocation at a time, and no claim.
OnTheWay == Cardinality(BusySlots) <= 1 /\ now = 0 /\ LeasesIssued = {}

Submission ==
    /\ Untouched(t3)
    /\ ~runners[r2].registered
    /\ Cardinality(LeasesIssued) <= 1
    /\ \A q \in Slots : req[q].pc \notin {"heartbeat_put", "complete_put"}
Lease ==
    /\ Untouched(t2)
    /\ \A r \in Runners : runners[r].registered => runners[r].types = TaskTypes
    /\ routed \/ OnTheWay

MCInit == Init /\ scenario \in {"submission", "lease"} /\ routed = FALSE
MCNext ==
    /\ Next
    /\ UNCHANGED scenario
    /\ routed' = (routed \/ (scenario = "lease" /\ AllRouted'))
    /\ IF scenario = "submission" THEN Submission' ELSE Lease'
MCSpec == MCInit /\ [][MCNext]_<<vars, scenario, routed>>
=============================================================================
