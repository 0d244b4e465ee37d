---------------------------- MODULE TaskLifecycle ----------------------------
(***************************************************************************)
(* What the Worker promises about a task, with no invocation, no queue and *)
(* no clock: a ledger of leases, and a task status that only the           *)
(* submission, the queue consumer and the holders of granted leases move.  *)
(*                                                                         *)
(* The promise is weak on purpose.  Handlers write back rows they read     *)
(* earlier, so a status may be taken back, and an older lease may come     *)
(* back; what no interleaving does is spelled out by the actions below.    *)
(***************************************************************************)
CONSTANTS Tasks, Runners, Leases, NoLease, NoGrant, RunnerOf, Results

VARIABLES
    status,     \* of each task
    lease,      \* the lease each task carries
    issued,     \* the task and runner each lease was made for
    held,       \* the leases a runner was told of
    results,    \* the results written for each task
    reported    \* the results recorded for a webhook

vars == <<status, lease, issued, held, results, reported>>

LeasesOf(t) == {l \in Leases : issued[l] = [task |-> t, runner |-> RunnerOf[t]]}

Init ==
    /\ status = [t \in Tasks |-> "absent"]
    /\ lease = [t \in Tasks |-> NoLease]
    /\ issued = [l \in Leases |-> NoGrant]
    /\ held = {}
    /\ results = [t \in Tasks |-> {}]
    /\ reported = [t \in Tasks |-> {}]

\* A task is created once, queued and unleased.
Create(t) ==
    /\ status[t] = "absent"
    /\ status' = [status EXCEPT ![t] = "queued"]
    /\ UNCHANGED <<lease, issued, held, results, reported>>

\* The consumer routes or rejects it.  A late consumer may bring back any
\* lease the task had, or none: never one of another task.
Route(t, s, l) ==
    /\ status[t] # "absent"
    /\ s \in {"pending_runner", "failed"}
    /\ l \in {NoLease} \cup LeasesOf(t)
    /\ status' = [status EXCEPT ![t] = s]
    /\ lease' = [lease EXCEPT ![t] = l]
    /\ UNCHANGED <<issued, held, results, reported>>

\* A new lease is made for the runner the task is assigned to.
Issue(t, l) ==
    /\ status[t] \in {"pending_runner", "leased"}
    /\ issued[l] = NoGrant
    /\ issued' = [issued EXCEPT ![l] = [task |-> t, runner |-> RunnerOf[t]]]
    /\ UNCHANGED <<status, lease, held, results, reported>>

\* The task is handed to the runner.
Take(t, l) ==
    /\ status[t] # "absent"
    /\ l \in LeasesOf(t)
    /\ status' = [status EXCEPT ![t] = "leased"]
    /\ lease' = [lease EXCEPT ![t] = l]
    /\ held' = held \cup {l}
    /\ UNCHANGED <<issued, results, reported>>

\* Only under a lease the runner was told of does a task run or end.
Run(t, l) ==
    /\ status[t] # "absent"
    /\ l \in LeasesOf(t) \cap held
    /\ status' = [status EXCEPT ![t] = "running"]
    /\ lease' = [lease EXCEPT ![t] = l]
    /\ UNCHANGED <<issued, held, results, reported>>

End(t, l, s) ==
    /\ status[t] # "absent"
    /\ l \in LeasesOf(t) \cap held
    /\ status' = [status EXCEPT ![t] = s]
    /\ lease' = [lease EXCEPT ![t] = l]
    /\ results' = [results EXCEPT ![t] = @ \cup {s}]
    /\ UNCHANGED <<issued, held, reported>>

\* Only a result that was written is reported.
Report(t, s) ==
    /\ s \in results[t]
    /\ reported' = [reported EXCEPT ![t] = @ \cup {s}]
    /\ UNCHANGED <<status, lease, issued, held, results>>

Next == \E t \in Tasks :
    \/ Create(t)
    \/ \E s \in {"pending_runner", "failed"}, l \in Leases \cup {NoLease} : Route(t, s, l)
    \/ \E l \in Leases : Issue(t, l) \/ Take(t, l) \/ Run(t, l)
    \/ \E l \in Leases, s \in Results : End(t, l, s)
    \/ \E s \in Results : Report(t, s)

Spec == Init /\ [][Next]_vars
=============================================================================
