--------------------------- MODULE TaskHubService ---------------------------
(***************************************************************************)
(* The Worker's task state machine: src/worker/task-service.ts over the D1 *)
(* tables of src/worker/d1-store.ts, driven by the routes and the queue    *)
(* consumer of src/worker/index.ts.                                        *)
(*                                                                         *)
(* A Worker invocation is a Slot.  Nothing serialises two invocations, and *)
(* each await gives every other invocation a chance to run, so a handler   *)
(* is split at the storage calls whose order matters.  The service changes *)
(* a task in one way only: read the whole row, build a whole new row from  *)
(* it, upsert that row.  req[q].row is the row the invocation is about to  *)
(* write, computed from what it read, however stale that has become.       *)
(*                                                                         *)
(* Abstracted: credentials, payloads, results, log entries, the names and  *)
(* heartbeat column of the runners table.                                  *)
(***************************************************************************)
EXTENDS Integers, FiniteSets

CONSTANTS
    Tasks,          \* the task ids submissions may create
    Runners,        \* runner ids
    Leases,         \* the lease ids crypto.randomUUID may return
    Slots,          \* concurrent Worker invocations
    TaskTypes,      \* task types
    Registrations,  \* the sets of task types a runner may register with
    NoLease,        \* SQL NULL in lease_id
    NoKey,          \* a submission without idempotencyKey
    NoGrant,        \* a lease id not issued yet
    RunnerOf,       \* columns of a task that no statement updates
    TypeOf,
    KeyOf,
    PriorityOf,
    HasCallback,    \* the tasks submitted with a callbackUrl
    LeaseTime,      \* leaseSeconds, in ticks
    Results,        \* the statuses runners report: completeTask stores what it
                    \* is sent, and the column has no CHECK
    MaxTime         \* bound: the clock stops here

Terminal == {"succeeded", "failed", "canceled"}
Open == {"absent", "queued", "pending_runner", "leased", "running"}
Status == Open \cup {"expired"} \cup Terminal \cup Results

ASSUME ConstantsAssumption ==
    /\ RunnerOf \in [Tasks -> Runners]
    /\ TypeOf \in [Tasks -> TaskTypes]
    /\ Registrations \subseteq SUBSET TaskTypes
    /\ PriorityOf \in [Tasks -> Int]
    /\ HasCallback \subseteq Tasks
    /\ LeaseTime \in Nat \ {0}
    /\ MaxTime \in Nat
    /\ "failed" \in Results /\ Results \cap Open = {}
    /\ NoLease \notin Leases
    /\ \A t \in Tasks, r \in Runners : NoGrant # [task |-> t, runner |-> r]

VARIABLES
    runners,    \* D1 runners: is there a row, and with which task types
    tasks,      \* D1 tasks: the mutable columns of each task
    queue,      \* Cloudflare Queue: the tasks with a message not acknowledged
    req,        \* the invocation each slot is running
    now,        \* the clock
    issued,     \* history: the task and runner each lease id was made for
    held,       \* history: the leases a claim response was sent for
    accepted,   \* history: the tasks a 202 response was sent for
    notified,   \* history: the tasks a task_available event was sent for
    completed,  \* history: the results completeTask has written for a task
    webhooks    \* D1 webhook_deliveries: the results recorded for a task

history == <<issued, held, accepted, notified, completed>>
vars == <<runners, tasks, queue, req, now, history, webhooks>>

NoExpiry == -1      \* SQL NULL in lease_expires_at
Time == 0 .. MaxTime
Expiry == {NoExpiry} \cup 0 .. (MaxTime + LeaseTime)

Row == [status : Status, lease : Leases \cup {NoLease}, expires : Expiry, created : Time]
NoRunner == [registered |-> FALSE, types |-> {}]
NoRow == [status |-> "absent", lease |-> NoLease, expires |-> NoExpiry, created |-> 0]

PC == {"idle", "submit_put", "submit_enqueue", "consume_runner", "consume_put",
       "consume_notify", "consume_ack", "claim_put", "heartbeat_put",
       "complete_put", "complete_webhook"}
Idle == [pc : {"idle"}]
Busy == [pc : PC \ {"idle"}, task : Tasks, row : Row]
idle == [pc |-> "idle"]

Stored(t) == tasks[t].status # "absent"

ConsumerSteps == {"consume_runner", "consume_put", "consume_notify", "consume_ack"}
Consuming(t) == \E q \in Slots : req[q].pc \in ConsumerSteps /\ req[q].task = t

\* The invocation in slot q goes on at pc, still about to write row.
Go(q, pc, t, row) == req' = [req EXCEPT ![q] = [pc |-> pc, task |-> t, row |-> row]]
Finish(q) == req' = [req EXCEPT ![q] = idle]

\* updateTask: upsert the row this invocation built.
PutRow(q) == tasks' = [tasks EXCEPT ![req[q].task] = req[q].row]

Init ==
    /\ runners = [r \in Runners |-> NoRunner]
    /\ tasks = [t \in Tasks |-> NoRow]
    /\ queue = {}
    /\ req = [q \in Slots |-> idle]
    /\ now = 0
    /\ issued = [l \in Leases |-> NoGrant]
    /\ held = {}
    /\ accepted = {}
    /\ notified = {}
    /\ completed = [t \in Tasks |-> {}]
    /\ webhooks = [t \in Tasks |-> {}]

-----------------------------------------------------------------------------
(* Registration, first or repeated: the task types are replaced.            *)
RegisterRunner(r, types) ==
    /\ runners' = [runners EXCEPT ![r] = [registered |-> TRUE, types |-> types]]
    /\ UNCHANGED <<tasks, queue, req, now, history, webhooks>>

-----------------------------------------------------------------------------
(* Submission.                                                              *)

SameKey(t, u) == KeyOf[t] # NoKey /\ KeyOf[u] = KeyOf[t]

\* A key that is already stored is answered 202 with the stored task.
SubmitRepeat(t) ==
    /\ \E u \in Tasks : /\ Stored(u)
                        /\ SameKey(t, u)
                        /\ accepted' = accepted \cup {u}
    /\ UNCHANGED <<runners, tasks, queue, req, now, issued, held, notified, completed, webhooks>>

\* Any other submission gets a task id nobody has, and goes on to putTask.
SubmitFind(q, t) ==
    /\ req[q].pc = "idle"
    /\ ~Stored(t)
    /\ \A p \in Slots : req[p].pc # "idle" => req[p].task # t
    /\ ~\E u \in Tasks : Stored(u) /\ SameKey(t, u)
    /\ Go(q, "submit_put", t, [NoRow EXCEPT !.status = "queued", !.created = now])
    /\ UNCHANGED <<runners, tasks, queue, now, history, webhooks>>

\* Mutant: idempotency_key without its UNIQUE constraint.
SubmitPutAnyKey(q) ==
    /\ req[q].pc = "submit_put"
    /\ Go(q, "submit_enqueue", req[q].task, req[q].row)
    /\ PutRow(q)
    /\ UNCHANGED <<runners, queue, now, history, webhooks>>

\* Mutant: INSERT OR IGNORE, after which the handler enqueues all the same.
SubmitPutOrIgnore(q) ==
    /\ req[q].pc = "submit_put"
    /\ Go(q, "submit_enqueue", req[q].task, req[q].row)
    /\ IF \E u \in Tasks : Stored(u) /\ SameKey(req[q].task, u)
       THEN UNCHANGED tasks
       ELSE PutRow(q)
    /\ UNCHANGED <<runners, queue, now, history, webhooks>>

\* The insert, which D1 refuses when the key is stored (UNIQUE) or the runner
\* is not (FOREIGN KEY).
SubmitPut(q) ==
    /\ req[q].pc = "submit_put"
    /\ IF \/ \E u \in Tasks : Stored(u) /\ SameKey(req[q].task, u)
          \/ ~runners[RunnerOf[req[q].task]].registered
       THEN Finish(q) /\ UNCHANGED tasks
       ELSE Go(q, "submit_enqueue", req[q].task, req[q].row) /\ PutRow(q)
    /\ UNCHANGED <<runners, queue, now, history, webhooks>>

SubmitEnqueue(q) ==
    /\ req[q].pc = "submit_enqueue"
    /\ queue' = queue \cup {req[q].task}
    /\ accepted' = accepted \cup {req[q].task}
    /\ Finish(q)
    /\ UNCHANGED <<runners, tasks, now, issued, held, notified, completed, webhooks>>

-----------------------------------------------------------------------------
(* Queue consumer: one message of queue(batch).  Delivery is at least once: *)
(* a message that is not acknowledged may be handed out again, also while   *)
(* another consumer is still at work on it.                                 *)

ConsumeRead(q, t) ==
    /\ req[q].pc = "idle"
    /\ t \in queue
    /\ Stored(t)
    /\ Go(q, "consume_runner", t, tasks[t])
    /\ UNCHANGED <<runners, tasks, queue, now, history, webhooks>>

\* Mutant: the hub is notified before the row is written.
ConsumeRunnerNotifies(q) ==
    /\ req[q].pc = "consume_runner"
    /\ notified' = notified \cup {req[q].task}
    /\ Go(q, "consume_put", req[q].task, [req[q].row EXCEPT !.status = "pending_runner"])
    /\ UNCHANGED <<runners, tasks, queue, now, issued, held, accepted, completed, webhooks>>

\* getRunner: an unknown runner or an unsupported type fails the task.
ConsumeRunner(q) ==
    /\ req[q].pc = "consume_runner"
    /\ LET t == req[q].task
           runner == runners[RunnerOf[t]]
           supported == runner.registered /\ TypeOf[t] \in runner.types
       IN  Go(q, "consume_put", t,
              [req[q].row EXCEPT !.status = IF supported THEN "pending_runner" ELSE "failed"])
    /\ UNCHANGED <<runners, tasks, queue, now, history, webhooks>>

ConsumePut(q) ==
    /\ req[q].pc = "consume_put"
    /\ PutRow(q)
    /\ LET row == req[q].row
       IN  Go(q, IF row.status = "pending_runner" THEN "consume_notify" ELSE "consume_ack",
              req[q].task, row)
    /\ UNCHANGED <<runners, queue, now, history, webhooks>>

\* notifyTaskAvailable: a failure of the hub is swallowed.
ConsumeNotify(q) ==
    /\ req[q].pc = "consume_notify"
    /\ notified' \in {notified, notified \cup {req[q].task}}
    /\ Go(q, "consume_ack", req[q].task, req[q].row)
    /\ UNCHANGED <<runners, tasks, queue, now, issued, held, accepted, completed, webhooks>>

\* Mutant: the consumer updates the row once more, after the wake-up.
ConsumeAckWrites(q) ==
    /\ req[q].pc = "consume_ack"
    /\ PutRow(q)
    /\ queue' = queue \ {req[q].task}
    /\ Finish(q)
    /\ UNCHANGED <<runners, now, history, webhooks>>

ConsumeAck(q) ==
    /\ req[q].pc = "consume_ack"
    /\ queue' = queue \ {req[q].task}
    /\ Finish(q)
    /\ UNCHANGED <<runners, tasks, now, history, webhooks>>

-----------------------------------------------------------------------------
(* Claim.                                                                   *)

\* Mutant: findClaimableTask without runner_id.
ClaimableByAnyone(r) ==
    {t \in Tasks : \/ tasks[t].status = "pending_runner"
                   \/ /\ tasks[t].status = "leased"
                      /\ tasks[t].expires # NoExpiry
                      /\ tasks[t].expires <= now}

\* WHERE of findClaimableTask; a NULL lease_expires_at never compares true.
Claimable(r) ==
    {t \in Tasks : /\ RunnerOf[t] = r
                   /\ \/ tasks[t].status = "pending_runner"
                      \/ /\ tasks[t].status = "leased"
                         /\ tasks[t].expires # NoExpiry
                         /\ tasks[t].expires <= now}

\* ORDER BY priority DESC, created_at ASC LIMIT 1.
Before(t, u) ==
    \/ PriorityOf[t] > PriorityOf[u]
    \/ PriorityOf[t] = PriorityOf[u] /\ tasks[t].created < tasks[u].created
NextClaim(r) == {t \in Claimable(r) : ~\E u \in Claimable(r) : Before(u, t)}

ClaimFind(q, r, t, l) ==
    /\ req[q].pc = "idle"
    /\ runners[r].registered
    /\ t \in NextClaim(r)
    /\ issued[l] = NoGrant
    /\ issued' = [issued EXCEPT ![l] = [task |-> t, runner |-> r]]
    /\ Go(q, "claim_put", t, [tasks[t] EXCEPT !.status = "leased", !.lease = l,
                                              !.expires = now + LeaseTime])
    /\ UNCHANGED <<runners, tasks, queue, now, held, accepted, notified, completed, webhooks>>

ClaimPut(q) ==
    /\ req[q].pc = "claim_put"
    /\ PutRow(q)
    /\ held' = held \cup {req[q].row.lease}
    /\ Finish(q)
    /\ UNCHANGED <<runners, queue, now, issued, accepted, notified, completed, webhooks>>

-----------------------------------------------------------------------------
(* Heartbeat and completion, by whoever holds lease l.                      *)

\* requireLease looks at the runner and the lease id, not at the status and
\* not at lease_expires_at.
RequireLease(t, r, l) == Stored(t) /\ RunnerOf[t] = r /\ tasks[t].lease = l
Presents(l) == l \in held /\ RequireLease(issued[l].task, issued[l].runner, l)

\* Mutant: the heartbeat does not look at the lease.
HeartbeatUnchecked(q, l) ==
    /\ req[q].pc = "idle"
    /\ l \in held
    /\ LET t == issued[l].task
       IN  Go(q, "heartbeat_put", t, [tasks[t] EXCEPT !.status = "running",
                                                      !.expires = now + LeaseTime])
    /\ UNCHANGED <<runners, tasks, queue, now, history, webhooks>>

\* Mutant: the heartbeat sets the status and leaves the expiry.
HeartbeatKeepsExpiry(q, l) ==
    /\ req[q].pc = "idle"
    /\ Presents(l)
    /\ LET t == issued[l].task
       IN  Go(q, "heartbeat_put", t, [tasks[t] EXCEPT !.status = "running"])
    /\ UNCHANGED <<runners, tasks, queue, now, history, webhooks>>

\* Mutant: the heartbeat adds to the old expiry instead of the present time.
HeartbeatAddsTime(q, l) ==
    /\ req[q].pc = "idle"
    /\ Presents(l)
    /\ LET t == issued[l].task
       IN  Go(q, "heartbeat_put", t, [tasks[t] EXCEPT !.status = "running",
                                                      !.expires = @ + LeaseTime])
    /\ UNCHANGED <<runners, tasks, queue, now, history, webhooks>>

HeartbeatRead(q, l) ==
    /\ req[q].pc = "idle"
    /\ Presents(l)
    /\ LET t == issued[l].task
       IN  Go(q, "heartbeat_put", t, [tasks[t] EXCEPT !.status = "running",
                                                      !.expires = now + LeaseTime])
    /\ UNCHANGED <<runners, tasks, queue, now, history, webhooks>>

HeartbeatPut(q) ==
    /\ req[q].pc = "heartbeat_put"
    /\ PutRow(q)
    /\ Finish(q)
    /\ UNCHANGED <<runners, queue, now, history, webhooks>>

\* Mutant: the webhook is recorded before the result.
CompleteReports(q, l, s) ==
    /\ req[q].pc = "idle"
    /\ Presents(l)
    /\ LET t == issued[l].task
       IN  /\ Go(q, "complete_put", t, [tasks[t] EXCEPT !.status = s, !.expires = NoExpiry])
           /\ webhooks' = [webhooks EXCEPT ![t] = IF t \in HasCallback THEN @ \cup {s} ELSE @]
    /\ UNCHANGED <<runners, tasks, queue, now, history>>

CompleteRead(q, l, s) ==
    /\ req[q].pc = "idle"
    /\ Presents(l)
    /\ LET t == issued[l].task
       IN  Go(q, "complete_put", t, [tasks[t] EXCEPT !.status = s, !.expires = NoExpiry])
    /\ UNCHANGED <<runners, tasks, queue, now, history, webhooks>>

CompletePut(q) ==
    /\ req[q].pc = "complete_put"
    /\ PutRow(q)
    /\ completed' = [completed EXCEPT ![req[q].task] = @ \cup {req[q].row.status}]
    /\ IF req[q].task \in HasCallback
       THEN Go(q, "complete_webhook", req[q].task, req[q].row)
       ELSE Finish(q)
    /\ UNCHANGED <<runners, queue, now, issued, held, accepted, notified, webhooks>>

CompleteWebhook(q) ==
    /\ req[q].pc = "complete_webhook"
    /\ webhooks' = [webhooks EXCEPT ![req[q].task] = @ \cup {req[q].row.status}]
    /\ Finish(q)
    /\ UNCHANGED <<runners, tasks, queue, now, history>>

-----------------------------------------------------------------------------
(* The environment.                                                         *)

\* A storage call throws, or the isolate dies: nothing more of the handler
\* runs.  A consumed message stays in the queue.
Fail(q) ==
    /\ req[q].pc # "idle"
    /\ Finish(q)
    /\ UNCHANGED <<runners, tasks, queue, now, history, webhooks>>

Tick ==
    /\ now < MaxTime
    /\ now' = now + 1
    /\ UNCHANGED <<runners, tasks, queue, req, history, webhooks>>

Submit(q) == (\E t \in Tasks : SubmitFind(q, t)) \/ SubmitPut(q) \/ SubmitEnqueue(q)
Consume(q) == \/ \E t \in Tasks : ConsumeRead(q, t)
              \/ ConsumeRunner(q) \/ ConsumePut(q) \/ ConsumeNotify(q) \/ ConsumeAck(q)
Claim(q) == \/ \E r \in Runners, t \in Tasks, l \in Leases : ClaimFind(q, r, t, l)
            \/ ClaimPut(q)
Heartbeat(q) == (\E l \in Leases : HeartbeatRead(q, l)) \/ HeartbeatPut(q)
Complete(q) == \/ \E l \in Leases, s \in Results : CompleteRead(q, l, s)
               \/ CompletePut(q) \/ CompleteWebhook(q)
Handler(q) == Submit(q) \/ Consume(q) \/ Claim(q) \/ Heartbeat(q) \/ Complete(q)

Next ==
    \/ \E r \in Runners, types \in Registrations : RegisterRunner(r, types)
    \/ \E t \in Tasks : SubmitRepeat(t)
    \/ \E q \in Slots : Handler(q) \/ Fail(q)
    \/ Tick

Spec == Init /\ [][Next]_vars

-----------------------------------------------------------------------------
(* Properties.                                                              *)

\* Every variable holds values of its type (task-service.ts, d1-store.ts).
TypeOK ==
    /\ runners \in [Runners -> [registered : BOOLEAN, types : SUBSET TaskTypes]]
    /\ tasks \in [Tasks -> Row]
    /\ queue \subseteq Tasks
    /\ req \in [Slots -> Idle \cup Busy]
    /\ now \in Time
    /\ issued \in [Leases -> {NoGrant} \cup [task : Tasks, runner : Runners]]
    /\ held \subseteq Leases
    /\ accepted \subseteq Tasks
    /\ notified \subseteq Tasks
    /\ completed \in [Tasks -> SUBSET Results]
    /\ webhooks \in [Tasks -> SUBSET Results]

\* Concurrent and repeated submissions with one idempotency key are all
\* answered with one and the same stored task (submitTask, lines 110-135).
RetriesNameOneTask ==
    /\ \A t \in accepted : Stored(t)
    /\ \A t, u \in accepted : SameKey(t, u) => t = u

\* A queue message always names a stored task, so the consumer never throws
\* NotFoundError for one (submitTask stores first, then enqueues).
QueueNamesStoredTasks == \A t \in queue : Stored(t)

\* A lease id found in a row, or in a row some invocation is about to write,
\* was made for that very task, and for the runner the task is assigned to:
\* README "Worker returns a 90-second lease only for tasks assigned to that
\* Runner".  No interleaving of stale writes moves a lease to another task.
LeaseBinding ==
    /\ \A t \in Tasks : tasks[t].lease # NoLease =>
          issued[tasks[t].lease] = [task |-> t, runner |-> RunnerOf[t]]
    /\ \A q \in Slots : req[q].pc # "idle" /\ req[q].row.lease # NoLease =>
          issued[req[q].row.lease] = [task |-> req[q].task, runner |-> RunnerOf[req[q].task]]

\* A leased task can always be claimed again once its time is up: it carries
\* a lease and an expiry the claim query can compare, whichever stale rows
\* were written over each other (claimTask, heartbeat, completeTask).
LeasedCanExpire ==
    \A t \in Tasks : tasks[t].status \in {"leased", "running"} =>
        tasks[t].lease # NoLease /\ tasks[t].expires # NoExpiry

\* A runner is only woken for a task that its claim could already see: once
\* task_available went out the row is past "queued", and no stale write takes
\* it back (index.ts queue consumer; realtime-routes.test.ts "wakes the target
\* Runner only after the Queue consumer persists pending_runner").
WokenTaskIsRouted == \A t \in notified : tasks[t].status \notin {"absent", "queued"}

\* A webhook delivery reports a result that completeTask really stored, for a
\* task that asked for a callback, whatever crashes in between.
WebhookReportsStoredResult ==
    \A t \in Tasks : /\ webhooks[t] \subseteq completed[t]
                     /\ webhooks[t] # {} => t \in HasCallback

\* The service implements TaskLifecycle: rows are created once, a lease in a
\* row is one granted for that task, only a lease whose response was sent
\* lets a task run or end, only a stored result is reported.
Lifecycle == INSTANCE TaskLifecycle WITH
    status <- [t \in Tasks |-> tasks[t].status],
    lease <- [t \in Tasks |-> tasks[t].lease],
    results <- completed,
    reported <- webhooks
LifecycleSpec == Lifecycle!Spec

\* README: "The Worker enqueues accepted tasks".  An accepted task that is
\* still "queued" has a message, or an invocation is at work on it.
AcceptedIsEnqueued ==
    \A t \in accepted : tasks[t].status = "queued" =>
        \/ t \in queue
        \/ \E q \in Slots : req[q].pc # "idle" /\ req[q].task = t

\* README: "Worker records terminal state": a recorded terminal status is not
\* replaced (types.ts TerminalTaskStatus).
TerminalIsFinal ==
    [][\A t \in Tasks : tasks[t].status \in Terminal => tasks'[t].status = tasks[t].status]_vars
-----------------------------------------------------------------------------
(* The inductive invariant behind the properties above.                     *)

\* The row each step is about to write.
PendingRow(q) ==
    LET t == req[q].task
        row == req[q].row
    IN  /\ req[q].pc = "submit_put" => row.status = "queued" /\ row.lease = NoLease
        /\ req[q].pc = "consume_put" => row.status \in {"pending_runner", "failed"}
        /\ req[q].pc = "claim_put" =>
              row.status = "leased" /\ row.lease # NoLease /\ row.expires # NoExpiry
        /\ req[q].pc = "heartbeat_put" =>
              row.status = "running" /\ row.lease \in held /\ row.expires # NoExpiry
        /\ req[q].pc = "complete_put" => row.status \in Results /\ row.lease \in held
        /\ req[q].pc = "complete_webhook" => row.status \in completed[t] /\ t \in HasCallback

\* A submission owns the task id it made; every other step works on a row
\* that is there, and a consumer that notifies has routed it.
SlotTask(q) ==
    /\ req[q].pc = "submit_put" =>
          /\ ~Stored(req[q].task)
          /\ \A p \in Slots : req[p].pc # "idle" /\ req[p].task = req[q].task => p = q
    /\ req[q].pc \notin {"idle", "submit_put"} => Stored(req[q].task)
    /\ req[q].pc = "consume_notify" => tasks[req[q].task].status # "queued"

OneTaskPerKey == \A t, u \in Tasks : Stored(t) /\ Stored(u) /\ SameKey(t, u) => t = u
AcceptedIsStored == \A t \in accepted : Stored(t)
HeldIsIssued == \A l \in held : issued[l] # NoGrant
AbsentIsUnleased == \A t \in Tasks : ~Stored(t) => tasks[t].lease = NoLease

IInv ==
    /\ TypeOK
    /\ \A q \in Slots : PendingRow(q) /\ SlotTask(q)
    /\ OneTaskPerKey /\ AcceptedIsStored
    /\ HeldIsIssued /\ AbsentIsUnleased
    /\ QueueNamesStoredTasks /\ LeaseBinding /\ LeasedCanExpire
    /\ WokenTaskIsRouted /\ WebhookReportsStoredResult
=============================================================================
