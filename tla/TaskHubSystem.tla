---------------------------- MODULE TaskHubSystem ----------------------------
(***************************************************************************)
(* Runner processes against the service.  The runner is run_runner_loop    *)
(* (loop.py) around TaskRunner.run_once and LeaseHeartbeat (core.py), its  *)
(* calls go through RunnerClient._post (client.py), and a process that     *)
(* dies is started again by its service manager.  Every call occupies a    *)
(* slot of TaskHubService; the call and the invocation it started part     *)
(* company when the client gives up or the process dies, and the           *)
(* invocation then goes on alone.                                          *)
(***************************************************************************)
EXTENDS TaskHubService

CONSTANTS
    Handlers,   \* the task types the runners have a local handler for
    Faults,     \* the kinds of fault that may happen
    MaxFaults   \* bound: how many of them

\* A message that is handed out again although its task may be routed already,
Redeliveries == {"consumer_unacked", "redelivered"}
\* an invocation that goes on without its caller,
Desertions == {"timeout", "join_timeout", "crash_running"}
\* a completion whose fate the runner does not learn,
Misreports == {"report_fails", "report_lost"}
\* a task given to a runner that does not work on it,
Losses == {"claim_lost", "crash_leased", "upload_fails"}
\* and an invocation that ends before it has written anything.
Traceless == {"consumer_fails", "claim_fails"}
FaultKinds == Redeliveries \cup Desertions \cup Misreports \cup Losses \cup Traceless

\* What a fault of this kind leaves on the record of its task.
Marks == {"redelivery", "desertion", "misreport", "loss"}
MarksOf(kind) ==
    {m \in Marks : \/ m = "redelivery" /\ kind \in Redeliveries
                   \/ m = "desertion" /\ kind \in Desertions
                   \/ m = "misreport" /\ kind \in Misreports
                   \/ m = "loss" /\ kind \in Losses}

NoCall == "none"     \* the thread waits for no invocation

ASSUME SystemAssumption ==
    /\ Handlers \subseteq TaskTypes
    /\ Faults \subseteq FaultKinds
    /\ MaxFaults \in Nat
    /\ Slots \cap {"off", "asleep", NoCall} = {}

VARIABLES
    agent,      \* the main thread of each runner process
    beat,       \* its heartbeat thread: "off", "asleep", or the slot it waits for
    wake,       \* its wake event, set by task_available
    faults      \* history: how many faults so far, and the marks each task bears

runnerVars == <<agent, beat, wake, faults>>
sysVars == <<vars, runnerVars>>

\* down: no process.  poll, claiming: in claim().  working: handler.run.
\* joining: heartbeat.stop().  report, reporting: complete() in the try block.
\* giveup, givingup: a complete("failed") whose exception ends the process.
\* waiting: in wake_listener.wait().
AgentPC == {"down", "poll", "claiming", "working", "joining", "report", "reporting",
            "giveup", "givingup", "waiting"}
At(pc, call, lease, result) == [pc |-> pc, call |-> call, lease |-> lease, result |-> result]
Down == At("down", NoCall, NoLease, "none")
Poll == At("poll", NoCall, NoLease, "none")

SysInit ==
    /\ runners = [r \in Runners |-> [registered |-> TRUE, types |-> TaskTypes]]
    /\ tasks = [t \in Tasks |-> NoRow]
    /\ queue = {}
    /\ req = [q \in Slots |-> idle]
    /\ now = 0
    /\ issued = [l \in Leases |-> NoGrant]
    /\ held = {} /\ accepted = {} /\ notified = {}
    /\ completed = [t \in Tasks |-> {}]
    /\ webhooks = [t \in Tasks |-> {}]
    /\ agent = [r \in Runners |-> Down]
    /\ beat = [r \in Runners |-> "off"]
    /\ wake = [r \in Runners |-> FALSE]
    /\ faults = [count |-> 0, of |-> [t \in Tasks |-> {}]]

SetAgent(r, a) == agent' = [agent EXCEPT ![r] = a]
Move(r, pc) == agent' = [agent EXCEPT ![r].pc = pc, ![r].call = NoCall]

\* The client of the invocation in slot q, if it still has one.
Calls(r, q) == agent[r].call = q \/ beat[r] = q
Orphan(q) == \A r \in Runners : ~Calls(r, q)

\* The task runner r was answered with.
TaskOf(r) == issued[agent[r].lease].task

\* A fault of this kind befalls task t.
Fault(kind, t) ==
    /\ kind \in Faults
    /\ faults.count < MaxFaults
    /\ faults' = [count |-> faults.count + 1,
                  of |-> [faults.of EXCEPT ![t] = @ \cup MarksOf(kind)]]
Spared(t, marks) == faults.of[t] \cap marks = {}

\* Nothing depends on which slot a call goes to or which id crypto.randomUUID
\* returns: one idle slot, one unused id, is as good as any.
IsAny(x, S) == x \in S /\ x = CHOOSE y \in S : TRUE
IdleSlots == {q \in Slots : req[q].pc = "idle"}
UnusedLeases == {l \in Leases : issued[l] = NoGrant}

-----------------------------------------------------------------------------
(* The runner's main thread.                                                *)

\* Its service manager (systemd, Restart=always) starts the process again.
Start(r) ==
    /\ agent[r].pc = "down"
    /\ SetAgent(r, Poll)
    /\ wake' = [wake EXCEPT ![r] = FALSE]
    /\ UNCHANGED <<vars, beat, faults>>

CallClaim(r) ==
    /\ agent[r].pc = "poll"
    /\ \E q \in IdleSlots, t \in Tasks, l \in UnusedLeases :
          /\ IsAny(q, IdleSlots) /\ IsAny(l, UnusedLeases)
          /\ ClaimFind(q, r, t, l)
          /\ SetAgent(r, At("claiming", q, NoLease, "none"))
    /\ UNCHANGED <<beat, wake, faults>>

\* claim() returned None.
NothingToDo(r) ==
    /\ agent[r].pc = "poll"
    /\ Claimable(r) = {}
    /\ Move(r, "waiting")
    /\ UNCHANGED <<vars, beat, wake, faults>>

\* Mutant: no fallback claim, only the event ends the wait.
WaitForWake(r) ==
    /\ agent[r].pc = "waiting"
    /\ wake[r]
    /\ Move(r, "poll")
    /\ wake' = [wake EXCEPT ![r] = FALSE]
    /\ UNCHANGED <<vars, beat, faults>>

\* wait() returned: the event was set, or the fallback interval is over.
WaitOver(r) ==
    /\ agent[r].pc = "waiting"
    /\ Move(r, "poll")
    /\ wake' = [wake EXCEPT ![r] = FALSE]
    /\ UNCHANGED <<vars, beat, faults>>

\* claim() returned a task: start the heartbeat thread and the handler, or
\* report at once that there is no handler.
Claimed(r) ==
    /\ agent[r].pc = "claiming"
    /\ LET q == agent[r].call
           l == req[q].row.lease
       IN  /\ ClaimPut(q)
           /\ IF TypeOf[req[q].task] \in Handlers
              THEN /\ SetAgent(r, At("working", NoCall, l, "none"))
                   /\ beat' = [beat EXCEPT ![r] = "asleep"]
              ELSE /\ SetAgent(r, At("giveup", NoCall, l, "failed"))
                   /\ UNCHANGED beat
    /\ UNCHANGED <<wake, faults>>

\* handler.run returned a result, or raised; either way heartbeat.stop() is next.
HandlerReturns(r, s) ==
    /\ agent[r].pc = "working"
    /\ agent' = [agent EXCEPT ![r].pc = "joining", ![r].result = s]
    /\ UNCHANGED <<vars, beat, wake, faults>>

\* Mutant: the result is reported without waiting for the heartbeat thread.
JoinedAtOnce(r) ==
    /\ agent[r].pc = "joining"
    /\ beat' = [beat EXCEPT ![r] = "off"]
    /\ Move(r, "report")
    /\ UNCHANGED <<vars, wake, faults>>

\* After heartbeat.stop().  An exception of the handler or of the log uploads,
\* or a log upload whose lease is refused, leads to the except branch; a good
\* result is reported.
AfterJoin(r) ==
    /\ beat' = [beat EXCEPT ![r] = "off"]
    /\ \/ agent[r].result # "raised" /\ Move(r, "report")
       \/ /\ agent[r].result = "raised" \/ ~Presents(agent[r].lease)
          /\ SetAgent(r, At("giveup", NoCall, agent[r].lease, "failed"))
    /\ UNCHANGED <<vars, wake>>

\* The heartbeat thread is between two calls, and ends.
Joined(r) ==
    /\ agent[r].pc = "joining"
    /\ beat[r] = "asleep"
    /\ AfterJoin(r)
    /\ UNCHANGED faults

CallComplete(r, from, to) ==
    /\ agent[r].pc = from
    /\ \E q \in IdleSlots :
          /\ IsAny(q, IdleSlots)
          /\ CompleteRead(q, agent[r].lease, agent[r].result)
          /\ agent' = [agent EXCEPT ![r].pc = to, ![r].call = q]
    /\ UNCHANGED <<beat, wake, faults>>

\* What an exception in the call at hand does to the main thread: in the try
\* block the except branch reports "failed", anywhere else the process ends.
Raise(r) ==
    /\ IF agent[r].pc \in {"report", "reporting"}
       THEN /\ SetAgent(r, At("giveup", NoCall, agent[r].lease, "failed"))
            /\ UNCHANGED beat
       ELSE /\ SetAgent(r, Down)
            /\ beat' = [beat EXCEPT ![r] = "off"]
    /\ UNCHANGED wake

\* Mutant: a refused completion is tried again.
RejectedTriesAgain(r) ==
    /\ agent[r].pc \in {"report", "giveup"}
    /\ ~Presents(agent[r].lease)
    /\ UNCHANGED <<vars, runnerVars>>

\* complete() is answered 400: the lease is not the task's any more.
Rejected(r) ==
    /\ agent[r].pc \in {"report", "giveup"}
    /\ ~Presents(agent[r].lease)
    /\ Raise(r)
    /\ UNCHANGED <<vars, faults>>

\* The last step of completeTask, with or without a webhook to record.
CompleteEnds(q) ==
    \/ req[q].pc = "complete_put" /\ req[q].task \notin HasCallback /\ CompletePut(q)
    \/ CompleteWebhook(q)

Completed(r) ==
    /\ agent[r].pc \in {"reporting", "givingup"}
    /\ CompleteEnds(agent[r].call)
    /\ SetAgent(r, Poll)
    /\ UNCHANGED <<beat, wake, faults>>

-----------------------------------------------------------------------------
(* Its heartbeat thread.                                                    *)

CallHeartbeat(r) ==
    /\ beat[r] = "asleep"
    /\ agent[r].pc = "working"
    /\ \E q \in IdleSlots :
          /\ IsAny(q, IdleSlots)
          /\ HeartbeatRead(q, agent[r].lease)
          /\ beat' = [beat EXCEPT ![r] = q]
    /\ UNCHANGED <<agent, wake, faults>>

HeartbeatDone(r) ==
    /\ beat[r] \in Slots
    /\ HeartbeatPut(beat[r])
    /\ beat' = [beat EXCEPT ![r] = "asleep"]
    /\ UNCHANGED <<agent, wake, faults>>

-----------------------------------------------------------------------------
(* The service on its own: submission, queue consumer, a completion in the  *)
(* middle, invocations without a client, the clock.                         *)

\* A notification that gets through sets the event of a live process.
Notify(q) ==
    /\ ConsumeNotify(q)
    /\ LET r == RunnerOf[req[q].task]
       IN  wake' = [wake EXCEPT ![r] = @ \/ (notified' # notified /\ agent[r].pc # "down")]
    /\ UNCHANGED <<agent, beat, faults>>

ServiceStep(q) ==
    \/ Notify(q)
    \/ /\ \/ SubmitPut(q) \/ SubmitEnqueue(q)
          \/ \E t \in Tasks : ~Consuming(t) /\ ConsumeRead(q, t)
          \/ ConsumeRunner(q) \/ ConsumePut(q) \/ ConsumeAck(q)
          \/ req[q].pc = "complete_put" /\ req[q].task \in HasCallback /\ CompletePut(q)
          \/ Orphan(q) /\ (ClaimPut(q) \/ HeartbeatPut(q) \/ CompleteEnds(q))
       /\ UNCHANGED runnerVars

\* Bound: submissions come before the first tick.
ClientSubmits(q) ==
    /\ now = 0
    /\ IsAny(q, IdleSlots)
    /\ \E t \in Tasks : SubmitFind(q, t)
    /\ UNCHANGED runnerVars

Clock == Tick /\ UNCHANGED runnerVars

-----------------------------------------------------------------------------
(* Faults.                                                                  *)

\* Bound: the clock must still be able to pass every expiry.
ClockReaches(e) == e <= MaxTime
LeasesWillExpire == \A t \in Tasks : ClockReaches(tasks[t].expires)

\* The consumer dies before it writes the row, or after, before its ack.
ConsumerFails(q) ==
    /\ req[q].pc \in ConsumerSteps
    /\ Fault(IF req[q].pc \in {"consume_runner", "consume_put"}
             THEN "consumer_fails" ELSE "consumer_unacked", req[q].task)
    /\ Fail(q)
    /\ UNCHANGED <<agent, beat, wake>>

\* The queue hands a message out while another consumer is at work on it.
Redelivered(q) ==
    /\ \E t \in Tasks : Consuming(t) /\ Fault("redelivered", t) /\ ConsumeRead(q, t)
    /\ UNCHANGED <<agent, beat, wake>>

\* claimTask fails before it writes, or its response is lost after it wrote.
ClaimGoesWrong(r) ==
    /\ agent[r].pc = "claiming"
    /\ LET q == agent[r].call
       IN  \/ Fault("claim_fails", req[q].task) /\ Fail(q)
           \/ /\ Fault("claim_lost", req[q].task)
              /\ ClockReaches(req[q].row.expires)
              /\ ClaimPut(q)
    /\ Raise(r)

\* The same for completeTask.
ReportGoesWrong(r) ==
    /\ agent[r].pc \in {"reporting", "givingup"}
    /\ LET q == agent[r].call
       IN  \/ Fault("report_fails", req[q].task) /\ Fail(q)
           \/ Fault("report_lost", req[q].task) /\ CompleteEnds(q)
    /\ Raise(r)

\* In the except branch the upload of the heartbeat's errors, which comes before
\* complete("failed"), raises itself.
UploadFails(r) ==
    /\ agent[r].pc = "giveup" /\ TypeOf[TaskOf(r)] \in Handlers
    /\ Fault("upload_fails", TaskOf(r))
    /\ Raise(r)
    /\ UNCHANGED vars

\* The client gives up after 30 seconds; the invocation does not know.
Timeout(r) ==
    /\ \/ /\ agent[r].pc \in {"claiming", "reporting", "givingup"}
          /\ Fault("timeout", req[agent[r].call].task)
          /\ Raise(r)
       \/ /\ beat[r] \in Slots
          /\ Fault("timeout", req[beat[r]].task)
          /\ beat' = [beat EXCEPT ![r] = "asleep"]
          /\ UNCHANGED <<agent, wake>>
    /\ UNCHANGED vars

\* join(timeout=55) gives up on a heartbeat call that takes longer.
JoinTimesOut(r) ==
    /\ agent[r].pc = "joining" /\ beat[r] \in Slots
    /\ Fault("join_timeout", TaskOf(r))
    /\ AfterJoin(r)

\* The process dies with a task at hand (in the middle of a call that is
\* Timeout, whose invocation goes on as well): while the task is still "leased"
\* and no heartbeat is on its way, or at any later point of its work.
Crash(r) ==
    /\ agent[r].pc \in {"working", "joining", "report", "giveup"}
    /\ LET early == tasks[TaskOf(r)].status = "leased" /\ beat[r] \notin Slots
       IN  IF early
           THEN Fault("crash_leased", TaskOf(r)) /\ LeasesWillExpire
           ELSE Fault("crash_running", TaskOf(r))
    /\ SetAgent(r, Down)
    /\ beat' = [beat EXCEPT ![r] = "off"]
    /\ UNCHANGED <<vars, wake>>

-----------------------------------------------------------------------------
Agent(r) ==
    \/ Start(r) \/ CallClaim(r) \/ NothingToDo(r) \/ WaitOver(r) \/ Claimed(r)
    \/ \E s \in Results \cup {"raised"} : HandlerReturns(r, s)
    \/ Joined(r)
    \/ CallComplete(r, "report", "reporting") \/ CallComplete(r, "giveup", "givingup")
    \/ Rejected(r) \/ Completed(r)

SysNext ==
    \/ \E r \in Runners : \/ Agent(r) \/ CallHeartbeat(r) \/ HeartbeatDone(r)
                          \/ ClaimGoesWrong(r) \/ ReportGoesWrong(r) \/ UploadFails(r)
                          \/ Timeout(r) \/ JoinTimesOut(r) \/ Crash(r)
    \/ \E q \in Slots : ServiceStep(q) \/ ClientSubmits(q)
                        \/ ConsumerFails(q) \/ Redelivered(q)
    \/ Clock

SysSafety == SysInit /\ [][SysNext]_sysVars

\* A runner process runs on and is restarted, as a systemd service is (the tray
\* application starts its loop once; one that ended in an error waits for the
\* user), an invocation that has begun runs on, the queue delivers what it
\* holds, handlers return (they have a timeout), and time passes.  Nobody has
\* to submit anything.
Fairness ==
    /\ \A r \in Runners : /\ WF_sysVars(Agent(r))
                          /\ WF_sysVars(HeartbeatDone(r))
    /\ \A q \in Slots : WF_sysVars(ServiceStep(q))
    /\ WF_sysVars(Clock)

SysSpec == SysSafety /\ Fairness

-----------------------------------------------------------------------------
(* Properties.                                                              *)

FaultRecords == [count : 0 .. MaxFaults, of : [Tasks -> SUBSET Marks]]
RunnersTyped ==
    /\ agent \in [Runners -> [pc : AgentPC, call : Slots \cup {NoCall},
                              lease : Leases \cup {NoLease},
                              result : Results \cup {"raised", "none"}]]
    /\ beat \in [Runners -> {"off", "asleep"} \cup Slots]
    /\ wake \in [Runners -> BOOLEAN]
    /\ faults \in FaultRecords
SysTypeOK == TypeOK /\ RunnersTyped

\* While a runner works on a task it holds the lease of the row, even once that
\* has expired: only its own loop could claim the task again (core.py, loop.py).
\* What takes the lease from it is a message handed out again, since
\* processQueuedTask does not look at the status, or the stale row of an
\* invocation whose caller is gone; no other fault, of this task or another, does.
Working(r) == agent[r].pc \in {"working", "joining", "report"}
LeaseHeldWhileWorking ==
    \A r \in Runners : Working(r) /\ Spared(TaskOf(r), {"redelivery", "desertion"})
                        => Presents(agent[r].lease)

\* A heartbeat is never on its way when the result of the same task is being
\* written (LeaseHeartbeat.stop joins first), unless the runner has left a call
\* of that task behind; redelivered messages do not matter.
NoHeartbeatAfterReport ==
    \A q, p \in Slots :
        /\ req[q].pc = "heartbeat_put"
        /\ req[p].pc \in {"complete_put", "complete_webhook"}
        /\ req[p].task = req[q].task
        => ~Spared(req[q].task, {"desertion"})

\* A result that is in the row stays there (README "Worker records terminal
\* state"), unless the task's message is handed out again, a call of its runner
\* goes on alone, or the report itself goes wrong: heartbeats, consumers and
\* claims that were slow or failed, and crashed runners, never take it back.
ResultIsFinal ==
    [][\A t \in Tasks :
          tasks[t].status \in Results /\ Spared(t, {"redelivery", "desertion", "misreport"}) =>
              tasks'[t].status = tasks[t].status]_sysVars

\* A task is handed to a runner once: a second lease is given out for it only
\* after a fault that befell this very task and left a trace: a consumer or a
\* claim that failed before it wrote the row is not enough.
HandedOutOnce ==
    \A l, m \in held :
        issued[l].task = issued[m].task /\ Spared(issued[l].task, Marks) => l = m

\* Every task whose message is in the queue comes to a result: lost
\* notifications are made up for by the fallback claim (README step 5), lost
\* claims and early crashes by the expiry of the lease (findClaimableTask).
QueuedTaskEnds ==
    \A t \in Tasks : t \in queue ~> tasks[t].status \in Results

\* Whatever is lost, refused or cut off, a runner comes back to its claim loop:
\* no call sequence of run_once leaves it waiting for good (core.py, loop.py).
RunnerKeepsClaiming == \A r \in Runners : []<>(agent[r].pc \in {"poll", "waiting"})

\* README "Worker returns a 90-second lease", which the Runner "renews ...
\* every 20 seconds": a running task whose lease has run out does not stay so;
\* it is renewed, reported or taken up again.
LeaseRanOut(t) ==
    tasks[t].status = "running" /\ tasks[t].expires # NoExpiry /\ tasks[t].expires <= now
RunningTaskIsRecovered == \A t \in Tasks : LeaseRanOut(t) ~> ~LeaseRanOut(t)
-----------------------------------------------------------------------------
(* The inductive invariant behind the safety properties above, whatever     *)
(* goes wrong.                                                              *)

Reporting == {"reporting", "givingup"}
WithLease == {"working", "joining", "report", "giveup"} \cup Reporting
CompleteSteps == {"complete_put", "complete_webhook"}

\* A runner waits for the invocation that it called, for a task of its own, and
\* once it holds a lease, for the task of that lease.
Serves(q, r, steps) == q \in Slots /\ req[q].pc \in steps /\ RunnerOf[req[q].task] = r
OwnCalls(r) ==
    /\ agent[r].pc = "claiming" => Serves(agent[r].call, r, {"claim_put"})
    /\ agent[r].pc \in Reporting => /\ Serves(agent[r].call, r, CompleteSteps)
                                    /\ req[agent[r].call].task = TaskOf(r)
    /\ agent[r].pc \notin {"claiming"} \cup Reporting => agent[r].call = NoCall
    /\ beat[r] \in Slots => /\ Serves(beat[r], r, {"heartbeat_put"})
                            /\ req[beat[r]].task = TaskOf(r)
    /\ beat[r] # "off" <=> agent[r].pc \in {"working", "joining"}
OwnLease(r) ==
    IF agent[r].pc \in WithLease
    THEN agent[r].lease \in held /\ issued[agent[r].lease].runner = r
    ELSE agent[r].lease = NoLease
OwnResult(r) ==
    /\ agent[r].pc = "joining" => agent[r].result \in Results \cup {"raised"}
    /\ agent[r].pc \in {"report", "giveup"} \cup Reporting => agent[r].result \in Results

SysIInv ==
    /\ IInv /\ SysTypeOK
    /\ \A r \in Runners : OwnCalls(r) /\ OwnLease(r) /\ OwnResult(r)

-----------------------------------------------------------------------------
(* What it takes in addition, for the tasks that have been spared the faults *)
(* that stand in its way.                                                   *)

\* Whatever happens: a task that is, was or is about to be leased is routed,
\* and no row ever takes it back to "queued".
Routed(t) == tasks[t].status \notin {"absent", "queued"}
CallSteps == {"claim_put", "heartbeat_put"} \cup CompleteSteps
RoutedInv ==
    /\ \A t \in Tasks : tasks[t].lease # NoLease => Routed(t)
    /\ \A q \in Slots : req[q].pc \in CallSteps => Routed(req[q].task)
    /\ \A l \in held : Routed(issued[l].task)

\* An invocation that was called still has its caller, the runner's one call, ...
CalledBy(q, r) ==
    /\ req[q].pc \in {"claim_put"} \cup CompleteSteps => agent[r].call = q
    /\ req[q].pc = "heartbeat_put" => beat[r] = q
    /\ req[q].pc \in CallSteps \ {"claim_put"} => agent[r].lease = req[q].row.lease
CallInv ==
    \A q \in Slots :
        req[q].pc \in CallSteps /\ Spared(req[q].task, {"desertion"})
            => CalledBy(q, RunnerOf[req[q].task])

\* ... a submission has its task to itself until that is in the queue, ...
Alone(q, steps) ==
    \A p \in Slots : req[p].pc \in steps /\ req[p].task = req[q].task => p = q
SubmitInv ==
    \A q \in Slots : req[q].pc = "submit_enqueue" =>
        /\ tasks[req[q].task].status = "queued" /\ req[q].task \notin queue
        /\ Alone(q, PC \ {"idle"})

\* ... and so has a consumer, whose message goes when the task is routed.
ConsumerInv ==
    /\ \A q \in Slots :
          req[q].pc \in ConsumerSteps /\ Spared(req[q].task, {"redelivery"}) =>
              /\ req[q].task \in queue /\ Alone(q, ConsumerSteps)
              /\ req[q].pc \in {"consume_runner", "consume_put"} =>
                    tasks[req[q].task].status = "queued"
    /\ \A t \in queue :
          tasks[t].status # "queued" /\ Spared(t, {"redelivery"}) =>
              \E q \in Slots : req[q].pc \in {"consume_notify", "consume_ack"} /\ req[q].task = t

\* Then the runner that was given a task holds the lease of its row, ...
HoldsTask(r) ==
    agent[r].pc \in WithLease /\ Spared(TaskOf(r), {"redelivery", "desertion"}) =>
        tasks[TaskOf(r)].lease = agent[r].lease

ExclusiveInv ==
    /\ RoutedInv /\ CallInv /\ SubmitInv /\ ConsumerInv
    /\ \A r \in Runners : HoldsTask(r)

\* ... works on, and reports, a task that has not ended, ...
Undisturbed(t) == Spared(t, {"redelivery", "desertion", "misreport"})
TaskIsOpen(r) ==
    agent[r].pc \in WithLease /\ Undisturbed(TaskOf(r)) =>
        /\ \/ agent[r].pc \in WithLease \ Reporting
           \/ agent[r].pc \in Reporting /\ req[agent[r].call].pc = "complete_put"
           => tasks[TaskOf(r)].status \in {"leased", "running"}
        /\ agent[r].pc \in Reporting /\ req[agent[r].call].pc = "complete_webhook"
           => tasks[TaskOf(r)].status \in Results

\* ... and claims one that has not begun.
ClaimIsOpen(q) ==
    req[q].pc = "claim_put" /\ Undisturbed(req[q].task) =>
        tasks[req[q].task].status \in {"pending_runner", "leased"}

OpenInv == (\A r \in Runners : TaskIsOpen(r)) /\ (\A q \in Slots : ClaimIsOpen(q))

\* The one lease given out for a task is the row's, no other is on its way, and
\* until the task has ended its runner holds it.
HeldIsLast(l) ==
    LET t == issued[l].task
        r == RunnerOf[t]
    IN  Spared(t, Marks) =>
            /\ tasks[t].lease = l /\ tasks[t].status # "pending_runner"
            /\ tasks[t].status \in {"leased", "running"} =>
                  agent[r].pc \in WithLease /\ agent[r].lease = l
            /\ \A q \in Slots : req[q].pc = "claim_put" => req[q].task # t
HandedInv == \A l \in held : HeldIsLast(l)
=============================================================================
