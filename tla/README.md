# Task Hub: models and proofs

TLA+ models of Task Hub, the TLC runs that check them on small instances, and
TLAPS proofs of what matters most for every instance. All source paths below are
relative to the repository root.

- `tlc -config X.cfg M` runs a configuration; `PROJECT.json` names the module of each.
- `tlapm M.tla` checks the proofs of a `*Proofs` module.

## 1. The system

Task Hub hands tasks from an operator to one named runner machine.

```
 console / automation --HTTP--> Worker --send--> Queue --batch--> Worker (consumer)
        ^                         |  ^                                |
        | WSS events              D1 +-- claim, heartbeat,            | notify
        |                            |   logs, complete (HTTPS)       v
        +------- Durable Object: RunnerHub --WSS task_available--> runner process
```

| part | source | state it keeps | operations |
|---|---|---|---|
| Worker task service | `src/worker/task-service.ts`, `d1-store.ts`, `index.ts` | D1 rows of runners, tasks, webhook deliveries | registerRunner, submitTask, processQueuedTask, claimTask, heartbeat, appendLogs, completeTask, recordWebhookDelivery |
| Queue | Cloudflare, used by `index.ts` | messages not acknowledged | send, deliver (at least once), ack |
| Runner hub | `src/worker/runner-hub.ts` | the runtime's sockets, tags, attachments | acceptRunner, acceptAdmin, notifyTaskAvailable, broadcastAdminEvent, getPresence, close and error handlers |
| Admin console | `src/worker/admin-page.ts` (script) | session, filter, selection, presence, socket, timer, calls in flight | sign-in and out, refresh, select, self-check, reconnect |
| Runner runtime | `runner/taskhub_runner/core.py`, `client.py`, `loop.py`, `cli.py` | lease at hand, heartbeat thread | run_once, LeaseHeartbeat, run_runner_loop |
| Runner threads | `runner/taskhub_runner/wake.py`, `loop.py`, `platforms/windows/controller.py` | flags, threads, active app, status | start, stop, interrupt, wait, _run |
| D1 listings | `d1-store.ts`, `pagination.ts`, read by `admin-page.ts` | `created_at`, status, `last_heartbeat_at` of the rows; filter, cursor and requests of the console | listTasks, listRunnerViews, cursors; loadTasks, next page, loadRunners |
| Task logs | `task-service.ts`, `d1-store.ts` | R2 objects | appendLogs, saveLogs, getTaskLogs |
| Handlers, handler installer, configuration | `runner/taskhub_runner/` | files of a runner | run, install, load |
| Ubuntu and Windows platforms | `runner/platforms/` | services, checkout, handlers, tray | install, update with rollback, tray menu |

How they interact: the Worker's invocations share nothing but D1, the queue and
the hub. Every await lets another invocation run, and the service writes whole
rows that it built from an earlier read, so its hard behaviours are stale writes.
The queue delivers more than once and out of order. Runners call the Worker over
HTTP, where answers get lost and clients give up while the invocation goes on.
Notifications are best effort; a fallback claim every ten minutes makes up for
them. Runner processes and the console have their own concurrency: Python threads
with flags and joins that time out, and JavaScript continuations that come back
in any order.

What makes each part correct:

- **Service**: one task per idempotency key, leases that stay with their task and
  runner, rows that never get stuck in a lease that cannot expire, no wake before
  the task can be claimed, true webhook reports, final results.
- **System**: a task that reached the queue ends; a runner holds its task's lease
  while it works, does not race its own heartbeat, and comes back to claiming.
- **Hub**: presence events and snapshot agree, a replaced connection speaks for
  nobody, notifications reach their runner only.
- **Console**: nothing of an ended session or an overtaken request shows; a hidden
  tab is quiet; a visible one keeps connecting.
- **Runner threads**: one loop, a true status, no lost wake-up, a prompt stop.
- **Listings**: whoever pages through tasks or runners misses none that was there
  all along and sees none twice; the rows shown answer the filter set; online means
  that the runner called.
- **Logs**: logs once stored are lost to nobody else's; a reading shows all of them, and
  one object that is malformed or gone hides no other.

`PROJECT.json` lists every hazard behind these with its line and the properties
that cover it. Hazards that no property covers yet carry a note.

## 2. Modules

| module | models |
|---|---|
| `TaskHubService` | the Worker's task state machine over D1, the queue, invocations as slots |
| `TaskLifecycle` | the abstract promise: a ledger of leases and task statuses |
| `TaskHubSystem` | runner processes (main and heartbeat thread) composed with `TaskHubService`, and faults |
| `RunnerHub` | the Durable Object |
| `AdminConsole` | the console's script against the Worker and the hub's events |
| `RunnerLoop` | control thread, loop thread and wake listener of a runner process |
| `TaskPages` | the task list page by page: listTasks, its cursors, and the console's list |
| `RunnerDirectory` | runner rows under registrations and heartbeats, and the paged list of their views |
| `TaskLogs` | the logs of a task: uploads of successive lease holders, and a reading |
| `Management` | the three before it side by side: what the management API reads and shows |
| `TaskHubServiceProofs`, `TaskHubSystemProofs`, `RunnerHubProofs`, `AdminConsoleProofs`, `RunnerLoopProofs`, `RunnerDirectoryProofs`, `TaskLogsProofs` | theorems about the module of that name |
| `ManagementProofs` | theorems about `TaskPages`, and about the management API as a whole |
| `MCTaskHubService`, `MCTaskHubSystem`, `MCRunnerHub`, `MCAdminConsole`, `MCManagement` | constants, symmetry and scenarios for TLC |

### TaskHubService

`tasks`, `runners` and `webhooks` are the D1 tables, reduced to the columns the control
depends on. `queue` holds the tasks with an unacknowledged message. `req[q]` is what
invocation `q` is about to do and the row it will write. A handler is one action per
storage call that can be overtaken: `SubmitFind`, `SubmitPut`, `SubmitEnqueue` for
submitTask; `ConsumeRead` to `ConsumeAck` for the queue consumer, with `ConsumeNotify`
for the hub; `ClaimFind`, `ClaimPut`; `HeartbeatRead`, `HeartbeatPut`; `CompleteRead`,
`CompletePut`, `CompleteWebhook`. Reads that nothing between them can disturb are one
action. `Fail(q)` ends an invocation at any await. `ConsumeRead` takes a message
whatever the row says and while another consumer has it: the queue delivers at least
once, and processQueuedTask does not look at the status. `Results` are the statuses
runners report; completeTask stores what it is sent, so that they are any but those of a
task that has not ended (`Terminal` has those of `types.ts`). D1's constraints are
guards: UNIQUE on the idempotency key, FOREIGN KEY on the runner. `issued`, `held`,
`accepted`, `notified`, `completed` are history the properties need and no guard reads,
apart from a fresh lease id being unused.

`TaskLifecycle` is weak on purpose, because the code is: a stale write may take a
status back or bring an older lease back. It still says that a row is created
once, that a lease in a row was granted for that very task and its runner, that
only a lease the runner was told of lets a task run or end, and that only stored
results are reported.

### TaskHubSystem

Each runner has `agent` (main thread of run_once), `beat` (its heartbeat thread)
and `wake`. A call takes a slot of the service; which idle slot, and which unused
lease id, makes no difference, so that one is taken (`IsAny`). When the client times
out or the process dies, the slot goes on alone (`Orphan`). `Raise` is Python's
control flow: an exception in the try block of run_once leads to complete("failed"),
elsewhere it ends the process, which the service manager starts again. In the except
branch the upload of the heartbeat's errors comes first and may raise itself
(`UploadFails`).

Twelve kinds of fault, of which `Faults` and `MaxFaults` choose those a run admits. A
fault befalls a task and leaves a mark on its record (`faults.of`), by what it does to
that task:

| mark | kinds | what happens |
|---|---|---|
| none | `consumer_fails`, `claim_fails` | an invocation ends before it has written |
| `redelivery` | `consumer_unacked`, `redelivered` | the message is handed out again though the task may be routed: the consumer died after its write, or a second one takes the message beside the first |
| `desertion` | `timeout`, `join_timeout`, `crash_running` | an invocation goes on without its caller, or the runner dies with the task begun |
| `misreport` | `report_fails`, `report_lost` | the runner does not learn what became of its completion |
| `loss` | `claim_lost`, `crash_leased`, `upload_fails` | the task is given to a runner that does not work on it, or does not report |

The properties speak of tasks that bear no mark of the faults that break them, while
other tasks, and this one by other faults, meet whatever they like. That a marked task
does lose what they promise is the code's doing, and shown where a document promises
otherwise (section 5): a message handed out again puts a leased or finished task back to
pending_runner, so that another claim takes its lease or its result.

### RunnerHub

`sock` and `attachment` are what the runtime keeps through hibernation; the object
has no other state. A handler is one action, as the object runs them one at a
time. Sends that throw are a set `failed` chosen in each broadcast. Close events
come late: a closed socket stays listed until its handler runs. `Redeploy` closes
every socket.

### AdminConsole

`page` is the state object and the part of the DOM that carries state. The
script's functions are operators from page to page, so that what runs in one turn
of the event loop is one step. A call in flight carries the outcome of the
script's own checks (`fresh`: same session epoch, `latest`: same request
generation); starting a session or a request clears it. An answer is good, an
error, or a 401. The calls in flight are a bag, since two may be alike; what
overtakes some of them is a function from calls to calls, and `Changed` gathers those
that become alike. Presence is read by the Worker at one moment (`PresenceRead`) and
applied at a later one (`Response`). The socket has a stage `accepted`, in which
the hub already sends and onopen has not run.

### RunnerLoop

Every access to a shared flag, thread reference or active app is a step. The
control thread is the tray's; stop() is split at the request, the interrupt and
the end of the join, and `Finish` respects the lock stop() holds. `wait()` is
split between return and clear. The app of websocket-client is external: close()
ends a running app, and one whose run_forever has not begun forgets the close. A
join of the listener ends early only while its thread is held up in run_forever.
The writing of the traceback file always succeeds here.

### TaskPages

`rows` is the tasks table with status and `created_at`; the row may be inserted
long after its time was taken, so that `Insert` is free in `created`. `list` is the
console's filter, cursor, next cursor and rows, `loads` its requests in flight. The
Worker reads the page at one moment (`Read`), the answer is applied at a later one
(`Receive`) and only if no newer request was made (`latest`, the script's
taskRequestGeneration). `Page` is the query of listTasks: filters, keyset condition,
order, LIMIT plus one row that only says whether there is more. `shown`, `steady`,
`walk`, `ours` and `of` are history: what was shown since the filter was chosen, what
matched ever since, and whether the cursor descends from a first page of this filter.

### RunnerDirectory

A registration reads the row and writes it back later; a claim or heartbeat takes the
time and writes it later (`Touch`). Both are calls in flight, in any order and number.
`StatusOf` is the CASE of the view over the clock, evaluated anew for each page. The
cursor of a page is the id of its last runner. `Encodable` are the ids btoa can take,
those in Latin-1: a page that would end at another is answered 500 and ends the load.
`load` is the loop of loadRunners, or of another client of the API that asks for a
status; `console` is the list shown last and the selected runner. `called` and
`steady` are history.

### TaskLogs

An upload passes the check of its lease (`AppendLogs`) and is written later
(`SaveLogs`), perhaps after the task was claimed again. An R2 key is the pair of
millisecond and lease. `reading` is getTaskLogs: the loop over R2's pages, then one
object at a time, a batch with entries that are no log entries counted in
invalidObjects. Nothing in the code deletes an object, but getTaskLogs is ready for one
that is gone; `Remove` is somebody who deletes one in the bucket, and `removed` the
history of it. R2's list is external: the next keys after a cursor, in order.

### Management

The three modules share no state: they read other tables, and other parts of the
console. `ApiSpec` is their conjunction, with the fairness of `RunnerDirectory`, and a
step of it (`ApiNext`) is a step of one that leaves the others alone. The properties
of `RunnerDirectory` and `TaskLogs` have their names here too. TLC need not interleave
what shares nothing: in `MCManagement` one part moves in a behaviour, chosen at the
start, so that each behaviour of the instance is one of `ApiSpec`, and one run checks
all three.

## 3. Runs

| run | instance | what it shows |
|---|---|---|
| `service` | two scenarios with 2 invocations, below | the proofs' inductive invariant; one task per key; no wake before routing; leases stay bound and can expire; webhooks are true; every step is a `TaskLifecycle` step |
| `system` | 1 task, 1 runner, 3 leases, up to 2 faults of 6 kinds | lease held while working and task handed out once, but for what the marks name; every queued task ends |
| `faults` | 2 tasks (one without a handler), any one fault of all 12 kinds | heartbeat and report never race and results are final, but for what the marks name; the runner always comes back to claiming |
| `hub` | 2 runners sharing a tag, 3 connections, 1 console | presence, replacement, targeting |
| `console` | 1 runner, 2 tasks, 3 calls in flight, 1 event on the wire | session, request order, visibility, reconnection |
| `loop` | 2 starts | one loop, true status, no lost wake-up, prompt stop |
| `management` | 3 tasks, 3 runners, 3 batches of logs, pages of one row | complete and disjoint pages, rows that answer the filter, online means called, selection kept, paging ends, logs lost to nobody else's and read completely |
| `enqueued`, `terminal`, `crash`, `console_presence`, `connections` | small | disagreements of code and documentation, section 5 |

Why the bounds are enough:

- Two invocations show every stale write, since a write is stale against one other
  write; two leases allow a lease to be taken over while the first holder still
  presents it.
- `service` chooses one of two scenarios at the start, constraints on what is
  enabled, so that the bound goes where the races are. `submission`: two submissions
  with one key, one runner that registers again with other types, from the first
  registration to the first claim; heartbeats and completions end before their write.
  `lease`: two tasks for one runner, one invocation at a time until both are routed,
  and from then on two runners, two leases, two clock values and the message that
  was not acknowledged, all free.
- `management`: with a page of one row every boundary between pages is met. Three tasks
  make a page in the middle; a second request is under way only while there are two rows
  (`Narrow`). The list begins unfiltered; then a runner is chosen, and a status besides
  or no status again, back and forth. The clock ticks before the first row
  (`ClockGoesFirst`), which loses nothing: a row's `created_at` is any time up to the
  clock's. One tick is enough for two rows with equal and with different `created_at`,
  and makes an online runner stale (`OnlineFor` 0, `StaleFor` 1; a filter may ask for
  stale ones). Of three runners two are registered at a time (`Two`), in whatever order;
  the one in the middle has an id no cursor can carry, so that a list of two is read to
  its end or fails at its first page. That one registers and never calls, which its
  client cannot either: it puts the id into the path of a claim as it is. Two calls in
  flight are a registration overtaken by a touch; two loads, one that follows another.
  Three batches by two leases in two milliseconds meet in one key or not; one of the
  three is malformed, and any may be deleted at any time.
- The clock needs one step past an expiry; `system` has two so that an expiry can
  happen twice. `LeasesWillExpire` keeps a crash from happening where the bounded
  clock could no longer pass the expiry, which would show a false starvation.
- In `system` the faults are those after which the code still brings the task to an end,
  redelivery included; two of them can follow one another. `faults` admits all twelve,
  one at a time: with two, their marks only add up, and the theorems are for any number.
  `crash_running` and `report_lost` are not in `system` because they refute
  `QueuedTaskEnds` and what the documents say of results, as `crash` and `terminal` show.
- Tasks are submitted before the first tick (a guard of `ClientSubmits`): the service
  compares the clock with expiries of leases only, and `created_at` orders claims.
- `service` has a result status, "done", that is none of `TerminalTaskStatus`:
  completeTask validates nothing. A handler that returned the name of a status of a task
  that has not ended would be stored as well; that is outside `ConstantsAssumption`,
  since the properties could then not tell a result from a task under way.
- A refresh takes two calls; with a third the console has a request that overtakes
  it. While one of three is a call of an ended session, no event is on the wire
  (`MCAdminConsole!Narrow`). Tasks are interchangeable (symmetry, in a run without
  liveness properties).
- The second start of a runner's loop meets everything the first left behind.
- The bounds `MaxTime`, `MaxNow`, `MaxMs`, `MaxFaults`, `MaxCalls`, `MaxWire`,
  `MaxStarts`, `MaxLoads` and `MaxReloads` are guards. `CHECK_DEADLOCK FALSE`
  is set where the system may rest: all tasks done, all leases used, all threads ended.
  The console never rests and is checked for deadlock.

Fairness:

- `SysSpec`: a process runs on and is restarted, as systemd does with `Restart=always`
  (the Windows tray starts its loop once, and one that ended with an error waits for
  the user: there `RunnerKeepsClaiming` and `QueuedTaskEnds` need the user), an invocation
  that has begun runs on, the queue delivers, handlers return (the runner enforces a
  timeout), time passes. Submissions and faults are not fair. The fallback claim is
  part of `Agent`'s fairness: `loop.py` bounds the wait.
- `RunnerLoop!Spec`: threads run on, and a loop that ends gets the lock between two
  stops (strong fairness of `Finish`). The fallback interval is not fair, so
  `StopEnds` shows that the interrupt does the work.
- `RunnerDirectory!Spec`: a page asked for is read, and an answer is received
  (`LoadEnds`); a request that fails ends the loop as well. Nothing else is fair: the
  loop must end whatever the rows and the clock do meanwhile.

Every property of a passing run has a mutant in `PROJECT.json`: a plausible bug in
one definition under which TLC finds the property violated.

## 4. Proofs

All theorems hold for any values of the constants that satisfy the named
assumptions in the modules (`ConstantsAssumption`, `SystemAssumption`,
`HubAssumption`, `ConsoleAssumption`, `MaxStartsAssumption`, `PagesAssumption`,
`ManagementAssumption`) or, for the two modules that `Management` instantiates, the
hypotheses their theorems name (`ClockAssumption`, `ListAssumption`,
`LogsAssumption`), which `ManagementAssumption` joins; TLC evaluates all of them on
the instances. Every safety property of a run that passes is a theorem. None assumes
that a fault does not happen.

**TaskHubServiceProofs.** `Invariance` proves `Spec => []IInv`. The run's
properties are not inductive alone. `LeaseBinding` is preserved by a write only if
the row about to be written is bound too; `LeasedCanExpire` needs to know which
rows each handler writes (`PendingRow`); `RetriesNameOneTask` needs that a
submission owns the id it made until it stores it (`SlotTask`) and that no two
stored tasks share a key; `WokenTaskIsRouted` needs that a consumer about to notify
has routed the task. `IInv` is the conjunction. The proof has one lemma per handler
(`StepSubmit`, ..., `StepRest`), one step per action and one per conjunct it can
disturb. From it follow `TypeCorrectness`, `SubmissionIsIdempotent`,
`LeasesStayBound`, `LeasesCanExpire`, `WakeAfterRouting`, `WebhooksAreTrue`, and
`ImplementsLifecycle`: every step of the service is one of `TaskLifecycle` or a
stutter, under the mapping in `TaskHubService!Lifecycle`.

**TaskHubSystemProofs.** All theorems are of `SysSafety`, with any faults in any number.

`SysIInv` is the service's `IInv`, the types, and for each runner: it waits for the one
invocation it called, which is at the step that this call reaches and for a task of that
runner (`OwnCalls`); its lease was granted to it and it was told so (`OwnLease`); a
result it is about to report is one (`OwnResult`). A step of one runner leaves the calls
of the others alone because a slot has one caller (`OneCaller`). Theorems
`SysInvariance`, `SysTypeCorrectness`, and `SystemKeepsLedger`: each step of the system
is a step of the service or leaves it alone, so that the ledger `TaskLifecycle` is kept
by a service whose callers time out, die and repeat themselves.

The other invariants speak of a task that bears no mark of the faults that stand in the
way. They are inductive because a step concerns one slot and through it writes one task
at most (`SlotStep`), and a fault marks the task of its slot.

- `ExclusiveInv`. Whatever happens, a task that was leased is routed and is never
  "queued" again (`RoutedInv`), and a submission has its task to itself until it is in
  the queue (`SubmitInv`). Without desertion an invocation has its caller (`CallInv`).
  Without redelivery a consumer has its message to itself, and the message of a routed
  task is about to be acknowledged (`ConsumerInv`): this is what redelivery breaks, since
  a consumer that died before its ack leaves the message of a routed task behind.
  Without either, the runner given a task holds the lease of its row (`HoldsTask`). The
  lease may have expired; it is safe because only the runner's own loop could claim the
  task again, and that loop is busy. Theorems `ExclusiveWork`, `LeaseIsKept`, and
  `HeartbeatEndsFirst`, for which desertion alone is in the way: a call whose runner is
  there is the runner's one call.
- `OpenInv`. Without misreports either, what a runner works on or claims has not ended.
  Theorems `WorkIsOpen`, `ResultsAreFinal`. `terminal`, which admits `report_lost` alone,
  shows that the mark is needed: the service does not look at the status, so that
  results are final only because a runner reports once.
- `HandedInv`. Without losses either, a lease given out is the row's, and its runner
  holds it until the task ends. Theorem `TaskIsHandedOutOnce`.

**RunnerHubProofs.** Typing, `NewestStandsForRunner`, `AnnouncedIsPresence` and
`OwnTasksOnly` are inductive together with the fact that a console not yet accepted
was told nothing. Announcing a disconnection is right only because the attachment
it clears was the runner's last, which is `NewestStandsForRunner`. Theorems
`PresenceIsAnnounced`, `ReplacedIsDisowned`, `NotificationsAreTargeted`,
`TypeCorrectness`.

**AdminConsoleProofs.** The script's functions call one another, and the proof follows
them: a lemma per function says which parts of the invariant it preserves and which it
restores. `Sound` is preserved by all: the types, nothing kept and no refresh under way
without a session, nothing connected in a hidden tab, the current request for rows asks
for the filter, the detail is that of the selection. `Connects` and `RowsFollow` are
not: when an answer arrives, the call that was the reason why a socket or new rows
were still to come is gone, and what the answer does has to give the reason back.
`TakenFrom` says what is left in between. `RowsFollow` is stronger than
`RowsMatchFilter`: it also speaks of the refresh after which connect() shows the app.
That the calls are a bag, and of finitely many different calls, needs an account of
how many copies of each there are: `Changed` counts them as the size of a set of
pairs (`Copies`), because a sum over a bag is recursive in the library and no proof
can expand it. The set is finite by well-foundedness of the subset order
(`CopiesAreFinite`), and a call that is in flight has a copy, so that the bag of the
changed calls has no empty entry (`ChangedIsACallBag`). Theorems `Invariance`,
`TypeCorrectness`, `NothingIsShownSignedOut`, `HiddenIsQuiet`, `VisibleConnects`,
`RowsFollowFilter`, `DetailFollowsSelection`.

**RunnerLoopProofs.** The loop alive is the one the controller holds
(`HeldByController`), and news since the last claim began leaves the flag up while
the loop works or sleeps (`NewsIsHeard`); with typing and `StatusIsTheLoops` these
are inductive. Theorems `SingleLoop`, `StatusIsTrue`, `NoLostWakeUp`,
`TypeCorrectness`.

**ManagementProofs, task pages.** These theorems are about `TaskPages!Spec`. A page is
the range of the matching rows between its two cursors (by an induction-free argument:
a page of `Limit` rows has a last one and everything before it), and no step changes a
stored row's key. `IInv` says
of each request in flight that the latest asks for what the list is set to and that
its answer holds the steady tasks of its range (`LatestLoad`) and nothing outside
(`AnswerWithin`); that steady tasks match (`SteadyMatches`); that those before the
list's cursor were shown on a walk (`WalkIsShown`); and that the rows shown are
before the next cursor (`RowsArePassed`). Theorems `TypeCorrectness`,
`PagingIsComplete`, `RowsAreCurrent`, `PagesAreDisjoint`.

**RunnerDirectoryProofs.** A heartbeat time in a row or in a call in flight is one
the runner has called at or after (`HeardFrom`), and no runner has called in the
future. From it `OnlyCallersAreOnline`; `HeartbeatsAreKept` needs that a touch in
flight carries a time. `ListInv` is about the list: what was received is in order,
before the cursor, and has every steady runner that far (`ReceivedSoFar`); the page
answered has those from the cursor to the next one (`AnswerFollows`); and the runners
the console shows are steady while a list of every status is read, because rows are
never deleted (`ConsoleIsSteady`). That a page is the range between its cursors
(`PageIsTheRange`) needs that every set of runners can be put in order: a smallest one
that cannot would be the successor of one that can (`OrderExists`). Theorems
`ListInvariance`, `ListsAreComplete`, `SelectionsAreKept`, `TypeCorrectness`.

**TaskLogsProofs.** A stored object is the last batch written to its key, and the key
holds the batch's lease (`ObjectsAreSaved`); the key of a batch that was written still
holds one, or one of its batches was deleted (`SavedAreStored`). What was stored when a
reading began and was not deleted since (`ThereIsStored`) is listed or ahead of the
cursor (`ListedSoFar`), and what was listed is an entry, counted, or still to read
(`ReadSoFar`). That a page of R2's list has a
last key rests on the well-foundedness of the subset order of finite sets. Of
a reading that has not come to its objects these say nothing; for its type
`BeforeReading` adds that nothing is left to read and nothing counted by then.
Theorems `LogsAreLostToOwnLeaseOnly`, `ReadingsAreComplete`, `TypeCorrectness`.

**ManagementProofs, the API as a whole.** A lemma, `EachPartOfItsOwn`: a behaviour of
`ApiSpec` is one of `TaskPages!Spec`, of `RunnerDirectory!Spec` and of `TaskLogs!Spec`,
because a step of one part stutters in the others. The theorems of
`RunnerDirectoryProofs` and `TaskLogsProofs` are taken over by INSTANCE with the API's
variables; that their formulas are those of `Management`, which instantiates the modules
and not the proofs, is shown by expanding both (`ApiSpecIsTheirs`, `ConstantsSuitThem`).
Theorems `ApiTypeCorrectness`, `OnlineOnlyByCalling`, `HeartbeatsStay`,
`RunnerListsAreComplete`, `OnlyClicksSelect`, `LogsAreLostToOwnLease`,
`LogReadingsAreComplete`.

Only model-checked:

- Liveness (`QueuedTaskEnds`, `RunnerKeepsClaiming`, `StopEnds`, `LoadEnds`), which
  TLAPS does not reach.
- The properties of the runs that expect a violation, which are false.

## 5. Where code and documentation disagree

1. `enqueued`: submitTask stores the row before it enqueues. If the send fails, a
   retry with the same key is answered 202 from the row and nothing enqueues the
   task. `README.md` says "The Worker enqueues accepted tasks".
2. `terminal`: completeTask does not look at the status, and the lease id stays in
   the row. When the answer of a completion is lost, the runner's except branch
   completes the task again as "failed".
3. `crash`: only "leased" rows are claimable after expiry. A runner that dies after
   its first heartbeat leaves the task running for good.
4. `console_presence`: refreshAll shares a refresh that is under way, so that onopen
   may not read presence anew; a change between the old snapshot and the hub's
   accept is missed until the next refresh or event of that runner.
5. `connections`: WakeListener.stop forgets a thread its join gave up on; the next
   start clears the shared stop flag and two listeners connect, each making the hub
   close the other. `runner/platforms/windows/README.md` says the process keeps one
   connection.

## 6. Not modelled, and why

- Credentials, hashing, tickets and webhook signatures: no protocol state; the
  models take their verdict.
- Payloads, results, log text, rendering, back-off delays: no property is about
  them.
- Queue retries that run out, and the rest of a batch after a message that throws:
  listed as hazards.
- Of the listings: the type filter, which the console never sends, the current task of
  a runner's view, and the refusal of malformed cursors and limits, which ends a
  request before it reads anything. A task's cursor is modelled as the pair it encodes:
  `created_at` and task ids are ASCII, so that base64 of JSON gives it back.
- Of the logs: the lines of a batch and their order by timestamp.
- `in-memory-store.ts` is the double the tests use in place of D1. Where it differs it
  is no reference for the deployed program: its putRunner writes the heartbeat time it
  was given (a mutant of `RegisterPut` does the same and breaks `SeenStaysSeen`), and
  it compares runner ids with localeCompare where D1 compares bytes.
- The Ubuntu updater and the handler installer: sequential transactions over files
  and services, run by hand; they meet the rest only as a restart of the runner
  process, which `TaskHubSystem` has. Planned, below.
- Configuration parsing, manifests, subprocesses of handlers, tray and setup
  dialogs, install scripts, CI: I/O and provisioning without protocol of their own.

## 7. Plan

In this order; the first nine items and the last two are done.

1. `TaskHubService`, `TaskLifecycle` and their proofs: the core.
2. `TaskHubSystem`: runners and faults.
3. `RunnerHub` and its proofs.
4. `AdminConsole`.
5. `RunnerLoop` and its proofs.
6. Runs for the disagreements met on the way.
7. `TaskPages` and its proofs (in `ManagementProofs`): the task list.
8. `RunnerDirectory` and its proofs: runner rows and their views.
9. `TaskLogs` and its proofs: logs in R2.
10. `UbuntuUpdater` (`runner/platforms/ubuntu_server/update.sh`): preflight, backup,
    stop, checkout, handler refresh, validation, restart, and the rollback of the ERR
    trap, each command free to fail. To check: a failed update leaves the previous
    checkout and handlers with the enabled services active; a service never starts on
    a mixture. To look into: rollback starts services but does not restart one that
    already runs the new version. To prove: the backup invariant.
11. `HandlerInstaller` (`handler_installer.py`): copy, config edit and re-registration
    with a crash between any two.
12. `HubAndConsole`: the hub composed with the console's socket, to replace the
    abstract hub of `AdminConsole`.
13. The run_once branch of a failed log upload, composed with `TaskLogs`: a report
    that the runner retries under the next lease.
14. Done: the proofs of `AdminConsole`, `TaskHubSystem` and the rest of
    `RunnerDirectory`.
15. Done: `Management`, and the properties of `RunnerDirectory` and `TaskLogs` as
    theorems about its behaviours; the calls of `AdminConsole` as a bag.
