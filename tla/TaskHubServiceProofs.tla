------------------------ MODULE TaskHubServiceProofs ------------------------
(* Theorems about TaskHubService, for every value of its constants. *)
EXTENDS TaskHubService, TLAPS

-----------------------------------------------------------------------------
(* Types.                                                                   *)

\* The two ways an invocation's slot changes keep its type.
LEMMA GoType ==
    ASSUME TypeOK, NEW q \in Slots, NEW pc \in PC \ {"idle"}, NEW t \in Tasks,
           NEW row \in Row, Go(q, pc, t, row)
    PROVE  req' \in [Slots -> Idle \cup Busy]
<1>1. [pc |-> pc, task |-> t, row |-> row] \in Busy
    BY DEF Busy
<1> QED
    BY <1>1 DEF TypeOK, Go

LEMMA FinishType ==
    ASSUME TypeOK, NEW q \in Slots, Finish(q)
    PROVE  req' \in [Slots -> Idle \cup Busy]
    BY DEF TypeOK, Finish, Idle, idle

\* What a busy slot holds.
LEMMA BusyType ==
    ASSUME TypeOK, NEW q \in Slots, req[q].pc # "idle"
    PROVE  /\ req[q] \in Busy
           /\ req[q].pc \in PC
           /\ req[q].task \in Tasks
           /\ req[q].row \in Row
<1>1. req[q] \in Idle \cup Busy
    BY DEF TypeOK
<1>2. req[q] \notin Idle
    BY DEF Idle
<1> QED
    BY <1>1, <1>2 DEF Busy

LEMMA PutRowType ==
    ASSUME TypeOK, NEW q \in Slots, req[q].pc # "idle", PutRow(q)
    PROVE  tasks' \in [Tasks -> Row]
    BY BusyType DEF TypeOK, PutRow

\* The row a handler builds from the one it read.
LEMMA RowUpdate ==
    ASSUME NEW row \in Row, NEW s \in Status, NEW l \in Leases \cup {NoLease},
           NEW e \in Expiry
    PROVE  /\ [row EXCEPT !.status = s] \in Row
           /\ [row EXCEPT !.status = s, !.expires = e] \in Row
           /\ [row EXCEPT !.status = s, !.lease = l, !.expires = e] \in Row
    BY DEF Row

LEMMA ExpiryType ==
    ASSUME TypeOK
    PROVE  /\ now + LeaseTime \in Expiry
           /\ now + LeaseTime # NoExpiry
           /\ NoExpiry \in Expiry
    BY ConstantsAssumption DEF TypeOK, Expiry, NoExpiry, Time

LEMMA NoRowType == NoRow \in Row
<1>1. 0 \in Time
    BY ConstantsAssumption DEF Time
<1> QED
    BY <1>1 DEF NoRow, Row, Status, Open, Expiry

\* A result is none of the statuses of a task still under way.
LEMMA NotOpen ==
    \A s \in Results : s \notin {"absent", "queued", "pending_runner", "leased", "running"}
    BY ConstantsAssumption DEF Open

LEMMA TypeInit == Init => TypeOK
<1> SUFFICES ASSUME Init PROVE TypeOK
    OBVIOUS
<1>1. 0 \in Time
    BY ConstantsAssumption DEF Time
<1>2. req \in [Slots -> Idle \cup Busy]
    BY DEF Init, Idle, idle
<1> QED
    BY <1>1, <1>2, NoRowType DEF Init, TypeOK, NoRunner

\* Next, one action at a time.
LEMMA NextCases ==
    ASSUME Next, NEW G,
           ASSUME NEW r \in Runners, NEW types \in Registrations, RegisterRunner(r, types) PROVE G,
           ASSUME NEW t \in Tasks, SubmitRepeat(t) PROVE G,
           ASSUME NEW q \in Slots, Submit(q) PROVE G,
           ASSUME NEW q \in Slots, Consume(q) PROVE G,
           ASSUME NEW q \in Slots, Claim(q) PROVE G,
           ASSUME NEW q \in Slots, Heartbeat(q) PROVE G,
           ASSUME NEW q \in Slots, Complete(q) PROVE G,
           ASSUME NEW q \in Slots, Fail(q) PROVE G,
           Tick => G
    PROVE  G
    BY DEF Next, Handler

LEMMA TypeSubmit ==
    ASSUME TypeOK, NEW q \in Slots, Submit(q)
    PROVE  TypeOK'
<1>1. ASSUME NEW t \in Tasks, SubmitFind(q, t) PROVE TypeOK'
    <2>1. [NoRow EXCEPT !.status = "queued", !.created = now] \in Row
        BY NoRowType DEF TypeOK, Row, NoRow, Status, Open
    <2>2. req' \in [Slots -> Idle \cup Busy]
        BY <1>1, <2>1, GoType DEF SubmitFind, PC
    <2> QED
        BY <1>1, <2>2 DEF SubmitFind, TypeOK, history
<1>2. CASE SubmitPut(q)
    <2>1. req[q].pc # "idle"
        BY <1>2 DEF SubmitPut
    <2>2. req' \in [Slots -> Idle \cup Busy]
        BY <1>2, <2>1, BusyType, GoType, FinishType DEF SubmitPut, PC
    <2>3. tasks' \in [Tasks -> Row]
        BY <1>2, <2>1, PutRowType DEF SubmitPut, TypeOK
    <2> QED
        BY <1>2, <2>2, <2>3 DEF SubmitPut, TypeOK, history
<1>3. CASE SubmitEnqueue(q)
    <2>1. req[q].pc # "idle"
        BY <1>3 DEF SubmitEnqueue
    <2> QED
        BY <1>3, <2>1, BusyType, FinishType DEF SubmitEnqueue, TypeOK
<1> QED
    BY <1>1, <1>2, <1>3 DEF Submit

LEMMA TypeConsume ==
    ASSUME TypeOK, NEW q \in Slots, Consume(q)
    PROVE  TypeOK'
<1>1. ASSUME NEW t \in Tasks, ConsumeRead(q, t) PROVE TypeOK'
    <2>1. tasks[t] \in Row
        BY DEF TypeOK
    <2>2. req' \in [Slots -> Idle \cup Busy]
        BY <1>1, <2>1, GoType DEF ConsumeRead, PC
    <2> QED
        BY <1>1, <2>2 DEF ConsumeRead, TypeOK, history
<1>2. CASE ConsumeRunner(q)
    <2>1. req[q].pc # "idle"
        BY <1>2 DEF ConsumeRunner
    <2>2. PICK s \in {"pending_runner", "failed"} :
              Go(q, "consume_put", req[q].task, [req[q].row EXCEPT !.status = s])
        BY <1>2 DEF ConsumeRunner
    <2>3. [req[q].row EXCEPT !.status = s] \in Row
        BY <2>1, BusyType, ConstantsAssumption DEF Row, Status, Open
    <2>4. req' \in [Slots -> Idle \cup Busy]
        BY <2>1, <2>2, <2>3, BusyType, GoType DEF PC
    <2> QED
        BY <1>2, <2>4 DEF ConsumeRunner, TypeOK, history
<1>3. CASE ConsumePut(q)
    <2>1. req[q].pc # "idle"
        BY <1>3 DEF ConsumePut
    <2>2. PICK pc \in {"consume_notify", "consume_ack"} : Go(q, pc, req[q].task, req[q].row)
        BY <1>3 DEF ConsumePut
    <2>3. req' \in [Slots -> Idle \cup Busy]
        BY <2>1, <2>2, BusyType, GoType DEF PC
    <2>4. tasks' \in [Tasks -> Row]
        BY <1>3, <2>1, PutRowType DEF ConsumePut
    <2> QED
        BY <1>3, <2>3, <2>4 DEF ConsumePut, TypeOK, history
<1>4. CASE ConsumeNotify(q)
    <2>1. req[q].pc # "idle"
        BY <1>4 DEF ConsumeNotify
    <2>2. req' \in [Slots -> Idle \cup Busy]
        BY <1>4, <2>1, BusyType, GoType DEF ConsumeNotify, PC
    <2>3. notified' \subseteq Tasks
        BY <1>4, <2>1, BusyType DEF ConsumeNotify, TypeOK
    <2> QED
        BY <1>4, <2>2, <2>3 DEF ConsumeNotify, TypeOK
<1>5. CASE ConsumeAck(q)
    BY <1>5, FinishType DEF ConsumeAck, TypeOK, history
<1> QED
    BY <1>1, <1>2, <1>3, <1>4, <1>5 DEF Consume

LEMMA TypeClaim ==
    ASSUME IInv, NEW q \in Slots, Claim(q)
    PROVE  TypeOK'
<1> TypeOK
    BY DEF IInv
<1>1. ASSUME NEW r \in Runners, NEW t \in Tasks, NEW l \in Leases, ClaimFind(q, r, t, l)
      PROVE  TypeOK'
    <2>1. [tasks[t] EXCEPT !.status = "leased", !.lease = l, !.expires = now + LeaseTime] \in Row
        BY ExpiryType, ZenonT(40) DEF TypeOK, Row, Status, Open
    <2>2. req' \in [Slots -> Idle \cup Busy]
        BY <1>1, <2>1, GoType DEF ClaimFind, PC
    <2>3. issued' \in [Leases -> {NoGrant} \cup [task : Tasks, runner : Runners]]
        BY <1>1 DEF ClaimFind, TypeOK
    <2> QED
        BY <1>1, <2>2, <2>3 DEF ClaimFind, TypeOK
<1>2. CASE ClaimPut(q)
    <2>1. req[q].pc # "idle"
        BY <1>2 DEF ClaimPut
    <2>2. req[q].row.lease \in Leases
        BY <1>2, <2>1, BusyType DEF ClaimPut, IInv, PendingRow, Row
    <2> QED
        BY <1>2, <2>1, <2>2, FinishType, PutRowType DEF ClaimPut, TypeOK
<1> QED
    BY <1>1, <1>2 DEF Claim

\* A lease the service accepts names a stored task, and the row it read.
LEMMA PresentsType ==
    ASSUME IInv, NEW l \in Leases, Presents(l)
    PROVE  /\ issued[l].task \in Tasks
           /\ Stored(issued[l].task)
           /\ tasks[issued[l].task] \in Row
           /\ tasks[issued[l].task].lease = l
           /\ l \in held
<1>1. issued[l] \in [task : Tasks, runner : Runners]
    BY DEF IInv, Presents, HeldIsIssued, TypeOK
<1> QED
    BY <1>1 DEF IInv, Presents, RequireLease, TypeOK

LEMMA TypeHeartbeat ==
    ASSUME IInv, NEW q \in Slots, Heartbeat(q)
    PROVE  TypeOK'
<1> TypeOK
    BY DEF IInv
<1>1. ASSUME NEW l \in Leases, HeartbeatRead(q, l) PROVE TypeOK'
    <2>1. Presents(l)
        BY <1>1 DEF HeartbeatRead
    <2> DEFINE t == issued[l].task
    <2>2. [tasks[t] EXCEPT !.status = "running", !.expires = now + LeaseTime] \in Row
        BY <2>1, PresentsType, ExpiryType, ZenonT(40) DEF Row, Status, Open
    <2>3. req' \in [Slots -> Idle \cup Busy]
        BY <1>1, <2>1, <2>2, PresentsType, GoType DEF HeartbeatRead, PC
    <2> QED
        BY <1>1, <2>3 DEF HeartbeatRead, TypeOK, history
<1>2. CASE HeartbeatPut(q)
    <2>1. req[q].pc # "idle"
        BY <1>2 DEF HeartbeatPut
    <2> QED
        BY <1>2, <2>1, FinishType, PutRowType DEF HeartbeatPut, TypeOK, history
<1> QED
    BY <1>1, <1>2 DEF Heartbeat

LEMMA TypeComplete ==
    ASSUME IInv, NEW q \in Slots, Complete(q)
    PROVE  TypeOK'
<1> TypeOK
    BY DEF IInv
<1>1. ASSUME NEW l \in Leases, NEW s \in Results, CompleteRead(q, l, s) PROVE TypeOK'
    <2>1. Presents(l)
        BY <1>1 DEF CompleteRead
    <2> DEFINE t == issued[l].task
    <2>2. [tasks[t] EXCEPT !.status = s, !.expires = NoExpiry] \in Row
        BY <2>1, PresentsType, ExpiryType DEF Row, Status
    <2>3. req' \in [Slots -> Idle \cup Busy]
        BY <1>1, <2>1, <2>2, PresentsType, GoType DEF CompleteRead, PC
    <2> QED
        BY <1>1, <2>3 DEF CompleteRead, TypeOK, history
<1>2. CASE CompletePut(q)
    <2>1. req[q].pc # "idle"
        BY <1>2 DEF CompletePut
    <2>2. req' \in [Slots -> Idle \cup Busy]
        BY <1>2, <2>1, BusyType, GoType, FinishType DEF CompletePut, PC
    <2>3. req[q].row.status \in Results
        BY <1>2 DEF CompletePut, IInv, PendingRow
    <2>4. completed' \in [Tasks -> SUBSET Results]
        BY <1>2, <2>1, <2>3, BusyType DEF CompletePut, TypeOK
    <2> QED
        BY <1>2, <2>1, <2>2, <2>4, PutRowType DEF CompletePut, TypeOK
<1>3. CASE CompleteWebhook(q)
    <2>1. req[q].pc # "idle"
        BY <1>3 DEF CompleteWebhook
    <2>2. req[q].row.status \in Results
        BY <1>3, <2>1, BusyType DEF CompleteWebhook, IInv, PendingRow, TypeOK
    <2>3. webhooks' \in [Tasks -> SUBSET Results]
        BY <1>3, <2>1, <2>2, BusyType DEF CompleteWebhook, TypeOK
    <2> QED
        BY <1>3, <2>1, <2>3, FinishType DEF CompleteWebhook, TypeOK, history
<1> QED
    BY <1>1, <1>2, <1>3 DEF Complete

LEMMA TypeNext ==
    ASSUME IInv, Next
    PROVE  TypeOK'
<1> TypeOK
    BY DEF IInv
<1>1. ASSUME NEW r \in Runners, NEW types \in Registrations, RegisterRunner(r, types)
      PROVE  TypeOK'
    BY <1>1, ConstantsAssumption DEF RegisterRunner, TypeOK, history
<1>2. ASSUME NEW t \in Tasks, SubmitRepeat(t) PROVE TypeOK'
    BY <1>2 DEF SubmitRepeat, TypeOK
<1>3. ASSUME NEW q \in Slots, Fail(q) PROVE TypeOK'
    BY <1>3, FinishType DEF Fail, TypeOK, history
<1>4. Tick => TypeOK'
    BY ConstantsAssumption DEF Tick, TypeOK, Time, history
<1> QED
    BY <1>1, <1>2, <1>3, <1>4, NextCases,
       TypeSubmit, TypeConsume, TypeClaim, TypeHeartbeat, TypeComplete
-----------------------------------------------------------------------------
(* The inductive invariant.  Each action is checked against the five groups *)
(* of its conjuncts.                                                        *)

LEMMA StepSubmit ==
    ASSUME IInv, NEW q \in Slots, Submit(q)
    PROVE  IInv'
<1> USE DEF history
<1> TypeOK /\ TypeOK'
    BY TypeSubmit DEF IInv
<1>1. ASSUME NEW t \in Tasks, SubmitFind(q, t) PROVE IInv'
    <2>1. \A p \in Slots : PendingRow(p)' /\ SlotTask(p)'
        BY <1>1, BusyType
           DEF IInv, TypeOK, SubmitFind, PutRow, Go, Finish, idle, NoRow, PendingRow, SlotTask, Stored
    <2>2. OneTaskPerKey' /\ AcceptedIsStored'
        BY <1>1, BusyType
           DEF IInv, TypeOK, SubmitFind, PutRow, PendingRow, SlotTask, Stored, SameKey,
               OneTaskPerKey, AcceptedIsStored
    <2>3. HeldIsIssued' /\ AbsentIsUnleased'
        BY <1>1, BusyType
           DEF IInv, TypeOK, SubmitFind, PutRow, PendingRow, SlotTask, Stored, Row,
               HeldIsIssued, AbsentIsUnleased, LeaseBinding
    <2>4. QueueNamesStoredTasks' /\ LeaseBinding' /\ LeasedCanExpire'
        BY <1>1, BusyType
           DEF IInv, TypeOK, SubmitFind, PutRow, Go, Finish, idle, NoRow, PendingRow, SlotTask, Stored,
               QueueNamesStoredTasks, LeaseBinding, LeasedCanExpire
    <2>5. WokenTaskIsRouted' /\ WebhookReportsStoredResult'
        BY <1>1, BusyType
           DEF IInv, TypeOK, SubmitFind, PutRow, PendingRow, SlotTask, Stored,
               WokenTaskIsRouted, WebhookReportsStoredResult
    <2> QED
        BY <2>1, <2>2, <2>3, <2>4, <2>5 DEF IInv
<1>2. CASE SubmitPut(q)
    <2>1. \A p \in Slots : PendingRow(p)' /\ SlotTask(p)'
        BY <1>2, BusyType
           DEF IInv, TypeOK, SubmitPut, PutRow, Go, Finish, idle, NoRow, PendingRow, SlotTask, Stored
    <2>2. OneTaskPerKey' /\ AcceptedIsStored'
        BY <1>2, BusyType
           DEF IInv, TypeOK, SubmitPut, PutRow, PendingRow, SlotTask, Stored, SameKey,
               OneTaskPerKey, AcceptedIsStored
    <2>3. HeldIsIssued' /\ AbsentIsUnleased'
        BY <1>2, BusyType
           DEF IInv, TypeOK, SubmitPut, PutRow, PendingRow, SlotTask, Stored, Row,
               HeldIsIssued, AbsentIsUnleased, LeaseBinding
    <2>4. QueueNamesStoredTasks' /\ LeaseBinding' /\ LeasedCanExpire'
        <3>1. CASE UNCHANGED tasks /\ Finish(q)
            BY <1>2, <3>1, BusyType
               DEF IInv, TypeOK, SubmitPut, Finish, idle, Stored,
                   QueueNamesStoredTasks, LeaseBinding, LeasedCanExpire
        <3>2. CASE PutRow(q) /\ Go(q, "submit_enqueue", req[q].task, req[q].row)
            BY <1>2, <3>2, BusyType
               DEF IInv, TypeOK, SubmitPut, PutRow, Go, PendingRow, Stored,
                   QueueNamesStoredTasks, LeaseBinding, LeasedCanExpire
        <3> QED
            BY <1>2, <3>1, <3>2 DEF SubmitPut
    <2>5. WokenTaskIsRouted' /\ WebhookReportsStoredResult'
        BY <1>2, BusyType
           DEF IInv, TypeOK, SubmitPut, PutRow, PendingRow, SlotTask, Stored,
               WokenTaskIsRouted, WebhookReportsStoredResult
    <2> QED
        BY <2>1, <2>2, <2>3, <2>4, <2>5 DEF IInv
<1>3. CASE SubmitEnqueue(q)
    <2>1. \A p \in Slots : PendingRow(p)' /\ SlotTask(p)'
        BY <1>3, BusyType
           DEF IInv, TypeOK, SubmitEnqueue, PutRow, Go, Finish, idle, NoRow, PendingRow, SlotTask, Stored
    <2>2. OneTaskPerKey' /\ AcceptedIsStored'
        BY <1>3, BusyType
           DEF IInv, TypeOK, SubmitEnqueue, PutRow, PendingRow, SlotTask, Stored, SameKey,
               OneTaskPerKey, AcceptedIsStored
    <2>3. HeldIsIssued' /\ AbsentIsUnleased'
        BY <1>3, BusyType
           DEF IInv, TypeOK, SubmitEnqueue, PutRow, PendingRow, SlotTask, Stored, Row,
               HeldIsIssued, AbsentIsUnleased, LeaseBinding
    <2>4. QueueNamesStoredTasks' /\ LeaseBinding' /\ LeasedCanExpire'
        BY <1>3, BusyType
           DEF IInv, TypeOK, SubmitEnqueue, PutRow, Go, Finish, idle, NoRow, PendingRow, SlotTask, Stored,
               QueueNamesStoredTasks, LeaseBinding, LeasedCanExpire
    <2>5. WokenTaskIsRouted' /\ WebhookReportsStoredResult'
        BY <1>3, BusyType
           DEF IInv, TypeOK, SubmitEnqueue, PutRow, PendingRow, SlotTask, Stored,
               WokenTaskIsRouted, WebhookReportsStoredResult
    <2> QED
        BY <2>1, <2>2, <2>3, <2>4, <2>5 DEF IInv
<1> QED
    BY <1>1, <1>2, <1>3 DEF Submit

LEMMA StepConsume ==
    ASSUME IInv, NEW q \in Slots, Consume(q)
    PROVE  IInv'
<1> USE DEF history
<1> TypeOK /\ TypeOK'
    BY TypeConsume DEF IInv
<1>1. ASSUME NEW t \in Tasks, ConsumeRead(q, t) PROVE IInv'
    <2>1. \A p \in Slots : PendingRow(p)' /\ SlotTask(p)'
        BY <1>1, BusyType
           DEF IInv, TypeOK, ConsumeRead, PutRow, Go, Finish, idle, NoRow, PendingRow, SlotTask, Stored
    <2>2. OneTaskPerKey' /\ AcceptedIsStored'
        BY <1>1, BusyType
           DEF IInv, TypeOK, ConsumeRead, PutRow, PendingRow, SlotTask, Stored, SameKey,
               OneTaskPerKey, AcceptedIsStored
    <2>3. HeldIsIssued' /\ AbsentIsUnleased'
        BY <1>1, BusyType
           DEF IInv, TypeOK, ConsumeRead, PutRow, PendingRow, SlotTask, Stored, Row,
               HeldIsIssued, AbsentIsUnleased, LeaseBinding
    <2>4. QueueNamesStoredTasks' /\ LeaseBinding' /\ LeasedCanExpire'
        BY <1>1, BusyType
           DEF IInv, TypeOK, ConsumeRead, PutRow, Go, Finish, idle, NoRow, PendingRow, SlotTask, Stored,
               QueueNamesStoredTasks, LeaseBinding, LeasedCanExpire
    <2>5. WokenTaskIsRouted' /\ WebhookReportsStoredResult'
        BY <1>1, BusyType
           DEF IInv, TypeOK, ConsumeRead, PutRow, PendingRow, SlotTask, Stored,
               WokenTaskIsRouted, WebhookReportsStoredResult
    <2> QED
        BY <2>1, <2>2, <2>3, <2>4, <2>5 DEF IInv
<1>2. CASE ConsumeRunner(q)
    <2>a. req[q].pc = "consume_runner" /\ req[q] \in Busy /\ req[q].row \in Row
        BY <1>2, BusyType DEF ConsumeRunner
    <2>b. UNCHANGED <<runners, tasks, queue, now, issued, held, accepted, notified, completed,
                      webhooks>>
        BY <1>2 DEF ConsumeRunner
    <2>c. PICK s \in {"pending_runner", "failed"} :
                Go(q, "consume_put", req[q].task, [req[q].row EXCEPT !.status = s])
        BY <1>2 DEF ConsumeRunner
    <2>d. /\ req'[q].pc = "consume_put" /\ req'[q].task = req[q].task
          /\ req'[q].row.status \in {"pending_runner", "failed"}
          /\ req'[q].row.lease = req[q].row.lease
          /\ \A p \in Slots : p # q => req'[p] = req[p]
        BY <2>a, <2>c DEF Go, TypeOK, Row
    <2>1. \A p \in Slots : PendingRow(p)' /\ SlotTask(p)'
        <3>1. ASSUME NEW p \in Slots, p # q PROVE PendingRow(p)' /\ SlotTask(p)'
            BY <2>a, <2>b, <2>d, <3>1 DEF IInv, PendingRow, SlotTask, Stored
        <3>2. PendingRow(q)'
            BY <2>d DEF PendingRow
        <3>3. SlotTask(q)'
            BY <2>a, <2>b, <2>d DEF IInv, SlotTask, Stored
        <3> QED
            BY <3>1, <3>2, <3>3
    <2>2. OneTaskPerKey' /\ AcceptedIsStored' /\ HeldIsIssued' /\ AbsentIsUnleased'
        BY <2>b DEF IInv, OneTaskPerKey, AcceptedIsStored, HeldIsIssued, AbsentIsUnleased, Stored
    <2>3. QueueNamesStoredTasks' /\ LeasedCanExpire' /\ WokenTaskIsRouted'
          /\ WebhookReportsStoredResult'
        BY <2>b DEF IInv, QueueNamesStoredTasks, LeasedCanExpire, WokenTaskIsRouted,
                    WebhookReportsStoredResult, Stored
    <2>4. LeaseBinding'
        BY <2>a, <2>b, <2>d DEF IInv, LeaseBinding
    <2> QED
        BY <2>1, <2>2, <2>3, <2>4 DEF IInv
<1>3. CASE ConsumePut(q)
    <2>1. \A p \in Slots : PendingRow(p)' /\ SlotTask(p)'
        BY <1>3, BusyType
           DEF IInv, TypeOK, ConsumePut, PutRow, Go, Finish, idle, NoRow, PendingRow, SlotTask, Stored
    <2>2. OneTaskPerKey' /\ AcceptedIsStored'
        BY <1>3, BusyType
           DEF IInv, TypeOK, ConsumePut, PutRow, PendingRow, SlotTask, Stored, SameKey,
               OneTaskPerKey, AcceptedIsStored
    <2>3. HeldIsIssued' /\ AbsentIsUnleased'
        BY <1>3, BusyType
           DEF IInv, TypeOK, ConsumePut, PutRow, PendingRow, SlotTask, Stored, Row,
               HeldIsIssued, AbsentIsUnleased, LeaseBinding
    <2>4. QueueNamesStoredTasks' /\ LeaseBinding' /\ LeasedCanExpire'
        BY <1>3, BusyType
           DEF IInv, TypeOK, ConsumePut, PutRow, Go, Finish, idle, NoRow, PendingRow, SlotTask, Stored,
               QueueNamesStoredTasks, LeaseBinding, LeasedCanExpire
    <2>5. WokenTaskIsRouted' /\ WebhookReportsStoredResult'
        BY <1>3, BusyType
           DEF IInv, TypeOK, ConsumePut, PutRow, PendingRow, SlotTask, Stored,
               WokenTaskIsRouted, WebhookReportsStoredResult
    <2> QED
        BY <2>1, <2>2, <2>3, <2>4, <2>5 DEF IInv
<1>4. CASE ConsumeNotify(q)
    <2>1. \A p \in Slots : PendingRow(p)' /\ SlotTask(p)'
        BY <1>4, BusyType
           DEF IInv, TypeOK, ConsumeNotify, PutRow, Go, Finish, idle, NoRow, PendingRow, SlotTask, Stored
    <2>2. OneTaskPerKey' /\ AcceptedIsStored'
        BY <1>4, BusyType
           DEF IInv, TypeOK, ConsumeNotify, PutRow, PendingRow, SlotTask, Stored, SameKey,
               OneTaskPerKey, AcceptedIsStored
    <2>3. HeldIsIssued' /\ AbsentIsUnleased'
        BY <1>4, BusyType
           DEF IInv, TypeOK, ConsumeNotify, PutRow, PendingRow, SlotTask, Stored, Row,
               HeldIsIssued, AbsentIsUnleased, LeaseBinding
    <2>4. QueueNamesStoredTasks' /\ LeaseBinding' /\ LeasedCanExpire'
        BY <1>4, BusyType
           DEF IInv, TypeOK, ConsumeNotify, PutRow, Go, Finish, idle, NoRow, PendingRow, SlotTask, Stored,
               QueueNamesStoredTasks, LeaseBinding, LeasedCanExpire
    <2>5. WokenTaskIsRouted' /\ WebhookReportsStoredResult'
        BY <1>4, BusyType
           DEF IInv, TypeOK, ConsumeNotify, PutRow, PendingRow, SlotTask, Stored,
               WokenTaskIsRouted, WebhookReportsStoredResult
    <2> QED
        BY <2>1, <2>2, <2>3, <2>4, <2>5 DEF IInv
<1>5. CASE ConsumeAck(q)
    <2>1. \A p \in Slots : PendingRow(p)' /\ SlotTask(p)'
        BY <1>5, BusyType
           DEF IInv, TypeOK, ConsumeAck, PutRow, Go, Finish, idle, NoRow, PendingRow, SlotTask, Stored
    <2>2. OneTaskPerKey' /\ AcceptedIsStored'
        BY <1>5, BusyType
           DEF IInv, TypeOK, ConsumeAck, PutRow, PendingRow, SlotTask, Stored, SameKey,
               OneTaskPerKey, AcceptedIsStored
    <2>3. HeldIsIssued' /\ AbsentIsUnleased'
        BY <1>5, BusyType
           DEF IInv, TypeOK, ConsumeAck, PutRow, PendingRow, SlotTask, Stored, Row,
               HeldIsIssued, AbsentIsUnleased, LeaseBinding
    <2>4. QueueNamesStoredTasks' /\ LeaseBinding' /\ LeasedCanExpire'
        BY <1>5, BusyType
           DEF IInv, TypeOK, ConsumeAck, PutRow, Go, Finish, idle, NoRow, PendingRow, SlotTask, Stored,
               QueueNamesStoredTasks, LeaseBinding, LeasedCanExpire
    <2>5. WokenTaskIsRouted' /\ WebhookReportsStoredResult'
        BY <1>5, BusyType
           DEF IInv, TypeOK, ConsumeAck, PutRow, PendingRow, SlotTask, Stored,
               WokenTaskIsRouted, WebhookReportsStoredResult
    <2> QED
        BY <2>1, <2>2, <2>3, <2>4, <2>5 DEF IInv
<1> QED
    BY <1>1, <1>2, <1>3, <1>4, <1>5 DEF Consume

LEMMA StepClaim ==
    ASSUME IInv, NEW q \in Slots, Claim(q)
    PROVE  IInv'
<1> USE DEF history
<1> TypeOK /\ TypeOK'
    BY TypeClaim DEF IInv
<1>1. ASSUME NEW r \in Runners, NEW t \in Tasks, NEW l \in Leases,
             ClaimFind(q, r, t, l) PROVE IInv'
    <2>1. \A p \in Slots : PendingRow(p)' /\ SlotTask(p)'
        BY <1>1, BusyType, ExpiryType, ConstantsAssumption
           DEF IInv, TypeOK, ClaimFind, NextClaim, Claimable, PutRow, Go, Finish, idle, NoRow, PendingRow, SlotTask, Stored
    <2>2. OneTaskPerKey' /\ AcceptedIsStored'
        BY <1>1, BusyType, ExpiryType, ConstantsAssumption
           DEF IInv, TypeOK, ClaimFind, NextClaim, Claimable, PutRow, PendingRow, SlotTask, Stored, SameKey,
               OneTaskPerKey, AcceptedIsStored
    <2>3. HeldIsIssued' /\ AbsentIsUnleased'
        BY <1>1, BusyType, ExpiryType, ConstantsAssumption
           DEF IInv, TypeOK, ClaimFind, NextClaim, Claimable, PutRow, PendingRow, SlotTask, Stored, Row,
               HeldIsIssued, AbsentIsUnleased, LeaseBinding
    <2>4. QueueNamesStoredTasks' /\ LeaseBinding' /\ LeasedCanExpire'
        BY <1>1, BusyType, ExpiryType, ConstantsAssumption
           DEF IInv, TypeOK, ClaimFind, NextClaim, Claimable, PutRow, Go, Finish, idle, NoRow, PendingRow, SlotTask, Stored,
               QueueNamesStoredTasks, LeaseBinding, LeasedCanExpire
    <2>5. WokenTaskIsRouted' /\ WebhookReportsStoredResult'
        BY <1>1, BusyType, ExpiryType, ConstantsAssumption
           DEF IInv, TypeOK, ClaimFind, NextClaim, Claimable, PutRow, PendingRow, SlotTask, Stored,
               WokenTaskIsRouted, WebhookReportsStoredResult
    <2> QED
        BY <2>1, <2>2, <2>3, <2>4, <2>5 DEF IInv
<1>2. CASE ClaimPut(q)
    <2>1. \A p \in Slots : PendingRow(p)' /\ SlotTask(p)'
        BY <1>2, BusyType, ExpiryType, ConstantsAssumption
           DEF IInv, TypeOK, ClaimPut, PutRow, Go, Finish, idle, NoRow, PendingRow, SlotTask, Stored
    <2>2. OneTaskPerKey' /\ AcceptedIsStored'
        BY <1>2, BusyType, ExpiryType, ConstantsAssumption, SMTT(30)
           DEF IInv, TypeOK, ClaimPut, PutRow, PendingRow, SlotTask, Stored, SameKey,
               OneTaskPerKey, AcceptedIsStored
    <2>0. issued[req[q].row.lease] # NoGrant
        <3>1. req[q].pc = "claim_put" /\ req[q].row.lease # NoLease
            BY <1>2 DEF ClaimPut, IInv, PendingRow
        <3>2. issued[req[q].row.lease] = [task |-> req[q].task, runner |-> RunnerOf[req[q].task]]
            BY <3>1 DEF IInv, LeaseBinding
        <3> QED
            BY <3>1, <3>2, BusyType, ConstantsAssumption
    <2>3. HeldIsIssued' /\ AbsentIsUnleased'
        BY <1>2, <2>0, BusyType, ExpiryType, ConstantsAssumption
           DEF IInv, TypeOK, ClaimPut, PutRow, PendingRow, SlotTask, Stored, Row,
               HeldIsIssued, AbsentIsUnleased, LeaseBinding
    <2>4. QueueNamesStoredTasks' /\ LeaseBinding' /\ LeasedCanExpire'
        BY <1>2, BusyType, ExpiryType, ConstantsAssumption
           DEF IInv, TypeOK, ClaimPut, PutRow, Go, Finish, idle, NoRow, PendingRow, SlotTask, Stored,
               QueueNamesStoredTasks, LeaseBinding, LeasedCanExpire
    <2>5. WokenTaskIsRouted' /\ WebhookReportsStoredResult'
        BY <1>2, BusyType, ExpiryType, ConstantsAssumption
           DEF IInv, TypeOK, ClaimPut, PutRow, PendingRow, SlotTask, Stored,
               WokenTaskIsRouted, WebhookReportsStoredResult
    <2> QED
        BY <2>1, <2>2, <2>3, <2>4, <2>5 DEF IInv
<1> QED
    BY <1>1, <1>2 DEF Claim

LEMMA StepHeartbeat ==
    ASSUME IInv, NEW q \in Slots, Heartbeat(q)
    PROVE  IInv'
<1> USE DEF history
<1> TypeOK /\ TypeOK'
    BY TypeHeartbeat DEF IInv
<1>1. ASSUME NEW l \in Leases, HeartbeatRead(q, l) PROVE IInv'
    <2> Presents(l)
        BY <1>1 DEF HeartbeatRead
    <2>1. \A p \in Slots : PendingRow(p)' /\ SlotTask(p)'
        BY <1>1, BusyType, PresentsType, ExpiryType, ConstantsAssumption
           DEF IInv, TypeOK, HeartbeatRead, PutRow, Go, Finish, idle, NoRow, PendingRow, SlotTask, Stored
    <2>2. OneTaskPerKey' /\ AcceptedIsStored'
        BY <1>1, BusyType, PresentsType, ExpiryType, ConstantsAssumption
           DEF IInv, TypeOK, HeartbeatRead, PutRow, PendingRow, SlotTask, Stored, SameKey,
               OneTaskPerKey, AcceptedIsStored
    <2>3. HeldIsIssued' /\ AbsentIsUnleased'
        BY <1>1, BusyType, PresentsType, ExpiryType, ConstantsAssumption
           DEF IInv, TypeOK, HeartbeatRead, PutRow, PendingRow, SlotTask, Stored, Row,
               HeldIsIssued, AbsentIsUnleased, LeaseBinding
    <2>4. QueueNamesStoredTasks' /\ LeaseBinding' /\ LeasedCanExpire'
        BY <1>1, BusyType, PresentsType, ExpiryType, ConstantsAssumption
           DEF IInv, TypeOK, HeartbeatRead, PutRow, Go, Finish, idle, NoRow, PendingRow, SlotTask, Stored,
               QueueNamesStoredTasks, LeaseBinding, LeasedCanExpire
    <2>5. WokenTaskIsRouted' /\ WebhookReportsStoredResult'
        BY <1>1, BusyType, PresentsType, ExpiryType, ConstantsAssumption
           DEF IInv, TypeOK, HeartbeatRead, PutRow, PendingRow, SlotTask, Stored,
               WokenTaskIsRouted, WebhookReportsStoredResult
    <2> QED
        BY <2>1, <2>2, <2>3, <2>4, <2>5 DEF IInv
<1>2. CASE HeartbeatPut(q)
    <2>1. \A p \in Slots : PendingRow(p)' /\ SlotTask(p)'
        BY <1>2, BusyType, ExpiryType, ConstantsAssumption
           DEF IInv, TypeOK, HeartbeatPut, PutRow, Go, Finish, idle, NoRow, PendingRow, SlotTask, Stored
    <2>2. OneTaskPerKey' /\ AcceptedIsStored'
        BY <1>2, BusyType, ExpiryType, ConstantsAssumption
           DEF IInv, TypeOK, HeartbeatPut, PutRow, PendingRow, SlotTask, Stored, SameKey,
               OneTaskPerKey, AcceptedIsStored
    <2>3. HeldIsIssued' /\ AbsentIsUnleased'
        BY <1>2, BusyType, ExpiryType, ConstantsAssumption
           DEF IInv, TypeOK, HeartbeatPut, PutRow, PendingRow, SlotTask, Stored, Row,
               HeldIsIssued, AbsentIsUnleased, LeaseBinding
    <2>4. QueueNamesStoredTasks' /\ LeaseBinding' /\ LeasedCanExpire'
        BY <1>2, BusyType, ExpiryType, ConstantsAssumption
           DEF IInv, TypeOK, HeartbeatPut, PutRow, Go, Finish, idle, NoRow, PendingRow, SlotTask, Stored,
               QueueNamesStoredTasks, LeaseBinding, LeasedCanExpire
    <2>5. WokenTaskIsRouted' /\ WebhookReportsStoredResult'
        BY <1>2, BusyType, ExpiryType, ConstantsAssumption
           DEF IInv, TypeOK, HeartbeatPut, PutRow, PendingRow, SlotTask, Stored,
               WokenTaskIsRouted, WebhookReportsStoredResult
    <2> QED
        BY <2>1, <2>2, <2>3, <2>4, <2>5 DEF IInv
<1> QED
    BY <1>1, <1>2 DEF Heartbeat

LEMMA StepComplete ==
    ASSUME IInv, NEW q \in Slots, Complete(q)
    PROVE  IInv'
<1> USE DEF history
<1> TypeOK /\ TypeOK'
    BY TypeComplete DEF IInv
<1>1. ASSUME NEW l \in Leases, NEW s \in Results, CompleteRead(q, l, s) PROVE IInv'
    <2> Presents(l)
        BY <1>1 DEF CompleteRead
    <2>1. \A p \in Slots : PendingRow(p)' /\ SlotTask(p)'
        BY <1>1, BusyType, PresentsType, ConstantsAssumption
           DEF IInv, TypeOK, CompleteRead, PutRow, Go, Finish, idle, NoRow, PendingRow, SlotTask, Stored
    <2>2. OneTaskPerKey' /\ AcceptedIsStored'
        BY <1>1, BusyType, PresentsType, ConstantsAssumption
           DEF IInv, TypeOK, CompleteRead, PutRow, PendingRow, SlotTask, Stored, SameKey,
               OneTaskPerKey, AcceptedIsStored
    <2>3. HeldIsIssued' /\ AbsentIsUnleased'
        BY <1>1, BusyType, PresentsType, ConstantsAssumption
           DEF IInv, TypeOK, CompleteRead, PutRow, PendingRow, SlotTask, Stored, Row,
               HeldIsIssued, AbsentIsUnleased, LeaseBinding
    <2>4. QueueNamesStoredTasks' /\ LeaseBinding' /\ LeasedCanExpire'
        BY <1>1, BusyType, PresentsType, ConstantsAssumption
           DEF IInv, TypeOK, CompleteRead, PutRow, Go, Finish, idle, NoRow, PendingRow, SlotTask, Stored,
               QueueNamesStoredTasks, LeaseBinding, LeasedCanExpire
    <2>5. WokenTaskIsRouted' /\ WebhookReportsStoredResult'
        BY <1>1, BusyType, PresentsType, ConstantsAssumption
           DEF IInv, TypeOK, CompleteRead, PutRow, PendingRow, SlotTask, Stored,
               WokenTaskIsRouted, WebhookReportsStoredResult
    <2> QED
        BY <2>1, <2>2, <2>3, <2>4, <2>5 DEF IInv
<1>2. CASE CompletePut(q)
    <2> DEFINE t == req[q].task
               row == req[q].row
    <2>a. /\ req[q].pc = "complete_put"
          /\ t \in Tasks /\ row \in Row /\ Stored(t)
          /\ row.status \in Results /\ row.lease \in held /\ row.lease # NoLease
        BY <1>2, BusyType, ConstantsAssumption
           DEF CompletePut, IInv, TypeOK, PendingRow, SlotTask
    <2>b. /\ tasks' = [tasks EXCEPT ![t] = row]
          /\ completed' = [completed EXCEPT ![t] = @ \cup {row.status}]
          /\ \A p \in Slots : p # q => req'[p] = req[p]
          /\ \/ t \in HasCallback /\ req'[q] = [pc |-> "complete_webhook", task |-> t, row |-> row]
             \/ req'[q] = idle
        BY <1>2 DEF CompletePut, PutRow, Go, Finish, IInv, TypeOK
    <2>c. \A u \in Tasks : Stored(u)' <=> Stored(u)
        BY <2>a, <2>b, NotOpen DEF Stored, TypeOK
    <2>1. \A p \in Slots : PendingRow(p)' /\ SlotTask(p)'
        <3>1. PendingRow(q)' /\ SlotTask(q)'
            BY <1>2, <2>a, <2>b, <2>c DEF TypeOK, PendingRow, SlotTask, idle
        <3>2. ASSUME NEW p \in Slots, p # q PROVE PendingRow(p)'
            BY <1>2, <2>a, <2>b, <3>2, BusyType DEF IInv, CompletePut, TypeOK, PendingRow
        <3>3. ASSUME NEW p \in Slots, p # q PROVE SlotTask(p)'
            <4>1. req'[p] = req[p] /\ SlotTask(p)
                BY <2>b, <3>3 DEF IInv
            <4>2. req[p].pc # "idle" => req[p].task \in Tasks
                BY BusyType
            <4>3. req[p].pc = "submit_put" => SlotTask(p)'
                BY <2>a, <2>b, <2>c, <4>1, <4>2 DEF SlotTask, idle
            <4>4. req[p].pc = "consume_notify" => tasks'[req[p].task].status # "queued"
                BY <2>a, <2>b, <4>1, <4>2, NotOpen DEF SlotTask, TypeOK
            <4> QED
                BY <2>c, <4>1, <4>2, <4>3, <4>4 DEF SlotTask
        <3> QED
            BY <3>1, <3>2, <3>3
    <2>2. OneTaskPerKey' /\ AcceptedIsStored'
        BY <1>2, <2>c DEF IInv, TypeOK, CompletePut, SameKey, OneTaskPerKey, AcceptedIsStored
    <2>3. HeldIsIssued' /\ AbsentIsUnleased'
        BY <1>2, <2>a, <2>b, <2>c
           DEF IInv, TypeOK, CompletePut, HeldIsIssued, AbsentIsUnleased
    <2>4. QueueNamesStoredTasks' /\ LeaseBinding' /\ LeasedCanExpire'
        <3>1. QueueNamesStoredTasks'
            BY <1>2, <2>c DEF IInv, TypeOK, CompletePut, QueueNamesStoredTasks
        <3>2. LeaseBinding'
            BY <1>2, <2>a, <2>b DEF IInv, TypeOK, CompletePut, LeaseBinding, idle
        <3>3. LeasedCanExpire'
            BY <2>a, <2>b, NotOpen DEF IInv, TypeOK, LeasedCanExpire
        <3> QED
            BY <3>1, <3>2, <3>3
    <2>5. WokenTaskIsRouted' /\ WebhookReportsStoredResult'
        BY <1>2, <2>a, <2>b, NotOpen
           DEF IInv, TypeOK, CompletePut, WokenTaskIsRouted, WebhookReportsStoredResult
    <2> QED
        BY <2>1, <2>2, <2>3, <2>4, <2>5 DEF IInv
<1>3. CASE CompleteWebhook(q)
    <2>1. \A p \in Slots : PendingRow(p)' /\ SlotTask(p)'
        BY <1>3, BusyType
           DEF IInv, TypeOK, CompleteWebhook, PutRow, Go, Finish, idle, NoRow, PendingRow, SlotTask, Stored
    <2>2. OneTaskPerKey' /\ AcceptedIsStored'
        BY <1>3, BusyType
           DEF IInv, TypeOK, CompleteWebhook, PutRow, PendingRow, SlotTask, Stored, SameKey,
               OneTaskPerKey, AcceptedIsStored
    <2>3. HeldIsIssued' /\ AbsentIsUnleased'
        BY <1>3, BusyType
           DEF IInv, TypeOK, CompleteWebhook, PutRow, PendingRow, SlotTask, Stored, Row,
               HeldIsIssued, AbsentIsUnleased, LeaseBinding
    <2>4. QueueNamesStoredTasks' /\ LeaseBinding' /\ LeasedCanExpire'
        BY <1>3, BusyType
           DEF IInv, TypeOK, CompleteWebhook, PutRow, Go, Finish, idle, NoRow, PendingRow, SlotTask, Stored,
               QueueNamesStoredTasks, LeaseBinding, LeasedCanExpire
    <2>5. WokenTaskIsRouted' /\ WebhookReportsStoredResult'
        BY <1>3, BusyType
           DEF IInv, TypeOK, CompleteWebhook, PutRow, PendingRow, SlotTask, Stored,
               WokenTaskIsRouted, WebhookReportsStoredResult
    <2> QED
        BY <2>1, <2>2, <2>3, <2>4, <2>5 DEF IInv
<1> QED
    BY <1>1, <1>2, <1>3 DEF Complete

\* The steps that leave the tasks and every other invocation alone.
LEMMA StepRest ==
    ASSUME IInv, TypeOK',
           \/ \E r \in Runners, types \in Registrations : RegisterRunner(r, types)
           \/ \E t \in Tasks : SubmitRepeat(t)
           \/ \E q \in Slots : Fail(q)
           \/ Tick
    PROVE  IInv'
<1> USE DEF history
<1>1. \A p \in Slots : req'[p] = req[p] \/ req'[p] = idle
    BY DEF IInv, TypeOK, RegisterRunner, SubmitRepeat, Fail, Tick, Finish
<1>2. UNCHANGED <<tasks, queue, issued, held, notified, completed, webhooks>>
    BY DEF RegisterRunner, SubmitRepeat, Fail, Tick
<1>3. \A p \in Slots : PendingRow(p)' /\ SlotTask(p)'
    BY <1>1, <1>2 DEF IInv, PendingRow, SlotTask, Stored, idle
<1>4. OneTaskPerKey' /\ AcceptedIsStored'
    <2>1. accepted' = accepted \/ \E u \in Tasks : Stored(u) /\ accepted' = accepted \cup {u}
        BY DEF RegisterRunner, SubmitRepeat, Fail, Tick
    <2> QED
        BY <1>2, <2>1 DEF IInv, OneTaskPerKey, AcceptedIsStored, Stored, SameKey
<1>5. HeldIsIssued' /\ AbsentIsUnleased' /\ QueueNamesStoredTasks' /\ LeasedCanExpire'
      /\ WokenTaskIsRouted' /\ WebhookReportsStoredResult'
    BY <1>2 DEF IInv, HeldIsIssued, AbsentIsUnleased, QueueNamesStoredTasks, LeasedCanExpire,
                WokenTaskIsRouted, WebhookReportsStoredResult, Stored
<1>6. LeaseBinding'
    BY <1>1, <1>2 DEF IInv, LeaseBinding, idle
<1> QED
    BY <1>3, <1>4, <1>5, <1>6 DEF IInv

LEMMA IInvNext ==
    ASSUME IInv, Next
    PROVE  IInv'
<1>1. TypeOK'
    BY TypeNext
<1> QED
    BY <1>1, NextCases, StepRest, StepSubmit, StepConsume, StepClaim, StepHeartbeat, StepComplete

LEMMA IInvInit == Init => IInv
    BY TypeInit
       DEF Init, IInv, PendingRow, SlotTask, Stored, idle, NoRow, OneTaskPerKey, AcceptedIsStored,
           HeldIsIssued, AbsentIsUnleased, QueueNamesStoredTasks, LeaseBinding, LeasedCanExpire,
           WokenTaskIsRouted, WebhookReportsStoredResult

LEMMA IInvStutter ==
    ASSUME IInv, UNCHANGED vars
    PROVE  IInv'
<1> USE DEF vars, history
<1>1. TypeOK'
    BY DEF IInv, TypeOK
<1>2. \A p \in Slots : PendingRow(p)' /\ SlotTask(p)'
    BY DEF IInv, PendingRow, SlotTask, Stored
<1> QED
    BY <1>1, <1>2 DEF IInv, OneTaskPerKey, AcceptedIsStored, Stored, SameKey, HeldIsIssued,
       AbsentIsUnleased, QueueNamesStoredTasks, LeaseBinding, LeasedCanExpire,
       WokenTaskIsRouted, WebhookReportsStoredResult

\* The inductive invariant holds in every reachable state of the service, for
\* any number of tasks, runners, leases and concurrent invocations
\* (task-service.ts, index.ts).
THEOREM Invariance == Spec => []IInv
<1>1. IInv /\ [Next]_vars => IInv'
    BY IInvNext, IInvStutter
<1> QED
    BY <1>1, IInvInit, PTL DEF Spec

\* Type correctness of the tables, the queue and the invocations.
THEOREM TypeCorrectness == Spec => []TypeOK
<1>1. IInv => TypeOK
    BY DEF IInv
<1> QED
    BY <1>1, Invariance, PTL

\* All submissions with one idempotency key are answered with one stored task
\* (submitTask): the UNIQUE column closes the race between the lookup and the
\* insert.
THEOREM SubmissionIsIdempotent == Spec => []RetriesNameOneTask
<1>1. IInv => RetriesNameOneTask
    BY DEF IInv, TypeOK, AcceptedIsStored, OneTaskPerKey, RetriesNameOneTask
<1> QED
    BY <1>1, Invariance, PTL

\* No interleaving of stale row writes puts a lease on a task, or with a
\* runner, it was not made for (claimTask, heartbeat, completeTask).
THEOREM LeasesStayBound == Spec => []LeaseBinding
<1>1. IInv => LeaseBinding
    BY DEF IInv
<1> QED
    BY <1>1, Invariance, PTL

\* A leased row always carries the expiry that lets it be claimed again.
THEOREM LeasesCanExpire == Spec => []LeasedCanExpire
<1>1. IInv => LeasedCanExpire
    BY DEF IInv
<1> QED
    BY <1>1, Invariance, PTL

\* A runner is woken only for a task the consumer has routed (queue handler).
THEOREM WakeAfterRouting == Spec => []WokenTaskIsRouted
<1>1. IInv => WokenTaskIsRouted
    BY DEF IInv
<1> QED
    BY <1>1, Invariance, PTL

\* A webhook delivery always reports a result the task was given
\* (completeTask writes the row before recordWebhookDelivery).
THEOREM WebhooksAreTrue == Spec => []WebhookReportsStoredResult
<1>1. IInv => WebhookReportsStoredResult
    BY DEF IInv
<1> QED
    BY <1>1, Invariance, PTL

-----------------------------------------------------------------------------
(* The service implements TaskLifecycle.                                    *)

statusOf == [t \in Tasks |-> tasks[t].status]
leaseOf == [t \in Tasks |-> tasks[t].lease]

\* An upsert changes the abstract status and lease of one task.
LEMMA PutRowSeen ==
    ASSUME IInv, NEW q \in Slots, req[q].pc # "idle", PutRow(q)
    PROVE  /\ statusOf' = [statusOf EXCEPT ![req[q].task] = req[q].row.status]
           /\ leaseOf' = [leaseOf EXCEPT ![req[q].task] = req[q].row.lease]
    BY BusyType DEF IInv, TypeOK, PutRow, statusOf, leaseOf

\* The lease in a row to be written belongs to its task.
LEMMA RowLease ==
    ASSUME IInv, NEW q \in Slots, req[q].pc # "idle"
    PROVE  req[q].row.lease \in {NoLease} \cup Lifecycle!LeasesOf(req[q].task)
<1>1. req[q].row.lease \in Leases \cup {NoLease}
    BY BusyType DEF IInv, Row
<1> QED
    BY <1>1 DEF IInv, LeaseBinding, Lifecycle!LeasesOf

LEMMA SimulateSubmitPut ==
    ASSUME IInv, NEW q \in Slots, SubmitPut(q), ~UNCHANGED tasks
    PROVE  Lifecycle!Next
<1>0. PICK t \in Tasks, row \in Row : t = req[q].task /\ row = req[q].row
    BY BusyType DEF SubmitPut, IInv
<1>1. /\ req[q].pc = "submit_put" /\ PutRow(q) /\ t \in Tasks
      /\ row.status = "queued" /\ row.lease = NoLease
      /\ ~Stored(t)
    BY <1>0 DEF SubmitPut, IInv, PendingRow, SlotTask
<1>2. statusOf' = [statusOf EXCEPT ![t] = "queued"]
    BY <1>0, <1>1, PutRowSeen
<1>3. leaseOf' = leaseOf
    BY <1>0, <1>1, PutRowSeen DEF IInv, AbsentIsUnleased, leaseOf
<1>4. Lifecycle!Create(t)
    BY <1>1, <1>2, <1>3 DEF SubmitPut, history, Lifecycle!Create, Stored, statusOf, leaseOf
<1> QED
    BY <1>1, <1>4 DEF Lifecycle!Next

LEMMA SimulateConsumePut ==
    ASSUME IInv, NEW q \in Slots, ConsumePut(q)
    PROVE  Lifecycle!Next
<1>0. PICK t \in Tasks, row \in Row : t = req[q].task /\ row = req[q].row
    BY BusyType DEF ConsumePut, IInv
<1>1. /\ req[q].pc = "consume_put" /\ PutRow(q) /\ t \in Tasks /\ Stored(t)
      /\ row.status \in {"pending_runner", "failed"}
    BY <1>0 DEF ConsumePut, IInv, PendingRow, SlotTask
<1>2. row.lease \in {NoLease} \cup Lifecycle!LeasesOf(t) /\ row.lease \in Leases \cup {NoLease}
    BY <1>0, <1>1, RowLease DEF Row
<1>3. Lifecycle!Route(t, row.status, row.lease)
    BY <1>0, <1>1, <1>2, PutRowSeen
       DEF ConsumePut, history, Lifecycle!Route, Stored, statusOf, leaseOf
<1> QED
    BY <1>1, <1>2, <1>3 DEF Lifecycle!Next

LEMMA SimulateClaim ==
    ASSUME IInv, NEW q \in Slots, Claim(q)
    PROVE  Lifecycle!Next
<1>1. ASSUME NEW r \in Runners, NEW t \in Tasks, NEW l \in Leases, ClaimFind(q, r, t, l)
      PROVE  Lifecycle!Next
    <2>1. Lifecycle!Issue(t, l)
        BY <1>1 DEF ClaimFind, NextClaim, Claimable, Lifecycle!Issue, statusOf, leaseOf
    <2> QED
        BY <2>1 DEF Lifecycle!Next
<1>2. CASE ClaimPut(q)
    <2>0. PICK t \in Tasks, row \in Row : t = req[q].task /\ row = req[q].row
        BY <1>2, BusyType DEF ClaimPut, IInv
    <2>1. /\ req[q].pc = "claim_put" /\ PutRow(q) /\ t \in Tasks /\ Stored(t)
          /\ row.status = "leased" /\ row.lease # NoLease
        BY <1>2, <2>0 DEF ClaimPut, IInv, PendingRow, SlotTask
    <2>2. row.lease \in Lifecycle!LeasesOf(t) /\ row.lease \in Leases
        BY <2>0, <2>1, RowLease DEF Row
    <2>3. Lifecycle!Take(t, row.lease)
        BY <1>2, <2>0, <2>1, <2>2, PutRowSeen DEF ClaimPut, Lifecycle!Take, Stored, statusOf, leaseOf
    <2> QED
        BY <2>1, <2>2, <2>3 DEF Lifecycle!Next
<1> QED
    BY <1>1, <1>2 DEF Claim

LEMMA SimulateHeartbeatPut ==
    ASSUME IInv, NEW q \in Slots, HeartbeatPut(q)
    PROVE  Lifecycle!Next
<1>0. PICK t \in Tasks, row \in Row : t = req[q].task /\ row = req[q].row
    BY BusyType DEF HeartbeatPut, IInv
<1>1. /\ req[q].pc = "heartbeat_put" /\ PutRow(q) /\ t \in Tasks /\ Stored(t)
      /\ row.status = "running" /\ row.lease \in held /\ row.lease # NoLease
    BY <1>0, ConstantsAssumption DEF HeartbeatPut, IInv, PendingRow, SlotTask, TypeOK
<1>2. row.lease \in Lifecycle!LeasesOf(t) /\ row.lease \in Leases
    BY <1>0, <1>1, RowLease DEF Row
<1>3. Lifecycle!Run(t, row.lease)
    BY <1>0, <1>1, <1>2, PutRowSeen
       DEF HeartbeatPut, history, Lifecycle!Run, Stored, statusOf, leaseOf
<1> QED
    BY <1>1, <1>2, <1>3 DEF Lifecycle!Next

LEMMA SimulateCompletePut ==
    ASSUME IInv, NEW q \in Slots, CompletePut(q)
    PROVE  Lifecycle!Next
<1>0. PICK t \in Tasks, row \in Row : t = req[q].task /\ row = req[q].row
    BY BusyType DEF CompletePut, IInv
<1>1. /\ req[q].pc = "complete_put" /\ PutRow(q) /\ t \in Tasks /\ Stored(t)
      /\ row.status \in Results /\ row.lease \in held /\ row.lease # NoLease
    BY <1>0, ConstantsAssumption DEF CompletePut, IInv, PendingRow, SlotTask, TypeOK
<1>2. row.lease \in Lifecycle!LeasesOf(t) /\ row.lease \in Leases
    BY <1>0, <1>1, RowLease DEF Row
<1>3. Lifecycle!End(t, row.lease, row.status)
    BY <1>0, <1>1, <1>2, PutRowSeen DEF CompletePut, Lifecycle!End, Stored, statusOf, leaseOf
<1> QED
    BY <1>1, <1>2, <1>3 DEF Lifecycle!Next

LEMMA SimulateWebhook ==
    ASSUME IInv, NEW q \in Slots, CompleteWebhook(q)
    PROVE  Lifecycle!Next
<1>0. PICK t \in Tasks, s \in Status : t = req[q].task /\ s = req[q].row.status
    BY BusyType DEF CompleteWebhook, IInv, Row
<1>1. s \in completed[t] /\ s \in Results
    BY <1>0 DEF CompleteWebhook, IInv, PendingRow, TypeOK
<1>2. Lifecycle!Report(t, s)
    BY <1>0, <1>1 DEF CompleteWebhook, history, Lifecycle!Report, statusOf, leaseOf
<1> QED
    BY <1>1, <1>2 DEF Lifecycle!Next

\* A step of the service is a step of the ledger, or leaves it as it is.
LEMMA Simulation ==
    ASSUME IInv, Next
    PROVE  Lifecycle!Next \/ UNCHANGED Lifecycle!vars
<1> DEFINE G == Lifecycle!Next \/ UNCHANGED Lifecycle!vars
<1> USE DEF history, Lifecycle!vars
<1>1. ASSUME NEW r \in Runners, NEW types \in Registrations, RegisterRunner(r, types) PROVE G
    BY <1>1 DEF RegisterRunner
<1>2. ASSUME NEW t \in Tasks, SubmitRepeat(t) PROVE G
    BY <1>2 DEF SubmitRepeat
<1>3. ASSUME NEW q \in Slots, Submit(q) PROVE G
    <2>1. ASSUME NEW t \in Tasks, SubmitFind(q, t) PROVE G
        BY <2>1 DEF SubmitFind
    <2>2. CASE SubmitPut(q)
        BY <2>2, SimulateSubmitPut DEF SubmitPut
    <2>3. CASE SubmitEnqueue(q)
        BY <2>3 DEF SubmitEnqueue
    <2> QED
        BY <1>3, <2>1, <2>2, <2>3 DEF Submit
<1>4. ASSUME NEW q \in Slots, Consume(q) PROVE G
    <2>1. ASSUME NEW t \in Tasks, ConsumeRead(q, t) PROVE G
        BY <2>1 DEF ConsumeRead
    <2>2. CASE ConsumeRunner(q)
        BY <2>2 DEF ConsumeRunner
    <2>3. CASE ConsumePut(q)
        BY <2>3, SimulateConsumePut
    <2>4. CASE ConsumeNotify(q)
        BY <2>4 DEF ConsumeNotify
    <2>5. CASE ConsumeAck(q)
        BY <2>5 DEF ConsumeAck
    <2> QED
        BY <1>4, <2>1, <2>2, <2>3, <2>4, <2>5 DEF Consume
<1>5. ASSUME NEW q \in Slots, Heartbeat(q) PROVE G
    <2>1. ASSUME NEW l \in Leases, HeartbeatRead(q, l) PROVE G
        BY <2>1 DEF HeartbeatRead
    <2>2. CASE HeartbeatPut(q)
        BY <2>2, SimulateHeartbeatPut
    <2> QED
        BY <1>5, <2>1, <2>2 DEF Heartbeat
<1>6. ASSUME NEW q \in Slots, Complete(q) PROVE G
    <2>1. ASSUME NEW l \in Leases, NEW s \in Results, CompleteRead(q, l, s) PROVE G
        BY <2>1 DEF CompleteRead
    <2>2. CASE CompletePut(q)
        BY <2>2, SimulateCompletePut
    <2>3. CASE CompleteWebhook(q)
        BY <2>3, SimulateWebhook
    <2> QED
        BY <1>6, <2>1, <2>2, <2>3 DEF Complete
<1>7. ASSUME NEW q \in Slots, Fail(q) PROVE G
    BY <1>7 DEF Fail
<1>8. Tick => G
    BY DEF Tick
<1> QED
    BY <1>1, <1>2, <1>3, <1>4, <1>5, <1>6, <1>7, <1>8, NextCases, SimulateClaim

\* The service implements the abstract ledger of leases and statuses: what
\* TaskLifecycle promises holds of the Worker however its invocations
\* interleave, fail and are redelivered.
THEOREM ImplementsLifecycle == Spec => LifecycleSpec
<1>1. Init => Lifecycle!Init
    BY DEF Init, NoRow, Lifecycle!Init
<1>2. IInv /\ [Next]_vars => [Lifecycle!Next]_(Lifecycle!vars)
    <2>1. ASSUME UNCHANGED vars PROVE UNCHANGED Lifecycle!vars
        BY <2>1 DEF vars, history, Lifecycle!vars
    <2> QED
        BY <2>1, Simulation
<1> QED
    BY <1>1, <1>2, Invariance, PTL DEF Spec, LifecycleSpec, Lifecycle!Spec
=============================================================================
