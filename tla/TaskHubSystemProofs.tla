------------------------ MODULE TaskHubSystemProofs ------------------------
(***************************************************************************)
(* Theorems about runners and service together, for every value of the     *)
(* constants, every kind of fault and any number of them.                  *)
(*                                                                         *)
(* First SysIInv, which says of each runner that it waits for the          *)
(* invocation it called and holds a lease it was answered with.  It adds   *)
(* to the invariant of the service, and every step of the system is a step *)
(* of the service or none, so the ledger of TaskLifecycle is kept as well. *)
(*                                                                         *)
(* Then what holds of a task that bears no mark of the faults that stand   *)
(* in the way, whatever befalls the others.  Each step concerns one slot   *)
(* and through it one task, and a fault marks that task: a consumer has    *)
(* its message to itself until the message comes again, an invocation has  *)
(* its caller until that goes away (ExclusiveInv).  So a runner's lease    *)
(* stays the row's; until the report goes wrong what the runner works on   *)
(* has not ended (OpenInv), so a result is final; and until a lease is     *)
(* lost on the way, it is the only one given out (HandedInv).              *)
(***************************************************************************)
EXTENDS TaskHubSystem, TaskHubServiceProofs

-----------------------------------------------------------------------------
(* What a runner and its calls have to do with each other.                  *)

\* The slot of a runner's call runs an invocation for a task of its own, ...
LEMMA CalledSlot ==
    ASSUME SysIInv, NEW r \in Runners, NEW q \in Slots, Calls(r, q)
    PROVE  /\ req[q].pc \in {"claim_put", "heartbeat_put"} \cup CompleteSteps
           /\ RunnerOf[req[q].task] = r
           /\ agent[r].call = q => req[q].pc # "heartbeat_put"
           /\ beat[r] = q => req[q].pc = "heartbeat_put"
           /\ agent[r].call = q /\ req[q].pc = "claim_put" => agent[r].pc = "claiming"
           /\ agent[r].call = q /\ req[q].pc \in CompleteSteps => agent[r].pc \in Reporting
           /\ beat[r] = q => agent[r].pc \in {"working", "joining"}
<1>1. OwnCalls(r) /\ NoCall \notin Slots /\ "off" \notin Slots
    BY SystemAssumption DEF SysIInv
<1>2. agent[r].call = q => agent[r].pc \in {"claiming"} \cup Reporting
    BY <1>1 DEF OwnCalls
<1> QED
    BY <1>1, <1>2 DEF OwnCalls, Serves, Calls, CompleteSteps, Reporting

\* ... so that no other runner, and no other step, has to do with it.
LEMMA OneCaller ==
    ASSUME SysIInv, NEW r \in Runners, NEW s \in Runners, NEW q \in Slots,
           Calls(r, q), Calls(s, q)
    PROVE  r = s
    BY CalledSlot

\* Nobody waits for a submission, a consumer or an idle slot.
LEMMA NotCalled ==
    ASSUME SysIInv, NEW q \in Slots,
           req[q].pc \notin {"claim_put", "heartbeat_put"} \cup CompleteSteps
    PROVE  Orphan(q)
    BY CalledSlot DEF Orphan

\* History only grows: a lease once issued, or answered with, stays so.
Grows == held \subseteq held' /\ \A l \in Leases : issued[l] # NoGrant => issued'[l] = issued[l]

\* What a runner knows stays true while others act.
LEMMA OwnFrame ==
    ASSUME SysIInv, Grows, NEW r \in Runners, agent'[r] = agent[r], beat'[r] = beat[r],
           \A q \in Slots : Calls(r, q) =>
               /\ req'[q].task = req[q].task
               /\ req'[q].pc = req[q].pc \/ {req[q].pc, req'[q].pc} \subseteq CompleteSteps
    PROVE  OwnCalls(r)' /\ OwnLease(r)' /\ OwnResult(r)'
<1>1. OwnCalls(r) /\ OwnLease(r) /\ OwnResult(r) /\ held \subseteq Leases /\ HeldIsIssued
    BY DEF SysIInv, IInv, TypeOK
<1>5. agent[r].pc \in WithLease => TaskOf(r)' = TaskOf(r)
    BY <1>1 DEF OwnLease, Grows, HeldIsIssued, TaskOf
<1>6. agent[r].pc \in Reporting \/ beat[r] \in Slots => agent[r].pc \in WithLease
    BY <1>1, SystemAssumption DEF OwnCalls, WithLease
<1>2. OwnCalls(r)'
    BY <1>1, <1>5, <1>6 DEF OwnCalls, Serves, Calls, CompleteSteps
<1>3. OwnLease(r)'
    BY <1>1 DEF OwnLease, Grows, HeldIsIssued
<1>4. OwnResult(r)'
    BY <1>1 DEF OwnResult
<1> QED
    BY <1>2, <1>3, <1>4

\* All that SysIInv says of one runner.
Own(r) == OwnCalls(r) /\ OwnLease(r) /\ OwnResult(r)

\* A step of one runner leaves the others what they know.
LEMMA OthersKeep ==
    ASSUME SysIInv, Grows, NEW r \in Runners,
           \A s \in Runners : s # r => agent'[s] = agent[s] /\ beat'[s] = beat[s],
           \A q \in Slots : req'[q] = req[q] \/ Calls(r, q) \/ Orphan(q)
    PROVE  \A s \in Runners : s # r => Own(s)'
<1> SUFFICES ASSUME NEW s \in Runners, s # r PROVE Own(s)'
    OBVIOUS
<1>1. \A q \in Slots : Calls(s, q) => req'[q] = req[q]
    BY OneCaller DEF Orphan
<1> QED
    BY <1>1, OwnFrame DEF Own

\* A fault is counted, and marks a task.
LEMMA FaultRecorded ==
    ASSUME faults \in FaultRecords, NEW kind, NEW t, Fault(kind, t)
    PROVE  /\ faults' \in FaultRecords
           /\ \A u \in Tasks : faults.of[u] \subseteq faults'.of[u]
           /\ t \in Tasks => MarksOf(kind) \subseteq faults'.of[t]
<1>1. MarksOf(kind) \subseteq Marks /\ MaxFaults \in Nat
    BY SystemAssumption DEF MarksOf
<1> DEFINE marked == [faults.of EXCEPT ![t] = @ \cup MarksOf(kind)]
<1>2. faults.of \in [Tasks -> SUBSET Marks] /\ faults.count \in 0 .. MaxFaults
    BY DEF FaultRecords
<1>3. faults.count < MaxFaults /\ faults' = [count |-> faults.count + 1, of |-> marked]
    BY DEF Fault
<1>4. marked \in [Tasks -> SUBSET Marks]
    BY <1>1, <1>2
<1>8. faults.count + 1 \in 0 .. MaxFaults
    BY <1>1, <1>2, <1>3
<1>5. faults' \in FaultRecords /\ faults'.of = marked
    <2> HIDE DEF marked
    <2> QED
        BY <1>3, <1>4, <1>8 DEF FaultRecords
<1>6. \A u \in Tasks : faults.of[u] \subseteq marked[u]
    BY <1>2
<1>7. t \in Tasks => MarksOf(kind) \subseteq marked[t]
    BY <1>2
<1> QED
    BY <1>5, <1>6, <1>7

\* What the except branch reports is a result.
LEMMA FailedIsResult == "failed" \in Results
    BY ConstantsAssumption

\* The main thread of r goes to pc, and keeps lease and result or is Down.
LEMMA AgentMoves ==
    ASSUME SysIInv, NEW r \in Runners, NEW pc \in AgentPC, NEW call \in Slots \cup {NoCall},
           NEW lease \in Leases \cup {NoLease}, NEW result \in Results \cup {"raised", "none"},
           SetAgent(r, At(pc, call, lease, result)),
           beat' \in [Runners -> {"off", "asleep"} \cup Slots], wake' \in [Runners -> BOOLEAN],
           faults' \in FaultRecords
    PROVE  /\ agent'[r].pc = pc /\ agent'[r].call = call /\ agent'[r].lease = lease
           /\ agent'[r].result = result
           /\ \A s \in Runners : s # r => agent'[s] = agent[s]
           /\ RunnersTyped'
    BY DEF SysIInv, SysTypeOK, RunnersTyped, SetAgent, At

\* In particular for one that goes to the except branch of run_once.
LEMMA GivesUp ==
    ASSUME SysIInv, NEW r \in Runners, NEW lease \in Leases \cup {NoLease},
           SetAgent(r, At("giveup", NoCall, lease, "failed")),
           beat' \in [Runners -> {"off", "asleep"} \cup Slots], wake' \in [Runners -> BOOLEAN],
           faults' \in FaultRecords
    PROVE  /\ agent'[r].pc = "giveup" /\ agent'[r].call = NoCall /\ agent'[r].lease = lease
           /\ agent'[r].result = "failed"
           /\ \A s \in Runners : s # r => agent'[s] = agent[s]
           /\ RunnersTyped'
<1> DEFINE failed == "failed"
<1>1. failed \in Results \cup {"raised", "none"} /\ "giveup" \in AgentPC
    BY FailedIsResult DEF AgentPC
<1>2. SetAgent(r, At("giveup", NoCall, lease, failed))
    OBVIOUS
<1> HIDE DEF failed
<1>3. /\ agent'[r].pc = "giveup" /\ agent'[r].call = NoCall /\ agent'[r].lease = lease
      /\ agent'[r].result = failed
      /\ \A s \in Runners : s # r => agent'[s] = agent[s]
      /\ RunnersTyped'
    BY <1>1, <1>2, AgentMoves
<1> QED
    BY <1>3 DEF failed

\* And for one that has claimed a task and goes to its handler.
LEMMA GoesToWork ==
    ASSUME SysIInv, NEW r \in Runners, NEW lease \in Leases,
           SetAgent(r, At("working", NoCall, lease, "none")),
           beat' \in [Runners -> {"off", "asleep"} \cup Slots], wake' \in [Runners -> BOOLEAN],
           faults' \in FaultRecords
    PROVE  /\ agent'[r].pc = "working" /\ agent'[r].call = NoCall /\ agent'[r].lease = lease
           /\ \A s \in Runners : s # r => agent'[s] = agent[s]
           /\ RunnersTyped'
<1> DEFINE none == "none"
           working == "working"
<1>1. none \in Results \cup {"raised", "none"} /\ working \in AgentPC
    BY DEF AgentPC
<1>2. SetAgent(r, At(working, NoCall, lease, none))
    OBVIOUS
<1> HIDE DEF none, working
<1>3. /\ agent'[r].pc = working /\ agent'[r].call = NoCall /\ agent'[r].lease = lease
      /\ \A s \in Runners : s # r => agent'[s] = agent[s]
      /\ RunnersTyped'
    BY <1>1, <1>2, AgentMoves
<1> QED
    BY <1>3 DEF working

\* The same for a thread that goes on to pc in no call.
LEMMA AgentMovesOn ==
    ASSUME SysIInv, NEW r \in Runners, NEW pc \in AgentPC, Move(r, pc),
           beat' \in [Runners -> {"off", "asleep"} \cup Slots], wake' \in [Runners -> BOOLEAN],
           faults' \in FaultRecords
    PROVE  /\ agent'[r].pc = pc /\ agent'[r].call = NoCall /\ agent'[r].lease = agent[r].lease
           /\ agent'[r].result = agent[r].result
           /\ \A s \in Runners : s # r => agent'[s] = agent[s]
           /\ RunnersTyped'
<1>1. agent[r] \in [pc : AgentPC, call : Slots \cup {NoCall}, lease : Leases \cup {NoLease},
                    result : Results \cup {"raised", "none"}]
    BY DEF SysIInv, SysTypeOK, RunnersTyped
<1> QED
    BY <1>1 DEF SysIInv, SysTypeOK, RunnersTyped, Move

\* What an exception in the main thread leaves of it.
LEMMA Raised ==
    ASSUME SysIInv, Grows, NEW r \in Runners, Raise(r),
           agent[r].pc \in {"claiming", "report", "giveup"} \cup Reporting,
           faults' \in FaultRecords
    PROVE  /\ RunnersTyped' /\ Own(r)'
           /\ \A s \in Runners : s # r => agent'[s] = agent[s] /\ beat'[s] = beat[s]
           /\ beat[r] = "off" /\ beat'[r] = "off"
<1>1. RunnersTyped /\ Own(r) /\ held \subseteq Leases /\ HeldIsIssued
    BY DEF SysIInv, IInv, SysTypeOK, TypeOK, Own
<1>2. NoCall \notin Slots /\ "off" \notin Slots
    BY SystemAssumption
<1>3. beat[r] = "off"
    BY <1>1 DEF Own, OwnCalls, Reporting
<1>4. CASE agent[r].pc \in {"report", "reporting"}
  <2>1. /\ SetAgent(r, At("giveup", NoCall, agent[r].lease, "failed"))
        /\ beat' = beat /\ wake' = wake
      BY <1>4 DEF Raise
  <2>2. agent[r].lease \in Leases \cup {NoLease} /\ agent[r].lease \in held
        /\ issued[agent[r].lease].runner = r
      BY <1>1, <1>4 DEF Own, OwnLease, WithLease, Reporting, RunnersTyped
  <2>3. "giveup" \in AgentPC
      BY DEF AgentPC
  <2>4. /\ agent'[r].pc = "giveup" /\ agent'[r].call = NoCall
        /\ agent'[r].lease = agent[r].lease /\ agent'[r].result = "failed"
        /\ RunnersTyped' /\ \A s \in Runners : s # r => agent'[s] = agent[s]
    <3>1. /\ beat' \in [Runners -> {"off", "asleep"} \cup Slots]
          /\ wake' \in [Runners -> BOOLEAN]
        BY <1>1, <2>1 DEF RunnersTyped
    <3> QED
        BY <2>1, <2>2, <3>1, GivesUp
  <2>5. Own(r)'
      BY <1>1, <1>2, <1>3, <2>1, <2>2, <2>4, FailedIsResult
         DEF Own, OwnCalls, OwnLease, OwnResult, WithLease, Reporting, Grows, HeldIsIssued
  <2> QED
      BY <1>3, <2>1, <2>4, <2>5
<1>5. CASE agent[r].pc \notin {"report", "reporting"}
  <2>1. /\ SetAgent(r, At("down", NoCall, NoLease, "none"))
        /\ beat' = [beat EXCEPT ![r] = "off"] /\ wake' = wake
      BY <1>5 DEF Raise, Down
  <2>3. "down" \in AgentPC /\ NoLease \in Leases \cup {NoLease}
      BY DEF AgentPC
  <2>4. /\ agent'[r].pc = "down" /\ agent'[r].call = NoCall /\ agent'[r].lease = NoLease
        /\ RunnersTyped' /\ \A s \in Runners : s # r => agent'[s] = agent[s]
    <3>1. /\ beat' \in [Runners -> {"off", "asleep"} \cup Slots]
          /\ wake' \in [Runners -> BOOLEAN]
        BY <1>1, <2>1 DEF RunnersTyped
    <3> QED
        BY <2>1, <2>3, <3>1, AgentMoves, SMTT(30)
  <2>5. beat'[r] = "off" /\ \A s \in Runners : s # r => beat'[s] = beat[s]
      BY <1>1, <2>1 DEF RunnersTyped
  <2>6. Own(r)'
      BY <1>2, <2>4, <2>5
         DEF Own, OwnCalls, OwnLease, OwnResult, WithLease, Reporting
  <2> QED
      BY <1>3, <2>4, <2>5, <2>6
<1> QED
    BY <1>4, <1>5

\* What heartbeat.stop() leaves, however it ends.
LEMMA JoinEnds ==
    ASSUME SysIInv, Grows, NEW r \in Runners, agent[r].pc = "joining", AfterJoin(r),
           faults' \in FaultRecords
    PROVE  /\ RunnersTyped' /\ Own(r)'
           /\ \A s \in Runners : s # r => agent'[s] = agent[s] /\ beat'[s] = beat[s]
           /\ agent'[r].pc \in {"report", "giveup"} /\ agent'[r].lease = agent[r].lease
<1>1. RunnersTyped /\ Own(r) /\ held \subseteq Leases /\ HeldIsIssued
    BY DEF SysIInv, IInv, SysTypeOK, TypeOK, Own
<1>2. NoCall \notin Slots /\ "off" \notin Slots
    BY SystemAssumption
<1>3. /\ agent[r].lease \in Leases \cup {NoLease} /\ agent[r].lease \in held
      /\ issued[agent[r].lease].runner = r
      /\ agent[r].result \in Results \cup {"raised"}
    BY <1>1 DEF Own, OwnLease, OwnResult, WithLease, Reporting, RunnersTyped
<1>4. beat'[r] = "off" /\ wake' = wake /\ beat' \in [Runners -> {"off", "asleep"} \cup Slots]
      /\ \A s \in Runners : s # r => beat'[s] = beat[s]
    BY <1>1 DEF AfterJoin, RunnersTyped
<1>5. wake' \in [Runners -> BOOLEAN] /\ "report" \in AgentPC /\ "giveup" \in AgentPC
    BY <1>1, <1>4 DEF RunnersTyped, AgentPC
<1>7. /\ agent'[r].pc \in {"report", "giveup"} /\ agent'[r].call = NoCall
      /\ agent'[r].lease = agent[r].lease /\ agent'[r].result \in Results
      /\ RunnersTyped' /\ \A s \in Runners : s # r => agent'[s] = agent[s]
  <2>1. CASE agent[r].result # "raised" /\ Move(r, "report")
      BY <1>3, <1>4, <1>5, <2>1, AgentMovesOn
  <2>2. CASE SetAgent(r, At("giveup", NoCall, agent[r].lease, "failed"))
      BY <1>3, <1>4, <1>5, <2>2, GivesUp, FailedIsResult
  <2> QED
      BY <2>1, <2>2 DEF AfterJoin
<1>8. Own(r)'
    BY <1>1, <1>2, <1>3, <1>4, <1>7
       DEF Own, OwnCalls, OwnLease, OwnResult, WithLease, Reporting, Grows, HeldIsIssued
<1> QED
    BY <1>4, <1>7, <1>8

\* The steps of a runner that leave the service alone.
Quietly(r) ==
    \/ Start(r) \/ NothingToDo(r) \/ WaitOver(r) \/ Joined(r) \/ Rejected(r)
    \/ \E s \in Results \cup {"raised"} : HandlerReturns(r, s)
    \/ UploadFails(r) \/ Timeout(r) \/ JoinTimesOut(r) \/ Crash(r)

\* They keep what every runner knows.
LEMMA QuietStep ==
    ASSUME SysIInv, NEW r \in Runners, Quietly(r)
    PROVE  /\ UNCHANGED vars
           /\ RunnersTyped' /\ Own(r)'
           /\ \A s \in Runners : s # r => agent'[s] = agent[s] /\ beat'[s] = beat[s]
<1> DEFINE Goal == /\ UNCHANGED vars
                   /\ RunnersTyped' /\ Own(r)'
                   /\ \A s \in Runners : s # r => agent'[s] = agent[s] /\ beat'[s] = beat[s]
<1>1. RunnersTyped /\ Own(r) /\ held \subseteq Leases
    BY DEF SysIInv, SysTypeOK, TypeOK, Own
<1>0. /\ NoCall \notin Slots /\ "off" \notin Slots /\ "asleep" \notin Slots
      /\ MaxFaults \in Nat
    BY SystemAssumption
<1>2. CASE Start(r)
  <2>1. /\ SetAgent(r, At("poll", NoCall, NoLease, "none"))
        /\ beat' = beat /\ UNCHANGED vars /\ faults' = faults /\ agent[r].pc = "down"
        /\ wake' = [wake EXCEPT ![r] = FALSE]
      BY <1>2 DEF Start, Poll
  <2>2. /\ beat' \in [Runners -> {"off", "asleep"} \cup Slots]
        /\ wake' \in [Runners -> BOOLEAN] /\ faults' \in FaultRecords
      BY <1>1, <2>1 DEF RunnersTyped
  <2>3. "poll" \in AgentPC
      BY DEF AgentPC
  <2>4. /\ agent'[r].pc = "poll" /\ agent'[r].call = NoCall /\ agent'[r].lease = NoLease
        /\ RunnersTyped' /\ \A s \in Runners : s # r => agent'[s] = agent[s]
      BY <2>1, <2>2, <2>3, AgentMoves
  <2> QED
      BY <1>0, <1>1, <2>1, <2>4 DEF Own, OwnCalls, OwnLease, OwnResult, WithLease, Reporting
<1>3. CASE NothingToDo(r) \/ WaitOver(r)
  <2>1. PICK pc \in {"poll", "waiting"} : Move(r, pc)
      BY <1>3 DEF NothingToDo, WaitOver
  <2>2. beat' = beat /\ UNCHANGED vars /\ agent[r].pc \in {"poll", "waiting"}
      BY <1>3 DEF NothingToDo, WaitOver
  <2>3. /\ beat' \in [Runners -> {"off", "asleep"} \cup Slots]
        /\ wake' \in [Runners -> BOOLEAN] /\ faults' \in FaultRecords
      BY <1>1, <1>3 DEF NothingToDo, WaitOver, RunnersTyped
  <2>4. pc \in AgentPC
      BY DEF AgentPC
  <2>5. /\ agent'[r].pc = pc /\ agent'[r].call = NoCall /\ agent'[r].lease = agent[r].lease
        /\ RunnersTyped' /\ \A s \in Runners : s # r => agent'[s] = agent[s]
      BY <2>1, <2>3, <2>4, AgentMovesOn
  <2> QED
      BY <1>0, <1>1, <2>2, <2>5 DEF Own, OwnCalls, OwnLease, OwnResult, WithLease, Reporting
<1>5. ASSUME NEW s \in Results \cup {"raised"}, HandlerReturns(r, s) PROVE Goal
  <2>1. agent[r].pc = "working" /\ UNCHANGED <<vars, beat, wake, faults>>
      BY <1>5 DEF HandlerReturns
  <2>2. agent[r] \in [pc : AgentPC, call : Slots \cup {NoCall}, lease : Leases \cup {NoLease},
                      result : Results \cup {"raised", "none"}]
      BY <1>1 DEF RunnersTyped
  <2>3. "joining" \in AgentPC
      BY DEF AgentPC
  <2>4. /\ agent'[r].pc = "joining" /\ agent'[r].call = agent[r].call
        /\ agent'[r].lease = agent[r].lease /\ agent'[r].result = s
        /\ RunnersTyped' /\ \A i \in Runners : i # r => agent'[i] = agent[i]
      BY <1>1, <1>5, <2>1, <2>2, <2>3 DEF HandlerReturns, RunnersTyped
  <2>5. UNCHANGED <<req, held, issued, beat>> /\ TaskOf(r)' = TaskOf(r)
      BY <2>1, <2>4 DEF vars, history, TaskOf
  <2> QED
      BY <1>0, <1>1, <2>1, <2>4, <2>5
         DEF Own, OwnCalls, OwnLease, OwnResult, WithLease, Reporting, Serves
<1>11. UNCHANGED vars => Grows
    BY DEF vars, history, Grows
<1>6. CASE Joined(r) \/ JoinTimesOut(r)
  <2>1. agent[r].pc = "joining" /\ AfterJoin(r) /\ UNCHANGED vars /\ faults' \in FaultRecords
      BY <1>0, <1>1, <1>6, FaultRecorded DEF Joined, JoinTimesOut, AfterJoin, RunnersTyped
  <2> QED
      BY <1>11, <2>1, JoinEnds
<1>8. CASE Rejected(r)
    BY <1>1, <1>8, <1>11, Raised DEF Rejected, RunnersTyped
<1>12. CASE UploadFails(r)
    BY <1>1, <1>11, <1>12, FaultRecorded, Raised DEF UploadFails, RunnersTyped
<1>9. CASE Timeout(r)
  <2>1. UNCHANGED vars /\ faults' \in FaultRecords
      BY <1>0, <1>1, <1>9, FaultRecorded DEF Timeout, RunnersTyped
  <2>2. CASE agent[r].pc \in {"claiming", "reporting", "givingup"} /\ Raise(r)
      BY <1>11, <2>1, <2>2, Raised DEF Reporting
  <2>3. CASE beat[r] \in Slots /\ beat' = [beat EXCEPT ![r] = "asleep"] /\ UNCHANGED <<agent, wake>>
    <3>1. beat[r] # "off" /\ beat'[r] = "asleep" /\ \A s \in Runners : s # r => beat'[s] = beat[s]
        BY <1>0, <1>1, <2>3 DEF RunnersTyped
    <3>2. RunnersTyped'
        BY <1>1, <2>1, <2>3 DEF RunnersTyped
    <3>3. UNCHANGED <<req, held, issued>> /\ TaskOf(r)' = TaskOf(r)
        BY <2>1, <2>3 DEF vars, history, TaskOf
    <3> QED
        BY <1>0, <1>1, <2>1, <2>3, <3>1, <3>2, <3>3
           DEF Own, OwnCalls, OwnLease, OwnResult, Serves
  <2> QED
      BY <1>9, <2>2, <2>3 DEF Timeout
<1>10. CASE Crash(r)
  <2>1. /\ SetAgent(r, At("down", NoCall, NoLease, "none"))
        /\ beat' = [beat EXCEPT ![r] = "off"] /\ UNCHANGED vars /\ wake' = wake
      BY <1>10 DEF Crash, Down
  <2>2. /\ beat' \in [Runners -> {"off", "asleep"} \cup Slots]
        /\ wake' \in [Runners -> BOOLEAN] /\ faults' \in FaultRecords
      BY <1>0, <1>1, <1>10, <2>1, FaultRecorded DEF Crash, RunnersTyped
  <2>3. "down" \in AgentPC
      BY DEF AgentPC
  <2>4. /\ agent'[r].pc = "down" /\ agent'[r].call = NoCall /\ agent'[r].lease = NoLease
        /\ RunnersTyped' /\ \A s \in Runners : s # r => agent'[s] = agent[s]
      BY <2>1, <2>2, <2>3, AgentMoves
  <2>5. beat'[r] = "off" /\ \A s \in Runners : s # r => beat'[s] = beat[s]
      BY <1>1, <2>1 DEF RunnersTyped
  <2> QED
      BY <1>0, <2>1, <2>4, <2>5 DEF Own, OwnCalls, OwnLease, OwnResult, WithLease, Reporting
<1> QED
    BY <1>2, <1>3, <1>5, <1>6, <1>8, <1>9, <1>10, <1>12 DEF Quietly

\* What the two ways an invocation goes on do to the slots.
LEMMA SlotGoes ==
    ASSUME TypeOK, NEW q \in Slots, NEW pc, NEW t, NEW row, Go(q, pc, t, row)
    PROVE  /\ req'[q].pc = pc /\ req'[q].task = t /\ req'[q].row = row
           /\ \A p \in Slots : p # q => req'[p] = req[p]
    BY DEF TypeOK, Go

LEMMA SlotEnds ==
    ASSUME TypeOK, NEW q \in Slots, Finish(q)
    PROVE  /\ req'[q].pc = "idle"
           /\ \A p \in Slots : p # q => req'[p] = req[p]
    BY DEF TypeOK, Finish, idle

\* A claim begins, for a task of the runner's that nobody holds.
LEMMA ClaimBegins ==
    ASSUME SysIInv, NEW r \in Runners, NEW q \in Slots, NEW t \in Tasks, NEW l \in Leases,
           ClaimFind(q, r, t, l)
    PROVE  /\ Next /\ Grows /\ req[q].pc = "idle" /\ RunnerOf[t] = r
           /\ req'[q].pc = "claim_put" /\ req'[q].task = t
           /\ \A p \in Slots : p # q => req'[p] = req[p]
<1>1. TypeOK
    BY DEF SysIInv, IInv
<1>2. Next
    BY DEF Next, Handler, Claim
<1>3. Grows
    BY <1>1 DEF ClaimFind, Grows, TypeOK
<1>4. RunnerOf[t] = r
    BY DEF ClaimFind, NextClaim, Claimable
<1>5. Go(q, "claim_put", t, [tasks[t] EXCEPT !.status = "leased", !.lease = l,
                                            !.expires = now + LeaseTime])
    BY DEF ClaimFind
<1> QED
    BY <1>1, <1>2, <1>3, <1>4, <1>5, SlotGoes DEF ClaimFind

\* A heartbeat begins, with a lease of its task.
LEMMA HeartbeatBegins ==
    ASSUME SysIInv, NEW q \in Slots, NEW l, HeartbeatRead(q, l)
    PROVE  /\ Next /\ Grows /\ req[q].pc = "idle" /\ l \in held
           /\ req'[q].pc = "heartbeat_put" /\ req'[q].task = issued[l].task
           /\ RunnerOf[issued[l].task] = issued[l].runner
           /\ \A p \in Slots : p # q => req'[p] = req[p]
<1>1. TypeOK /\ l \in Leases
    BY DEF SysIInv, IInv, TypeOK, HeartbeatRead, Presents
<1>2. Next
    BY <1>1 DEF Next, Handler, Heartbeat
<1>3. Grows
    BY <1>1 DEF HeartbeatRead, Grows, history
<1>5. Go(q, "heartbeat_put", issued[l].task,
         [tasks[issued[l].task] EXCEPT !.status = "running", !.expires = now + LeaseTime])
    BY DEF HeartbeatRead
<1> QED
    BY <1>1, <1>2, <1>3, <1>5, SlotGoes DEF HeartbeatRead, Presents, RequireLease

\* A completion begins, with a lease of its task.
LEMMA CompletionBegins ==
    ASSUME SysIInv, NEW q \in Slots, NEW l, NEW s \in Results, CompleteRead(q, l, s)
    PROVE  /\ Next /\ Grows /\ req[q].pc = "idle" /\ l \in held
           /\ req'[q].pc = "complete_put" /\ req'[q].task = issued[l].task
           /\ RunnerOf[issued[l].task] = issued[l].runner
           /\ \A p \in Slots : p # q => req'[p] = req[p]
<1>1. TypeOK /\ l \in Leases
    BY DEF SysIInv, IInv, TypeOK, CompleteRead, Presents
<1>2. Next
    BY <1>1 DEF Next, Handler, Complete
<1>3. Grows
    BY <1>1 DEF CompleteRead, Grows, history
<1>5. Go(q, "complete_put", issued[l].task,
         [tasks[issued[l].task] EXCEPT !.status = s, !.expires = NoExpiry])
    BY DEF CompleteRead
<1> QED
    BY <1>1, <1>2, <1>3, <1>5, SlotGoes DEF CompleteRead, Presents, RequireLease

\* A call that ends.
LEMMA CallEnds ==
    ASSUME SysIInv, NEW q \in Slots,
           ClaimPut(q) \/ HeartbeatPut(q) \/ CompleteEnds(q) \/ Fail(q)
    PROVE  /\ Next /\ Grows
           /\ ClaimPut(q) => req[q].row.lease \in held'
           /\ req'[q].pc = "idle" /\ \A p \in Slots : p # q => req'[p] = req[p]
<1>1. TypeOK
    BY DEF SysIInv, IInv
<1>2. Next
    BY DEF Next, Handler, Claim, Heartbeat, Complete, CompleteEnds
<1>3. Grows
    BY <1>1 DEF ClaimPut, HeartbeatPut, CompleteEnds, CompletePut, CompleteWebhook, Fail, Grows, history
<1>4. Finish(q)
    BY DEF ClaimPut, HeartbeatPut, CompleteEnds, CompletePut, CompleteWebhook, Fail
<1> QED
    BY <1>1, <1>2, <1>3, <1>4, SlotEnds DEF ClaimPut

\* The steps in which a runner starts a call or hears of its end.
Speaks(r) ==
    \/ CallClaim(r) \/ Claimed(r) \/ ClaimGoesWrong(r)
    \/ CallComplete(r, "report", "reporting") \/ CallComplete(r, "giveup", "givingup")
    \/ Completed(r) \/ ReportGoesWrong(r)
    \/ CallHeartbeat(r) \/ HeartbeatDone(r)

\* Only the slot of the runner's call, or an idle one, is touched.
TouchesOwnSlot(r) == \A q \in Slots : req'[q] = req[q] \/ Calls(r, q) \/ Orphan(q)

\* From the claim to the task at hand, or back: claim() of core.py's run_once.
LEMMA ClaimSteps ==
    ASSUME SysIInv, NEW r \in Runners, CallClaim(r) \/ Claimed(r) \/ ClaimGoesWrong(r)
    PROVE  /\ Next /\ Grows /\ TouchesOwnSlot(r)
           /\ RunnersTyped' /\ Own(r)'
           /\ \A s \in Runners : s # r => agent'[s] = agent[s] /\ beat'[s] = beat[s]
<1>1. RunnersTyped /\ Own(r) /\ TypeOK /\ LeaseBinding
    BY DEF SysIInv, IInv, SysTypeOK, Own
<1>2. NoCall \notin Slots /\ "off" \notin Slots /\ MaxFaults \in Nat
    BY SystemAssumption
<1>3. CASE CallClaim(r)
  <2>1. PICK q \in Slots, t \in Tasks, l \in Leases :
            ClaimFind(q, r, t, l) /\ SetAgent(r, At("claiming", q, NoLease, "none"))
      BY <1>3 DEF CallClaim, IdleSlots, UnusedLeases
  <2>2. beat' = beat /\ wake' = wake /\ faults' = faults /\ agent[r].pc = "poll"
      BY <1>3 DEF CallClaim
  <2>3. /\ beat' \in [Runners -> {"off", "asleep"} \cup Slots]
        /\ wake' \in [Runners -> BOOLEAN] /\ faults' \in FaultRecords
        /\ "claiming" \in AgentPC
      BY <1>1, <2>2 DEF RunnersTyped, AgentPC
  <2>4. /\ agent'[r].pc = "claiming" /\ agent'[r].call = q /\ agent'[r].lease = NoLease
        /\ RunnersTyped' /\ \A s \in Runners : s # r => agent'[s] = agent[s]
      BY <2>1, <2>3, AgentMoves
  <2>5. /\ Next /\ Grows /\ req[q].pc = "idle" /\ RunnerOf[t] = r
        /\ req'[q].pc = "claim_put" /\ req'[q].task = t
        /\ \A p \in Slots : p # q => req'[p] = req[p]
      BY <2>1, ClaimBegins
  <2>6. TouchesOwnSlot(r)
      BY <2>5, NotCalled DEF TouchesOwnSlot, CompleteSteps
  <2>7. Own(r)'
      BY <1>1, <1>2, <2>2, <2>4, <2>5
         DEF Own, OwnCalls, OwnLease, OwnResult, WithLease, Reporting, Serves
  <2> QED
      BY <2>2, <2>4, <2>5, <2>6, <2>7
<1>4. CASE Claimed(r)
  <2> DEFINE q == agent[r].call
             l == req[q].row.lease
  <2>1. /\ agent[r].pc = "claiming" /\ ClaimPut(q) /\ wake' = wake /\ faults' = faults
        /\ \/ /\ SetAgent(r, At("working", NoCall, l, "none"))
              /\ beat' = [beat EXCEPT ![r] = "asleep"]
           \/ /\ SetAgent(r, At("giveup", NoCall, l, "failed"))
              /\ beat' = beat
      BY <1>4 DEF Claimed
  <2>2. q \in Slots /\ req[q].pc = "claim_put" /\ RunnerOf[req[q].task] = r /\ Calls(r, q)
        /\ beat[r] = "off"
      BY <1>1, <2>1 DEF Own, OwnCalls, Serves, Calls
  <2>3. /\ l \in Leases /\ issued[l] = [task |-> req[q].task, runner |-> r]
      BY <1>1, <2>2, BusyType DEF SysIInv, IInv, PendingRow, Row, LeaseBinding
  <2> HIDE DEF q, l
  <2>4. /\ Next /\ Grows /\ l \in held'
        /\ \A p \in Slots : p # q => req'[p] = req[p]
      BY <2>1, <2>2, CallEnds DEF l
  <2>5. issued'[l].runner = r
    <3>1. issued' = issued
        BY <2>1 DEF ClaimPut
    <3> QED
        BY <2>3, <3>1
  <2>6. /\ wake' \in [Runners -> BOOLEAN] /\ faults' \in FaultRecords
        /\ beat' \in [Runners -> {"off", "asleep"} \cup Slots]
        /\ "working" \in AgentPC /\ "giveup" \in AgentPC
        /\ \A s \in Runners : s # r => beat'[s] = beat[s]
      BY <1>1, <2>1 DEF RunnersTyped, AgentPC
  <2>7. TouchesOwnSlot(r)
      BY <2>2, <2>4 DEF TouchesOwnSlot
  <2>8. CASE SetAgent(r, At("working", NoCall, l, "none")) /\ beat' = [beat EXCEPT ![r] = "asleep"]
    <3>1. /\ agent'[r].pc = "working" /\ agent'[r].call = NoCall /\ agent'[r].lease = l
          /\ RunnersTyped' /\ \A s \in Runners : s # r => agent'[s] = agent[s]
        BY <2>3, <2>6, <2>8, GoesToWork
    <3>2. beat'[r] = "asleep" /\ "asleep" \notin Slots
        BY <1>1, <2>8, SystemAssumption DEF RunnersTyped
    <3>3. Own(r)'
        BY <1>2, <2>4, <2>5, <3>1, <3>2
           DEF Own, OwnCalls, OwnLease, OwnResult, WithLease, Reporting
    <3> QED
        BY <2>4, <2>6, <2>7, <3>1, <3>3
  <2>9. CASE SetAgent(r, At("giveup", NoCall, l, "failed")) /\ beat' = beat
    <3>1. /\ agent'[r].pc = "giveup" /\ agent'[r].call = NoCall /\ agent'[r].lease = l
          /\ agent'[r].result = "failed"
          /\ RunnersTyped' /\ \A s \in Runners : s # r => agent'[s] = agent[s]
        BY <2>3, <2>6, <2>9, GivesUp
    <3>3. Own(r)'
        BY <1>2, <2>2, <2>4, <2>5, <2>9, <3>1, FailedIsResult
           DEF Own, OwnCalls, OwnLease, OwnResult, WithLease, Reporting
    <3> QED
        BY <2>4, <2>6, <2>7, <3>1, <3>3
  <2> QED
      BY <2>1, <2>8, <2>9
<1>5. CASE ClaimGoesWrong(r)
  <2> DEFINE q == agent[r].call
  <2>1. /\ agent[r].pc = "claiming" /\ (Fail(q) \/ ClaimPut(q)) /\ Raise(r)
        /\ faults' \in FaultRecords
      BY <1>1, <1>2, <1>5, FaultRecorded DEF ClaimGoesWrong, RunnersTyped
  <2>2. q \in Slots /\ Calls(r, q)
      BY <1>1, <2>1 DEF Own, OwnCalls, Serves, Calls
  <2> HIDE DEF q
  <2>3. Next /\ Grows /\ \A p \in Slots : p # q => req'[p] = req[p]
      BY <2>1, <2>2, CallEnds
  <2>4. TouchesOwnSlot(r)
      BY <2>2, <2>3 DEF TouchesOwnSlot
  <2> QED
      BY <2>1, <2>3, <2>4, Raised
<1> QED
    BY <1>3, <1>4, <1>5

\* complete() of run_once, its answer, and an answer that is lost.
LEMMA ReportSteps ==
    ASSUME SysIInv, NEW r \in Runners,
           \/ CallComplete(r, "report", "reporting") \/ CallComplete(r, "giveup", "givingup")
           \/ Completed(r) \/ ReportGoesWrong(r)
    PROVE  /\ Next /\ Grows /\ TouchesOwnSlot(r)
           /\ RunnersTyped' /\ Own(r)'
           /\ \A s \in Runners : s # r => agent'[s] = agent[s] /\ beat'[s] = beat[s]
<1>1. RunnersTyped /\ Own(r) /\ TypeOK /\ HeldIsIssued
    BY DEF SysIInv, IInv, SysTypeOK, Own
<1>2. NoCall \notin Slots /\ "off" \notin Slots /\ MaxFaults \in Nat
    BY SystemAssumption
<1>3. ASSUME NEW from \in {"report", "giveup"}, NEW to \in Reporting, CallComplete(r, from, to)
      PROVE  /\ Next /\ Grows /\ TouchesOwnSlot(r)
             /\ RunnersTyped' /\ Own(r)'
             /\ \A s \in Runners : s # r => agent'[s] = agent[s] /\ beat'[s] = beat[s]
  <2> DEFINE l == agent[r].lease
             s == agent[r].result
  <2>1. PICK q \in Slots :
            CompleteRead(q, l, s) /\ agent' = [agent EXCEPT ![r].pc = to, ![r].call = q]
      BY <1>3 DEF CallComplete, IdleSlots
  <2>2. beat' = beat /\ wake' = wake /\ faults' = faults /\ agent[r].pc = from
      BY <1>3 DEF CallComplete
  <2>3. s \in Results /\ l \in held /\ issued[l].runner = r /\ beat[r] = "off"
      BY <1>1, <2>2 DEF Own, OwnCalls, OwnLease, OwnResult, WithLease, Reporting
  <2>4. /\ Next /\ Grows /\ req[q].pc = "idle"
        /\ req'[q].pc = "complete_put" /\ RunnerOf[req'[q].task] = r
        /\ req'[q].task = issued[l].task
        /\ \A p \in Slots : p # q => req'[p] = req[p]
      BY <2>1, <2>3, CompletionBegins
  <2>5. agent[r] \in [pc : AgentPC, call : Slots \cup {NoCall}, lease : Leases \cup {NoLease},
                      result : Results \cup {"raised", "none"}]
      BY <1>1 DEF RunnersTyped
  <2>6. to \in AgentPC
      BY DEF AgentPC, Reporting
  <2>7. /\ agent'[r].pc = to /\ agent'[r].call = q /\ agent'[r].lease = l
        /\ agent'[r].result = s /\ agent'[r] \in [pc : AgentPC, call : Slots \cup {NoCall},
               lease : Leases \cup {NoLease}, result : Results \cup {"raised", "none"}]
        /\ \A i \in Runners : i # r => agent'[i] = agent[i]
      BY <1>1, <2>1, <2>5, <2>6 DEF RunnersTyped
  <2>8. RunnersTyped'
      BY <1>1, <2>1, <2>2, <2>7 DEF RunnersTyped
  <2>9. TouchesOwnSlot(r)
      BY <2>4, NotCalled DEF TouchesOwnSlot, CompleteSteps
  <2>10. l \in held' /\ issued'[l].runner = r /\ issued'[l] = issued[l]
      BY <1>1, <2>3, <2>4 DEF Grows, HeldIsIssued, TypeOK
  <2> HIDE DEF l, s
  <2>11. Own(r)'
      BY <1>2, <2>2, <2>3, <2>4, <2>7, <2>10
         DEF Own, OwnCalls, TaskOf, OwnLease, OwnResult, WithLease, Reporting, Serves, CompleteSteps
  <2> QED
      BY <2>2, <2>4, <2>7, <2>8, <2>9, <2>11
<1>4. CASE Completed(r)
  <2> DEFINE q == agent[r].call
  <2>1. /\ agent[r].pc \in Reporting /\ CompleteEnds(q)
        /\ SetAgent(r, At("poll", NoCall, NoLease, "none"))
        /\ beat' = beat /\ wake' = wake /\ faults' = faults
      BY <1>4 DEF Completed, Poll, Reporting
  <2>2. q \in Slots /\ Calls(r, q) /\ beat[r] = "off"
      BY <1>1, <2>1 DEF Own, OwnCalls, Serves, Calls, Reporting
  <2> HIDE DEF q
  <2>3. Next /\ Grows /\ \A p \in Slots : p # q => req'[p] = req[p]
      BY <2>1, <2>2, CallEnds
  <2>4. TouchesOwnSlot(r)
      BY <2>2, <2>3 DEF TouchesOwnSlot
  <2>5. /\ beat' \in [Runners -> {"off", "asleep"} \cup Slots]
        /\ wake' \in [Runners -> BOOLEAN] /\ faults' \in FaultRecords /\ "poll" \in AgentPC
      BY <1>1, <2>1 DEF RunnersTyped, AgentPC
  <2>6. /\ agent'[r].pc = "poll" /\ agent'[r].call = NoCall /\ agent'[r].lease = NoLease
        /\ RunnersTyped' /\ \A s \in Runners : s # r => agent'[s] = agent[s]
    <3>1. SetAgent(r, At("poll", NoCall, NoLease, "none"))
        BY <2>1
    <3> QED
        BY <2>5, <3>1, AgentMoves
  <2>7. Own(r)'
      BY <1>2, <2>1, <2>2, <2>6 DEF Own, OwnCalls, OwnLease, OwnResult, WithLease, Reporting
  <2> QED
      BY <2>1, <2>3, <2>4, <2>6, <2>7
<1>5. CASE ReportGoesWrong(r)
  <2> DEFINE q == agent[r].call
  <2>1. /\ agent[r].pc \in Reporting /\ (Fail(q) \/ CompleteEnds(q)) /\ Raise(r)
        /\ faults' \in FaultRecords
      BY <1>1, <1>2, <1>5, FaultRecorded DEF ReportGoesWrong, RunnersTyped, Reporting
  <2>2. q \in Slots /\ Calls(r, q)
      BY <1>1, <2>1 DEF Own, OwnCalls, Serves, Calls
  <2> HIDE DEF q
  <2>3. Next /\ Grows /\ \A p \in Slots : p # q => req'[p] = req[p]
      BY <2>1, <2>2, CallEnds
  <2>4. TouchesOwnSlot(r)
      BY <2>2, <2>3 DEF TouchesOwnSlot
  <2> QED
    <3>1. agent[r].pc \in {"claiming", "report", "giveup"} \cup Reporting
        BY <2>1
    <3> QED
        BY <2>1, <2>3, <2>4, <3>1, Raised
<1> QED
    BY <1>3, <1>4, <1>5 DEF Reporting

\* One turn of LeaseHeartbeat's loop.
LEMMA HeartbeatSteps ==
    ASSUME SysIInv, NEW r \in Runners, CallHeartbeat(r) \/ HeartbeatDone(r)
    PROVE  /\ Next /\ Grows /\ TouchesOwnSlot(r)
           /\ RunnersTyped' /\ Own(r)' /\ agent' = agent
           /\ \A s \in Runners : s # r => beat'[s] = beat[s]
<1>1. RunnersTyped /\ Own(r) /\ TypeOK /\ HeldIsIssued
    BY DEF SysIInv, IInv, SysTypeOK, Own
<1>2. NoCall \notin Slots /\ "off" \notin Slots /\ "asleep" \notin Slots
    BY SystemAssumption
<1>3. CASE CallHeartbeat(r)
  <2> DEFINE l == agent[r].lease
  <2>1. PICK q \in Slots : HeartbeatRead(q, l) /\ beat' = [beat EXCEPT ![r] = q]
      BY <1>3 DEF CallHeartbeat, IdleSlots
  <2>2. agent' = agent /\ wake' = wake /\ faults' = faults /\ agent[r].pc = "working"
      BY <1>3 DEF CallHeartbeat
  <2>3. l \in held /\ issued[l].runner = r
      BY <1>1, <2>2 DEF Own, OwnLease, WithLease, Reporting
  <2>4. /\ Next /\ Grows /\ req[q].pc = "idle"
        /\ req'[q].pc = "heartbeat_put" /\ RunnerOf[req'[q].task] = r
        /\ req'[q].task = issued[l].task
        /\ \A p \in Slots : p # q => req'[p] = req[p]
      BY <2>1, <2>3, HeartbeatBegins
  <2>5. beat'[r] = q /\ RunnersTyped' /\ \A s \in Runners : s # r => beat'[s] = beat[s]
      BY <1>1, <2>1, <2>2 DEF RunnersTyped
  <2>6. TouchesOwnSlot(r)
      BY <2>4, NotCalled DEF TouchesOwnSlot, CompleteSteps
  <2>7. l \in held' /\ issued'[l].runner = r /\ issued'[l] = issued[l]
      BY <1>1, <2>3, <2>4 DEF Grows, HeldIsIssued, TypeOK
  <2>8. Own(r)'
      BY <1>1, <1>2, <2>2, <2>4, <2>5, <2>7
         DEF Own, OwnCalls, TaskOf, OwnLease, OwnResult, WithLease, Reporting, Serves
  <2> QED
      BY <2>2, <2>4, <2>5, <2>6, <2>8
<1>4. CASE HeartbeatDone(r)
  <2> DEFINE q == beat[r]
  <2>1. /\ q \in Slots /\ HeartbeatPut(q) /\ beat' = [beat EXCEPT ![r] = "asleep"]
        /\ agent' = agent /\ wake' = wake /\ faults' = faults
      BY <1>4 DEF HeartbeatDone
  <2>2. Calls(r, q)
      BY DEF Calls
  <2>3. beat'[r] = "asleep" /\ RunnersTyped' /\ \A s \in Runners : s # r => beat'[s] = beat[s]
      BY <1>1, <2>1 DEF RunnersTyped
  <2>4. agent[r].pc \in {"working", "joining"}
      BY <1>1, <1>2, <2>1 DEF Own, OwnCalls
  <2> HIDE DEF q
  <2>5. Next /\ Grows /\ \A p \in Slots : p # q => req'[p] = req[p]
      BY <2>1, CallEnds
  <2>6. TouchesOwnSlot(r)
      BY <2>2, <2>5 DEF TouchesOwnSlot
  <2>7. agent[r].lease \in held' /\ issued'[agent[r].lease].runner = r
      BY <1>1, <2>4, <2>5 DEF Own, OwnLease, WithLease, Reporting, Grows, HeldIsIssued, TypeOK
  <2>8. Own(r)'
      BY <1>1, <1>2, <2>1, <2>3, <2>4, <2>7
         DEF Own, OwnCalls, OwnLease, OwnResult, WithLease, Reporting
  <2> QED
      BY <2>1, <2>3, <2>5, <2>6, <2>8
<1> QED
    BY <1>3, <1>4

\* The service's own steps, and the consumer's failures, concern no runner, or
\* take the completion a runner waits for one step further.
LEMMA ServiceSteps ==
    ASSUME SysIInv, NEW q \in Slots, ServiceStep(q) \/ ClientSubmits(q) \/ ConsumerFails(q)
                                           \/ Redelivered(q)
    PROVE  /\ Next /\ Grows /\ agent' = agent /\ beat' = beat
           /\ RunnersTyped' /\ \A s \in Runners : Own(s)'
           /\ \A p \in Slots : p # q => req'[p] = req[p]
<1>1. RunnersTyped /\ TypeOK /\ MaxFaults \in Nat
    BY SystemAssumption DEF SysIInv, SysTypeOK
<1>2. Next /\ Grows /\ agent' = agent /\ beat' = beat /\ RunnersTyped'
  <2>1. CASE Notify(q)
    <3>1. Next
        BY <2>1 DEF Notify, Next, Handler, Consume
    <3> QED
        BY <1>1, <2>1, <3>1 DEF Notify, ConsumeNotify, Grows, RunnersTyped
  <2>2. CASE ServiceStep(q) /\ UNCHANGED runnerVars
    <3>1. Next
        BY <2>2 DEF ServiceStep, Notify, Next, Handler, Submit, Consume, Claim, Heartbeat,
                    Complete, CompleteEnds
    <3>2. Grows
        BY <1>1, <2>2 DEF ServiceStep, Notify, SubmitPut, SubmitEnqueue, ConsumeRead, ConsumeRunner,
               ConsumePut, ConsumeNotify, ConsumeAck, CompletePut, ClaimPut, HeartbeatPut,
               CompleteEnds, CompleteWebhook, Grows, history
    <3> QED
        BY <1>1, <2>2, <3>1, <3>2 DEF runnerVars, RunnersTyped
  <2>3. CASE ClientSubmits(q)
    <3>1. Next
        BY <2>3 DEF ClientSubmits, Next, Handler, Submit
    <3> QED
        BY <1>1, <2>3, <3>1 DEF ClientSubmits, SubmitFind, Grows, history, runnerVars, RunnersTyped
  <2>4. CASE ConsumerFails(q)
    <3>1. Next
        BY <2>4 DEF ConsumerFails, Next
    <3> QED
        BY <1>1, <2>4, <3>1, FaultRecorded DEF ConsumerFails, Fail, Grows, history, RunnersTyped
  <2>5. CASE Redelivered(q)
    <3>1. Next
        BY <2>5 DEF Redelivered, Next, Handler, Consume
    <3> QED
        BY <1>1, <2>5, <3>1, FaultRecorded
           DEF Redelivered, ConsumeRead, Grows, history, RunnersTyped
  <2> QED
      BY <2>1, <2>2, <2>3, <2>4, <2>5 DEF ServiceStep
<1>3. \A p \in Slots : p # q => req'[p] = req[p]
  <2>1. (\E pc, t, row : Go(q, pc, t, row)) \/ Finish(q)
    <3>1. CASE ClientSubmits(q) \/ ConsumerFails(q) \/ Redelivered(q)
        BY <3>1 DEF ClientSubmits, ConsumerFails, Redelivered, ConsumeRead, SubmitFind, Fail
    <3>2. CASE ServiceStep(q)
        BY <3>2 DEF ServiceStep, Notify, SubmitPut, SubmitEnqueue, ConsumeRead, ConsumeRunner,
               ConsumePut, ConsumeNotify, ConsumeAck, CompletePut, ClaimPut, HeartbeatPut,
               CompleteEnds, CompleteWebhook
    <3> QED
        BY <3>1, <3>2
  <2> QED
      BY <1>1, <2>1 DEF Go, Finish, TypeOK
<1>4. Orphan(q) \/ (/\ req[q].pc = "complete_put" /\ req'[q].pc = "complete_webhook"
                    /\ req'[q].task = req[q].task)
  <2>1. CASE req[q].pc = "complete_put" /\ req[q].task \in HasCallback /\ CompletePut(q)
      BY <1>1, <2>1 DEF CompletePut, Go, TypeOK
  <2>2. CASE ~(req[q].pc = "complete_put" /\ req[q].task \in HasCallback /\ CompletePut(q))
    <3>1. Orphan(q) \/ req[q].pc \notin {"claim_put", "heartbeat_put"} \cup CompleteSteps
        BY <2>2 DEF ServiceStep, ClientSubmits, ConsumerFails, Redelivered, Notify, SubmitFind, SubmitPut,
               SubmitEnqueue, ConsumeRead, ConsumeRunner, ConsumePut, ConsumeNotify, ConsumeAck,
               ConsumerSteps, CompleteSteps
    <3> QED
        BY <3>1, NotCalled
  <2> QED
      BY <2>1, <2>2
<1>5. ASSUME NEW s \in Runners PROVE Own(s)'
  <2>1. \A p \in Slots : Calls(s, p) =>
            /\ req'[p].task = req[p].task
            /\ req'[p].pc = req[p].pc \/ {req[p].pc, req'[p].pc} \subseteq CompleteSteps
      BY <1>3, <1>4 DEF Orphan, CompleteSteps
  <2> QED
      BY <1>2, <2>1, OwnFrame DEF Own
<1> QED
    BY <1>2, <1>3, <1>5

\* Every step of the system is one of the service, or none of its business, and
\* leaves each runner with a true picture of its own call and lease.
LEMMA SysStep ==
    ASSUME SysIInv, SysNext
    PROVE  [Next]_vars /\ SysIInv'
<1>1. [Next]_vars /\ RunnersTyped' /\ \A s \in Runners : Own(s)'
  <2>1. ASSUME NEW r \in Runners, Quietly(r)
        PROVE  [Next]_vars /\ RunnersTyped' /\ \A s \in Runners : Own(s)'
    <3>1. UNCHANGED vars /\ Grows /\ TouchesOwnSlot(r)
        BY <2>1, QuietStep DEF vars, history, Grows, TouchesOwnSlot
    <3> QED
        BY <2>1, <3>1, QuietStep, OthersKeep DEF TouchesOwnSlot
  <2>2. ASSUME NEW r \in Runners, Speaks(r)
        PROVE  [Next]_vars /\ RunnersTyped' /\ \A s \in Runners : Own(s)'
    <3>1. /\ Next /\ Grows /\ TouchesOwnSlot(r)
          /\ RunnersTyped' /\ Own(r)'
          /\ \A s \in Runners : s # r => agent'[s] = agent[s] /\ beat'[s] = beat[s]
        BY <2>2, ClaimSteps, ReportSteps, HeartbeatSteps DEF Speaks
    <3> QED
        BY <3>1, OthersKeep DEF TouchesOwnSlot
  <2>3. ASSUME NEW q \in Slots, \/ ServiceStep(q) \/ ClientSubmits(q)
                                \/ ConsumerFails(q) \/ Redelivered(q)
        PROVE  [Next]_vars /\ RunnersTyped' /\ \A s \in Runners : Own(s)'
      BY <2>3, ServiceSteps
  <2>4. CASE Clock
    <3>1. /\ Next /\ Grows /\ agent' = agent /\ beat' = beat /\ req' = req
          /\ UNCHANGED runnerVars
        BY <2>4 DEF Clock, Tick, Next, Grows, history, runnerVars
    <3>2. RunnersTyped'
        BY <3>1 DEF SysIInv, SysTypeOK, RunnersTyped, runnerVars
    <3> QED
        BY <3>1, <3>2, OwnFrame DEF Own
  <2> QED
      BY <2>1, <2>2, <2>3, <2>4 DEF SysNext, Agent, Quietly, Speaks
<1>2. IInv'
    BY <1>1, IInvNext, IInvStutter DEF SysIInv
<1> QED
    BY <1>1, <1>2 DEF SysIInv, SysTypeOK, IInv, Own

\* A stutter keeps it too, ...
LEMMA SysStutter ==
    ASSUME SysIInv, UNCHANGED sysVars
    PROVE  SysIInv'
<1>1. UNCHANGED <<vars, agent, beat, wake, faults>> /\ Grows /\ req' = req
    BY DEF sysVars, runnerVars, vars, history, Grows
<1>2. IInv' /\ RunnersTyped'
    BY <1>1, IInvStutter DEF SysIInv, SysTypeOK, RunnersTyped
<1>3. \A r \in Runners : Own(r)'
    BY <1>1, OwnFrame DEF Own
<1> QED
    BY <1>2, <1>3 DEF SysIInv, SysTypeOK, IInv, Own

\* ... and it holds when all runners are down.
LEMMA SysStart == SysInit => SysIInv
<1> SUFFICES ASSUME SysInit PROVE SysIInv
    OBVIOUS
<1>1. TypeOK
  <2>1. 0 \in Time /\ NoRow \in Row
      BY NoRowType, ConstantsAssumption DEF Time
  <2> QED
      BY <2>1, ConstantsAssumption DEF SysInit, TypeOK, Idle, idle
<1>2. IInv
    BY <1>1 DEF SysInit, IInv, PendingRow, SlotTask, OneTaskPerKey, AcceptedIsStored, HeldIsIssued,
           AbsentIsUnleased, QueueNamesStoredTasks, LeaseBinding, LeasedCanExpire,
           WokenTaskIsRouted, WebhookReportsStoredResult, Stored, NoRow, idle
<1>3. RunnersTyped
    BY SystemAssumption DEF SysInit, RunnersTyped, FaultRecords, Down, At, AgentPC
<1>4. \A r \in Runners : Own(r)
    BY SystemAssumption DEF SysInit, Own, OwnCalls, OwnLease, OwnResult, Down, At, WithLease, Reporting
<1> QED
    BY <1>1, <1>2, <1>3, <1>4 DEF SysIInv, SysTypeOK, Own

-----------------------------------------------------------------------------
(* What holds whatever goes wrong.                                          *)

\* The inductive invariant: each runner waits for the invocation it called, for
\* a task of its own, and holds a lease it was answered with (core.py run_once).
THEOREM SysInvariance == SysSafety => []SysIInv
    BY SysStart, SysStep, SysStutter, PTL DEF SysSafety

\* The types of the whole system (loop.py, core.py, task-service.ts).
THEOREM SysTypeCorrectness == SysSafety => []SysTypeOK
<1>1. SysIInv => SysTypeOK
    BY DEF SysIInv
<1> QED
    BY <1>1, SysInvariance, PTL

\* The runners use the service as its specification allows: whatever they do
\* and lose, the ledger of leases and statuses is kept (task-service.ts).
THEOREM SystemKeepsLedger == SysSafety => LifecycleSpec
<1>1. SysInit => Lifecycle!Init
    BY DEF SysInit, NoRow, Lifecycle!Init
<1>2. SysIInv /\ [SysNext]_sysVars => [Lifecycle!Next]_(Lifecycle!vars)
  <2>1. ASSUME UNCHANGED vars PROVE UNCHANGED Lifecycle!vars
      BY <2>1 DEF vars, history, Lifecycle!vars
  <2>2. SysIInv => IInv
      BY DEF SysIInv
  <2>3. UNCHANGED sysVars => UNCHANGED vars
      BY DEF sysVars
  <2> QED
      BY <2>1, <2>2, <2>3, Simulation, SysStep
<1> QED
    BY <1>1, <1>2, SysInvariance, PTL DEF SysSafety, LifecycleSpec, Lifecycle!Spec

-----------------------------------------------------------------------------
(* What one step of the service does to the rows, the slots and the queue.  *)

Acking == {"consume_notify", "consume_ack"}
CallPuts == {"claim_put", "heartbeat_put", "complete_put"}

\* A slot that goes on goes from one of these steps to the next.
Onward == {<<"submit_put", "submit_enqueue">>, <<"consume_runner", "consume_put">>,
           <<"consume_put", "consume_notify">>, <<"consume_put", "consume_ack">>,
           <<"consume_notify", "consume_ack">>, <<"complete_put", "complete_webhook">>}
Begins(q) ==
    \/ \E t \in Tasks : SubmitFind(q, t) \/ ConsumeRead(q, t)
    \/ \E r \in Runners, t \in Tasks, l \in Leases : ClaimFind(q, r, t, l)
    \/ \E l \in Leases : HeartbeatRead(q, l) \/ \E s \in Results : CompleteRead(q, l, s)
GoesOn(q) ==
    /\ req[q].pc # "idle" /\ req'[q].task = req[q].task
    /\ <<req[q].pc, req'[q].pc>> \in Onward
    /\ req[q].pc \in {"submit_put", "consume_put", "complete_put"} =>
          tasks'[req[q].task] = req[q].row
    /\ req[q].pc = "submit_put" => ~Stored(req[q].task)
    /\ req[q].pc \notin {"consume_runner"} => req'[q].row = req[q].row

\* The step that an invocation does next writes the row that it has built.
Puts(q, t) ==
    /\ req[q].task = t /\ tasks'[t] = req[q].row
    /\ \/ req[q].pc \in {"submit_put", "consume_put"} /\ GoesOn(q)
       \/ req[q].pc \in CallPuts /\ (req'[q].pc = "idle" \/ GoesOn(q))

\* One slot at a time: it begins, goes on or ends.
LEMMA SlotMoves ==
    ASSUME IInv, Next, NEW q \in Slots, req'[q] # req[q]
    PROVE  /\ \A p \in Slots : p # q => req'[p] = req[p]
           /\ Begins(q) \/ GoesOn(q) \/ req'[q].pc = "idle"
<1> DEFINE G == /\ \A p \in Slots : p # q => req'[p] = req[p]
                /\ Begins(q) \/ GoesOn(q) \/ req'[q].pc = "idle"
<1>1. TypeOK
    BY DEF IInv
<1>2. ASSUME NEW i \in Slots, (\E pc, t, row : Go(i, pc, t, row)) \/ Finish(i)
      PROVE  i = q /\ \A p \in Slots : p # q => req'[p] = req[p]
    BY <1>1, <1>2, SlotGoes, SlotEnds
<1>3. ASSUME NEW i \in Slots, Submit(i) PROVE G
  <2>1. CASE \E t \in Tasks : SubmitFind(i, t)
      BY <1>2, <2>1 DEF SubmitFind, Begins
  <2>2. CASE SubmitPut(i)
    <3>1. i = q /\ \A p \in Slots : p # q => req'[p] = req[p]
        BY <1>2, <2>2 DEF SubmitPut
    <3>2. PICK t \in Tasks, row \in Row : t = req[q].task /\ row = req[q].row
        BY <1>1, <2>2, <3>1, BusyType DEF SubmitPut
    <3>3. CASE Finish(q)
        BY <1>1, <3>1, <3>3, SlotEnds
    <3>4. CASE Go(q, "submit_enqueue", t, row) /\ PutRow(q)
      <4>1. req'[q].pc = "submit_enqueue" /\ req'[q].task = t /\ req'[q].row = row
          BY <1>1, <3>4, SlotGoes
      <4>2. tasks'[t] = row /\ ~Stored(t)
          BY <1>1, <2>2, <3>1, <3>2, <3>4 DEF PutRow, TypeOK, SubmitPut, IInv, SlotTask
      <4> QED
          BY <2>2, <3>1, <3>2, <4>1, <4>2 DEF GoesOn, Onward, SubmitPut
    <3> QED
        BY <2>2, <3>1, <3>2, <3>3, <3>4 DEF SubmitPut
  <2>3. CASE SubmitEnqueue(i)
      BY <1>1, <1>2, <2>3, SlotEnds DEF SubmitEnqueue
  <2> QED
      BY <1>3, <2>1, <2>2, <2>3 DEF Submit
<1>4. ASSUME NEW i \in Slots, Consume(i) PROVE G
  <2>1. CASE \E t \in Tasks : ConsumeRead(i, t)
      BY <1>2, <2>1 DEF ConsumeRead, Begins
  <2>2. CASE ConsumeRunner(i) \/ ConsumeNotify(i)
    <3>1. i = q /\ \A p \in Slots : p # q => req'[p] = req[p]
        BY <1>2, <2>2 DEF ConsumeRunner, ConsumeNotify
    <3>2. PICK row : \/ ConsumeRunner(q) /\ Go(q, "consume_put", req[q].task, row)
                     \/ ConsumeNotify(q) /\ Go(q, "consume_ack", req[q].task, row)
                        /\ row = req[q].row
        BY <2>2, <3>1 DEF ConsumeRunner, ConsumeNotify
    <3>3. /\ \/ req[q].pc = "consume_runner" /\ req'[q].pc = "consume_put"
             \/ req[q].pc = "consume_notify" /\ req'[q].pc = "consume_ack"
                /\ req'[q].row = req[q].row
          /\ req'[q].task = req[q].task
        BY <1>1, <3>2, SlotGoes DEF ConsumeRunner, ConsumeNotify
    <3> QED
        BY <3>1, <3>3 DEF GoesOn, Onward
  <2>3. CASE ConsumePut(i)
    <3>1. i = q /\ \A p \in Slots : p # q => req'[p] = req[p]
        BY <1>2, <2>3 DEF ConsumePut
    <3>2. PICK t \in Tasks, row \in Row : t = req[q].task /\ row = req[q].row
        BY <1>1, <2>3, <3>1, BusyType DEF ConsumePut
    <3>3. PICK pc \in Acking : Go(q, pc, t, row)
        BY <2>3, <3>1, <3>2 DEF ConsumePut, Acking
    <3>4. req'[q].pc = pc /\ req'[q].task = t /\ req'[q].row = row
        BY <1>1, <3>3, SlotGoes
    <3>5. tasks'[t] = row
        BY <1>1, <2>3, <3>1, <3>2 DEF ConsumePut, PutRow, TypeOK
    <3> QED
        BY <2>3, <3>1, <3>2, <3>4, <3>5 DEF GoesOn, Onward, ConsumePut, Acking
  <2>4. CASE ConsumeAck(i)
      BY <1>1, <1>2, <2>4, SlotEnds DEF ConsumeAck
  <2> QED
      BY <1>4, <2>1, <2>2, <2>3, <2>4 DEF Consume
<1>5. ASSUME NEW i \in Slots, Claim(i) \/ Heartbeat(i) \/ Fail(i) PROVE G
  <2>1. CASE ClaimPut(i) \/ HeartbeatPut(i) \/ Fail(i)
      BY <1>1, <1>2, <2>1, SlotEnds DEF ClaimPut, HeartbeatPut, Fail
  <2>2. CASE \E r \in Runners, t \in Tasks, l \in Leases : ClaimFind(i, r, t, l)
      BY <1>2, <2>2 DEF ClaimFind, Begins
  <2>3. CASE \E l \in Leases : HeartbeatRead(i, l)
      BY <1>2, <2>3 DEF HeartbeatRead, Begins
  <2> QED
      BY <1>5, <2>1, <2>2, <2>3 DEF Claim, Heartbeat
<1>6. ASSUME NEW i \in Slots, Complete(i) PROVE G
  <2>1. CASE \E l \in Leases, s \in Results : CompleteRead(i, l, s)
      BY <1>2, <2>1 DEF CompleteRead, Begins
  <2>2. CASE CompleteWebhook(i)
      BY <1>1, <1>2, <2>2, SlotEnds DEF CompleteWebhook
  <2>3. CASE CompletePut(i)
    <3>1. i = q /\ \A p \in Slots : p # q => req'[p] = req[p]
        BY <1>2, <2>3 DEF CompletePut
    <3>2. PICK t \in Tasks, row \in Row : t = req[q].task /\ row = req[q].row
        BY <1>1, <2>3, <3>1, BusyType DEF CompletePut
    <3>3. CASE Finish(q)
        BY <1>1, <3>1, <3>3, SlotEnds
    <3>4. CASE Go(q, "complete_webhook", t, row)
      <4>1. req'[q].pc = "complete_webhook" /\ req'[q].task = t /\ req'[q].row = row
          BY <1>1, <3>4, SlotGoes
      <4>2. tasks'[t] = row
          BY <1>1, <2>3, <3>1, <3>2 DEF CompletePut, PutRow, TypeOK
      <4> QED
          BY <2>3, <3>1, <3>2, <4>1, <4>2 DEF GoesOn, Onward, CompletePut
    <3> QED
        BY <2>3, <3>1, <3>2, <3>3, <3>4 DEF CompletePut
  <2> QED
      BY <1>6, <2>1, <2>2, <2>3 DEF Complete
<1>7. \/ \E i \in Slots : \/ Submit(i) \/ Consume(i) \/ Claim(i) \/ Heartbeat(i)
                          \/ Complete(i) \/ Fail(i)
      \/ req' = req
    BY DEF Next, Handler, RegisterRunner, SubmitRepeat, Tick
<1> QED
    BY <1>3, <1>4, <1>5, <1>6, <1>7

\* A row changes when an invocation puts the one that it has built.
LEMMA WhoWrites ==
    ASSUME IInv, Next, NEW t \in Tasks, tasks'[t] # tasks[t]
    PROVE  /\ \E q \in Slots : Puts(q, t)
           /\ queue' = queue
<1>1. TypeOK
    BY DEF IInv
<1>2. PICK q \in Slots :
          /\ req[q].pc # "idle" /\ PutRow(q) /\ queue' = queue
          /\ \/ SubmitPut(q) \/ ConsumePut(q)
             \/ ClaimPut(q) \/ HeartbeatPut(q) \/ CompletePut(q)
  <2>1. \E q \in Slots : /\ PutRow(q) /\ queue' = queue
                         /\ \/ SubmitPut(q) \/ ConsumePut(q)
                            \/ ClaimPut(q) \/ HeartbeatPut(q) \/ CompletePut(q)
    <3>1. PICK q \in Slots : Handler(q) /\ tasks' # tasks
        BY DEF Next, RegisterRunner, SubmitRepeat, Tick, Fail
    <3> QED
        BY <3>1 DEF Handler, Submit, Consume, Claim, Heartbeat, Complete,
               SubmitFind, SubmitPut, SubmitEnqueue, ConsumeRead, ConsumeRunner, ConsumePut,
               ConsumeNotify, ConsumeAck, ClaimFind, ClaimPut, HeartbeatRead, HeartbeatPut,
               CompleteRead, CompletePut, CompleteWebhook
  <2> QED
      BY <2>1 DEF SubmitPut, ConsumePut, ClaimPut, HeartbeatPut, CompletePut
<1>3. req[q].task = t /\ tasks'[t] = req[q].row
    BY <1>1, <1>2, BusyType DEF PutRow, TypeOK
<1>4. req'[q] # req[q]
  <2>1. (\E pc, u, row : Go(q, pc, u, row) /\ pc # req[q].pc) \/ Finish(q)
      BY <1>2 DEF SubmitPut, ConsumePut, ClaimPut, HeartbeatPut, CompletePut
  <2> QED
      BY <1>1, <1>2, <2>1, SlotGoes, SlotEnds
<1>5. ~Begins(q)
    BY <1>2 DEF Begins, SubmitFind, ConsumeRead, ClaimFind, HeartbeatRead, CompleteRead
<1>6. GoesOn(q) \/ req'[q].pc = "idle"
    BY <1>4, <1>5, SlotMoves
<1>7. SubmitPut(q) \/ ConsumePut(q) => req'[q].pc # "idle"
  <2>1. SubmitPut(q) \/ ConsumePut(q) =>
            \E pc \in {"submit_enqueue"} \cup Acking : Go(q, pc, req[q].task, req[q].row)
    <3>1. tasks' # tasks
        OBVIOUS
    <3> QED
        BY <3>1 DEF SubmitPut, ConsumePut, Acking
  <2> QED
      BY <1>1, <1>2, <2>1, BusyType, SlotGoes DEF Acking
<1>8. SubmitPut(q) => req[q].pc = "submit_put"
    BY DEF SubmitPut
<1>9. ConsumePut(q) => req[q].pc = "consume_put"
    BY DEF ConsumePut
<1>10. ClaimPut(q) \/ HeartbeatPut(q) \/ CompletePut(q) => req[q].pc \in CallPuts
    BY DEF ClaimPut, HeartbeatPut, CompletePut, CallPuts
<1> QED
    BY <1>2, <1>3, <1>6, <1>7, <1>8, <1>9, <1>10 DEF Puts

\* What the row that is put says of its task.
LEMMA PutStatus ==
    ASSUME IInv, NEW q \in Slots, NEW t \in Tasks, Puts(q, t)
    PROVE  /\ req[q].pc = "submit_put" =>
                 ~Stored(t) /\ tasks'[t].status = "queued" /\ tasks'[t].lease = NoLease
           /\ req[q].pc = "consume_put" => tasks'[t].status \in {"pending_runner", "failed"}
           /\ req[q].pc = "claim_put" => tasks'[t].status = "leased"
           /\ req[q].pc = "heartbeat_put" => tasks'[t].status = "running"
           /\ req[q].pc = "complete_put" => tasks'[t].status \in Results
           /\ req[q].pc # "submit_put" => Routed(t)'
<1>1. PendingRow(q) /\ req[q].pc \in {"submit_put", "consume_put"} \cup CallPuts
    BY DEF IInv, Puts
<1>2. req[q].pc = "submit_put" => ~Stored(t)
    BY DEF Puts, GoesOn, CallPuts
<1> QED
    BY <1>1, <1>2, NotOpen DEF PendingRow, Puts, Routed, CallPuts

\* A task that is routed stays so.
LEMMA StaysRouted ==
    ASSUME IInv, [Next]_vars, NEW t \in Tasks, Routed(t)
    PROVE  Routed(t)'
<1>1. CASE tasks'[t] = tasks[t]
    BY <1>1 DEF Routed
<1>2. CASE tasks'[t] # tasks[t]
  <2>1. PICK q \in Slots : Puts(q, t)
      BY <1>2, WhoWrites DEF vars
  <2> QED
      BY <2>1, PutStatus DEF Routed, Stored
<1> QED
    BY <1>1, <1>2

\* What a runner was answered with is never forgotten; a new answer is a claim's.
LEMMA KeepsIssued ==
    ASSUME TypeOK, [Next]_vars, NEW l \in Leases, issued[l] # NoGrant
    PROVE  issued'[l] = issued[l]
<1>1. CASE UNCHANGED vars
    BY <1>1 DEF vars, history
<1>2. CASE Next
  <2>1. \/ issued' = issued
        \/ \E q \in Slots, r \in Runners, t \in Tasks, i \in Leases : ClaimFind(q, r, t, i)
      BY <1>2 DEF Next, Handler, Submit, Consume, Claim, Heartbeat, Complete, RegisterRunner,
             SubmitRepeat, SubmitFind, SubmitPut, SubmitEnqueue, ConsumeRead, ConsumeRunner,
             ConsumePut, ConsumeNotify, ConsumeAck, ClaimPut, HeartbeatRead, HeartbeatPut,
             CompleteRead, CompletePut, CompleteWebhook, Fail, Tick, history
  <2> QED
      BY <2>1 DEF ClaimFind, TypeOK
<1> QED
    BY <1>1, <1>2

LEMMA NewlyHeld ==
    ASSUME [Next]_vars, NEW l \in held', l \notin held
    PROVE  \E q \in Slots : ClaimPut(q) /\ l = req[q].row.lease
<1>1. CASE UNCHANGED vars
    BY <1>1 DEF vars, history
<1>2. CASE Next
  <2>1. held' = held \/ \E q \in Slots : ClaimPut(q)
      BY <1>2, ZenonT(40) DEF Next, Handler, Submit, Consume, Claim, Heartbeat, Complete, RegisterRunner,
             SubmitRepeat, SubmitFind, SubmitPut, SubmitEnqueue, ConsumeRead, ConsumeRunner,
             ConsumePut, ConsumeNotify, ConsumeAck, ClaimFind, HeartbeatRead, HeartbeatPut,
             CompleteRead, CompletePut, CompleteWebhook, Fail, Tick, history
  <2> QED
      BY <2>1 DEF ClaimPut
<1> QED
    BY <1>1, <1>2

\* A slot that begins takes up a new task, one in the queue or one routed.
LEMMA Begun ==
    ASSUME IInv, RoutedInv, NEW q \in Slots, Begins(q)
    PROVE  /\ req[q].pc = "idle"
           /\ \E t \in Tasks :
                 /\ req'[q].task = t
                 /\ \/ req'[q].pc = "submit_put" /\ ~Stored(t)
                    \/ req'[q].pc = "consume_runner" /\ t \in queue
                       /\ queue' = queue /\ tasks' = tasks
                    \/ req'[q].pc \in CallPuts /\ Routed(t)
<1>1. TypeOK
    BY DEF IInv
<1>2. req[q].pc = "idle"
    BY DEF Begins, SubmitFind, ConsumeRead, ClaimFind, HeartbeatRead, CompleteRead
<1> DEFINE G(t) == /\ req'[q].task = t
                   /\ \/ req'[q].pc = "submit_put" /\ ~Stored(t)
                      \/ req'[q].pc = "consume_runner" /\ t \in queue
                         /\ queue' = queue /\ tasks' = tasks
                      \/ req'[q].pc \in CallPuts /\ Routed(t)
<1>3. ASSUME NEW t \in Tasks, SubmitFind(q, t) \/ ConsumeRead(q, t) PROVE G(t)
  <2>1. PICK row : \/ Go(q, "submit_put", t, row) /\ ~Stored(t)
                   \/ /\ Go(q, "consume_runner", t, row) /\ t \in queue
                      /\ queue' = queue /\ tasks' = tasks
      BY <1>3 DEF SubmitFind, ConsumeRead
  <2> QED
      BY <1>1, <2>1, SlotGoes
<1>4. ASSUME NEW r \in Runners, NEW t \in Tasks, NEW l \in Leases, ClaimFind(q, r, t, l)
      PROVE  G(t)
  <2>1. (\E row : Go(q, "claim_put", t, row)) /\ Routed(t)
      BY <1>4 DEF ClaimFind, NextClaim, Claimable, Routed
  <2> QED
      BY <1>1, <2>1, SlotGoes DEF CallPuts
<1>5. ASSUME NEW l \in Leases, HeartbeatRead(q, l) \/ \E s \in Results : CompleteRead(q, l, s)
      PROVE  \E t \in Tasks : G(t)
  <2>1. /\ Presents(l)
        /\ \E pc \in CallPuts : \E row : Go(q, pc, issued[l].task, row)
      BY <1>5 DEF HeartbeatRead, CompleteRead, CallPuts
  <2>2. PICK t \in Tasks : t = issued[l].task /\ tasks[t].lease = l
      BY <1>1, <2>1, PresentsType DEF Presents, RequireLease
  <2>3. Routed(t)
      BY <2>2, ConstantsAssumption DEF RoutedInv
  <2>4. \E pc \in CallPuts : \E row : Go(q, pc, t, row)
      BY <2>1, <2>2
  <2> QED
      BY <1>1, <2>3, <2>4, SlotGoes
<1>6. \E t \in Tasks : G(t)
    BY <1>3, <1>4, <1>5 DEF Begins
<1> QED
    BY <1>2, <1>6

\* What is claimed, renewed or reported, and what a client has been answered
\* with, is routed: RoutedInv is kept by every step of the service.
LEMMA RoutedStep ==
    ASSUME IInv, RoutedInv, [Next]_vars
    PROVE  RoutedInv'
<1>1. TypeOK /\ LeaseBinding
    BY DEF IInv
<1>2. ASSUME NEW t \in Tasks, tasks'[t].lease # NoLease PROVE Routed(t)'
  <2>1. CASE tasks'[t] = tasks[t]
      BY <1>2, <2>1, StaysRouted DEF RoutedInv
  <2>2. CASE tasks'[t] # tasks[t]
    <3>1. PICK q \in Slots : Puts(q, t)
        BY <2>2, WhoWrites DEF vars
    <3> QED
        BY <1>2, <3>1, PutStatus
  <2> QED
      BY <2>1, <2>2
<1>3. ASSUME NEW q \in Slots, req'[q].pc \in CallSteps PROVE Routed(req[q].task)'
  <2>1. CASE req'[q] = req[q]
    <3>1. req[q].pc # "idle"
        BY <1>3, <2>1 DEF CallSteps, CompleteSteps
    <3>2. PICK t \in Tasks : t = req[q].task
        BY <1>1, <3>1, BusyType
    <3>3. Routed(t)'
        BY <1>3, <2>1, <3>2, StaysRouted DEF RoutedInv
    <3> QED
        BY <2>1, <3>2, <3>3 DEF Routed
  <2>2. CASE req'[q] # req[q] /\ GoesOn(q)
    <3>1. req[q].pc = "complete_put" /\ req'[q].task = req[q].task
        BY <1>3, <2>2 DEF GoesOn, Onward, CallSteps, CompleteSteps
    <3>2. PICK t \in Tasks : t = req[q].task
        BY <1>1, <3>1, BusyType
    <3>3. Routed(t)'
        BY <3>1, <3>2, StaysRouted DEF RoutedInv, CallSteps, CompleteSteps
    <3> QED
        BY <3>1, <3>2, <3>3 DEF Routed
  <2>3. CASE req'[q] # req[q] /\ Begins(q)
    <3>1. PICK t \in Tasks : req'[q].task = t /\ Routed(t)
        BY <1>3, <2>3, Begun DEF CallSteps, CompleteSteps
    <3>2. Routed(t)'
        BY <3>1, StaysRouted
    <3> QED
        BY <3>1, <3>2 DEF Routed
  <2>4. req'[q] # req[q] => Next
      BY DEF vars
  <2>5. req'[q].pc # "idle"
      BY <1>3 DEF CallSteps, CompleteSteps
  <2> QED
      BY <2>1, <2>2, <2>3, <2>4, <2>5, SlotMoves
<1>4. ASSUME NEW l \in held' PROVE Routed(issued[l].task)'
  <2>1. l \in Leases
    <3>1. TypeOK'
        BY TypeNext, IInvStutter DEF IInv
    <3> QED
        BY <1>4, <3>1 DEF TypeOK
  <2>2. CASE l \in held
    <3>1. issued[l] # NoGrant /\ issued[l] \in [task : Tasks, runner : Runners]
        BY <1>1, <2>1, <2>2 DEF IInv, HeldIsIssued, TypeOK
    <3>2. issued'[l] = issued[l]
        BY <1>1, <2>1, <3>1, KeepsIssued
    <3>3. PICK t \in Tasks : t = issued[l].task
        BY <3>1
    <3>4. Routed(t)'
        BY <2>2, <3>3, StaysRouted DEF RoutedInv
    <3> QED
        BY <3>2, <3>3, <3>4 DEF Routed
  <2>3. CASE l \notin held
    <3>1. PICK q \in Slots : ClaimPut(q) /\ l = req[q].row.lease
        BY <1>4, <2>3, NewlyHeld
    <3>2. PICK t \in Tasks : t = req[q].task
        BY <1>1, <3>1, BusyType DEF ClaimPut
    <3>3. /\ issued[l] = [task |-> t, runner |-> RunnerOf[t]] /\ issued' = issued
          /\ req[q].pc = "claim_put"
        BY <1>1, <2>1, <3>1, <3>2, ConstantsAssumption DEF ClaimPut, LeaseBinding
    <3>4. Routed(t)'
        BY <3>2, <3>3, StaysRouted DEF RoutedInv, CallSteps
    <3>5. issued'[l].task = t
        BY <3>3
    <3> QED
        BY <3>4, <3>5 DEF Routed
  <2> QED
      BY <2>2, <2>3
<1> QED
    BY <1>2, <1>3, <1>4 DEF RoutedInv

\* A message comes with the end of a submission and goes with an acknowledgement.
LEMMA QueueMoves ==
    ASSUME TypeOK, [Next]_vars, NEW t \in Tasks
    PROVE  /\ t \in queue' \ queue => \E q \in Slots : /\ req[q].pc = "submit_enqueue"
                                                     /\ req[q].task = t
                                                     /\ req'[q].pc = "idle" /\ tasks' = tasks
           /\ t \in queue \ queue' => \E q \in Slots : /\ req[q].pc = "consume_ack"
                                                     /\ req[q].task = t
                                                     /\ req'[q].pc = "idle"
<1>1. CASE UNCHANGED vars
    BY <1>1 DEF vars
<1>2. CASE Next
  <2>1. queue' = queue \/ \E q \in Slots : SubmitEnqueue(q) \/ ConsumeAck(q)
      BY <1>2 DEF Next, Handler, Submit, Consume, Claim, Heartbeat, Complete, RegisterRunner,
             SubmitRepeat, SubmitFind, SubmitPut, ConsumeRead, ConsumeRunner,
             ConsumePut, ConsumeNotify, ClaimFind, ClaimPut, HeartbeatRead, HeartbeatPut,
             CompleteRead, CompletePut, CompleteWebhook, Fail, Tick, history
  <2> QED
      BY <2>1, SlotEnds DEF SubmitEnqueue, ConsumeAck
<1> QED
    BY <1>1, <1>2

\* A submission has the task id it made to itself until it has enqueued it.
LEMMA SubmitStep ==
    ASSUME IInv, RoutedInv, SubmitInv, [Next]_vars
    PROVE  SubmitInv'
<1>1. TypeOK /\ QueueNamesStoredTasks /\ \A q \in Slots : PendingRow(q) /\ SlotTask(q)
    BY DEF IInv
<1> SUFFICES ASSUME NEW q \in Slots, req'[q].pc = "submit_enqueue"
             PROVE  /\ tasks[req[q].task].status' = "queued" /\ req'[q].task \notin queue'
                    /\ \A p \in Slots : req'[p].pc \in PC \ {"idle"}
                                          /\ req'[p].task = req'[q].task => p = q
    BY DEF SubmitInv, Alone
<1>2. CASE req'[q] = req[q]
  <2>1. PICK t \in Tasks : t = req[q].task
      BY <1>1, <1>2, BusyType
  <2>2. /\ tasks[t].status = "queued" /\ t \notin queue
        /\ \A p \in Slots : req[p].pc \in PC \ {"idle"} /\ req[p].task = t => p = q
      BY <1>2, <2>1 DEF SubmitInv, Alone
  <2>3. \A p \in Slots : req[p].pc # "idle" /\ req[p].task = t => p = q
      BY <1>1, <2>2, BusyType
  <2>4. tasks'[t] = tasks[t]
    <3>1. ~\E p \in Slots : Puts(p, t)
        BY <1>2, <2>1, <2>3 DEF Puts, CallPuts
    <3> QED
        BY <3>1, WhoWrites DEF vars
  <2>5. t \notin queue'
      BY <1>1, <1>2, <2>1, <2>2, <2>3, QueueMoves
  <2>6. ASSUME NEW p \in Slots, req'[p].pc # "idle", req'[p].task = t PROVE p = q
    <3>1. CASE req'[p] = req[p] \/ GoesOn(p)
        BY <2>3, <2>6, <3>1 DEF GoesOn
    <3>2. CASE req'[p] # req[p] /\ Begins(p)
        BY <2>2, <2>6, <3>2, Begun DEF Stored, Routed
    <3> QED
        BY <2>6, <3>1, <3>2, SlotMoves DEF vars
  <2> QED
      BY <1>2, <2>1, <2>2, <2>4, <2>5, <2>6
<1>3. CASE req'[q] # req[q]
  <2>1. /\ \A p \in Slots : p # q => req'[p] = req[p]
        /\ GoesOn(q)
      BY <1>3, SlotMoves, Begun DEF vars, CallPuts
  <2>2. req[q].pc = "submit_put"
      BY <2>1 DEF GoesOn, Onward
  <2>3. PICK t \in Tasks : t = req[q].task
      BY <1>1, <2>2, BusyType
  <2>4. tasks'[t].status = "queued" /\ ~Stored(t) /\ req'[q].task = t
      BY <1>1, <2>1, <2>2, <2>3 DEF GoesOn, PendingRow
  <2>5. \A p \in Slots : req[p].pc # "idle" /\ req[p].task = t => p = q
      BY <1>1, <2>2, <2>3 DEF SlotTask
  <2>6. t \notin queue'
      BY <1>1, <2>2, <2>4, <2>5, QueueMoves DEF QueueNamesStoredTasks
  <2> QED
      BY <1>1, <2>1, <2>2, <2>3, <2>4, <2>5, <2>6
<1> QED
    BY <1>2, <1>3

-----------------------------------------------------------------------------
(* What one step of the system adds to that.                                *)

\* A task keeps the marks it bears.
LEMMA MarksStay ==
    ASSUME SysIInv, [SysNext]_sysVars, NEW t \in Tasks
    PROVE  faults.of[t] \subseteq faults'.of[t]
<1>1. faults \in FaultRecords
    BY DEF SysIInv, SysTypeOK, RunnersTyped
<1>2. faults' = faults \/ \E kind, u : Fault(kind, u)
  <2>1. CASE UNCHANGED sysVars
      BY <2>1 DEF sysVars, runnerVars
  <2>2. ASSUME NEW r \in Runners, \/ Agent(r) \/ CallHeartbeat(r) \/ HeartbeatDone(r)
                                  \/ ClaimGoesWrong(r) \/ ReportGoesWrong(r) \/ UploadFails(r)
                                  \/ Timeout(r) \/ JoinTimesOut(r) \/ Crash(r)
        PROVE  faults' = faults \/ \E kind, u : Fault(kind, u)
    <3>1. CASE Agent(r)
        BY <3>1 DEF Agent, Start, CallClaim, NothingToDo, WaitOver, Claimed, HandlerReturns,
               Joined, CallComplete, Rejected, Completed
    <3>2. CASE CallHeartbeat(r) \/ HeartbeatDone(r)
        BY <3>2 DEF CallHeartbeat, HeartbeatDone
    <3>3. CASE \/ ClaimGoesWrong(r) \/ ReportGoesWrong(r) \/ UploadFails(r)
               \/ Timeout(r) \/ JoinTimesOut(r) \/ Crash(r)
        BY <3>3 DEF ClaimGoesWrong, ReportGoesWrong, UploadFails, Timeout, JoinTimesOut, Crash
    <3> QED
        BY <2>2, <3>1, <3>2, <3>3
  <2>3. ASSUME NEW q \in Slots, \/ ServiceStep(q) \/ ClientSubmits(q)
                                \/ ConsumerFails(q) \/ Redelivered(q)
        PROVE  faults' = faults \/ \E kind, u : Fault(kind, u)
      BY <2>3 DEF ServiceStep, Notify, ClientSubmits, ConsumerFails, Redelivered, runnerVars
  <2>4. CASE Clock
      BY <2>4 DEF Clock, runnerVars
  <2> QED
      BY <2>1, <2>2, <2>3, <2>4 DEF SysNext
<1> QED
    BY <1>1, <1>2, FaultRecorded

\* A slot that a runner's step moves is in one of its calls, or begins one.
LEMMA CallMoves ==
    ASSUME SysIInv, NEW r \in Runners, Speaks(r), NEW q \in Slots, req'[q] # req[q]
    PROVE  \/ req[q].pc \in CallSteps
           \/ req[q].pc = "idle" /\ req'[q].pc \in CallPuts
<1>1. TypeOK /\ TouchesOwnSlot(r)
    BY ClaimSteps, ReportSteps, HeartbeatSteps DEF Speaks, SysIInv, IInv
<1>2. CASE Calls(r, q)
    BY <1>2, CalledSlot DEF CallSteps
<1>3. CASE Orphan(q) /\ (Claimed(r) \/ ClaimGoesWrong(r) \/ Completed(r) \/ ReportGoesWrong(r))
  <2>1. agent[r].call \in Slots /\ agent[r].call # q
      BY <1>3 DEF SysIInv, OwnCalls, Serves, Claimed, ClaimGoesWrong, Completed, ReportGoesWrong,
             Reporting, Orphan, Calls
  <2>2. \A p \in Slots : p # agent[r].call => req'[p] = req[p]
      BY <1>3, <2>1, CallEnds DEF Claimed, ClaimGoesWrong, Completed, ReportGoesWrong
  <2> QED
      BY <2>1, <2>2
<1>4. CASE Orphan(q) /\ HeartbeatDone(r)
  <2>1. beat[r] \in Slots /\ beat[r] # q /\ HeartbeatPut(beat[r])
      BY <1>4 DEF HeartbeatDone, Orphan, Calls
  <2> QED
      BY <2>1, CallEnds
<1>5. CASE Orphan(q) /\ (\/ CallClaim(r) \/ CallHeartbeat(r)
                         \/ CallComplete(r, "report", "reporting")
                         \/ CallComplete(r, "giveup", "givingup"))
  <2>1. \E p \in Slots, pc \in CallPuts :
            \E t, row : req[p].pc = "idle" /\ Go(p, pc, t, row)
      BY <1>5 DEF CallClaim, CallHeartbeat, CallComplete, IdleSlots, ClaimFind, HeartbeatRead,
             CompleteRead, CallPuts
  <2> QED
      BY <1>1, <2>1, SlotGoes
<1> QED
    BY <1>1, <1>2, <1>3, <1>4, <1>5 DEF TouchesOwnSlot, Speaks

\* A message that is handed out once more leaves a mark on its task.
Deliveries ==
    \A q \in Slots, t \in Tasks :
        /\ req[q].pc = "idle" /\ req'[q].pc = "consume_runner" /\ req'[q].task = t =>
              ~Consuming(t) \/ ~Spared(t, {"redelivery"})'
        /\ req[q].pc \in Acking /\ req[q].task = t /\ req'[q].pc \notin Acking =>
              t \notin queue' \/ ~Spared(t, {"redelivery"})'
LEMMA DeliveryStep ==
    ASSUME SysIInv, [SysNext]_sysVars
    PROVE  Deliveries
<1>0. TypeOK /\ faults \in FaultRecords
    BY DEF SysIInv, IInv, SysTypeOK, RunnersTyped
<1>1. CASE UNCHANGED sysVars
    BY <1>1 DEF sysVars, vars, Deliveries, Acking
<1>2. ASSUME NEW r \in Runners, Quietly(r) PROVE Deliveries
  <2>1. req' = req
      BY <1>2, QuietStep DEF vars
  <2> QED
      BY <2>1 DEF Deliveries, Acking
<1>3. ASSUME NEW r \in Runners, Speaks(r) PROVE Deliveries
    BY <1>3, CallMoves DEF Deliveries, Acking, CallSteps, CompleteSteps, CallPuts
<1>4. ASSUME NEW q \in Slots, \/ ServiceStep(q) \/ ClientSubmits(q)
                              \/ ConsumerFails(q) \/ Redelivered(q)
      PROVE  Deliveries
  <2>1. CASE \E t \in Tasks : ConsumeRead(q, t) /\ (~Consuming(t) \/ Fault("redelivered", t))
    <3>1. PICK t \in Tasks : ConsumeRead(q, t) /\ (~Consuming(t) \/ Fault("redelivered", t))
        BY <2>1
    <3>2. /\ req[q].pc = "idle" /\ req'[q].task = t
          /\ \A p \in Slots : p # q => req'[p] = req[p]
      <4>1. req[q].pc = "idle" /\ Go(q, "consume_runner", t, tasks[t])
          BY <3>1 DEF ConsumeRead
      <4> QED
          BY <1>0, <4>1, SlotGoes
    <3>3. Fault("redelivered", t) => "redelivery" \in faults'.of[t]
      <4>1. "redelivery" \in MarksOf("redelivered")
          BY DEF MarksOf, Marks, Redeliveries
      <4> QED
          BY <1>0, <4>1, FaultRecorded
    <3> QED
        BY <3>1, <3>2, <3>3 DEF Deliveries, Spared, Acking
  <2>2. CASE ConsumeAck(q)
    <3>1. /\ req[q].pc = "consume_ack" /\ queue' = queue \ {req[q].task}
          /\ req'[q].pc = "idle" /\ \A p \in Slots : p # q => req'[p] = req[p]
        BY <1>0, <2>2, SlotEnds DEF ConsumeAck
    <3> QED
        BY <3>1 DEF Deliveries, Acking
  <2>3. CASE ConsumerFails(q)
    <3>1. /\ req'[q].pc = "idle" /\ \A p \in Slots : p # q => req'[p] = req[p]
        BY <1>0, <2>3, SlotEnds DEF ConsumerFails, Fail
    <3>2. req[q].pc \in Acking /\ req[q].task \in Tasks =>
              "redelivery" \in faults'.of[req[q].task]
      <4>1. "redelivery" \in MarksOf("consumer_unacked")
          BY DEF MarksOf, Marks, Redeliveries
      <4>2. req[q].pc \in Acking => Fault("consumer_unacked", req[q].task)
          BY <2>3 DEF ConsumerFails, Acking
      <4> QED
          BY <1>0, <4>1, <4>2, FaultRecorded
    <3> QED
        BY <3>1, <3>2 DEF Deliveries, Spared, Acking
  <2>4. CASE ConsumeNotify(q)
    <3>1. Go(q, "consume_ack", req[q].task, req[q].row) /\ req[q].pc = "consume_notify"
        BY <2>4 DEF ConsumeNotify
    <3>2. /\ req'[q].pc = "consume_ack"
          /\ \A p \in Slots : p # q => req'[p] = req[p]
        BY <1>0, <3>1, SlotGoes
    <3> QED
        BY <3>1, <3>2 DEF Deliveries, Acking
  <2>5. CASE \/ \E t \in Tasks : SubmitFind(q, t)
             \/ SubmitPut(q) \/ SubmitEnqueue(q) \/ ConsumeRunner(q) \/ ConsumePut(q)
             \/ CompletePut(q) \/ ClaimPut(q) \/ HeartbeatPut(q) \/ CompleteEnds(q)
    <3>1. \/ Finish(q)
          \/ \E pc \in PC \ {"consume_runner"} : \E t, row : Go(q, pc, t, row)
        BY <2>5 DEF SubmitFind, SubmitPut, SubmitEnqueue, ConsumeRunner, ConsumePut,
               CompletePut, ClaimPut, HeartbeatPut, CompleteEnds, CompleteWebhook, PC
    <3>2. req'[q].pc # "consume_runner" /\ \A p \in Slots : p # q => req'[p] = req[p]
        BY <1>0, <3>1, SlotGoes, SlotEnds
    <3>3. req[q].pc \notin Acking
        BY <2>5 DEF SubmitFind, SubmitPut, SubmitEnqueue, ConsumeRunner, ConsumePut,
               CompletePut, ClaimPut, HeartbeatPut, CompleteEnds, CompleteWebhook, Acking
    <3> QED
        BY <3>2, <3>3 DEF Deliveries, Acking
  <2> QED
      BY <1>4, <2>1, <2>2, <2>3, <2>4, <2>5
         DEF ServiceStep, Notify, ClientSubmits, Redelivered
<1>5. CASE Clock
    BY <1>5 DEF Clock, Tick, Deliveries, Acking
<1> QED
    BY <1>1, <1>2, <1>3, <1>4, <1>5 DEF SysNext, Agent, Quietly, Speaks

\* While its message is with one consumer at a time, a task is "queued" until
\* that consumer routes it, and routed when the message goes.
LEMMA ConsumerStep ==
    ASSUME SysIInv, RoutedInv, SubmitInv, ConsumerInv, [SysNext]_sysVars
    PROVE  ConsumerInv'
<1>1. IInv /\ TypeOK /\ [Next]_vars /\ Deliveries
    BY DeliveryStep, SysStep DEF SysIInv, IInv, sysVars
<1>2. ASSUME NEW t \in Tasks, Spared(t, {"redelivery"})' PROVE Spared(t, {"redelivery"})
    BY <1>2, MarksStay DEF Spared
<1>3. ASSUME NEW t \in Tasks, Spared(t, {"redelivery"}), NEW q \in Slots,
             req[q].pc \in ConsumerSteps, req[q].task = t
      PROVE  /\ t \in queue
             /\ \A p \in Slots : req[p].pc \in ConsumerSteps /\ req[p].task = t => p = q
             /\ req[q].pc \in {"consume_runner", "consume_put"} => tasks[t].status = "queued"
    BY <1>3 DEF ConsumerInv, Alone
<1>4. ASSUME NEW t \in Tasks, NEW q \in Slots, Spared(t, {"redelivery"})',
             req'[q].pc \in ConsumerSteps, req'[q].task = t
      PROVE  /\ t \in queue'
             /\ \A p \in Slots : req'[p].pc \in ConsumerSteps /\ req'[p].task = t => p = q
             /\ req'[q].pc \in {"consume_runner", "consume_put"} => tasks'[t].status = "queued"
  <2>1. Spared(t, {"redelivery"})
      BY <1>2, <1>4
  <2>2. ASSUME NEW p \in Slots, req'[p].pc \in ConsumerSteps, req'[p].task = t
        PROVE  \/ req[p].pc \in ConsumerSteps /\ req[p].task = t
                  /\ (req'[p].pc \in {"consume_runner", "consume_put"} =>
                         req[p].pc \in {"consume_runner", "consume_put"})
               \/ /\ req[p].pc = "idle" /\ req'[p].pc = "consume_runner" /\ t \in queue
                  /\ ~Consuming(t) /\ queue' = queue /\ tasks' = tasks
                  /\ \A i \in Slots : i # p => req'[i] = req[i]
    <3>1. CASE req'[p] = req[p]
        BY <2>2, <3>1
    <3>2. CASE req'[p] # req[p] /\ GoesOn(p)
        BY <2>2, <3>2 DEF GoesOn, Onward, ConsumerSteps
    <3>3. CASE req'[p] # req[p] /\ Begins(p)
      <4>1. /\ req[p].pc = "idle" /\ req'[p].pc = "consume_runner" /\ t \in queue
            /\ queue' = queue /\ tasks' = tasks
          BY <1>1, <2>2, <3>3, Begun DEF ConsumerSteps, CallPuts
      <4> QED
          BY <1>1, <1>4, <2>2, <3>3, <4>1, SlotMoves DEF Deliveries, vars
    <3> QED
        BY <1>1, <2>2, <3>1, <3>2, <3>3, SlotMoves DEF vars, ConsumerSteps
  <2>3. CASE req[q].pc = "idle"
    <3>1. /\ req'[q].pc = "consume_runner" /\ t \in queue /\ ~Consuming(t) /\ queue' = queue
          /\ tasks' = tasks /\ \A i \in Slots : i # q => req'[i] = req[i]
        BY <1>4, <2>2, <2>3 DEF ConsumerSteps
    <3>2. tasks[t].status = "queued"
        BY <2>1, <3>1 DEF ConsumerInv, Consuming, ConsumerSteps
    <3> QED
        BY <3>1, <3>2 DEF Consuming
  <2>4. CASE req[q].pc # "idle"
    <3>1. req[q].pc \in ConsumerSteps /\ req[q].task = t
        BY <1>4, <2>2, <2>4
    <3>2. /\ t \in queue
          /\ \A p \in Slots : req[p].pc \in ConsumerSteps /\ req[p].task = t => p = q
          /\ req[q].pc \in {"consume_runner", "consume_put"} => tasks[t].status = "queued"
        BY <1>3, <2>1, <3>1
    <3>3. ASSUME NEW p \in Slots, req'[p].pc \in ConsumerSteps, req'[p].task = t PROVE p = q
        BY <2>2, <3>1, <3>2, <3>3 DEF Consuming
    <3>4. t \in queue'
      <4>1. \A p \in Slots : req[p].pc = "consume_ack" /\ req[p].task = t => p = q
          BY <3>2 DEF ConsumerSteps
      <4> QED
          BY <1>1, <1>4, <3>2, <4>1, QueueMoves DEF ConsumerSteps
    <3>5. CASE req'[q].pc \in {"consume_runner", "consume_put"}
      <4>1. req[q].pc \in {"consume_runner", "consume_put"} /\ tasks[t].status = "queued"
          BY <1>4, <2>2, <2>4, <3>2, <3>5
      <4>2. ASSUME tasks'[t] # tasks[t] PROVE FALSE
        <5>1. PICK p \in Slots : Puts(p, t)
            BY <1>1, <4>2, WhoWrites DEF vars
        <5>2. req[p].pc \in CallPuts => Routed(t)
            BY <5>1 DEF Puts, RoutedInv, CallSteps, CallPuts, CompleteSteps
        <5>3. req[p].pc # "submit_put"
            BY <1>1, <4>1, <5>1, PutStatus DEF Stored
        <5>4. req[p].pc = "consume_put" /\ GoesOn(p)
            BY <4>1, <5>1, <5>2, <5>3 DEF Puts, Routed, CallPuts
        <5>5. p = q
            BY <3>2, <5>1, <5>4 DEF Puts, ConsumerSteps
        <5> QED
            BY <3>5, <5>4, <5>5 DEF GoesOn, Onward
      <4> QED
          BY <3>3, <3>4, <4>1, <4>2
    <3> QED
        BY <3>3, <3>4, <3>5
  <2> QED
      BY <2>3, <2>4
<1>5. ASSUME NEW t \in Tasks, t \in queue', tasks'[t].status # "queued",
             Spared(t, {"redelivery"})'
      PROVE  \E q \in Slots : req'[q].pc \in Acking /\ req'[q].task = t
  <2>1. Spared(t, {"redelivery"})
      BY <1>2, <1>5
  <2>2. CASE t \notin queue
    <3>1. PICK q \in Slots : req[q].pc = "submit_enqueue" /\ req[q].task = t /\ tasks' = tasks
        BY <1>1, <1>5, <2>2, QueueMoves
    <3> QED
        BY <1>5, <3>1 DEF SubmitInv
  <2>3. CASE t \in queue /\ tasks[t].status # "queued"
    <3>1. PICK q \in Slots : req[q].pc \in Acking /\ req[q].task = t
        BY <2>1, <2>3 DEF ConsumerInv, Acking
    <3>2. req'[q].pc \in Acking
        BY <1>1, <1>5, <3>1 DEF Deliveries
    <3>3. req'[q] = req[q] \/ GoesOn(q)
        BY <1>1, <3>1, <3>2, SlotMoves, Begun DEF vars, Acking
    <3> QED
        BY <3>1, <3>2, <3>3 DEF GoesOn
  <2>4. CASE t \in queue /\ tasks[t].status = "queued"
    <3>1. PICK p \in Slots : Puts(p, t)
        BY <1>1, <1>5, <2>4, WhoWrites DEF vars
    <3>2. req[p].pc \in CallPuts => Routed(t)
        BY <3>1 DEF Puts, RoutedInv, CallSteps, CallPuts, CompleteSteps
    <3>3. req[p].pc # "submit_put"
        BY <1>1, <2>4, <3>1, PutStatus DEF Stored
    <3>4. req[p].pc = "consume_put" /\ GoesOn(p) /\ req[p].task = t
        BY <2>4, <3>1, <3>2, <3>3 DEF Puts, Routed, CallPuts
    <3> QED
        BY <3>4 DEF GoesOn, Onward, Acking
  <2> QED
      BY <2>2, <2>3, <2>4
<1>6. TypeOK'
    BY <1>1, TypeNext, IInvStutter DEF IInv
<1>7. ASSUME NEW q \in Slots, req'[q].pc \in ConsumerSteps
      PROVE  req'[q].task \in Tasks
  <2>1. req'[q].pc # "idle"
      BY <1>7 DEF ConsumerSteps
  <2>2. req'[q] \in Idle \cup Busy
      BY <1>6 DEF TypeOK
  <2> QED
      BY <2>1, <2>2 DEF Idle, Busy
<1>8. queue' \subseteq Tasks
    BY <1>6 DEF TypeOK
<1> QED
    BY <1>4, <1>5, <1>7, <1>8 DEF ConsumerInv, Alone, Acking

\* A runner changes by a step of its own.
LEMMA RunnerMoves ==
    ASSUME SysIInv, [SysNext]_sysVars, NEW r \in Runners
    PROVE  \/ agent'[r] = agent[r] /\ beat'[r] = beat[r]
           \/ Quietly(r) \/ Speaks(r)
<1>1. ASSUME NEW s \in Runners, Quietly(s)
      PROVE  s = r \/ (agent'[r] = agent[r] /\ beat'[r] = beat[r])
    BY <1>1, QuietStep
<1>2. ASSUME NEW s \in Runners, Speaks(s)
      PROVE  s = r \/ (agent'[r] = agent[r] /\ beat'[r] = beat[r])
    BY <1>2, ClaimSteps, ReportSteps, HeartbeatSteps DEF Speaks
<1>3. ASSUME NEW q \in Slots, \/ ServiceStep(q) \/ ClientSubmits(q)
                              \/ ConsumerFails(q) \/ Redelivered(q)
      PROVE  agent'[r] = agent[r] /\ beat'[r] = beat[r]
    BY <1>3, ServiceSteps
<1>4. CASE Clock \/ UNCHANGED sysVars
    BY <1>4 DEF Clock, sysVars, runnerVars
<1> QED
    BY <1>1, <1>2, <1>3, <1>4 DEF SysNext, Agent, Quietly, Speaks

\* What a fault of one of these kinds marks is not spared.
LEMMA FaultMarks ==
    ASSUME SysIInv, NEW t \in Tasks, NEW kind, Fault(kind, t)
    PROVE  /\ kind \in Desertions => ~Spared(t, {"desertion"})'
           /\ kind \in Misreports => ~Spared(t, {"misreport"})'
           /\ kind \in Losses => ~Spared(t, {"loss"})'
<1>1. MarksOf(kind) \subseteq faults'.of[t]
    BY FaultRecorded DEF SysIInv, SysTypeOK, RunnersTyped
<1>2. /\ kind \in Desertions => "desertion" \in MarksOf(kind)
      /\ kind \in Misreports => "misreport" \in MarksOf(kind)
      /\ kind \in Losses => "loss" \in MarksOf(kind)
    BY DEF MarksOf, Marks
<1> QED
    BY <1>1, <1>2 DEF Spared

\* The main thread waits until its call is over, or leaves a mark.
LEMMA CallStands ==
    ASSUME SysIInv, [SysNext]_sysVars, NEW r \in Runners, NEW q \in Slots, NEW t \in Tasks,
           agent[r].call = q, req[q].task = t
    PROVE  agent'[r] = agent[r] \/ req'[q].pc = "idle" \/ ~Spared(t, {"desertion"})'
<1>1. agent[r].pc \in {"claiming"} \cup Reporting
    BY CalledSlot DEF Calls, CompleteSteps
<1>2. CASE Quietly(r)
  <2>1. agent' = agent \/ Fault("timeout", t)
      BY <1>1, <1>2 DEF Quietly, Start, NothingToDo, WaitOver, Joined, Rejected, HandlerReturns,
             UploadFails, Timeout, JoinTimesOut, Crash, Reporting
  <2> QED
      BY <2>1, FaultMarks DEF Desertions
<1>3. CASE Speaks(r)
  <2>1. agent' = agent \/ ClaimPut(q) \/ CompleteEnds(q) \/ Fail(q)
      BY <1>1, <1>3 DEF Speaks, CallClaim, Claimed, ClaimGoesWrong, CallComplete, Completed,
             ReportGoesWrong, CallHeartbeat, HeartbeatDone, Reporting
  <2> QED
      BY <2>1, CallEnds
<1> QED
    BY <1>2, <1>3, RunnerMoves

\* So does the heartbeat thread, for its own task.
LEMMA BeatStands ==
    ASSUME SysIInv, [SysNext]_sysVars, NEW r \in Runners, NEW q \in Slots, NEW t \in Tasks,
           beat[r] = q, req[q].task = t, TaskOf(r) = t
    PROVE  \/ beat'[r] = q /\ agent'[r].lease = agent[r].lease
           \/ req'[q].pc = "idle"
           \/ ~Spared(t, {"desertion"})'
<1>1. agent[r].pc \in {"working", "joining"} /\ q \notin {"off", "asleep"}
    BY CalledSlot, SystemAssumption DEF Calls
<1>2. CASE Quietly(r)
  <2>1. \/ beat' = beat /\ \E s \in Results \cup {"raised"} : HandlerReturns(r, s)
        \/ \E kind \in Desertions : Fault(kind, t)
      BY <1>1, <1>2 DEF Quietly, Start, NothingToDo, WaitOver, Joined, Rejected, HandlerReturns,
             UploadFails, Timeout, JoinTimesOut, Crash, Desertions
  <2>2. \A s : HandlerReturns(r, s) => agent'[r].lease = agent[r].lease
      BY DEF HandlerReturns, SysIInv, SysTypeOK, RunnersTyped
  <2> QED
      BY <2>1, <2>2, FaultMarks
<1>3. CASE Speaks(r)
  <2>1. HeartbeatPut(q)
      BY <1>1, <1>3 DEF Speaks, CallClaim, Claimed, ClaimGoesWrong, CallComplete, Completed,
             ReportGoesWrong, CallHeartbeat, HeartbeatDone, Reporting
  <2> QED
      BY <2>1, CallEnds
<1> QED
    BY <1>2, <1>3, RunnerMoves

\* A lease comes from a claim and stays until the task is reported or given up.
LEMMA LeaseMoves ==
    ASSUME SysIInv, [SysNext]_sysVars, NEW r \in Runners, agent'[r].pc \in WithLease
    PROVE  (agent[r].pc \in WithLease /\ agent'[r].lease = agent[r].lease) \/ Claimed(r)
<1>1. RunnersTyped
    BY DEF SysIInv, SysTypeOK
<1>2. CASE Quietly(r)
  <2>1. CASE Start(r) \/ NothingToDo(r) \/ WaitOver(r) \/ Crash(r)
      BY <1>1, <2>1 DEF Start, NothingToDo, WaitOver, Crash, SetAgent, Move, Poll, Down, At,
             RunnersTyped, WithLease, Reporting
  <2>2. CASE Joined(r) \/ JoinTimesOut(r)
      BY <1>1, <2>2 DEF Joined, JoinTimesOut, AfterJoin, SetAgent, Move, At, RunnersTyped,
             WithLease, Reporting
  <2>3. CASE \E s \in Results \cup {"raised"} : HandlerReturns(r, s)
      BY <1>1, <2>3 DEF HandlerReturns, RunnersTyped, WithLease, Reporting
  <2>4. CASE Rejected(r) \/ UploadFails(r) \/ Timeout(r)
    <3>1. \/ agent' = agent
          \/ agent[r].pc \in {"report", "reporting"}
             /\ SetAgent(r, At("giveup", NoCall, agent[r].lease, "failed"))
          \/ SetAgent(r, Down)
        BY <2>4 DEF Rejected, UploadFails, Timeout, Raise
    <3> QED
        BY <1>1, <3>1 DEF SetAgent, Down, At, RunnersTyped, WithLease, Reporting
  <2> QED
      BY <1>2, <2>1, <2>2, <2>3, <2>4 DEF Quietly
<1>3. CASE Speaks(r)
  <2>1. CASE CallClaim(r) \/ Completed(r)
      BY <1>1, <2>1 DEF CallClaim, Completed, SetAgent, Poll, At, RunnersTyped, WithLease, Reporting
  <2>2. CASE CallComplete(r, "report", "reporting") \/ CallComplete(r, "giveup", "givingup")
      BY <1>1, <2>2 DEF CallComplete, RunnersTyped, WithLease, Reporting
  <2>3. CASE ClaimGoesWrong(r) \/ ReportGoesWrong(r)
    <3>1. \/ agent[r].pc \in {"report", "reporting"}
             /\ SetAgent(r, At("giveup", NoCall, agent[r].lease, "failed"))
          \/ SetAgent(r, Down)
        BY <2>3 DEF ClaimGoesWrong, ReportGoesWrong, Raise
    <3> QED
        BY <1>1, <3>1 DEF SetAgent, Down, At, RunnersTyped, WithLease, Reporting
  <2>4. CASE CallHeartbeat(r) \/ HeartbeatDone(r)
      BY <2>4 DEF CallHeartbeat, HeartbeatDone
  <2> QED
      BY <1>3, <2>1, <2>2, <2>3, <2>4 DEF Speaks
<1> QED
    BY <1>2, <1>3, RunnerMoves

\* A report begins with a completion about to be written, and goes on until it is
\* answered or leaves a mark.
LEMMA ReportMoves ==
    ASSUME SysIInv, [SysNext]_sysVars, NEW r \in Runners, agent[r].pc \in WithLease,
           agent'[r].pc \in WithLease
    PROVE  /\ agent[r].pc \in Reporting =>
                 \/ agent'[r] = agent[r]
                 \/ \E kind \in Desertions \cup Misreports :
                       Fault(kind, req[agent[r].call].task)
           /\ agent[r].pc \notin Reporting /\ agent'[r].pc \in Reporting =>
                 req'[agent'[r].call].pc = "complete_put"
<1>1. RunnersTyped /\ TypeOK
    BY DEF SysIInv, SysTypeOK
<1>2. CASE Quietly(r)
  <2>1. agent[r].pc \in Reporting => agent' = agent \/ Fault("timeout", req[agent[r].call].task)
      BY <1>2 DEF Quietly, Start, NothingToDo, WaitOver, Joined, Rejected, HandlerReturns,
             UploadFails, Timeout, JoinTimesOut, Crash, Reporting
  <2>2. agent[r].pc \notin Reporting => agent'[r].pc \notin Reporting
      BY <1>1, <1>2 DEF Quietly, Start, NothingToDo, WaitOver, Joined, Rejected, HandlerReturns,
             UploadFails, Timeout, JoinTimesOut, Crash, AfterJoin, Raise, SetAgent, Move, Poll,
             Down, At, RunnersTyped, Reporting
  <2> QED
      BY <2>1, <2>2 DEF Desertions
<1>3. CASE CallComplete(r, "report", "reporting") \/ CallComplete(r, "giveup", "givingup")
  <2>1. PICK q \in Slots, to \in Reporting :
            /\ CompleteRead(q, agent[r].lease, agent[r].result)
            /\ agent' = [agent EXCEPT ![r].pc = to, ![r].call = q]
      BY <1>3 DEF CallComplete, IdleSlots, Reporting
  <2>4. agent'[r].call = q
      BY <1>1, <2>1 DEF RunnersTyped
  <2>5. \E t, row : Go(q, "complete_put", t, row)
      BY <2>1 DEF CompleteRead
  <2>2. req'[q].pc = "complete_put"
      BY <1>1, <2>5, SlotGoes
  <2>3. agent[r].pc \notin Reporting
      BY <1>3 DEF CallComplete, Reporting
  <2> QED
      BY <2>2, <2>3, <2>4
<1>4. CASE Speaks(r) /\ ~(\/ CallComplete(r, "report", "reporting")
                         \/ CallComplete(r, "giveup", "givingup"))
  <2>1. \/ agent' = agent
        \/ agent[r].pc \in {"poll", "claiming"}
        \/ Completed(r)
        \/ agent[r].pc \in Reporting
           /\ \E kind \in Misreports : Fault(kind, req[agent[r].call].task)
      BY <1>4 DEF Speaks, CallClaim, Claimed, ClaimGoesWrong, ReportGoesWrong, Misreports,
             CallHeartbeat, HeartbeatDone, Reporting
  <2>2. ~Completed(r)
      BY <1>1 DEF Completed, SetAgent, Poll, At, RunnersTyped, WithLease, Reporting
  <2> QED
      BY <2>1, <2>2 DEF WithLease, Reporting
<1> QED
    BY <1>2, <1>3, <1>4, RunnerMoves

\* A runner without its lease has reported the task, was refused, or left a mark.
LEMMA LeaseLeaves ==
    ASSUME SysIInv, [SysNext]_sysVars, NEW r \in Runners, agent[r].pc \in WithLease,
           agent'[r].pc \notin WithLease
    PROVE  \/ Completed(r)
           \/ ~Presents(agent[r].lease)
           \/ \E kind \in Desertions \cup Losses : Fault(kind, TaskOf(r))
           \/ agent[r].pc \in Reporting
              /\ \E kind \in Desertions \cup Misreports :
                    Fault(kind, req[agent[r].call].task)
<1>1. RunnersTyped
    BY DEF SysIInv, SysTypeOK
<1>2. CASE Quietly(r)
  <2>1. CASE Start(r) \/ NothingToDo(r) \/ WaitOver(r)
      BY <2>1 DEF Start, NothingToDo, WaitOver, WithLease, Reporting
  <2>2. CASE Joined(r) \/ JoinTimesOut(r)
      BY <1>1, <2>2 DEF Joined, JoinTimesOut, AfterJoin, SetAgent, Move, At, RunnersTyped,
             WithLease, Reporting
  <2>3. CASE \E s \in Results \cup {"raised"} : HandlerReturns(r, s)
      BY <1>1, <2>3 DEF HandlerReturns, RunnersTyped, WithLease, Reporting
  <2>4. CASE Rejected(r)
      BY <2>4 DEF Rejected
  <2>5. CASE UploadFails(r) \/ Crash(r)
      BY <2>5 DEF UploadFails, Crash, Desertions, Losses
  <2>6. CASE Timeout(r)
    <3>1. \/ agent' = agent
          \/ agent[r].pc \in {"claiming"} \cup Reporting
             /\ Fault("timeout", req[agent[r].call].task)
        BY <2>6 DEF Timeout, Reporting
    <3> QED
        BY <3>1 DEF Desertions, WithLease, Reporting
  <2> QED
      BY <1>2, <2>1, <2>2, <2>3, <2>4, <2>5, <2>6 DEF Quietly
<1>3. CASE Speaks(r)
  <2>1. CASE CallComplete(r, "report", "reporting") \/ CallComplete(r, "giveup", "givingup")
      BY <1>1, <2>1 DEF CallComplete, RunnersTyped, WithLease, Reporting
  <2>2. CASE ~(CallComplete(r, "report", "reporting") \/ CallComplete(r, "giveup", "givingup"))
      BY <1>3, <2>2 DEF Speaks, CallClaim, Claimed, ClaimGoesWrong, ReportGoesWrong, Misreports,
             CallHeartbeat, HeartbeatDone, WithLease, Reporting
  <2> QED
      BY <2>1, <2>2
<1> QED
    BY <1>2, <1>3, RunnerMoves

-----------------------------------------------------------------------------
(* Whose call an invocation is.                                             *)

\* The runner that an invocation has for caller is at work on its task.
LEMMA CallersTask ==
    ASSUME SysIInv, NEW q \in Slots, NEW t \in Tasks, req[q].task = t,
           req[q].pc \in CallSteps, CalledBy(q, RunnerOf[t])
    PROVE  LET r == RunnerOf[t]
           IN  /\ r \in Runners
               /\ req[q].pc = "claim_put" => agent[r].pc = "claiming"
               /\ req[q].pc = "heartbeat_put" => agent[r].pc \in {"working", "joining"}
               /\ req[q].pc \in CompleteSteps => agent[r].pc \in Reporting
               /\ req[q].pc # "claim_put" =>
                     /\ agent[r].pc \in WithLease /\ agent[r].lease = req[q].row.lease
                     /\ TaskOf(r) = t
<1>1. PICK r \in Runners : r = RunnerOf[t]
    BY ConstantsAssumption
<1>2. TypeOK /\ LeaseBinding /\ OwnLease(r) /\ req[q].pc # "idle"
    BY DEF SysIInv, IInv, CallSteps, CompleteSteps
<1>3. Calls(r, q)
    BY <1>1 DEF CalledBy, Calls, CallSteps, CompleteSteps
<1>4. /\ req[q].pc = "claim_put" => agent[r].pc = "claiming"
      /\ req[q].pc = "heartbeat_put" => agent[r].pc \in {"working", "joining"}
      /\ req[q].pc \in CompleteSteps => agent[r].pc \in Reporting
    BY <1>1, <1>3, CalledSlot DEF CalledBy, CompleteSteps
<1>5. ASSUME req[q].pc # "claim_put"
      PROVE  /\ agent[r].pc \in WithLease /\ agent[r].lease = req[q].row.lease
             /\ TaskOf(r) = t
  <2>1. agent[r].pc \in WithLease /\ agent[r].lease = req[q].row.lease
      BY <1>1, <1>4, <1>5 DEF CalledBy, CallSteps, CompleteSteps, WithLease
  <2>2. req[q].row.lease \in Leases /\ req[q].row.lease # NoLease
      BY <1>2, <2>1, ConstantsAssumption DEF OwnLease, TypeOK
  <2>3. issued[req[q].row.lease] = [task |-> t, runner |-> r]
      BY <1>1, <1>2, <2>2 DEF LeaseBinding
  <2> QED
      BY <2>1, <2>3 DEF TaskOf
<1> QED
    BY <1>1, <1>4, <1>5

\* A new call has its caller.
LEMMA NewCall ==
    ASSUME SysIInv, SysNext, NEW q \in Slots, req[q].pc = "idle", req'[q].pc \in CallPuts
    PROVE  CalledBy(q, RunnerOf[req[q].task])'
<1>1. TypeOK /\ RunnersTyped /\ IInv
    BY DEF SysIInv, SysTypeOK, IInv
<1>2. PICK r \in Runners : Speaks(r)
  <2>1. ASSUME NEW r \in Runners, Quietly(r) PROVE FALSE
    <3>1. req' = req
        BY <2>1, QuietStep DEF vars
    <3> QED
        BY <3>1 DEF CallPuts
  <2>2. ASSUME NEW i \in Slots, \/ ServiceStep(i) \/ ClientSubmits(i)
                                \/ ConsumerFails(i) \/ Redelivered(i)
        PROVE  FALSE
    <3>1. i = q
        BY <2>2, ServiceSteps DEF CallPuts
    <3>2. \/ \E t \in Tasks : SubmitFind(q, t) \/ ConsumeRead(q, t)
          \/ req[q].pc # "idle"
        BY <2>2, <3>1 DEF ServiceStep, Notify, ClientSubmits, ConsumerFails, Redelivered,
               SubmitPut, SubmitEnqueue, ConsumeRunner, ConsumePut, ConsumeNotify,
               ConsumeAck, CompletePut, ClaimPut, HeartbeatPut, CompleteEnds, CompleteWebhook,
               Fail
    <3>3. \E pc \in {"submit_put", "consume_runner"} : \E t, row : Go(q, pc, t, row)
        BY <3>2 DEF SubmitFind, ConsumeRead
    <3> QED
        BY <1>1, <3>3, SlotGoes DEF CallPuts
  <2>3. ~Clock
      BY DEF Clock, Tick, CallPuts
  <2> QED
      BY <2>1, <2>2, <2>3 DEF SysNext, Agent, Quietly, Speaks
<1>3. CASE CallClaim(r)
  <2>1. PICK p \in Slots, t \in Tasks, l \in Leases :
            ClaimFind(p, r, t, l) /\ SetAgent(r, At("claiming", p, NoLease, "none"))
      BY <1>3 DEF CallClaim, IdleSlots, UnusedLeases
  <2>2. agent'[r].call = p
      BY <1>1, <2>1 DEF SetAgent, At, RunnersTyped
  <2>3. RunnerOf[t] = r /\ \E row : Go(p, "claim_put", t, row)
      BY <2>1 DEF ClaimFind, NextClaim, Claimable
  <2>4. req'[p].pc = "claim_put" /\ req'[p].task = t /\ \A i \in Slots : i # p => req'[i] = req[i]
      BY <1>1, <2>3, SlotGoes
  <2>5. p = q
      BY <2>4 DEF CallPuts
  <2> QED
      BY <2>2, <2>3, <2>4, <2>5 DEF CalledBy, CompleteSteps
<1>4. CASE \/ CallHeartbeat(r)
           \/ CallComplete(r, "report", "reporting") \/ CallComplete(r, "giveup", "givingup")
  <2> DEFINE l == agent[r].lease
  <2>1. PICK p \in Slots :
            /\ \/ HeartbeatRead(p, l) /\ beat' = [beat EXCEPT ![r] = p] /\ agent' = agent
               \/ /\ \E s : CompleteRead(p, l, s)
                  /\ \E to : agent' = [agent EXCEPT ![r].pc = to, ![r].call = p]
            /\ agent[r].pc \in WithLease
      BY <1>4 DEF CallHeartbeat, CallComplete, IdleSlots, WithLease, Reporting
  <2>2. l \in held /\ l \in Leases /\ issued[l].runner = r /\ Presents(l)
      BY <1>1, <2>1 DEF SysIInv, OwnLease, TypeOK, HeartbeatRead, CompleteRead
  <2>3. PICK t \in Tasks : t = issued[l].task
      BY <1>1, <2>2, PresentsType
  <2>4. tasks[t] \in Row /\ tasks[t].lease = l /\ RunnerOf[t] = r
      BY <1>1, <2>2, <2>3, PresentsType DEF Presents, RequireLease
  <2>5. agent'[r].lease = l
      BY <1>1, <2>1 DEF RunnersTyped
  <2>6. \E pc, row : Go(p, pc, t, row)
      BY <2>1, <2>3 DEF HeartbeatRead, CompleteRead
  <2>7. p = q
      BY <1>1, <2>6, SlotGoes DEF CallPuts
  <2>10. \A s, e : LET row == [tasks[t] EXCEPT !.status = s, !.expires = e] IN row.lease = l
      BY <2>4 DEF Row
  <2>8. CASE HeartbeatRead(q, l) /\ beat' = [beat EXCEPT ![r] = q]
    <3>1. PICK row : Go(q, "heartbeat_put", t, row) /\ row.lease = l
        BY <2>3, <2>8, <2>10 DEF HeartbeatRead
    <3>2. req'[q].pc = "heartbeat_put" /\ req'[q].task = t /\ req'[q].row.lease = l
        BY <1>1, <3>1, SlotGoes
    <3>3. beat'[r] = q
        BY <1>1, <2>8 DEF RunnersTyped
    <3> QED
        BY <2>4, <2>5, <3>2, <3>3 DEF CalledBy, CompleteSteps
  <2>9. ASSUME NEW s, CompleteRead(q, l, s),
               \E to : agent' = [agent EXCEPT ![r].pc = to, ![r].call = q]
        PROVE  CalledBy(q, RunnerOf[req[q].task])'
    <3>4. Go(q, "complete_put", t, [tasks[t] EXCEPT !.status = s, !.expires = NoExpiry])
        BY <2>3, <2>9 DEF CompleteRead
    <3>1. PICK row : Go(q, "complete_put", t, row) /\ row.lease = l
        BY <2>10, <3>4
    <3>2. req'[q].pc = "complete_put" /\ req'[q].task = t /\ req'[q].row.lease = l
        BY <1>1, <3>1, SlotGoes
    <3>3. agent'[r].call = q
        BY <1>1, <2>9 DEF RunnersTyped
    <3> QED
        BY <2>4, <2>5, <3>2, <3>3 DEF CalledBy, CompleteSteps
  <2> QED
      BY <2>1, <2>7, <2>8, <2>9
<1>5. CASE \/ Claimed(r) \/ ClaimGoesWrong(r) \/ Completed(r) \/ ReportGoesWrong(r)
           \/ HeartbeatDone(r)
  <2>1. \/ ClaimPut(agent[r].call) \/ CompleteEnds(agent[r].call) \/ Fail(agent[r].call)
        \/ HeartbeatPut(beat[r])
      BY <1>5 DEF Claimed, ClaimGoesWrong, Completed, ReportGoesWrong, HeartbeatDone
  <2>2. HeartbeatDone(r) => beat[r] \in Slots
      BY DEF HeartbeatDone
  <2>3. ~HeartbeatDone(r) => agent[r].call \in Slots
      BY <1>5 DEF SysIInv, OwnCalls, Serves, Claimed, ClaimGoesWrong, Completed, ReportGoesWrong,
             Reporting
  <2>4. ASSUME NEW p \in Slots, ClaimPut(p) \/ HeartbeatPut(p) \/ CompleteEnds(p) \/ Fail(p)
        PROVE  FALSE
    <3>1. req'[p].pc = "idle" /\ \A i \in Slots : i # p => req'[i] = req[i]
        BY <2>4, CallEnds
    <3> QED
        BY <3>1 DEF CallPuts
  <2>5. HeartbeatDone(r) => HeartbeatPut(beat[r])
      BY DEF HeartbeatDone
  <2>6. ~HeartbeatDone(r) =>
            ClaimPut(agent[r].call) \/ CompleteEnds(agent[r].call) \/ Fail(agent[r].call)
      BY <1>5 DEF Claimed, ClaimGoesWrong, Completed, ReportGoesWrong
  <2> QED
      BY <2>2, <2>3, <2>4, <2>5, <2>6
<1> QED
    BY <1>2, <1>3, <1>4, <1>5 DEF Speaks

\* An invocation keeps its caller until it is over, or the caller leaves a mark.
LEMMA CallStep ==
    ASSUME SysIInv, CallInv, RoutedInv, [SysNext]_sysVars
    PROVE  CallInv'
<1>1. IInv /\ TypeOK /\ TypeOK' /\ [Next]_vars
    BY SysStep, SysStutter DEF SysIInv, SysTypeOK, IInv, sysVars
<1> SUFFICES ASSUME NEW q \in Slots, req'[q].pc \in CallSteps,
                    Spared(req[q].task, {"desertion"})'
             PROVE  CalledBy(q, RunnerOf[req[q].task])'
    BY DEF CallInv
<1>2. PICK t \in Tasks : t = req'[q].task
    BY <1>1 DEF TypeOK, Idle, Busy, CallSteps, CompleteSteps
<1>3. Spared(t, {"desertion"})' /\ Spared(t, {"desertion"})
    BY <1>2, MarksStay DEF Spared
<1>4. CASE req'[q] = req[q] \/ GoesOn(q)
  <2>1. /\ req[q].pc \in CallSteps /\ req[q].task = t /\ req'[q].row = req[q].row
        /\ req'[q].pc = req[q].pc \/ {req[q].pc, req'[q].pc} \subseteq CompleteSteps
      BY <1>2, <1>4 DEF GoesOn, Onward, CallSteps, CompleteSteps
  <2>2. CalledBy(q, RunnerOf[t])
      BY <1>3, <2>1 DEF CallInv
  <2>3. PICK r \in Runners : r = RunnerOf[t]
      BY ConstantsAssumption
  <2>4. req'[q].pc # "idle"
      BY DEF CallSteps, CompleteSteps
  <2>5. CASE req[q].pc = "heartbeat_put"
    <3>1. beat[r] = q /\ agent[r].lease = req[q].row.lease /\ TaskOf(r) = t
        BY <2>1, <2>2, <2>3, <2>5, CallersTask DEF CalledBy, CallSteps
    <3>2. beat'[r] = q /\ agent'[r].lease = agent[r].lease
        BY <1>3, <2>1, <2>4, <3>1, BeatStands
    <3> QED
        BY <1>2, <2>1, <2>3, <2>5, <3>1, <3>2 DEF CalledBy, CompleteSteps
  <2>6. CASE req[q].pc # "heartbeat_put"
    <3>1. agent[r].call = q
        BY <2>1, <2>2, <2>3, <2>6 DEF CalledBy, CallSteps, CompleteSteps
    <3>2. agent'[r] = agent[r]
        BY <1>3, <2>1, <2>4, <3>1, CallStands
    <3> QED
        BY <1>2, <2>1, <2>2, <2>3, <2>6, <3>1, <3>2 DEF CalledBy, CallSteps, CompleteSteps
  <2> QED
      BY <2>5, <2>6
<1>5. CASE req'[q] # req[q] /\ Begins(q)
  <2>1. req[q].pc = "idle" /\ req'[q].pc \in CallPuts
      BY <1>1, <1>5, Begun DEF CallSteps, CompleteSteps
  <2> QED
      BY <1>5, <2>1, NewCall DEF sysVars, vars
<1> QED
    BY <1>1, <1>4, <1>5, SlotMoves DEF vars, CallSteps, CompleteSteps

\* The lease that a runner was answered with, and the task that it is for.
LEMMA HeldTask ==
    ASSUME SysIInv, NEW r \in Runners, agent[r].pc \in WithLease
    PROVE  /\ agent[r].lease \in held /\ agent[r].lease \in Leases
           /\ issued[agent[r].lease] \in [task : Tasks, runner : Runners]
           /\ TaskOf(r) \in Tasks
           /\ tasks[TaskOf(r)].lease = agent[r].lease =>
                 RunnerOf[TaskOf(r)] = r /\ Presents(agent[r].lease)
<1>1. /\ TypeOK /\ HeldIsIssued /\ AbsentIsUnleased /\ LeaseBinding
      /\ OwnLease(r) /\ NoLease \notin Leases
    BY ConstantsAssumption DEF SysIInv, IInv
<1>2. /\ agent[r].lease \in held /\ agent[r].lease \in Leases
      /\ issued[agent[r].lease].runner = r
    BY <1>1 DEF OwnLease, TypeOK
<1>3. issued[agent[r].lease] \in [task : Tasks, runner : Runners] /\ TaskOf(r) \in Tasks
    BY <1>1, <1>2 DEF HeldIsIssued, TypeOK, TaskOf
<1>4. ASSUME tasks[TaskOf(r)].lease = agent[r].lease
      PROVE  RunnerOf[TaskOf(r)] = r /\ Presents(agent[r].lease)
  <2>0. PICK t \in Tasks, l \in Leases : t = TaskOf(r) /\ l = agent[r].lease
      BY <1>2, <1>3
  <2>3. issued[l] = [task |-> t, runner |-> RunnerOf[t]]
      BY <1>1, <1>4, <2>0 DEF LeaseBinding
  <2>1. issued[agent[r].lease].runner = RunnerOf[TaskOf(r)]
      BY <2>0, <2>3
  <2>2. Stored(TaskOf(r))
      BY <1>1, <1>2, <1>3, <1>4 DEF AbsentIsUnleased
  <2> QED
      BY <1>2, <1>4, <2>1, <2>2 DEF Presents, RequireLease, TaskOf
<1> QED
    BY <1>2, <1>3, <1>4

\* A runner that keeps its lease keeps its task.
LEMMA TaskStays ==
    ASSUME SysIInv, [SysNext]_sysVars, NEW r \in Runners, agent[r].pc \in WithLease,
           agent'[r].lease = agent[r].lease
    PROVE  TaskOf(r)' = TaskOf(r)
<1>1. TypeOK /\ [Next]_vars
    BY SysStep DEF SysIInv, IInv, sysVars
<1>2. agent[r].lease \in Leases /\ issued[agent[r].lease] # NoGrant
    BY HeldTask DEF SysIInv, IInv, HeldIsIssued
<1> QED
    BY <1>1, <1>2, KeepsIssued DEF TaskOf

\* What Claimed does to runner, row and slots.
LEMMA ClaimedTask ==
    ASSUME SysIInv, NEW r \in Runners, Claimed(r)
    PROVE  \E q \in Slots, t \in Tasks, l \in Leases :
              /\ agent[r].call = q /\ req[q].pc = "claim_put" /\ req[q].task = t
              /\ RunnerOf[t] = r /\ req[q].row.lease = l
              /\ tasks'[t].lease = l /\ tasks'[t].status = "leased"
              /\ agent'[r].pc \in {"working", "giveup"} /\ agent'[r].lease = l
              /\ held' = held \cup {l} /\ issued' = issued /\ issued[l].task = t
              /\ req'[q].pc = "idle" /\ \A p \in Slots : p # q => req'[p] = req[p]
<1>1. TypeOK /\ RunnersTyped /\ LeaseBinding /\ OwnCalls(r) /\ \A q \in Slots : PendingRow(q)
    BY DEF SysIInv, SysTypeOK, IInv
<1>2. agent[r].pc = "claiming"
    BY DEF Claimed
<1>3. PICK q \in Slots : /\ agent[r].call = q /\ req[q].pc = "claim_put"
                         /\ RunnerOf[req[q].task] = r
    BY <1>1, <1>2 DEF OwnCalls, Serves
<1>4. PICK t \in Tasks, row \in Row : req[q].task = t /\ req[q].row = row
    BY <1>1, <1>3, BusyType
<1>5. row.status = "leased" /\ row.lease # NoLease
    BY <1>1, <1>3, <1>4 DEF PendingRow
<1>6. PICK l \in Leases : row.lease = l
    BY <1>5 DEF Row
<1>7. issued[l].task = t
  <2>1. issued[l] = [task |-> t, runner |-> RunnerOf[t]]
      BY <1>1, <1>3, <1>4, <1>5, <1>6 DEF LeaseBinding
  <2> QED
      BY <2>1
<1>8. ClaimPut(q)
    BY <1>3 DEF Claimed
<1>9. tasks'[t] = row /\ held' = held \cup {l} /\ issued' = issued
    BY <1>1, <1>4, <1>6, <1>8 DEF ClaimPut, PutRow, TypeOK
<1>10. req'[q].pc = "idle" /\ \A p \in Slots : p # q => req'[p] = req[p]
    BY <1>8, CallEnds
<1>11. agent'[r].pc \in {"working", "giveup"} /\ agent'[r].lease = l
    BY <1>1, <1>3, <1>4, <1>6 DEF Claimed, SetAgent, At, RunnersTyped
<1> QED
    BY <1>3, <1>4, <1>5, <1>6, <1>7, <1>9, <1>10, <1>11

\* While nothing of it went astray, a routed task is written by calls of its
\* own runner only.
LEMMA OwnPut ==
    ASSUME SysIInv, ExclusiveInv, NEW q \in Slots, NEW t \in Tasks, Puts(q, t), Routed(t),
           Spared(t, {"redelivery", "desertion"})
    PROVE  req[q].pc \in CallPuts /\ CalledBy(q, RunnerOf[t])
<1>1. Spared(t, {"redelivery"}) /\ Spared(t, {"desertion"})
    BY DEF Spared
<1>2. req[q].pc # "submit_put"
    BY PutStatus DEF SysIInv, Routed, Stored
<1>3. req[q].pc # "consume_put"
    BY <1>1 DEF ExclusiveInv, ConsumerInv, ConsumerSteps, Puts, Routed
<1>4. req[q].pc \in CallPuts /\ req[q].task = t
    BY <1>2, <1>3 DEF Puts
<1> QED
    BY <1>1, <1>4 DEF ExclusiveInv, CallInv, CallPuts, CallSteps, CompleteSteps

\* A runner's lease stays in the row of its task.
LEMMA HoldStep ==
    ASSUME SysIInv, ExclusiveInv, [SysNext]_sysVars, NEW r \in Runners
    PROVE  HoldsTask(r)'
<1> SUFFICES ASSUME agent'[r].pc \in WithLease,
                    Spared(TaskOf(r), {"redelivery", "desertion"})'
             PROVE  (tasks[TaskOf(r)].lease = agent[r].lease)'
    BY DEF HoldsTask
<1>1. CASE Claimed(r)
  <2>1. PICK t \in Tasks, l \in Leases : /\ tasks'[t].lease = l /\ agent'[r].lease = l
                                         /\ issued' = issued /\ issued[l].task = t
      BY <1>1, ClaimedTask
  <2> QED
      BY <2>1 DEF TaskOf
<1>2. CASE agent[r].pc \in WithLease /\ agent'[r].lease = agent[r].lease
  <2>1. PICK t \in Tasks : t = TaskOf(r)
      BY <1>2, HeldTask
  <2>2. TaskOf(r)' = t
      BY <1>2, <2>1, TaskStays
  <2>3. Spared(t, {"redelivery", "desertion"})
      BY <2>2, MarksStay DEF Spared
  <2>4. tasks[t].lease = agent[r].lease /\ RunnerOf[t] = r
      BY <1>2, <2>1, <2>3, HeldTask DEF ExclusiveInv, HoldsTask
  <2>5. CASE tasks'[t] # tasks[t]
    <3>1. PICK q \in Slots : Puts(q, t)
        BY <2>5, SysStep, WhoWrites DEF SysIInv, sysVars, vars
    <3>2. Routed(t)
        BY <1>2, <2>1, HeldTask DEF ExclusiveInv, RoutedInv, TaskOf
    <3>3. /\ req[q].pc \in CallPuts /\ CalledBy(q, r)
          /\ req[q].task = t /\ tasks'[t] = req[q].row
        BY <2>3, <2>4, <3>1, <3>2, OwnPut DEF Puts
    <3>4. req[q].pc # "claim_put" /\ agent[r].lease = req[q].row.lease
        BY <1>2, <2>4, <3>3, CallersTask
           DEF CallPuts, CallSteps, CompleteSteps, WithLease, Reporting
    <3> QED
        BY <1>2, <2>2, <3>3, <3>4
  <2> QED
      BY <1>2, <2>2, <2>4, <2>5
<1> QED
    BY <1>1, <1>2, LeaseMoves

LEMMA ExclusiveStep ==
    ASSUME SysIInv, ExclusiveInv, [SysNext]_sysVars
    PROVE  ExclusiveInv'
<1>1. IInv /\ [Next]_vars
    BY SysStep DEF SysIInv, sysVars
<1>2. RoutedInv /\ CallInv /\ SubmitInv /\ ConsumerInv
    BY DEF ExclusiveInv
<1>3. RoutedInv' /\ SubmitInv'
    BY <1>1, <1>2, RoutedStep, SubmitStep
<1>4. CallInv' /\ ConsumerInv'
    BY <1>2, CallStep, ConsumerStep
<1>5. \A r \in Runners : HoldsTask(r)'
    BY HoldStep
<1> QED
    BY <1>3, <1>4, <1>5 DEF ExclusiveInv

-----------------------------------------------------------------------------
(* Whether a task has ended.                                                *)

\* A mark of one of these kinds disturbs the task.
LEMMA Disturbs ==
    ASSUME SysIInv, NEW t \in Tasks, NEW kind \in Desertions \cup Misreports, Fault(kind, t)
    PROVE  ~Undisturbed(t)'
    BY FaultMarks DEF Undisturbed, Spared

\* The call that a runner at work on an undisturbed task is in stays its call.
LEMMA ReportStands ==
    ASSUME SysIInv, [SysNext]_sysVars, NEW r \in Runners, agent[r].pc \in Reporting,
           agent'[r].pc \in WithLease, Undisturbed(TaskOf(r))'
    PROVE  /\ agent'[r] = agent[r]
           /\ agent[r].call \in Slots /\ req[agent[r].call].task = TaskOf(r)
           /\ req[agent[r].call].pc \in CompleteSteps
<1>1. OwnCalls(r) /\ agent[r].pc \in WithLease
    BY DEF SysIInv, WithLease
<1>2. /\ agent[r].call \in Slots /\ req[agent[r].call].task = TaskOf(r)
      /\ req[agent[r].call].pc \in CompleteSteps
    BY <1>1 DEF OwnCalls, Serves
<1>3. PICK t \in Tasks : t = TaskOf(r)
    BY <1>1, HeldTask
<1>4. agent'[r].lease = agent[r].lease
    BY <1>1, LeaseMoves DEF Claimed, Reporting
<1>5. TaskOf(r)' = t
    BY <1>1, <1>3, <1>4, TaskStays
<1>6. Undisturbed(t)'
    BY <1>5 DEF Undisturbed, Spared
<1>7. agent'[r] = agent[r]
    BY <1>1, <1>2, <1>3, <1>6, ReportMoves, Disturbs
<1> QED
    BY <1>2, <1>7

\* The calls of a runner that has a lease, and what they write.
LEMMA OwnWrite ==
    ASSUME SysIInv, ExclusiveInv, [SysNext]_sysVars, NEW t \in Tasks, tasks'[t] # tasks[t],
           Routed(t), Undisturbed(t)
    PROVE  LET r == RunnerOf[t]
           IN  /\ r \in Runners /\ SysNext
               /\ \E q \in Slots :
                     /\ req[q].task = t /\ CalledBy(q, r) /\ tasks'[t] = req[q].row
                     /\ req'[q] # req[q] /\ req'[q].pc \in {"idle", "complete_webhook"}
                     /\ \/ /\ req[q].pc = "claim_put" /\ agent[r].pc = "claiming"
                           /\ agent[r].call = q /\ tasks'[t].status = "leased"
                        \/ /\ req[q].pc = "heartbeat_put" /\ agent[r].pc \in {"working", "joining"}
                           /\ TaskOf(r) = t /\ agent[r].lease = tasks'[t].lease
                           /\ tasks'[t].status = "running"
                        \/ /\ req[q].pc = "complete_put" /\ agent[r].pc \in Reporting
                           /\ TaskOf(r) = t /\ agent[r].lease = tasks'[t].lease
                           /\ agent[r].call = q /\ tasks'[t].status \in Results
<1>1. IInv /\ [Next]_vars /\ Spared(t, {"redelivery", "desertion"})
    BY SysStep DEF SysIInv, sysVars, Undisturbed, Spared
<1>2. PICK q \in Slots : Puts(q, t)
    BY <1>1, WhoWrites DEF vars
<1>3. req[q].pc \in CallPuts /\ CalledBy(q, RunnerOf[t])
    BY <1>1, <1>2, OwnPut
<1>4. req[q].task = t /\ tasks'[t] = req[q].row /\ req'[q].pc \in {"idle", "complete_webhook"}
    BY <1>2, <1>3 DEF Puts, GoesOn, Onward, CallPuts
<1>5. /\ req[q].pc = "claim_put" => tasks'[t].status = "leased"
      /\ req[q].pc = "heartbeat_put" => tasks'[t].status = "running"
      /\ req[q].pc = "complete_put" => tasks'[t].status \in Results
    BY <1>1, <1>2, PutStatus
<1>6. req'[q] # req[q]
    BY <1>3, <1>4 DEF CallPuts
<1>7. SysNext
    BY DEF sysVars, vars
<1>8. PICK r \in Runners : r = RunnerOf[t]
    BY ConstantsAssumption
<1>9. /\ req[q].pc = "claim_put" => agent[r].pc = "claiming"
      /\ req[q].pc = "heartbeat_put" => agent[r].pc \in {"working", "joining"}
      /\ req[q].pc = "complete_put" => agent[r].pc \in Reporting
      /\ req[q].pc # "claim_put" => agent[r].lease = tasks'[t].lease /\ TaskOf(r) = t
    BY <1>3, <1>4, <1>8, CallersTask DEF CallPuts, CallSteps, CompleteSteps
<1>10. req[q].pc \in {"claim_put", "complete_put"} => agent[r].call = q
    BY <1>3, <1>8 DEF CalledBy, CompleteSteps
<1> QED
    BY <1>3, <1>4, <1>5, <1>6, <1>7, <1>8, <1>9, <1>10 DEF CallPuts

\* What a runner works on has not ended until its own report is written.
LEMMA TaskOpenStep ==
    ASSUME SysIInv, ExclusiveInv, OpenInv, [SysNext]_sysVars, NEW r \in Runners
    PROVE  TaskIsOpen(r)'
<1> SUFFICES ASSUME agent'[r].pc \in WithLease, Undisturbed(TaskOf(r))'
             PROVE  /\ \/ agent'[r].pc \in WithLease \ Reporting
                       \/ agent'[r].pc \in Reporting /\ req'[agent'[r].call].pc = "complete_put"
                       => tasks[TaskOf(r)].status' \in {"leased", "running"}
                    /\ agent'[r].pc \in Reporting
                       /\ req'[agent'[r].call].pc = "complete_webhook"
                       => tasks[TaskOf(r)].status' \in Results
    BY DEF TaskIsOpen
<1>1. CASE Claimed(r)
  <2>1. PICK t \in Tasks, l \in Leases :
            /\ tasks'[t].status = "leased" /\ agent'[r].lease = l
            /\ issued' = issued /\ issued[l].task = t
            /\ agent'[r].pc \in {"working", "giveup"}
      BY <1>1, ClaimedTask
  <2> QED
      BY <2>1 DEF TaskOf, Reporting
<1>2. CASE agent[r].pc \in WithLease /\ agent'[r].lease = agent[r].lease
  <2>1. PICK t \in Tasks : t = TaskOf(r)
      BY <1>2, HeldTask
  <2>2. TaskOf(r)' = t
      BY <1>2, <2>1, TaskStays
  <2>3. Undisturbed(t) /\ Spared(t, {"redelivery", "desertion"})
      BY <2>2, MarksStay DEF Undisturbed, Spared
  <2>4. /\ \/ agent[r].pc \in WithLease \ Reporting
           \/ agent[r].pc \in Reporting /\ req[agent[r].call].pc = "complete_put"
           => tasks[t].status \in {"leased", "running"}
        /\ agent[r].pc \in Reporting /\ req[agent[r].call].pc = "complete_webhook"
           => tasks[t].status \in Results
      BY <1>2, <2>1, <2>3 DEF OpenInv, TaskIsOpen
  <2>5. RunnerOf[t] = r /\ Routed(t)
    <3>1. tasks[t].lease = agent[r].lease
        BY <1>2, <2>1, <2>3 DEF ExclusiveInv, HoldsTask
    <3> QED
        BY <1>2, <2>1, <3>1, HeldTask DEF ExclusiveInv, RoutedInv, TaskOf
  <2>6. ASSUME tasks'[t] # tasks[t]
        PROVE  \/ tasks'[t].status = "running" /\ agent[r].pc \in {"working", "joining"}
               \/ /\ tasks'[t].status \in Results /\ agent[r].pc \in Reporting
                  /\ req[agent[r].call].pc = "complete_put"
                  /\ req'[agent[r].call].pc \in {"idle", "complete_webhook"}
      BY <1>2, <2>3, <2>5, <2>6, OwnWrite DEF WithLease, Reporting
  <2>7. CASE agent[r].pc \in Reporting
    <3> DEFINE q == agent[r].call
    <3>1. /\ agent'[r] = agent[r] /\ q \in Slots /\ req[q].task = t
          /\ req[q].pc \in CompleteSteps
        BY <2>1, <2>7, ReportStands
    <3>2. CASE req'[q] = req[q]
      <4>1. tasks'[t] = tasks[t]
          BY <2>6, <2>7, <3>2 DEF Reporting
      <4> QED
          BY <2>2, <2>4, <2>7, <3>1, <3>2, <4>1
    <3>3. CASE req'[q] # req[q]
      <4>1. GoesOn(q) \/ req'[q].pc = "idle"
        <5>1. IInv /\ Next
            BY <3>1, <3>3, SysStep DEF SysIInv, sysVars, vars
        <5> QED
            BY <3>1, <3>3, <5>1, SlotMoves, Begun DEF ExclusiveInv, CompleteSteps
      <4>2. req'[q].pc # "idle" =>
                req'[q].pc = "complete_webhook" /\ tasks'[t].status \in Results
        <5>1. CASE GoesOn(q)
          <6>1. req[q].pc = "complete_put" /\ req'[q].pc = "complete_webhook"
                /\ tasks'[t] = req[q].row
              BY <3>1, <5>1 DEF GoesOn, Onward, CompleteSteps
          <6> QED
              BY <3>1, <6>1 DEF SysIInv, IInv, PendingRow
        <5> QED
            BY <4>1, <5>1
      <4> QED
          BY <2>2, <2>7, <3>1, <4>2
    <3> QED
        BY <3>2, <3>3
  <2>8. CASE agent[r].pc \notin Reporting
    <3>1. agent'[r].pc \in Reporting => req'[agent'[r].call].pc = "complete_put"
        BY <1>2, <2>8, ReportMoves
    <3>2. tasks'[t].status \in {"leased", "running"}
        BY <1>2, <2>4, <2>6, <2>8
    <3> QED
        BY <2>2, <3>1, <3>2
  <2> QED
      BY <2>7, <2>8
<1> QED
    BY <1>1, <1>2, LeaseMoves

\* A claim that begins is for a task that nobody has begun.
LEMMA ClaimFinds ==
    ASSUME SysIInv, NEW q \in Slots, Begins(q), req'[q].pc = "claim_put"
    PROVE  /\ tasks' = tasks
           /\ \E t \in Tasks : /\ req'[q].task = t
                               /\ tasks[t].status \in {"pending_runner", "leased"}
<1>1. TypeOK
    BY DEF SysIInv, IInv
<1>2. ~\E pc \in PC \ {"claim_put"} : \E t, row : Go(q, pc, t, row)
    BY <1>1, SlotGoes
<1>3. PICK r \in Runners, t \in Tasks, l \in Leases : ClaimFind(q, r, t, l)
    BY <1>2 DEF Begins, SubmitFind, ConsumeRead, HeartbeatRead, CompleteRead, PC
<1>4. PICK row : Go(q, "claim_put", t, row)
    BY <1>3 DEF ClaimFind
<1> QED
    BY <1>1, <1>3, <1>4, SlotGoes DEF ClaimFind, NextClaim, Claimable

LEMMA ClaimOpenStep ==
    ASSUME SysIInv, ExclusiveInv, OpenInv, [SysNext]_sysVars, NEW q \in Slots
    PROVE  ClaimIsOpen(q)'
<1>1. IInv /\ TypeOK /\ [Next]_vars
    BY SysStep DEF SysIInv, IInv, sysVars
<1> SUFFICES ASSUME req'[q].pc = "claim_put", Undisturbed(req[q].task)'
             PROVE  tasks'[req'[q].task].status \in {"pending_runner", "leased"}
    BY DEF ClaimIsOpen
<1>2. CASE req'[q] = req[q]
  <2>1. PICK t \in Tasks : t = req[q].task
      BY <1>1, <1>2, BusyType
  <2>2. Undisturbed(t) /\ Spared(t, {"desertion"})
      BY <1>2, <2>1, MarksStay DEF Undisturbed, Spared
  <2>3. tasks[t].status \in {"pending_runner", "leased"} /\ Routed(t)
      BY <1>2, <2>1, <2>2 DEF OpenInv, ClaimIsOpen, Routed
  <2>4. agent[RunnerOf[t]].call = q /\ agent[RunnerOf[t]].pc = "claiming"
      BY <1>2, <2>1, <2>2, CallersTask DEF ExclusiveInv, CallInv, CalledBy, CallSteps
  <2>5. tasks'[t] = tasks[t]
      BY <1>2, <2>2, <2>3, <2>4, OwnWrite DEF Reporting
  <2> QED
      BY <1>2, <2>1, <2>3, <2>5
<1>3. CASE req'[q] # req[q]
  <2>1. Begins(q)
      BY <1>1, <1>3, SlotMoves DEF vars, GoesOn, Onward
  <2> QED
      BY <2>1, ClaimFinds
<1> QED
    BY <1>2, <1>3

LEMMA OpenStep ==
    ASSUME SysIInv, ExclusiveInv, OpenInv, [SysNext]_sysVars
    PROVE  OpenInv'
<1>1. (\A r \in Runners : TaskIsOpen(r)') /\ (\A q \in Slots : ClaimIsOpen(q)')
    BY TaskOpenStep, ClaimOpenStep
<1> QED
    BY <1>1 DEF OpenInv

-----------------------------------------------------------------------------
(* How often a task is given out.                                           *)

\* A task without any mark is spared and undisturbed.
LEMMA Unmarked ==
    ASSUME NEW t \in Tasks, Spared(t, Marks)
    PROVE  /\ Undisturbed(t) /\ Spared(t, {"redelivery", "desertion"})
           /\ Spared(t, {"desertion"}) /\ Spared(t, {"loss"})
    BY DEF Spared, Undisturbed, Marks

\* A claim that is answered reaches its caller, or has lost it.
LEMMA NewLease ==
    ASSUME SysIInv, [SysNext]_sysVars, NEW l \in held', l \notin held
    PROVE  \/ \E r \in Runners : Claimed(r) /\ req[agent[r].call].row.lease = l
           \/ \E q \in Slots :
                 /\ req[q].pc = "claim_put" /\ req[q].row.lease = l
                 /\ Orphan(q) \/ Fault("claim_lost", req[q].task)
<1>1. ASSUME UNCHANGED vars PROVE FALSE
    BY <1>1 DEF vars, history
<1>2. ~UNCHANGED sysVars
    BY <1>1 DEF sysVars
<1>3. ASSUME NEW r \in Runners, Quietly(r) PROVE FALSE
    BY <1>1, <1>3, QuietStep
<1>4. CASE \E r \in Runners : Speaks(r)
  <2>1. PICK r \in Runners : Speaks(r)
      BY <1>4
  <2>2. CASE Claimed(r)
      BY <2>2 DEF Claimed, ClaimPut
  <2>3. CASE ClaimGoesWrong(r)
    <3>1. agent[r].call \in Slots /\ req[agent[r].call].pc = "claim_put"
        BY <2>3 DEF ClaimGoesWrong, SysIInv, OwnCalls, Serves
    <3>2. ClaimPut(agent[r].call) /\ Fault("claim_lost", req[agent[r].call].task)
        BY <2>3 DEF ClaimGoesWrong, Fail, history
    <3> QED
        BY <3>1, <3>2 DEF ClaimPut
  <2>4. CASE CallClaim(r) \/ CallHeartbeat(r) \/ HeartbeatDone(r)
      BY <2>4 DEF CallClaim, ClaimFind, CallHeartbeat, HeartbeatRead, HeartbeatDone,
             HeartbeatPut, history
  <2>5. CASE \/ CallComplete(r, "report", "reporting") \/ CallComplete(r, "giveup", "givingup")
             \/ Completed(r) \/ ReportGoesWrong(r)
      BY <2>5 DEF CallComplete, CompleteRead, Completed, ReportGoesWrong, CompleteEnds,
             CompletePut, CompleteWebhook, Fail, history
  <2> QED
      BY <2>1, <2>2, <2>3, <2>4, <2>5 DEF Speaks
<1>5. CASE \E q \in Slots : \/ ServiceStep(q) \/ ClientSubmits(q)
                            \/ ConsumerFails(q) \/ Redelivered(q)
  <2>1. PICK q \in Slots : \/ ServiceStep(q) \/ ClientSubmits(q)
                           \/ ConsumerFails(q) \/ Redelivered(q)
      BY <1>5
  <2>2. Orphan(q) /\ ClaimPut(q)
      BY <2>1 DEF ServiceStep, Notify, SubmitPut, SubmitEnqueue, ConsumeRead, ConsumeRunner,
             ConsumePut, ConsumeNotify, ConsumeAck, CompletePut, HeartbeatPut, CompleteEnds,
             CompleteWebhook, ClientSubmits, SubmitFind, ConsumerFails, Fail, Redelivered, history
  <2> QED
      BY <2>2 DEF ClaimPut
<1>6. ~Clock
    BY DEF Clock, Tick, history
<1> QED
    BY <1>2, <1>3, <1>4, <1>5, <1>6 DEF SysNext, Agent, Quietly, Speaks

\* The lease of a task that has one: it stays the only one.
LEMMA OldLease ==
    ASSUME SysIInv, ExclusiveInv, OpenInv, HandedInv, [SysNext]_sysVars, NEW l \in held
    PROVE  HeldIsLast(l)'
<1>1. /\ IInv /\ IInv' /\ TypeOK /\ TypeOK' /\ [Next]_vars /\ SysIInv'
    BY SysStep, SysStutter, IInvStutter DEF SysIInv, IInv, sysVars
<1>2. l \in Leases /\ issued[l] # NoGrant /\ issued'[l] = issued[l]
    BY <1>1, KeepsIssued DEF IInv, TypeOK, HeldIsIssued
<1>3. PICK t \in Tasks : t = issued[l].task
    BY <1>1, <1>2 DEF TypeOK
<1>4. PICK r \in Runners : r = RunnerOf[t]
    BY ConstantsAssumption
<1> SUFFICES ASSUME Spared(t, Marks)'
             PROVE  /\ tasks'[t].lease = l /\ tasks'[t].status # "pending_runner"
                    /\ tasks'[t].status \in {"leased", "running"} =>
                          agent'[r].pc \in WithLease /\ agent'[r].lease = l
                    /\ \A q \in Slots : req'[q].pc = "claim_put" => req'[q].task # t
    BY <1>2, <1>3, <1>4 DEF HeldIsLast, Spared
<1>5. Spared(t, Marks)
    BY MarksStay DEF Spared
<1>6. /\ Undisturbed(t) /\ Spared(t, {"redelivery", "desertion"})
      /\ Undisturbed(t)' /\ Spared(t, {"desertion"})' /\ Spared(t, {"loss"})'
    BY <1>5, Unmarked DEF Spared, Undisturbed, Marks
<1>7. /\ tasks[t].lease = l /\ tasks[t].status # "pending_runner"
      /\ tasks[t].status \in {"leased", "running"} =>
            agent[r].pc \in WithLease /\ agent[r].lease = l
      /\ \A q \in Slots : req[q].pc = "claim_put" => req[q].task # t
    BY <1>3, <1>4, <1>5 DEF HandedInv, HeldIsLast
<1>8. Routed(t)
    BY <1>3 DEF ExclusiveInv, RoutedInv
<1>9. ASSUME tasks'[t] # tasks[t]
      PROVE  /\ TaskOf(r) = t /\ agent[r].pc \in WithLease
             /\ agent[r].lease = l /\ tasks'[t].lease = l
             /\ tasks'[t].status = "running" \/ tasks'[t].status \in Results
  <2>1. /\ TaskOf(r) = t /\ agent[r].pc \in WithLease /\ agent[r].lease = tasks'[t].lease
        /\ tasks'[t].status = "running" \/ tasks'[t].status \in Results
      BY <1>4, <1>6, <1>7, <1>8, <1>9, OwnWrite DEF WithLease, Reporting
  <2>2. tasks[t].lease = agent[r].lease
      BY <1>6, <2>1 DEF ExclusiveInv, HoldsTask
  <2> QED
      BY <1>7, <2>1, <2>2
<1>10. tasks'[t].lease = l /\ tasks'[t].status # "pending_runner"
    BY <1>7, <1>9, NotOpen
<1>11. ASSUME tasks'[t].status \in {"leased", "running"}
       PROVE  agent'[r].pc \in WithLease /\ agent'[r].lease = l
  <2>1. agent[r].pc \in WithLease /\ agent[r].lease = l
      BY <1>7, <1>9, <1>11
  <2>2. TaskOf(r) = t /\ tasks[TaskOf(r)].lease = agent[r].lease /\ Presents(agent[r].lease)
      BY <1>3, <1>7, <2>1, HeldTask DEF TaskOf
  <2>3. ASSUME agent'[r].pc \notin WithLease PROVE FALSE
    <3>1. ASSUME NEW kind \in Desertions \cup Misreports \cup Losses PROVE ~Fault(kind, t)
        BY <1>6, FaultMarks DEF Undisturbed, Spared
    <3>2. agent[r].pc \in Reporting => req[agent[r].call].task = t
        BY <2>2 DEF SysIInv, OwnCalls
    <3>3. Completed(r)
        BY <2>1, <2>2, <2>3, <3>1, <3>2, LeaseLeaves
    <3>4. PICK q \in Slots : /\ q = agent[r].call /\ req[q].task = t /\ agent[r].pc \in Reporting
                             /\ CompleteEnds(q)
        BY <3>2, <3>3 DEF Completed, SysIInv, OwnCalls, Serves, Reporting
    <3>5. CASE CompletePut(q) /\ req[q].pc = "complete_put"
      <4>1. tasks'[t] = req[q].row /\ req[q].row.status \in Results
          BY <1>1, <3>4, <3>5 DEF CompletePut, PutRow, TypeOK, IInv, PendingRow
      <4> QED
          BY <1>11, <4>1, NotOpen
    <3>6. CASE CompleteWebhook(q)
      <4>1. tasks' = tasks /\ req[q].pc = "complete_webhook"
          BY <3>6 DEF CompleteWebhook
      <4>2. tasks[t].status \in Results
          BY <1>6, <2>1, <2>2, <3>4, <4>1 DEF OpenInv, TaskIsOpen
      <4> QED
          BY <1>11, <4>1, <4>2, NotOpen
    <3> QED
        BY <3>4, <3>5, <3>6 DEF CompleteEnds
  <2> QED
      BY <2>1, <2>3, LeaseMoves DEF Claimed, WithLease, Reporting
<1>12. ASSUME NEW q \in Slots, req'[q].pc = "claim_put", req'[q].task = t PROVE FALSE
  <2>1. req'[q] # req[q]
      BY <1>7, <1>12
  <2>2. Next /\ SysNext
      BY <1>1, <2>1 DEF vars, sysVars
  <2>3. Begins(q)
      BY <1>1, <1>12, <2>1, <2>2, SlotMoves DEF GoesOn, Onward
  <2>4. tasks' = tasks /\ tasks[t].status \in {"pending_runner", "leased"}
      BY <1>12, <2>3, ClaimFinds
  <2>5. req[q].pc = "idle"
      BY <1>1, <2>3, Begun DEF ExclusiveInv
  <2>6. agent'[r].call = q
      BY <1>4, <1>12, <2>2, <2>5, NewCall DEF CallPuts, CalledBy
  <2>7. agent'[r].pc \in WithLease
      BY <1>7, <1>11, <2>4
  <2>8. OwnCalls(r)' /\ NoCall \notin Slots
      BY <1>1, SystemAssumption DEF SysIInv
  <2> QED
      BY <1>12, <2>6, <2>7, <2>8 DEF OwnCalls, Serves, WithLease, Reporting, CompleteSteps
<1> QED
    BY <1>10, <1>11, <1>12

\* A new lease is the only one, too: it is given to the runner that asked for it.
LEMMA HandedStep ==
    ASSUME SysIInv, ExclusiveInv, OpenInv, HandedInv, [SysNext]_sysVars
    PROVE  HandedInv'
<1> SUFFICES ASSUME NEW l \in held' PROVE HeldIsLast(l)'
    BY DEF HandedInv
<1>1. TypeOK /\ LeaseBinding
    BY DEF SysIInv, IInv
<1>2. CASE l \in held
    BY <1>2, OldLease
<1>3. ASSUME l \notin held, NEW r \in Runners, Claimed(r), req[agent[r].call].row.lease = l
      PROVE  HeldIsLast(l)'
  <2>1. PICK q \in Slots, t \in Tasks :
            /\ agent[r].call = q /\ req[q].pc = "claim_put" /\ req[q].task = t
            /\ RunnerOf[t] = r
            /\ tasks'[t].lease = l /\ tasks'[t].status = "leased"
            /\ agent'[r].pc \in {"working", "giveup"} /\ agent'[r].lease = l
            /\ issued' = issued /\ issued[l].task = t
            /\ req'[q].pc = "idle" /\ \A p \in Slots : p # q => req'[p] = req[p]
      BY <1>3, ClaimedTask
  <2>2. ASSUME Spared(t, Marks)', NEW p \in Slots, req'[p].pc = "claim_put", req'[p].task = t
        PROVE  FALSE
    <3>1. Spared(t, {"desertion"})
        BY <2>2, MarksStay DEF Spared, Marks
    <3>2. p # q /\ req'[p] = req[p]
        BY <2>1, <2>2
    <3>3. agent[r].call = p
        BY <2>1, <2>2, <3>1, <3>2 DEF ExclusiveInv, CallInv, CallSteps, CalledBy
    <3> QED
        BY <2>1, <3>2, <3>3
  <2> QED
      BY <2>1, <2>2 DEF HeldIsLast, WithLease, Spared
<1>4. ASSUME NEW q \in Slots, req[q].pc = "claim_put", req[q].row.lease = l,
             Orphan(q) \/ Fault("claim_lost", req[q].task)
      PROVE  HeldIsLast(l)'
  <2>1. PICK t \in Tasks : t = req[q].task
      BY <1>1, <1>4, BusyType
  <2>2. issued'[l].task = t
    <3>1. l \in Leases /\ l # NoLease
      <4>1. PendingRow(q) /\ req[q].row \in Row
          BY <1>1, <1>4, BusyType DEF SysIInv, IInv
      <4> QED
          BY <1>4, <4>1 DEF PendingRow, Row
    <3>2. issued[l] = [task |-> t, runner |-> RunnerOf[t]]
        BY <1>1, <1>4, <2>1, <3>1 DEF LeaseBinding
    <3>3. issued[l] # NoGrant
        BY <3>2, ConstantsAssumption
    <3>4. [Next]_vars
        BY SysStep DEF sysVars
    <3> QED
        BY <1>1, <3>1, <3>2, <3>3, <3>4, KeepsIssued
  <2>3. ASSUME Spared(t, Marks)' PROVE FALSE
    <3>1. Spared(t, {"desertion"}) /\ Spared(t, {"loss"})'
        BY <2>3, MarksStay DEF Spared, Marks
    <3>2. agent[RunnerOf[t]].call = q /\ RunnerOf[t] \in Runners
        BY <1>4, <2>1, <3>1, ConstantsAssumption
           DEF ExclusiveInv, CallInv, CallSteps, CalledBy
    <3>3. ~Orphan(q)
        BY <3>2 DEF Orphan, Calls
    <3>4. ~Fault("claim_lost", t)
        BY <3>1, FaultMarks DEF Losses
    <3> QED
        BY <1>4, <2>1, <3>3, <3>4
  <2> QED
      BY <2>2, <2>3 DEF HeldIsLast, Spared
<1> QED
    BY <1>2, <1>3, <1>4, NewLease

-----------------------------------------------------------------------------
(* What holds of the tasks that the faults have spared.                     *)

\* At first there is no task, no message, no invocation and no lease.
LEMMA NothingYet == SysInit => ExclusiveInv /\ OpenInv /\ HandedInv
<1> SUFFICES ASSUME SysInit PROVE ExclusiveInv /\ OpenInv /\ HandedInv
    OBVIOUS
<1>1. /\ \A q \in Slots : req[q].pc = "idle"
      /\ \A r \in Runners : agent[r].pc = "down"
      /\ \A t \in Tasks : tasks[t].lease = NoLease
      /\ queue = {} /\ held = {}
    BY DEF SysInit, idle, Down, At, NoRow
<1>2. RoutedInv /\ CallInv /\ SubmitInv /\ ConsumerInv
    BY <1>1 DEF RoutedInv, CallInv, SubmitInv, ConsumerInv, CallSteps, CompleteSteps, ConsumerSteps
<1>3. \A r \in Runners : HoldsTask(r) /\ TaskIsOpen(r)
    BY <1>1 DEF HoldsTask, TaskIsOpen, WithLease, Reporting
<1> QED
    BY <1>1, <1>2, <1>3 DEF ExclusiveInv, OpenInv, ClaimIsOpen, HandedInv

\* An invocation has its caller and a consumer its message to itself, until the
\* one goes away or the other comes again; and a lease stays with the runner it
\* was given to (the queue consumer and the runner routes of index.ts).
THEOREM ExclusiveWork == SysSafety => []ExclusiveInv
    BY NothingYet, ExclusiveStep, SysInvariance, PTL DEF SysSafety

\* The lease of a runner at work is the one in the row of its task, unless the
\* task's message was handed out again or a call of it went on alone; all other
\* faults, and any fault of another task, do not take it (core.py run_once).
THEOREM LeaseIsKept == SysSafety => []LeaseHeldWhileWorking
<1>1. SysIInv /\ ExclusiveInv => LeaseHeldWhileWorking
  <2> SUFFICES ASSUME SysIInv, ExclusiveInv, NEW r \in Runners, Working(r),
                      Spared(TaskOf(r), {"redelivery", "desertion"})
               PROVE  Presents(agent[r].lease)
      BY DEF LeaseHeldWhileWorking
  <2>1. agent[r].pc \in WithLease
      BY DEF Working, WithLease
  <2> QED
      BY <2>1, HeldTask DEF ExclusiveInv, HoldsTask
<1> QED
    BY <1>1, SysInvariance, ExclusiveWork, PTL

\* No heartbeat is on its way while the same task's result is being written,
\* unless the runner left a call of the task behind (LeaseHeartbeat.stop).
THEOREM HeartbeatEndsFirst == SysSafety => []NoHeartbeatAfterReport
<1>1. SysIInv /\ ExclusiveInv => NoHeartbeatAfterReport
  <2> SUFFICES ASSUME SysIInv, ExclusiveInv, NEW q \in Slots, NEW p \in Slots,
                      req[q].pc = "heartbeat_put", req[p].pc \in CompleteSteps,
                      req[p].task = req[q].task, Spared(req[q].task, {"desertion"})
               PROVE  FALSE
      BY DEF NoHeartbeatAfterReport, CompleteSteps
  <2>1. PICK t \in Tasks : t = req[q].task
      BY BusyType DEF SysIInv, IInv
  <2>2. CalledBy(q, RunnerOf[t]) /\ CalledBy(p, RunnerOf[t])
      BY <2>1 DEF ExclusiveInv, CallInv, CallSteps
  <2>3. agent[RunnerOf[t]].pc \in {"working", "joining"}
      BY <2>1, <2>2, CallersTask DEF CallSteps
  <2>4. agent[RunnerOf[t]].pc \in Reporting
      BY <2>1, <2>2, CallersTask DEF CallSteps
  <2> QED
      BY <2>3, <2>4 DEF Reporting
<1> QED
    BY <1>1, SysInvariance, ExclusiveWork, PTL

\* What a runner works on or claims has not ended, unless the task's message was
\* handed out again, a call of it went on alone or its report went wrong
\* (core.py run_once; completeTask and heartbeat do not look at the status).
THEOREM WorkIsOpen == SysSafety => []OpenInv
    BY NothingYet, OpenStep, SysInvariance, ExclusiveWork, PTL DEF SysSafety

\* With the same exceptions a result, once in the row, stays there: no slow
\* heartbeat, claim or consumer, no crash and no fault of another task takes it
\* back (README "Worker records terminal state").
THEOREM ResultsAreFinal == SysSafety => ResultIsFinal
<1>1. SysIInv /\ ExclusiveInv /\ OpenInv /\ [SysNext]_sysVars =>
          [\A t \in Tasks :
              tasks[t].status \in Results
              /\ Spared(t, {"redelivery", "desertion", "misreport"}) =>
                  tasks'[t].status = tasks[t].status]_sysVars
  <2> SUFFICES ASSUME SysIInv, ExclusiveInv, OpenInv, [SysNext]_sysVars, NEW t \in Tasks,
                      tasks[t].status \in Results, Undisturbed(t), tasks'[t] # tasks[t]
               PROVE  FALSE
      BY DEF Undisturbed
  <2>1. Routed(t) /\ tasks[t].status \notin {"pending_runner", "leased", "running"}
      BY NotOpen DEF Routed
  <2>2. PICK r \in Runners : r = RunnerOf[t]
      BY ConstantsAssumption
  <2>3. PICK q \in Slots :
            /\ req[q].task = t
            /\ \/ req[q].pc = "claim_put"
               \/ /\ req[q].pc = "heartbeat_put" /\ agent[r].pc \in {"working", "joining"}
                  /\ TaskOf(r) = t
               \/ /\ req[q].pc = "complete_put" /\ agent[r].pc \in Reporting
                  /\ TaskOf(r) = t /\ agent[r].call = q
      BY <2>1, <2>2, OwnWrite
  <2>4. req[q].pc # "claim_put"
      BY <2>1, <2>3 DEF OpenInv, ClaimIsOpen
  <2>5. TaskOf(r) = t /\ TaskIsOpen(r)
      BY <2>3, <2>4 DEF OpenInv
  <2> QED
      BY <2>1, <2>3, <2>4, <2>5 DEF TaskIsOpen, WithLease, Reporting
<1> QED
    BY <1>1, SysInvariance, ExclusiveWork, WorkIsOpen, PTL DEF SysSafety, ResultIsFinal

\* A task is handed out once, unless a fault has befallen it that left a mark:
\* redelivery, a call that went on alone, a report or a claim that was lost, an
\* early crash (claimTask and its retry by findClaimableTask).
THEOREM TaskIsHandedOutOnce == SysSafety => []HandedOutOnce
<1>1. SysIInv /\ HandedInv => HandedOutOnce
  <2> SUFFICES ASSUME SysIInv, HandedInv, NEW l \in held, NEW m \in held,
                      issued[l].task = issued[m].task, Spared(issued[l].task, Marks)
               PROVE  l = m
      BY DEF HandedOutOnce
  <2>1. tasks[issued[l].task].lease = l /\ tasks[issued[l].task].lease = m
      BY DEF HandedInv, HeldIsLast
  <2> QED
      BY <2>1
<1>2. SysSafety => []HandedInv
    BY NothingYet, HandedStep, SysInvariance, ExclusiveWork, WorkIsOpen, PTL DEF SysSafety
<1> QED
    BY <1>1, <1>2, SysInvariance, PTL
=============================================================================
