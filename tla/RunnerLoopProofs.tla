-------------------------- MODULE RunnerLoopProofs --------------------------
(***************************************************************************)
(* RunnerLoop for every number of starts: one loop, a status that is the    *)
(* loop's, and no sleep on a wake-up.  What makes them inductive: the only  *)
(* loop alive is the one the controller holds, and a wake-up that came      *)
(* since the last claim began leaves the flag up for as long as the loop    *)
(* works or sleeps.                                                         *)
(***************************************************************************)
EXTENDS RunnerLoop, TLAPS

\* The loop alive is the controller's.
HeldByController == \A i \in Ids : Alive(loop, i) => i = thread

\* News since the last claim began has raised the flag.
NewsIsHeard == news => \A i \in Ids : loop[i].pc \in {"poll", "wait"} => wake

IInv == TypeOK /\ HeldByController /\ StatusIsTheLoops /\ NewsIsHeard

LEMMA IdsAreNotNobody == Ids \subseteq Nat /\ Nobody \notin Ids
    BY MaxStartsAssumption DEF Ids, Nobody

LEMMA InitIInv == Init => IInv
<1> SUFFICES ASSUME Init PROVE IInv
    OBVIOUS
<1>1. \A i \in Ids : loop[i].pc = "new"
    BY DEF Init
<1>2. TypeOK
    BY DEF Init, TypeOK, LoopPcs, EarPcs
<1>3. HeldByController /\ StatusIsTheLoops /\ NewsIsHeard
    BY <1>1 DEF Init, HeldByController, StatusIsTheLoops, NewsIsHeard, Alive
<1> QED BY <1>2, <1>3 DEF IInv

\* What a move of loop i does to the loops.
LEMMA GoMoves ==
    ASSUME TypeOK, NEW i \in Ids, NEW from, NEW to \in LoopPcs, Go(i, from, to)
    PROVE  /\ loop' \in [Ids -> [pc : LoopPcs, failed : BOOLEAN, app : Ids \cup {Nobody}]]
           /\ loop[i].pc = from /\ loop'[i].pc = to
           /\ \A j \in Ids : j # i => loop'[j] = loop[j]
    BY DEF Go, TypeOK

\* A loop at work that goes on working keeps the controller's picture true.
LEMMA WorkGoesOn ==
    ASSUME IInv, NEW i \in Ids, UNCHANGED control,
           loop[i].pc \notin {"new", "dying", "dead"},
           loop'[i].pc \notin {"new", "dying", "dead"},
           \A j \in Ids : j # i => loop'[j] = loop[j]
    PROVE  HeldByController' /\ StatusIsTheLoops'
<1>1. HeldByController'
    BY DEF IInv, HeldByController, Alive, control
<1>2. i = thread /\ status \notin {"stopped", "error"}
    BY IdsAreNotNobody DEF IInv, HeldByController, StatusIsTheLoops, Alive
<1>3. StatusIsTheLoops'
    BY <1>2, IdsAreNotNobody DEF IInv, StatusIsTheLoops, Alive, control
<1> QED BY <1>1, <1>3

-----------------------------------------------------------------------------
(* The control thread.                                                      *)

LEMMA StartStep == ASSUME IInv, Start PROVE IInv'
<1> DEFINE i == CHOOSE j \in Unused : TRUE
<1>1. i \in Ids /\ loop[i].pc = "new" /\ thread' = i
    BY DEF Start, Unused
<1>2. \A j \in Ids : ~Alive(loop, j)
    BY DEF Start, IInv, HeldByController
<1>3. loop' = [loop EXCEPT ![i].pc = "begin"]
    BY DEF Start
<1>4. /\ loop' \in [Ids -> [pc : LoopPcs, failed : BOOLEAN, app : Ids \cup {Nobody}]]
      /\ loop'[i].pc = "begin" /\ \A j \in Ids : j # i => loop'[j] = loop[j]
    BY <1>1, <1>3 DEF IInv, TypeOK, LoopPcs
<1>5. TypeOK'
    BY <1>1, <1>4 DEF Start, IInv, TypeOK, listener
<1>6. HeldByController'
    BY <1>1, <1>2, <1>4 DEF HeldByController, Alive
<1>7. StatusIsTheLoops'
    BY <1>1, <1>4, IdsAreNotNobody DEF Start, StatusIsTheLoops, Alive
<1>8. NewsIsHeard'
    BY <1>1, <1>4 DEF Start, IInv, NewsIsHeard
<1> QED BY <1>5, <1>6, <1>7, <1>8 DEF IInv

LEMMA StopStep == ASSUME IInv, Stop PROVE IInv'
    BY DEF Stop, IInv, TypeOK, HeldByController, StatusIsTheLoops, NewsIsHeard, Alive, listener

LEMMA InterruptStep == ASSUME IInv, Interrupt PROVE IInv'
    BY DEF Interrupt, IInv, TypeOK, HeldByController, StatusIsTheLoops, NewsIsHeard, Alive,
        listener

LEMMA JoinEndsStep == ASSUME IInv, JoinEnds PROVE IInv'
<1>1. CASE Alive(loop, thread)
    BY <1>1 DEF JoinEnds, IInv, TypeOK, HeldByController, StatusIsTheLoops, NewsIsHeard, Alive,
        listener
<1>2. CASE ~Alive(loop, thread)
    <2>1. \A i \in Ids : ~Alive(loop, i)
        BY <1>2 DEF IInv, HeldByController
    <2>2. /\ thread' = Nobody /\ status' \in {"error", "stopped"}
          /\ loop' = loop /\ UNCHANGED <<stopReq, wake, listener, news>> /\ user' = "idle"
        BY <1>2 DEF JoinEnds
    <2>3. TypeOK'
        BY <2>2 DEF IInv, TypeOK, listener
    <2>4. HeldByController' /\ StatusIsTheLoops'
        BY <2>1, <2>2, IdsAreNotNobody DEF HeldByController, StatusIsTheLoops, Alive
    <2>5. NewsIsHeard'
        BY <2>2 DEF IInv, NewsIsHeard
    <2> QED BY <2>3, <2>4, <2>5 DEF IInv
<1> QED BY <1>1, <1>2

-----------------------------------------------------------------------------
(* The loop thread.                                                         *)

LEMMA ListenerStartStep == ASSUME IInv, NEW i \in Ids, ListenerStart(i) PROVE IInv'
<1>1. Go(i, "begin", "check") /\ UNCHANGED <<control, wake, news>>
    BY DEF ListenerStart
<1>2. /\ loop' \in [Ids -> [pc : LoopPcs, failed : BOOLEAN, app : Ids \cup {Nobody}]]
      /\ loop[i].pc = "begin" /\ loop'[i].pc = "check"
      /\ \A j \in Ids : j # i => loop'[j] = loop[j]
    BY <1>1, GoMoves DEF IInv, LoopPcs
<1>3. TypeOK'
    BY <1>1, <1>2, ZenonT(40) DEF ListenerStart, IInv, TypeOK, control, listener, EarPcs
<1>4. HeldByController' /\ StatusIsTheLoops'
    BY <1>1, <1>2, WorkGoesOn
<1>5. NewsIsHeard'
    BY <1>1, <1>2 DEF IInv, NewsIsHeard
<1> QED BY <1>3, <1>4, <1>5 DEF IInv

LEMMA CheckStopStep == ASSUME IInv, NEW i \in Ids, CheckStop(i) PROVE IInv'
<1> DEFINE to == IF stopReq THEN "end" ELSE "poll"
<1>1. Go(i, "check", to) /\ news' = (news /\ stopReq) /\ UNCHANGED <<control, wake, listener>>
    BY DEF CheckStop
<1>2. /\ loop' \in [Ids -> [pc : LoopPcs, failed : BOOLEAN, app : Ids \cup {Nobody}]]
      /\ loop[i].pc = "check" /\ loop'[i].pc = to
      /\ \A j \in Ids : j # i => loop'[j] = loop[j]
    BY <1>1, GoMoves DEF IInv, LoopPcs
<1>3. TypeOK'
    BY <1>1, <1>2 DEF IInv, TypeOK, control, listener
<1>4. HeldByController' /\ StatusIsTheLoops'
    BY <1>1, <1>2, WorkGoesOn DEF IInv
<1>5. NewsIsHeard'
    BY <1>1, <1>2 DEF IInv, NewsIsHeard
<1> QED BY <1>3, <1>4, <1>5 DEF IInv

LEMMA RunOnceStep == ASSUME IInv, NEW i \in Ids, RunOnce(i) PROVE IInv'
<1>1. UNCHANGED <<control, wake, listener, news>>
    BY DEF RunOnce
<1>2. /\ loop' \in [Ids -> [pc : LoopPcs, failed : BOOLEAN, app : Ids \cup {Nobody}]]
      /\ loop[i].pc = "poll" /\ loop'[i].pc \in {"check", "wait", "end"}
      /\ \A j \in Ids : j # i => loop'[j] = loop[j]
    <2>1. CASE \E to \in {"check", "wait"} : Go(i, "poll", to)
        BY <2>1, GoMoves DEF IInv, LoopPcs
    <2>2. CASE /\ loop[i].pc = "poll"
               /\ loop' = [loop EXCEPT ![i].pc = "end", ![i].failed = TRUE]
        BY <2>2, ZenonT(40) DEF IInv, TypeOK, LoopPcs
    <2> QED BY <2>1, <2>2 DEF RunOnce
<1>3. TypeOK'
    BY <1>1, <1>2 DEF IInv, TypeOK, control, listener
<1>4. HeldByController' /\ StatusIsTheLoops'
    BY <1>1, <1>2, WorkGoesOn
<1>5. NewsIsHeard'
    BY <1>1, <1>2 DEF IInv, NewsIsHeard
<1> QED BY <1>3, <1>4, <1>5 DEF IInv

LEMMA WokenStep == ASSUME IInv, NEW i \in Ids, Woken(i) PROVE IInv'
<1>1. UNCHANGED <<control, listener, news>> /\ wake' \in BOOLEAN
    BY DEF Woken, IInv, TypeOK
<1>2. /\ loop' \in [Ids -> [pc : LoopPcs, failed : BOOLEAN, app : Ids \cup {Nobody}]]
      /\ loop[i].pc \in {"wait", "woken"} /\ loop'[i].pc \in {"woken", "check"}
      /\ \A j \in Ids : j # i => loop'[j] = loop[j]
    BY GoMoves DEF IInv, Woken, LoopPcs
<1>3. TypeOK'
    BY <1>1, <1>2 DEF IInv, TypeOK, control, listener
<1>4. HeldByController' /\ StatusIsTheLoops'
    BY <1>1, <1>2, WorkGoesOn
<1>5. NewsIsHeard'
    <2>1. \A j \in Ids : Alive(loop, j) => j = i
        BY <1>2, IdsAreNotNobody DEF IInv, HeldByController, Alive
    <2>2. \A j \in Ids : loop'[j].pc \notin {"poll", "wait"}
        BY <2>1, <1>2, IdsAreNotNobody DEF Alive
    <2> QED BY <2>2 DEF NewsIsHeard
<1> QED BY <1>3, <1>4, <1>5 DEF IInv

LEMMA FallbackStep == ASSUME IInv, NEW i \in Ids, FallbackPasses(i) PROVE IInv'
<1>1. Go(i, "wait", "check") /\ UNCHANGED <<control, wake, listener, news>>
    BY DEF FallbackPasses
<1>2. /\ loop' \in [Ids -> [pc : LoopPcs, failed : BOOLEAN, app : Ids \cup {Nobody}]]
      /\ loop[i].pc = "wait" /\ loop'[i].pc = "check"
      /\ \A j \in Ids : j # i => loop'[j] = loop[j]
    BY <1>1, GoMoves DEF IInv, LoopPcs
<1>3. TypeOK'
    BY <1>1, <1>2 DEF IInv, TypeOK, control, listener
<1>4. HeldByController' /\ StatusIsTheLoops'
    BY <1>1, <1>2, WorkGoesOn
<1>5. NewsIsHeard'
    BY <1>1, <1>2 DEF IInv, NewsIsHeard
<1> QED BY <1>3, <1>4, <1>5 DEF IInv

\* The steps of the listener's stop().
LEMMA ListenerStopStep ==
    ASSUME IInv, NEW i \in Ids,
           ListenerStop(i) \/ ReadApp(i) \/ CloseApp(i) \/ ListenerJoinEnds(i)
    PROVE  IInv'
<1>1. UNCHANGED <<control, news>> /\ (wake' = wake \/ wake' = TRUE)
    BY DEF ListenerStop, ReadApp, CloseApp, ListenerJoinEnds
<1>2. /\ loop' \in [Ids -> [pc : LoopPcs, failed : BOOLEAN, app : Ids \cup {Nobody}]]
      /\ loop[i].pc \in {"end", "close", "closing", "join"}
      /\ loop'[i].pc \in {"close", "closing", "join", "finish"}
      /\ \A j \in Ids : j # i => loop'[j] = loop[j]
    <2>1. CASE ListenerStop(i)
        BY <2>1, GoMoves DEF ListenerStop, IInv, LoopPcs
    <2>2. CASE ReadApp(i)
        BY <2>2, ZenonT(40) DEF ReadApp, IInv, TypeOK, LoopPcs
    <2>3. CASE CloseApp(i)
        BY <2>3, GoMoves DEF CloseApp, IInv, LoopPcs
    <2>4. CASE ListenerJoinEnds(i)
        BY <2>4, GoMoves DEF ListenerJoinEnds, IInv, LoopPcs
    <2> QED BY <2>1, <2>2, <2>3, <2>4
<1>3. /\ lstop' \in BOOLEAN /\ {lthread', active'} \subseteq Ids \cup {Nobody}
      /\ ear' \in [Ids -> [pc : EarPcs, closed : BOOLEAN]]
    <2>1. ASSUME CloseApp(i) PROVE ear' \in [Ids -> [pc : EarPcs, closed : BOOLEAN]]
        BY <2>1 DEF CloseApp, IInv, TypeOK
    <2> QED
        BY <2>1 DEF ListenerStop, ReadApp, CloseApp, ListenerJoinEnds, IInv, TypeOK, listener
<1>4. TypeOK'
    BY <1>1, <1>2, <1>3 DEF IInv, TypeOK, control
<1>5. HeldByController' /\ StatusIsTheLoops'
    BY <1>1, <1>2, WorkGoesOn
<1>6. NewsIsHeard'
    <2>1. CASE wake' = wake
        BY <2>1, <1>1, <1>2 DEF IInv, NewsIsHeard
    <2>2. CASE wake' = TRUE
        BY <2>2 DEF NewsIsHeard
    <2> QED BY <1>1, <2>1, <2>2
<1> QED BY <1>4, <1>5, <1>6 DEF IInv

LEMMA FinishStep == ASSUME IInv, NEW i \in Ids, Finish(i) PROVE IInv'
<1>1. /\ Go(i, "finish", "dying") /\ status' \in {"error", "stopped"}
      /\ UNCHANGED <<user, stopReq, thread, wake, listener, news>>
    BY DEF Finish
<1>2. /\ loop' \in [Ids -> [pc : LoopPcs, failed : BOOLEAN, app : Ids \cup {Nobody}]]
      /\ loop[i].pc = "finish" /\ loop'[i].pc = "dying"
      /\ \A j \in Ids : j # i => loop'[j] = loop[j]
    BY <1>1, GoMoves DEF IInv, LoopPcs
<1>3. TypeOK'
    BY <1>1, <1>2 DEF IInv, TypeOK, listener
<1>4. HeldByController'
    BY <1>1, <1>2, IdsAreNotNobody DEF IInv, HeldByController, Alive
<1>5. \A j \in Ids : j # i => loop[j].pc \in {"new", "dead"}
    BY <1>2, IdsAreNotNobody DEF IInv, HeldByController, Alive
<1>6. StatusIsTheLoops'
    BY <1>1, <1>2, <1>5 DEF StatusIsTheLoops
<1>7. NewsIsHeard'
    BY <1>1, <1>2 DEF IInv, NewsIsHeard
<1> QED BY <1>3, <1>4, <1>6, <1>7 DEF IInv

LEMMA DieStep == ASSUME IInv, NEW i \in Ids, Die(i) PROVE IInv'
<1>1. Go(i, "dying", "dead") /\ UNCHANGED <<control, wake, listener, news>>
    BY DEF Die
<1>2. /\ loop' \in [Ids -> [pc : LoopPcs, failed : BOOLEAN, app : Ids \cup {Nobody}]]
      /\ loop[i].pc = "dying" /\ loop'[i].pc = "dead"
      /\ \A j \in Ids : j # i => loop'[j] = loop[j]
    BY <1>1, GoMoves DEF IInv, LoopPcs
<1>3. TypeOK'
    BY <1>1, <1>2 DEF IInv, TypeOK, control, listener
<1>4. HeldByController'
    BY <1>1, <1>2 DEF IInv, HeldByController, Alive, control
<1>5. i = thread
    BY <1>2, IdsAreNotNobody DEF IInv, HeldByController, Alive
<1>6. StatusIsTheLoops'
    BY <1>1, <1>2, <1>5 DEF IInv, StatusIsTheLoops, Alive, control
<1>7. NewsIsHeard'
    BY <1>1, <1>2 DEF IInv, NewsIsHeard
<1> QED BY <1>3, <1>4, <1>6, <1>7 DEF IInv

-----------------------------------------------------------------------------
(* The listener's thread changes nothing of the controller's or the loop's  *)
(* but the flag, which it only raises, and with news.                       *)

LEMMA EarStepStep == ASSUME IInv, NEW i \in Ids, EarStep(i) PROVE IInv'
<1>1. UNCHANGED <<control, loop, lstop, lthread>>
    BY DEF EarStep, EarChecks, MakeApp, Publish, RunForever, Opens, Message, Returns, Unpublish,
        PauseEnds, EarGo
<1>2. ear' \in [Ids -> [pc : EarPcs, closed : BOOLEAN]]
    BY DEF EarStep, EarChecks, MakeApp, Publish, RunForever, Opens, Message, Returns, Unpublish,
        PauseEnds, EarGo, EarPcs, IInv, TypeOK
<1>3. active' \in Ids \cup {Nobody}
    BY DEF EarStep, EarChecks, MakeApp, Publish, RunForever, Opens, Message, Returns, Unpublish,
        PauseEnds, IInv, TypeOK
<1>4. UNCHANGED <<wake, news>> \/ (wake' = TRUE /\ news' = TRUE)
    BY DEF EarStep, EarChecks, MakeApp, Publish, RunForever, Opens, Message, Returns, Unpublish,
        PauseEnds
<1>5. TypeOK'
    BY <1>1, <1>2, <1>3, <1>4 DEF IInv, TypeOK, control
<1>6. HeldByController' /\ StatusIsTheLoops'
    BY <1>1 DEF IInv, HeldByController, StatusIsTheLoops, Alive, control
<1>7. NewsIsHeard'
    <2>1. CASE UNCHANGED <<wake, news>>
        BY <2>1, <1>1 DEF IInv, NewsIsHeard
    <2>2. CASE wake' = TRUE
        BY <2>2 DEF NewsIsHeard
    <2> QED BY <1>4, <2>1, <2>2
<1> QED BY <1>5, <1>6, <1>7 DEF IInv

LEMMA NextIInv == IInv /\ [Next]_vars => IInv'
<1> SUFFICES ASSUME IInv, [Next]_vars PROVE IInv'
    OBVIOUS
<1>1. CASE ControlStep
    BY <1>1, StartStep, StopStep, InterruptStep, JoinEndsStep DEF ControlStep
<1>2. ASSUME NEW i \in Ids, LoopStep(i) PROVE IInv'
    BY <1>2, ListenerStartStep, CheckStopStep, RunOnceStep, WokenStep, ListenerStopStep,
        FinishStep, DieStep DEF LoopStep
<1>3. ASSUME NEW i \in Ids, FallbackPasses(i) PROVE IInv'
    BY <1>3, FallbackStep
<1>4. ASSUME NEW i \in Ids, EarStep(i) PROVE IInv'
    BY <1>4, EarStepStep
<1>5. CASE UNCHANGED vars
    BY <1>5 DEF vars, control, listener, IInv, TypeOK, HeldByController, StatusIsTheLoops,
        NewsIsHeard, Alive
<1>6. CASE Next
    <2>1. ControlStep \/ \E i \in Ids : LoopStep(i) \/ FallbackPasses(i) \/ EarStep(i)
        BY <1>6 DEF Next
    <2> QED BY <2>1, <1>1, <1>2, <1>3, <1>4
<1> QED BY <1>5, <1>6

\* The inductive invariant of a runner's threads holds in every behaviour.
THEOREM LoopInvariant == Spec => []IInv
    BY InitIInv, NextIInv, PTL DEF Spec

\* No start, stop or timed-out join of the controller ever gives the process a
\* second loop.
THEOREM SingleLoop == Spec => []OneLoop
<1>1. IInv => OneLoop
    BY DEF IInv, HeldByController, OneLoop
<1> QED BY <1>1, LoopInvariant, PTL

\* The status the controller shows is that of its loop thread.
THEOREM StatusIsTrue == Spec => []StatusIsTheLoops
<1>1. IInv => StatusIsTheLoops
    BY DEF IInv
<1> QED BY <1>1, LoopInvariant, PTL

\* A loop never goes to sleep over a notification or an interrupt.
THEOREM NoLostWakeUp == Spec => []NeverSleepsOnNews
<1>1. IInv => NeverSleepsOnNews
    BY DEF IInv, NewsIsHeard, NeverSleepsOnNews
<1> QED BY <1>1, LoopInvariant, PTL

\* The flags, thread references and program counters of the runner's threads
\* hold values of their types through every start, stop and interrupt.
THEOREM TypeCorrectness == Spec => []TypeOK
<1>1. IInv => TypeOK
    BY DEF IInv
<1> QED BY <1>1, LoopInvariant, PTL
=============================================================================
