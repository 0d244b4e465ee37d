----------------------------- MODULE RunnerLoop -----------------------------
(***************************************************************************)
(* The threads of a runner process: the control thread that starts and      *)
(* stops (RunnerLoopController, the tray's menu), the loop thread           *)
(* (run_runner_loop) and the wake listener's thread (WakeListener).         *)
(*                                                                          *)
(* Every read or write of what two threads share is a step of its own.      *)
(* run_once is one step that found work or not, or raised; what it does is  *)
(* TaskHubSystem's.  Sleeps end at any time, so time is left out.  Stop is  *)
(* the menu's Stop and the stop of its Exit.                                *)
(***************************************************************************)
EXTENDS Naturals, FiniteSets

CONSTANT MaxStarts      \* bound: loop threads ever started

ASSUME MaxStartsAssumption == MaxStarts \in Nat \ {0}

\* A loop thread has a number, and so has the listener thread it starts.
Ids == 1 .. MaxStarts
Nobody == 0

VARIABLES
    user,       \* where the control thread is: idle, interrupt or join
    status,     \* controller._status
    stopReq,    \* controller._stop_requested
    thread,     \* controller._thread
    loop,       \* loop threads: pc, whether run_once raised, stop's local app
    wake,       \* listener._wake
    lstop,      \* listener._stop
    lthread,    \* listener._thread
    active,     \* listener._active_app, named by the thread that made it
    ear,        \* listener threads: pc, and whether the app was told to close
    news        \* history: notified or interrupted since run_once last began

control == <<user, status, stopReq, thread>>
listener == <<lstop, lthread, active, ear>>
vars == <<control, loop, wake, listener, news>>

Alive(threads, i) == i # Nobody /\ threads[i].pc \notin {"new", "dead"}
Unused == {i \in Ids : loop[i].pc = "new"}

-----------------------------------------------------------------------------
(* The control thread.                                                      *)

\* start() does nothing while the previous thread lives.
Start ==
    /\ user = "idle" /\ Unused # {} /\ ~Alive(loop, thread)
    /\ stopReq' = FALSE /\ status' = "running"
    /\ thread' = CHOOSE i \in Unused : TRUE
    /\ loop' = [loop EXCEPT ![thread'].pc = "begin"]
    /\ UNCHANGED <<user, wake, listener, news>>

\* stop() up to the request, which the loop may see before the interrupt.
Stop ==
    /\ user = "idle"
    /\ status' = IF status = "running" THEN "stopping" ELSE status
    /\ stopReq' = TRUE
    /\ user' = "interrupt"
    /\ UNCHANGED <<thread, loop, wake, listener, news>>

\* Mutant: stop() leaves the loop to its fallback interval.
NoInterrupt ==
    /\ user = "interrupt" /\ user' = "join"
    /\ UNCHANGED <<status, stopReq, thread, loop, wake, listener, news>>

Interrupt ==
    /\ user = "interrupt" /\ user' = "join"
    /\ wake' = TRUE /\ news' = TRUE
    /\ UNCHANGED <<status, stopReq, thread, loop, listener>>

\* Mutant: stop() takes the join for the end of the thread.
JoinMeansStopped ==
    /\ user = "join" /\ user' = "idle"
    /\ thread' = Nobody /\ status' = IF status = "error" THEN status ELSE "stopped"
    /\ UNCHANGED <<stopReq, loop, wake, listener, news>>

\* The join ends with the thread or after its timeout.
JoinEnds ==
    /\ user = "join" /\ user' = "idle"
    /\ IF Alive(loop, thread) THEN UNCHANGED <<status, thread>>
       ELSE thread' = Nobody /\ status' = IF status = "error" THEN status ELSE "stopped"
    /\ UNCHANGED <<stopReq, loop, wake, listener, news>>

-----------------------------------------------------------------------------
(* The loop thread.                                                         *)

Go(i, from, to) == loop[i].pc = from /\ loop' = [loop EXCEPT ![i].pc = to]

\* wake_listener.start(): the listener that stop() gave up waiting for is no
\* longer known here.
ListenerStart(i) ==
    /\ Go(i, "begin", "check")
    /\ IF Alive(ear, lthread) THEN UNCHANGED listener
       ELSE /\ lstop' = FALSE
            /\ lthread' = i
            /\ ear' = [ear EXCEPT ![i].pc = "check"]
            /\ UNCHANGED active
    /\ UNCHANGED <<control, wake, news>>

CheckStop(i) ==
    /\ Go(i, "check", IF stopReq THEN "end" ELSE "poll")
    /\ news' = (news /\ stopReq)
    /\ UNCHANGED <<control, wake, listener>>

\* Mutant: wait() clears the flag before it waits.
RunOnceThenClears(i) ==
    /\ \/ Go(i, "poll", "check") /\ UNCHANGED wake
       \/ Go(i, "poll", "wait") /\ wake' = FALSE
    /\ UNCHANGED <<control, listener, news>>

RunOnce(i) ==
    /\ \/ \E to \in {"check", "wait"} : Go(i, "poll", to)
       \/ loop[i].pc = "poll" /\ loop' = [loop EXCEPT ![i].pc = "end", ![i].failed = TRUE]
    /\ UNCHANGED <<control, wake, listener, news>>

\* wait(): it returns when the flag is up, and then clears it.
Woken(i) ==
    /\ \/ Go(i, "wait", "woken") /\ wake /\ UNCHANGED wake
       \/ Go(i, "woken", "check") /\ wake' = FALSE
    /\ UNCHANGED <<control, listener, news>>

FallbackPasses(i) == Go(i, "wait", "check") /\ UNCHANGED <<control, wake, listener, news>>

\* wake_listener.stop(): the flags, then the app if there is one, then the join.
ListenerStop(i) ==
    /\ Go(i, "end", "close")
    /\ lstop' = TRUE /\ wake' = TRUE
    /\ UNCHANGED <<control, lthread, active, ear, news>>
ReadApp(i) ==
    /\ loop[i].pc = "close"
    /\ loop' = [loop EXCEPT ![i].pc = "closing", ![i].app = active]
    /\ UNCHANGED <<control, wake, listener, news>>
\* close() ends a running app; run_forever has not begun in a published one and
\* forgets it.
CloseApp(i) ==
    /\ Go(i, "closing", "join")
    /\ ear' = [j \in Ids |-> IF j = loop[i].app /\ ear[j].pc \in {"dialing", "open"}
                             THEN [ear[j] EXCEPT !.closed = TRUE] ELSE ear[j]]
    /\ UNCHANGED <<control, wake, lstop, lthread, active, news>>
\* The join ends with the thread, or by its timeout while the thread is held up
\* in run_forever; elsewhere it ends at once.
ListenerJoinEnds(i) ==
    /\ Go(i, "join", "finish")
    /\ Alive(ear, lthread) => ear[lthread].pc \in {"dialing", "open"}
    /\ lthread' = Nobody
    /\ UNCHANGED <<control, wake, lstop, active, ear, news>>

\* Mutant: an error leaves the status as it was.
FinishQuietly(i) ==
    /\ user # "interrupt" /\ Go(i, "finish", "dying")
    /\ status' = IF loop[i].failed THEN status ELSE "stopped"
    /\ UNCHANGED <<user, stopReq, thread, wake, listener, news>>

\* Mutant: a status no reader knows.
FinishFailed(i) ==
    /\ user # "interrupt" /\ Go(i, "finish", "dying")
    /\ status' = IF loop[i].failed THEN "failed" ELSE "stopped"
    /\ UNCHANGED <<user, stopReq, thread, wake, listener, news>>

\* The status is set under the lock that stop() holds up to the interrupt; the
\* thread lives a little longer.
Finish(i) ==
    /\ user # "interrupt" /\ Go(i, "finish", "dying")
    /\ status' = IF loop[i].failed THEN "error" ELSE "stopped"
    /\ UNCHANGED <<user, stopReq, thread, wake, listener, news>>
Die(i) == Go(i, "dying", "dead") /\ UNCHANGED <<control, wake, listener, news>>

-----------------------------------------------------------------------------
(* The listener's thread (WakeListener._run).                               *)

EarGo(i, from, to) ==
    /\ ear[i].pc = from /\ ear' = [ear EXCEPT ![i].pc = to]
    /\ UNCHANGED <<control, loop, lstop, lthread>>

EarChecks(i) ==
    /\ EarGo(i, "check", IF lstop THEN "dead" ELSE "make") /\ UNCHANGED <<wake, active, news>>
\* The factory raises where websocket-client is missing: the thread ends.
MakeApp(i) ==
    /\ \E to \in {"made", "dead"} : EarGo(i, "make", to)
    /\ UNCHANGED <<wake, active, news>>
Publish(i) == EarGo(i, "made", "published") /\ active' = i /\ UNCHANGED <<wake, news>>
RunForever(i) == EarGo(i, "published", "dialing") /\ UNCHANGED <<wake, active, news>>
Opens(i) == ~ear[i].closed /\ EarGo(i, "dialing", "open") /\ UNCHANGED <<wake, active, news>>
Message(i) ==
    /\ EarGo(i, "open", "open") /\ ~ear[i].closed
    /\ wake' = TRUE /\ news' = TRUE /\ UNCHANGED active
Returns(i) ==
    /\ ear[i].pc \in {"dialing", "open"}
    /\ ear' = [ear EXCEPT ![i].pc = "returned", ![i].closed = FALSE]
    /\ UNCHANGED <<control, loop, wake, lstop, lthread, active, news>>
Unpublish(i) ==
    /\ EarGo(i, "returned", IF lstop THEN "dead" ELSE "pause")
    /\ active' = IF active = i THEN Nobody ELSE active
    /\ UNCHANGED <<wake, news>>
PauseEnds(i) == EarGo(i, "pause", "check") /\ UNCHANGED <<wake, active, news>>

-----------------------------------------------------------------------------
Init ==
    /\ user = "idle" /\ status = "stopped" /\ stopReq = FALSE /\ thread = Nobody
    /\ loop = [i \in Ids |-> [pc |-> "new", failed |-> FALSE, app |-> Nobody]]
    /\ wake = FALSE /\ lstop = FALSE /\ lthread = Nobody /\ active = Nobody
    /\ ear = [i \in Ids |-> [pc |-> "new", closed |-> FALSE]]
    /\ news = FALSE

ControlStep == Start \/ Stop \/ Interrupt \/ JoinEnds
\* What a loop thread does without the fallback interval.
LoopStep(i) ==
    \/ ListenerStart(i) \/ CheckStop(i) \/ RunOnce(i) \/ Woken(i)
    \/ ListenerStop(i) \/ ReadApp(i) \/ CloseApp(i) \/ ListenerJoinEnds(i)
    \/ Finish(i) \/ Die(i)
EarStep(i) ==
    \/ EarChecks(i) \/ MakeApp(i) \/ Publish(i) \/ RunForever(i) \/ Opens(i)
    \/ Message(i) \/ Returns(i) \/ Unpublish(i) \/ PauseEnds(i)

Next == ControlStep \/ \E i \in Ids : LoopStep(i) \/ FallbackPasses(i) \/ EarStep(i)

\* The threads run on, and a loop that ends gets the lock some time between two
\* stops.  Nobody must start or stop, and the fallback interval need not pass.
Spec ==
    /\ Init /\ [][Next]_vars
    /\ WF_vars(Interrupt) /\ WF_vars(JoinEnds)
    /\ \A i \in Ids : WF_vars(LoopStep(i)) /\ SF_vars(Finish(i)) /\ WF_vars(EarStep(i))

-----------------------------------------------------------------------------
(* Properties.                                                              *)

LoopPcs == {"new", "begin", "check", "poll", "wait", "woken", "end", "close", "closing",
            "join", "finish", "dying", "dead"}
EarPcs == {"new", "check", "make", "made", "published", "dialing", "open", "returned",
           "pause", "dead"}

TypeOK ==
    /\ user \in {"idle", "interrupt", "join"}
    /\ status \in {"stopped", "running", "stopping", "error"}
    /\ stopReq \in BOOLEAN /\ wake \in BOOLEAN /\ lstop \in BOOLEAN /\ news \in BOOLEAN
    /\ {thread, lthread, active} \subseteq Ids \cup {Nobody}
    /\ loop \in [Ids -> [pc : LoopPcs, failed : BOOLEAN, app : Ids \cup {Nobody}]]
    /\ ear \in [Ids -> [pc : EarPcs, closed : BOOLEAN]]

\* A process has one loop, however starts, stops that time out and errors
\* follow each other (RunnerLoopController.start and stop).
OneLoop == \A i, j \in Ids : Alive(loop, i) /\ Alive(loop, j) => i = j

\* The status the tray shows is the loop's: "running" is a loop nobody asked to
\* stop, "stopped" and "error" are none (start, stop, _run_loop).
StatusIsTheLoops ==
    /\ status = "running" =>
          /\ Alive(loop, thread) /\ ~stopReq
          /\ loop[thread].pc # "dying"
    /\ status \in {"stopped", "error"} => \A i \in Ids : loop[i].pc \in {"new", "dying", "dead"}

\* The loop never sleeps on a notification or an interrupt that came after its
\* last claim began (WakeListener.wait clears the flag after the wait).
NeverSleepsOnNews == news => \A i \in Ids : loop[i].pc = "wait" => wake

\* A requested stop ends the loop without waiting for the fallback interval
\* (stop sets the request before it interrupts).
StopEnds == stopReq ~> \A i \in Ids : ~Alive(loop, i)

\* windows/README.md: the tray process "keeps one outbound wss:// connection".
OneConnection ==
    Cardinality({i \in Ids : ear[i].pc \in {"dialing", "open"}}) <= 1
=============================================================================
