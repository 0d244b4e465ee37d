---------------------------- MODULE AdminConsole ----------------------------
(***************************************************************************)
(* The script of the /admin page (src/worker/admin-page.ts): session,       *)
(* concurrent API calls whose answers come in any order or fail, refresh,   *)
(* the realtime socket with its reconnect timer, and tab visibility.        *)
(*                                                                          *)
(* The script numbers sessions and requests and compares the number a call  *)
(* was made under with the current one.  Only that comparison matters: a    *)
(* call carries its outcome, "fresh" (same session) and "latest" (no later  *)
(* request of its kind), and starting a session or a request clears it.     *)
(*                                                                          *)
(* The functions of the script are operators from a page to a page, so that *)
(* what runs in one turn of the event loop is one step.  The hub is the set *)
(* of online runners; that its events agree with it is RunnerHub's          *)
(* AnnouncedIsPresence.  Left out: rendering, pagination cursors, the       *)
(* status filter, back-off delays, connection labels, and the list of       *)
(* runners: loadRunners is in a refresh what loadPresence is, a request     *)
(* whose failure shows no error.                                            *)
(***************************************************************************)
EXTENDS Naturals, Sequences, FiniteSets, Bags

CONSTANTS
    Runners,    \* runner ids
    Tasks,      \* task ids
    All,        \* the empty runner filter
    None,       \* nothing shown, selected or answered
    MaxCalls,   \* bound: API calls in flight
    MaxWire     \* bound: events on their way to the page

ASSUME ConsoleAssumption ==
    /\ All \notin Runners /\ None \notin Runners /\ None # All /\ None \notin Tasks
    /\ Runners \cap Tasks = {}
    /\ MaxCalls \in Nat /\ MaxWire \in Nat

VARIABLES
    hub,        \* the runners GET /api/admin/presence answers
    page        \* the page

vars == <<hub, page>>

Kinds == {"presence", "tasks", "detail", "ticket", "selfcheck"}
Call == [kind : Kinds, of : Runners \cup Tasks \cup {All, None}, fresh : BOOLEAN,
         latest : BOOLEAN, refreshing : BOOLEAN, answer : {None} \cup SUBSET Runners]

Event == [about : Runners \cup Tasks, online : BOOLEAN]
\* stage accepted: the hub has the socket, onopen has not run.  mine: the
\* session the socket was made in is still the current one.
Socket == [stage : {"none", "connecting", "accepted", "open"}, mine : BOOLEAN,
           wire : Seq(Event)]
NoSocket == [stage |-> "none", mine |-> FALSE, wire |-> <<>>]

\* Of state and the DOM: token, app (the app is shown, the sign-in form is
\* not), hidden (document.hidden), filter (selectedRunnerId), rows (the filter
\* the task rows were loaded for), banner (task-error), selected (task),
\* detail (the task the detail pane shows), online, socket, timer, refresh
\* (refreshPromise, and whether connect() waits for it), calls (a bag).
Blank == [token |-> FALSE, app |-> FALSE, hidden |-> FALSE, filter |-> All, rows |-> None,
          banner |-> FALSE, selected |-> None, detail |-> None, online |-> {},
          socket |-> NoSocket, timer |-> FALSE, refresh |-> "none", calls |-> EmptyBag]

-----------------------------------------------------------------------------
(* The functions of the script.                                             *)

\* Every call c in flight becomes f[c]; calls that are now alike are counted
\* together (BagOfAll, without a recursive sum).
Copies(calls, S) == UNION {{c} \X (1 .. calls[c]) : c \in S}
Changed(calls, f) ==
    IF \A c \in DOMAIN calls : f[c] = c THEN calls
    ELSE [d \in {f[c] : c \in DOMAIN calls} |->
             Cardinality(Copies(calls, {c \in DOMAIN calls : f[c] = d}))]

\* api(): the request goes out; an earlier one of its kind is not the latest.
Issue(p, kind, of, refreshing) ==
    LET older == [c \in BagToSet(p.calls) |->
                     IF c.kind = kind THEN [c EXCEPT !.latest = FALSE] ELSE c]
        call == [kind |-> kind, of |-> of, fresh |-> TRUE, latest |-> TRUE,
                 refreshing |-> refreshing, answer |-> None]
    IN  [p EXCEPT !.calls = Changed(@, older) (+) SetToBag({call})]

LoadTasks(p) == Issue(p, "tasks", p.filter, FALSE)

\* Mutant: the detail pane keeps the last task until the next one is there.
SelectTaskKeeps(p, t) == Issue([p EXCEPT !.selected = t], "detail", t, FALSE)

SelectTask(p, t) == Issue([p EXCEPT !.selected = t, !.detail = None], "detail", t, FALSE)

\* refreshAll(): a refresh of this session that is under way is shared.
RefreshAll(p, kind) ==
    IF p.refresh # "none" THEN p
    ELSE [Issue(Issue(p, "presence", None, TRUE), "tasks", p.filter, TRUE)
              EXCEPT !.refresh = kind]

\* sessionEpoch += 1
NewSession(p) ==
    LET stale == [c \in BagToSet(p.calls) |->
                     [c EXCEPT !.fresh = FALSE, !.latest = FALSE, !.refreshing = FALSE,
                               !.of = None, !.answer = None]]
    IN  [p EXCEPT !.calls = Changed(@, stale), !.refresh = "none", !.socket.mine = FALSE]

\* Mutant: the reconnect timer is left running.
CloseRealtimeKeepsTimer(p) == [p EXCEPT !.socket = NoSocket]

CloseRealtime(p) == [p EXCEPT !.timer = FALSE, !.socket = NoSocket]

\* Mutant: signing out leaves the running requests their session.
SignOutSameSession(p) ==
    [CloseRealtime(p) EXCEPT !.token = FALSE, !.app = FALSE, !.online = {},
        !.rows = None, !.filter = All, !.selected = None, !.detail = None]

\* Mutant: no runner is selected, which is not the empty filter.
SignOutUnfiltered(p) ==
    [CloseRealtime(NewSession(p)) EXCEPT !.token = FALSE, !.app = FALSE, !.online = {},
        !.rows = None, !.filter = None, !.selected = None, !.detail = None]

\* signOut()
SignOut(p) ==
    [CloseRealtime(NewSession(p)) EXCEPT !.token = FALSE, !.app = FALSE, !.online = {},
        !.rows = None, !.filter = All, !.selected = None, !.detail = None]

ConnectRealtime(p) ==
    IF p.token /\ ~p.hidden /\ p.socket.stage = "none"
    THEN Issue(p, "ticket", None, FALSE) ELSE p

ScheduleReconnect(p) == [p EXCEPT !.timer = p.token /\ ~p.hidden]

\* Promise.all of refreshAll: it fails with its first part and succeeds with
\* its last; connect() then shows the app and connects.
RefreshFails(p) ==
    LET alone == [c \in BagToSet(p.calls) |-> [c EXCEPT !.refreshing = FALSE]]
    IN  [p EXCEPT !.refresh = "none", !.calls = Changed(@, alone)]
RefreshPartDone(p) ==
    IF \E c \in BagToSet(p.calls) : c.refreshing THEN p
    ELSE LET q == [p EXCEPT !.refresh = "none"]
         IN  IF p.refresh = "connect" THEN ConnectRealtime([q EXCEPT !.app = TRUE]) ELSE q

-----------------------------------------------------------------------------
(* What a call's answer does; p is the page without the call.               *)

\* 401 signs out, unless it comes from an earlier session.  Only the
\* self-check then still shows its error.
Unauthorized(p, c) ==
    LET q == IF c.fresh THEN SignOut(p) ELSE p
    IN  IF c.kind = "selfcheck" THEN [q EXCEPT !.banner = TRUE] ELSE q

\* A network error or an error status.
Refused(p, c) ==
    LET current == c.fresh /\ c.latest
        shown == IF c.kind = "selfcheck" \/ (c.kind = "tasks" /\ current)
                 THEN [p EXCEPT !.banner = TRUE] ELSE p
    IN  CASE c.kind = "ticket" -> IF c.fresh THEN ScheduleReconnect(p) ELSE p
          [] c.refreshing /\ c.kind = "tasks" /\ ~current -> RefreshPartDone(p)
          [] c.refreshing /\ (c.kind = "presence" \/ (c.kind = "tasks" /\ current)) ->
                 RefreshFails(shown)
          [] OTHER -> shown

\* Mutant: the answer is taken without a look at the request generation.
AnsweredAnyOrder(p, c) ==
    LET current == c.fresh
        q == CASE c.kind = "presence" /\ c.fresh -> [p EXCEPT !.online = c.answer]
               [] c.kind = "tasks" /\ current -> [p EXCEPT !.rows = c.of, !.banner = FALSE]
               [] c.kind = "detail" /\ current /\ c.of = p.selected -> [p EXCEPT !.detail = c.of]
               [] c.kind = "ticket" /\ c.fresh /\ ~p.hidden /\ p.socket.stage = "none" ->
                      [p EXCEPT !.socket = [NoSocket EXCEPT !.stage = "connecting", !.mine = TRUE]]
               [] c.kind = "selfcheck" -> LoadTasks(p)
               [] OTHER -> p
    IN  IF c.refreshing THEN RefreshPartDone(q) ELSE q

\* A good answer.  A ticket is used only if it still finds the tab visible and
\* no socket; the self-check's continuation looks at no session.
Answered(p, c) ==
    LET current == c.fresh /\ c.latest
        q == CASE c.kind = "presence" /\ c.fresh -> [p EXCEPT !.online = c.answer]
               [] c.kind = "tasks" /\ current -> [p EXCEPT !.rows = c.of, !.banner = FALSE]
               [] c.kind = "detail" /\ current /\ c.of = p.selected -> [p EXCEPT !.detail = c.of]
               [] c.kind = "ticket" /\ c.fresh /\ ~p.hidden /\ p.socket.stage = "none" ->
                      [p EXCEPT !.socket = [NoSocket EXCEPT !.stage = "connecting", !.mine = TRUE]]
               [] c.kind = "selfcheck" -> LoadTasks(p)
               [] OTHER -> p
    IN  IF c.refreshing THEN RefreshPartDone(q) ELSE q

-----------------------------------------------------------------------------
(* The steps.                                                               *)

Init ==
    /\ hub \in SUBSET Runners
    /\ \E token, hidden \in BOOLEAN :
          LET p == [Blank EXCEPT !.token = token, !.hidden = hidden]
          IN  page = IF token THEN RefreshAll(p, "connect") ELSE p

\* One copy less of c.
Without(calls, c) ==
    IF calls[c] > 1 THEN [calls EXCEPT ![c] = @ - 1]
    ELSE [d \in BagToSet(calls) \ {c} |-> calls[d]]

Become(p) == page' = p /\ BagCardinality(p.calls) <= MaxCalls /\ UNCHANGED hub

\* The sign-in form.
Submit == /\ ~page.app
          /\ Become(RefreshAll([NewSession(page) EXCEPT !.token = TRUE], "connect"))

ClickSignOut == page.app /\ Become(SignOut(page))
ClickRefresh == page.app /\ Become(RefreshAll(page, "click"))
ChooseRunner(r) == page.app /\ Become(LoadTasks([page EXCEPT !.filter = r]))
ChooseTask(t) == page.app /\ page.rows # None /\ Become(SelectTask(page, t))
\* The click disables the button, and any renderRunners enables it again while
\* the request is under way.
RunSelfcheck ==
    /\ page.app /\ page.filter # All
    /\ Become(Issue(page, "selfcheck", None, FALSE))

VisibilityChange ==
    IF page.hidden
    THEN LET p == [page EXCEPT !.hidden = FALSE]
         IN  Become(IF p.token THEN ConnectRealtime(RefreshAll(p, "click")) ELSE p)
    ELSE Become(CloseRealtime([page EXCEPT !.hidden = TRUE]))

Timer == page.timer /\ Become(ConnectRealtime([page EXCEPT !.timer = FALSE]))

\* The Worker answers presence with what the hub has at that moment.
PresenceRead(c) ==
    /\ c.kind = "presence" /\ c.answer = None /\ c.fresh
    /\ Become([page EXCEPT !.calls = Without(@, c) (+) SetToBag({[c EXCEPT !.answer = hub]})])

Response(c) ==
    LET p == [page EXCEPT !.calls = Without(@, c)]
    IN  \/ /\ c.kind = "presence" /\ c.fresh => c.answer # None
           /\ c.fresh => page.token
           /\ Become(Answered(p, c))
        \/ Become(Refused(p, c))
        \/ Become(Unauthorized(p, c))

SetSocket(s) == [page EXCEPT !.socket = s]
HubAccepts ==
    /\ page.socket.stage = "connecting"
    /\ Become([page EXCEPT !.socket.stage = "accepted"])
SocketOpens ==
    /\ page.socket.stage = "accepted"
    /\ LET p == [page EXCEPT !.socket.stage = "open"]
       IN  Become(IF p.socket.mine THEN RefreshAll(p, "click") ELSE p)

\* Mutant: a lost socket is not replaced.
SocketClosesQuietly ==
    /\ page.socket.stage # "none"
    /\ Become([page EXCEPT !.socket = NoSocket])

SocketCloses ==
    /\ page.socket.stage # "none"
    /\ Become(ScheduleReconnect([page EXCEPT !.socket = NoSocket]))

\* handleRealtimeEvent
Handle(p, e) ==
    IF e.about \in Runners
    THEN [p EXCEPT !.online = IF e.online THEN @ \cup {e.about} ELSE @ \ {e.about}]
    ELSE LET q == LoadTasks(p)
         IN  IF e.about = p.selected THEN SelectTask(q, e.about) ELSE q

Message ==
    /\ page.socket.stage = "open" /\ page.socket.wire # <<>>
    /\ LET p == [page EXCEPT !.socket.wire = Tail(@)]
       IN  Become(IF p.socket.mine THEN Handle(p, Head(page.socket.wire)) ELSE p)

\* broadcastAdminEvent reaches the socket once the hub has accepted it.
Broadcast(e) ==
    IF page.socket.stage \in {"accepted", "open"}
    THEN /\ Len(page.socket.wire) < MaxWire
         /\ page' = [page EXCEPT !.socket.wire = Append(@, e)]
    ELSE UNCHANGED page
RunnerChanges(r) ==
    /\ hub' = IF r \in hub THEN hub \ {r} ELSE hub \cup {r}
    /\ Broadcast([about |-> r, online |-> r \notin hub])
TaskChanges(t) ==
    /\ page.socket.stage \in {"accepted", "open"}
    /\ Broadcast([about |-> t, online |-> FALSE])
    /\ UNCHANGED hub

Next ==
    \/ Submit \/ ClickSignOut \/ ClickRefresh \/ RunSelfcheck \/ VisibilityChange \/ Timer
    \/ \E r \in Runners \cup {All} : ChooseRunner(r)
    \/ \E t \in Tasks : ChooseTask(t) \/ TaskChanges(t)
    \/ \E c \in BagToSet(page.calls) : PresenceRead(c) \/ Response(c)
    \/ HubAccepts \/ SocketOpens \/ SocketCloses \/ Message
    \/ \E r \in Runners : RunnerChanges(r)

Spec == Init /\ [][Next]_vars

-----------------------------------------------------------------------------
(* Properties.                                                              *)

PageTyped(p) ==
    /\ p \in [token : BOOLEAN, app : BOOLEAN, hidden : BOOLEAN, filter : Runners \cup {All},
              rows : Runners \cup {All, None}, banner : BOOLEAN,
              selected : Tasks \cup {None}, detail : Tasks \cup {None},
              online : SUBSET Runners, socket : Socket, timer : BOOLEAN,
              refresh : {"none", "click", "connect"}, calls : {p.calls}]
    /\ IsABag(p.calls) /\ IsFiniteSet(BagToSet(p.calls)) /\ BagToSet(p.calls) \subseteq Call
TypeOK == hub \subseteq Runners /\ PageTyped(page)

Current(kind) ==
    \E c \in BagToSet(page.calls) : c.kind = kind /\ c.fresh /\ c.latest

\* A signed-out page shows and keeps nothing of the session, whichever calls,
\* timers and sockets were under way when it ended (signOut, sessionEpoch).
SignedOutShowsNothing ==
    ~page.token =>
        /\ page.online = {} /\ page.rows = None /\ page.detail = None
        /\ page.socket = NoSocket /\ ~page.timer /\ ~page.app

\* A hidden tab holds no socket and no timer, however ticket requests, closing
\* sockets and visibility changes interleave (closeRealtime, connectRealtime).
QuietWhenHidden == page.hidden => page.socket = NoSocket /\ ~page.timer

\* A visible, signed-in console has a socket, is getting one, or will try
\* again: no failure or race leaves it without (scheduleReconnect).
KeepsConnecting ==
    page.app /\ ~page.hidden =>
        \/ page.socket # NoSocket \/ page.timer
        \/ \E c \in BagToSet(page.calls) : c.kind = "ticket" /\ c.fresh

\* The task rows are those of the chosen filter, or newer rows are on their
\* way, or an error is shown: no late answer brings back rows of another
\* filter (taskRequestGeneration).
RowsMatchFilter ==
    page.app => page.rows = page.filter \/ page.banner \/ Current("tasks")

\* The detail pane never shows another task than the selected one
\* (detailRequestGeneration).
DetailIsSelected == page.detail \in {None, page.selected}

Settled ==
    /\ page.app /\ page.socket.stage = "open" /\ page.socket.wire = <<>>
    /\ ~\E c \in BagToSet(page.calls) : c.fresh

\* README: "The Admin Console uses the Durable Object's live WebSocket presence
\* as the authoritative online indicator".  With nothing under way it shows
\* what the hub has.
ShowsLivePresence == Settled => page.online = hub
-----------------------------------------------------------------------------
(* The inductive invariant behind the properties above, part by part of a   *)
(* page, so that it can be followed through the functions of the script.    *)

CurrentOf(p, kind) == \E c \in BagToSet(p.calls) : c.kind = kind /\ c.fresh /\ c.latest

\* Without a session nothing is kept, and no refresh is under way that would
\* show the app when its last part is done.
BlankWithoutSession(p) ==
    ~p.token =>
        /\ p.online = {} /\ p.rows = None /\ p.detail = None
        /\ p.socket = NoSocket /\ ~p.timer /\ ~p.app /\ p.refresh = "none"
        /\ \A c \in BagToSet(p.calls) : ~c.refreshing

Quiet(p) == p.hidden => p.socket = NoSocket /\ ~p.timer

Connects(p) ==
    p.app /\ ~p.hidden =>
        \/ p.socket # NoSocket \/ p.timer
        \/ \E c \in BagToSet(p.calls) : c.kind = "ticket" /\ c.fresh

\* The request whose rows would be shown asks for the chosen filter ...
RowsAskedMatch(p) ==
    \A c \in BagToSet(p.calls) : c.kind = "tasks" /\ c.fresh /\ c.latest => c.of = p.filter

\* ... and the rows are of that filter or on their way already while the
\* refresh is under way after which the app is shown.
RowsFollow(p) ==
    p.app \/ p.refresh = "connect" => p.rows = p.filter \/ p.banner \/ CurrentOf(p, "tasks")

DetailFollows(p) == p.detail \in {None, p.selected}

Sound(p) ==
    /\ PageTyped(p) /\ BlankWithoutSession(p) /\ Quiet(p)
    /\ RowsAskedMatch(p) /\ DetailFollows(p)

IInv == hub \subseteq Runners /\ Sound(page) /\ Connects(page) /\ RowsFollow(page)
=============================================================================
