------------------------------ MODULE RunnerHub ------------------------------
(***************************************************************************)
(* The Durable Object of src/worker/runner-hub.ts: the WebSockets of the    *)
(* runners and of the admin consoles, presence, and the events sent on      *)
(* them.  The object runs one handler at a time and keeps nothing in        *)
(* memory: what it knows is the list of sockets the runtime gives it, their *)
(* tags and their attachments, so hibernation is invisible here.            *)
(***************************************************************************)
EXTENDS Naturals, FiniteSets

CONSTANTS
    Runners,    \* runner ids
    Conns,      \* the connections runners will make
    Admins,     \* the connections admin consoles will make
    OwnerOf,    \* the runner of each connection
    TagOf,      \* runnerTag: a runner id cut to the length of a tag
    Null,       \* no attachment
    Admin,      \* the attachment of an admin
    Untold      \* an admin that had no event about a runner yet

Sockets == Conns \cup Admins

ASSUME HubAssumption ==
    /\ OwnerOf \in [Conns -> Runners]
    /\ Conns \cap Admins = {}
    /\ Null \notin Runners /\ Admin \notin Runners /\ Null # Admin
    /\ Untold \notin BOOLEAN

VARIABLES
    sock,       \* the runtime's view of a socket
    attachment, \* serializeAttachment
    told,       \* history: the last presence event each admin was sent
    woken,      \* history: whose task_available events a connection was sent
    newest      \* history: the last connection accepted for each runner

vars == <<sock, attachment, told, woken, newest>>

\* new: not accepted yet.  closing: one side has closed it, and the handler of
\* that has not run.  gone: the runtime does not list it any more.
SocketState == {"new", "open", "closing", "gone"}

Init ==
    /\ sock = [s \in Sockets |-> "new"]
    /\ attachment = [s \in Sockets |-> Null]
    /\ told = [a \in Admins |-> [r \in Runners |-> Untold]]
    /\ woken = [c \in Conns |-> {}]
    /\ newest = [r \in Runners |-> Null]

\* getWebSockets lists a socket until its close handler has run.
Listed(s) == sock[s] \in {"open", "closing"}
OpenAdmins == {a \in Admins : sock[a] = "open"}

\* Mutant: the tag decides, whatever id the attachment holds.
RunnerSocketsByTag(r) ==
    {c \in Conns : Listed(c) /\ TagOf[OwnerOf[c]] = TagOf[r] /\ attachment[c] # Null}

\* Two ids may share a tag; the attachment tells them apart.
RunnerSockets(r) ==
    {c \in Conns : Listed(c) /\ TagOf[OwnerOf[c]] = TagOf[r] /\ attachment[c] = r}

\* getPresence
Online == {attachment[c] : c \in {d \in Conns : Listed(d) /\ attachment[d] # Null}}

\* close() on every socket of S.
Closed(S) == [s \in Sockets |-> IF s \in S THEN "closing" ELSE sock[s]]

\* broadcastAdminEvent, of a presence event, as far as it gets through.
Announce(S, r, online) ==
    told' = [a \in Admins |-> IF a \in S THEN [told[a] EXCEPT ![r] = online] ELSE told[a]]

-----------------------------------------------------------------------------
(* Connections.                                                             *)

\* Mutant: the attachment holds the tag of the runner, not its id.
AcceptRunnerTagged(c) ==
    /\ sock[c] = "new"
    /\ LET r == OwnerOf[c]
       IN  /\ \E failed \in SUBSET OpenAdmins :
                 /\ sock' = [Closed(RunnerSockets(r) \cup failed) EXCEPT ![c] = "open"]
                 /\ Announce(OpenAdmins \ failed, r, TRUE)
           /\ attachment' = [attachment EXCEPT ![c] = TagOf[r]]
           /\ newest' = [newest EXCEPT ![r] = c]
    /\ UNCHANGED woken

\* Mutant: the connection that is replaced keeps its attachment.
AcceptRunnerBeside(c) ==
    /\ sock[c] = "new"
    /\ LET r == OwnerOf[c]
       IN  /\ \E failed \in SUBSET OpenAdmins :
                 /\ sock' = [Closed(RunnerSockets(r) \cup failed) EXCEPT ![c] = "open"]
                 /\ Announce(OpenAdmins \ failed, r, TRUE)
           /\ attachment' = [attachment EXCEPT ![c] = r]
           /\ newest' = [newest EXCEPT ![r] = c]
    /\ UNCHANGED woken

\* The older connections of the runner are disowned and closed.
AcceptRunner(c) ==
    /\ sock[c] = "new"
    /\ LET r == OwnerOf[c]
       IN  /\ \E failed \in SUBSET OpenAdmins :
                 /\ sock' = [Closed(RunnerSockets(r) \cup failed) EXCEPT ![c] = "open"]
                 /\ Announce(OpenAdmins \ failed, r, TRUE)
           /\ attachment' = [s \in Sockets |->
                 IF s = c THEN r ELSE IF s \in RunnerSockets(r) THEN Null ELSE attachment[s]]
           /\ newest' = [newest EXCEPT ![r] = c]
    /\ UNCHANGED woken

AcceptAdmin(a) ==
    /\ sock[a] = "new"
    /\ sock' = [sock EXCEPT ![a] = "open"]
    /\ attachment' = [attachment EXCEPT ![a] = Admin]
    /\ UNCHANGED <<told, woken, newest>>

\* Is s the last connection of a runner that is still its runner's?
LastOfRunner(s) ==
    /\ s \in Conns
    /\ attachment[s] # Null
    /\ RunnerSockets(attachment[s]) \subseteq {s}

\* Mutant: any disconnection is announced, also that of a replaced socket.
DisconnectedAnnounces(s, then) ==
    /\ attachment' = [attachment EXCEPT ![s] = Null]
    /\ IF s \in Conns
       THEN \E failed \in SUBSET OpenAdmins :
               /\ sock' = [Closed(failed) EXCEPT ![s] = then]
               /\ Announce(OpenAdmins \ failed, OwnerOf[s], FALSE)
       ELSE /\ sock' = [sock EXCEPT ![s] = then]
            /\ UNCHANGED told
    /\ UNCHANGED <<woken, newest>>

\* handleDisconnectedSocket: whoever was the runner's last goes offline.
Disconnected(s, then) ==
    /\ attachment' = [attachment EXCEPT ![s] = Null]
    /\ IF LastOfRunner(s)
       THEN \E failed \in SUBSET OpenAdmins :
               /\ sock' = [Closed(failed) EXCEPT ![s] = then]
               /\ Announce(OpenAdmins \ failed, attachment[s], FALSE)
       ELSE /\ sock' = [sock EXCEPT ![s] = then]
            /\ UNCHANGED told
    /\ UNCHANGED <<woken, newest>>

WebSocketClose(s) == sock[s] = "closing" /\ Disconnected(s, "gone")

\* webSocketError also closes the socket; its close handler comes later.
WebSocketError(s) == Listed(s) /\ Disconnected(s, "closing")

-----------------------------------------------------------------------------
(* Events.                                                                  *)

\* sendEvent: the send to an open socket may throw, that to a closing one
\* does; such a socket is closed, and keeps its attachment until its handler.
NotifyTaskAvailable(r) ==
    \E failed \in SUBSET RunnerSockets(r) :
        /\ {c \in RunnerSockets(r) : sock[c] = "closing"} \subseteq failed
        /\ sock' = Closed(failed)
        /\ woken' = [c \in Conns |-> IF c \in RunnerSockets(r) \ failed
                                     THEN woken[c] \cup {r} ELSE woken[c]]
        /\ UNCHANGED <<attachment, told, newest>>

\* A task_changed event; what matters here is whom its sends disconnect.
BroadcastTaskChanged ==
    \E failed \in SUBSET OpenAdmins :
        /\ failed # {}
        /\ sock' = Closed(failed)
        /\ UNCHANGED <<attachment, told, woken, newest>>

-----------------------------------------------------------------------------
(* The network and the runtime.                                             *)

PeerLeaves(s) ==
    /\ sock[s] = "open"
    /\ sock' = Closed({s})
    /\ UNCHANGED <<attachment, told, woken, newest>>

\* A deployment ends the object and all its sockets; no handler runs.
Redeploy ==
    /\ \E s \in Sockets : Listed(s)
    /\ sock' = [s \in Sockets |-> IF Listed(s) THEN "gone" ELSE sock[s]]
    /\ attachment' = [s \in Sockets |-> Null]
    /\ UNCHANGED <<told, woken, newest>>

Next ==
    \/ \E c \in Conns : AcceptRunner(c)
    \/ \E a \in Admins : AcceptAdmin(a)
    \/ \E s \in Sockets : WebSocketClose(s) \/ WebSocketError(s) \/ PeerLeaves(s)
    \/ \E r \in Runners : NotifyTaskAvailable(r)
    \/ BroadcastTaskChanged
    \/ Redeploy

Spec == Init /\ [][Next]_vars

-----------------------------------------------------------------------------
(* Properties.                                                              *)

TypeOK ==
    /\ sock \in [Sockets -> SocketState]
    /\ attachment \in [Sockets -> Runners \cup {Null, Admin}]
    /\ told \in [Admins -> [Runners -> BOOLEAN \cup {Untold}]]
    /\ woken \in [Conns -> SUBSET Runners]
    /\ newest \in [Runners -> Conns \cup {Null}]

\* What an admin that is still connected was last told about a runner is what
\* GET /presence answers: no order of replacements, late close events, errors
\* and failed sends leaves the event stream at odds with the snapshot.
AnnouncedIsPresence ==
    \A a \in OpenAdmins, r \in Runners :
        told[a][r] # Untold => told[a][r] = (r \in Online)

\* Only the newest connection of a runner stands for it, with that runner's
\* id: a replaced socket, however late it closes, neither keeps its runner
\* online nor receives its events (acceptRunner, handleDisconnectedSocket).
NewestStandsForRunner ==
    \A c \in Conns : attachment[c] # Null =>
        attachment[c] = OwnerOf[c] /\ newest[OwnerOf[c]] = c /\ Listed(c)

\* A task_available event reaches no other runner, also when two ids share
\* their tag (runner-hub.test.ts "bounds Runner tags while preserving exact
\* targeted lookup").
OwnTasksOnly == \A c \in Conns : woken[c] \subseteq {OwnerOf[c]}
=============================================================================
