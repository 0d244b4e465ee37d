--------------------------- MODULE RunnerHubProofs ---------------------------
(***************************************************************************)
(* RunnerHub for every set of runners and connections: presence events and *)
(* the presence snapshot agree, and only the newest connection of a runner *)
(* stands for it.  TypeOK and NewestStandsForRunner together are inductive; *)
(* AnnouncedIsPresence needs both, since a disconnection is announced only  *)
(* if the attachment it clears was the runner's last.                       *)
(***************************************************************************)
EXTENDS RunnerHub, TLAPS

\* Only Listed matters of a socket's state to presence.
LEMMA OnlineIff ==
    ASSUME TypeOK, NewestStandsForRunner, NEW r \in Runners
    PROVE  r \in Online <=> \E c \in Conns : attachment[c] = r
    BY HubAssumption DEF Online, NewestStandsForRunner, Listed, TypeOK

LEMMA OnlineIffAfter ==
    ASSUME TypeOK', NewestStandsForRunner', NEW r \in Runners
    PROVE  (r \in Online)' <=> \E c \in Conns : attachment'[c] = r
    BY HubAssumption DEF Online, NewestStandsForRunner, Listed, TypeOK

\* The connections RunnerSockets finds are those whose attachment is r.
LEMMA FoundByAttachment ==
    ASSUME TypeOK, NewestStandsForRunner, NEW r \in Runners
    PROVE  RunnerSockets(r) = {c \in Conns : attachment[c] = r}
    BY HubAssumption DEF RunnerSockets, NewestStandsForRunner, Listed, TypeOK, Sockets

NewIsUntold == \A a \in Admins, r \in Runners : sock[a] = "new" => told[a][r] = Untold

IInv == /\ TypeOK /\ NewestStandsForRunner /\ AnnouncedIsPresence /\ OwnTasksOnly
        /\ NewIsUntold

LEMMA InitIInv == Init => IInv
    BY HubAssumption DEF Init, IInv, TypeOK, NewestStandsForRunner, AnnouncedIsPresence,
        OwnTasksOnly, SocketState, Sockets, OpenAdmins, NewIsUntold

LEMMA ClosedType ==
    ASSUME TypeOK, NEW S
    PROVE  Closed(S) \in [Sockets -> SocketState]
    BY DEF Closed, TypeOK, SocketState

LEMMA AnnounceType ==
    ASSUME TypeOK, NEW S, NEW r \in Runners, NEW v \in BOOLEAN, Announce(S, r, v)
    PROVE  told' \in [Admins -> [Runners -> BOOLEAN \cup {Untold}]]
    BY DEF Announce, TypeOK

LEMMA AcceptRunnerStep ==
    ASSUME IInv, NEW c \in Conns, AcceptRunner(c)
    PROVE  IInv'
<1> DEFINE r == OwnerOf[c]
<1>0. r \in Runners /\ c \in Sockets
    BY HubAssumption DEF Sockets
<1>1. PICK failed \in SUBSET OpenAdmins :
          /\ sock' = [Closed(RunnerSockets(r) \cup failed) EXCEPT ![c] = "open"]
          /\ Announce(OpenAdmins \ failed, r, TRUE)
    BY DEF AcceptRunner
<1>2. TypeOK'
    <2>1. sock' \in [Sockets -> SocketState]
        BY <1>1, ClosedType DEF IInv, SocketState
    <2>2. told' \in [Admins -> [Runners -> BOOLEAN \cup {Untold}]]
        BY <1>0, <1>1, AnnounceType DEF IInv
    <2> QED
        BY <1>0, <2>1, <2>2 DEF AcceptRunner, IInv, TypeOK
<1>3. \A d \in Conns : attachment'[d] = IF d = c THEN r
                                        ELSE IF attachment[d] = r THEN Null ELSE attachment[d]
    BY <1>0, FoundByAttachment DEF AcceptRunner, IInv, Sockets
<1>4. \A s \in Sockets : Listed(s) => Listed(s)'
    BY <1>1 DEF Listed, Closed
<1>5. NewestStandsForRunner'
    <2> SUFFICES ASSUME NEW d \in Conns, attachment'[d] # Null
                 PROVE  attachment'[d] = OwnerOf[d] /\ newest'[OwnerOf[d]] = d /\ Listed(d)'
        BY DEF NewestStandsForRunner
    <2>1. CASE d = c
        BY <1>0, <1>1, <1>3, <2>1 DEF AcceptRunner, IInv, TypeOK, Listed, Closed
    <2>2. CASE d # c
        <3>1. attachment'[d] = attachment[d] /\ attachment[d] # r
            BY <1>3, <2>2
        <3>2. attachment[d] = OwnerOf[d] /\ newest[OwnerOf[d]] = d /\ Listed(d)
            BY <3>1 DEF IInv, NewestStandsForRunner
        <3> QED
            BY <1>4, <3>1, <3>2, HubAssumption DEF AcceptRunner, IInv, TypeOK, Sockets
    <2> QED
        BY <2>1, <2>2
<1>6. \A a \in Admins : a \in OpenAdmins' => a \in OpenAdmins \ failed
    BY <1>1, HubAssumption DEF OpenAdmins, Closed, Sockets
<1>7. AnnouncedIsPresence'
    <2> SUFFICES ASSUME NEW a \in OpenAdmins', NEW x \in Runners, told'[a][x] # Untold
                 PROVE  told'[a][x] = (x \in Online)'
        BY DEF AnnouncedIsPresence
    <2>1. a \in Admins /\ a \in OpenAdmins \ failed
        BY <1>6 DEF OpenAdmins
    <2>2. (x \in Online)' <=> \E d \in Conns : attachment'[d] = x
        BY <1>2, <1>5, OnlineIffAfter
    <2>3. CASE x = r
        BY <1>0, <1>1, <1>3, <2>1, <2>2, <2>3 DEF Announce, IInv, TypeOK
    <2>4. CASE x # r
        <3>1. told'[a][x] = told[a][x]
            BY <1>1, <2>1, <2>4 DEF Announce, IInv, TypeOK
        <3>2. (\E d \in Conns : attachment'[d] = x) <=> x \in Online
            <4>1. \A d \in Conns : attachment'[d] = x <=> attachment[d] = x
                BY <1>0, <1>3, <2>4, HubAssumption DEF IInv, NewestStandsForRunner
            <4> QED
                BY <4>1, OnlineIff DEF IInv
        <3> QED
            BY <2>1, <2>2, <3>1, <3>2 DEF IInv, AnnouncedIsPresence
    <2> QED
        BY <2>3, <2>4
<1>8. OwnTasksOnly'
    BY DEF AcceptRunner, IInv, OwnTasksOnly
<1>9. NewIsUntold'
    <2> SUFFICES ASSUME NEW a \in Admins, NEW x \in Runners, sock'[a] = "new"
                 PROVE  told'[a][x] = Untold
        BY DEF NewIsUntold
    <2>1. sock[a] = "new" /\ a \notin OpenAdmins
        BY <1>1, HubAssumption DEF Closed, OpenAdmins, Sockets
    <2> QED
        BY <1>1, <2>1 DEF Announce, IInv, NewIsUntold
<1> QED
    BY <1>2, <1>5, <1>7, <1>8, <1>9 DEF IInv

\* A step in which sockets close, or go, and attachments of such sockets are
\* cleared, without an announcement; no runner goes offline by it.
LEMMA QuietStep ==
    ASSUME IInv, sock' \in [Sockets -> SocketState],
           \A c \in Conns : attachment'[c] # Null => Listed(c)',
           \A a \in Admins : sock'[a] \in {"new", "open"} => sock[a] = sock'[a],
           attachment' \in [Sockets -> Runners \cup {Null, Admin}],
           \A s \in Sockets : attachment'[s] \in {attachment[s], Null},
           \A r \in Runners : (\E a \in Admins : sock'[a] = "open") =>
               ((\E c \in Conns : attachment'[c] = r) <=> \E c \in Conns : attachment[c] = r),
           UNCHANGED <<told, newest>>,
           woken' \in [Conns -> SUBSET Runners], OwnTasksOnly'
    PROVE  IInv'
<1>1. TypeOK'
    BY DEF IInv, TypeOK
<1>2. NewestStandsForRunner'
    BY DEF IInv, NewestStandsForRunner, Sockets
<1>3. AnnouncedIsPresence'
    <2> SUFFICES ASSUME NEW a \in OpenAdmins', NEW r \in Runners, told'[a][r] # Untold
                 PROVE  told'[a][r] = (r \in Online)'
        BY DEF AnnouncedIsPresence
    <2>1. a \in Admins /\ sock'[a] = "open" /\ a \in OpenAdmins
        BY DEF OpenAdmins
    <2>2. (r \in Online)' <=> r \in Online
        BY <1>1, <1>2, <2>1, OnlineIff, OnlineIffAfter DEF IInv
    <2> QED
        BY <2>1, <2>2 DEF IInv, AnnouncedIsPresence
<1>4. NewIsUntold'
    BY DEF IInv, NewIsUntold
<1> QED
    BY <1>1, <1>2, <1>3, <1>4 DEF IInv

LEMMA DisconnectedStep ==
    ASSUME IInv, NEW s \in Sockets, NEW then \in {"closing", "gone"},
           Listed(s), Disconnected(s, then)
    PROVE  IInv'
<1>0. attachment' = [attachment EXCEPT ![s] = Null]
    BY DEF Disconnected
<1>a. OwnTasksOnly' /\ woken' \in [Conns -> SUBSET Runners]
    BY DEF Disconnected, IInv, OwnTasksOnly, TypeOK
<1>1. CASE LastOfRunner(s)
    <2> DEFINE r == attachment[s]
    <2>0. s \in Conns /\ r \in Runners /\ r = OwnerOf[s]
        BY <1>1, HubAssumption DEF LastOfRunner, IInv, NewestStandsForRunner
    <2>1. PICK failed \in SUBSET OpenAdmins :
              /\ sock' = [Closed(failed) EXCEPT ![s] = then]
              /\ Announce(OpenAdmins \ failed, r, FALSE)
        BY <1>1 DEF Disconnected
    <2>2. TypeOK'
        <3>1. sock' \in [Sockets -> SocketState]
            BY <2>1, ClosedType DEF IInv, SocketState
        <3>2. told' \in [Admins -> [Runners -> BOOLEAN \cup {Untold}]]
            BY <2>0, <2>1, AnnounceType DEF IInv
        <3>3. attachment' \in [Sockets -> Runners \cup {Null, Admin}]
            BY <1>0 DEF IInv, TypeOK
        <3> QED
            BY <3>1, <3>2, <3>3, <1>a DEF Disconnected, IInv, TypeOK
    <2>3. NewestStandsForRunner'
        BY <1>0, <2>0, <2>1, HubAssumption
           DEF Disconnected, IInv, NewestStandsForRunner, TypeOK, Sockets, Listed, Closed, OpenAdmins
    <2>4. \A c \in Conns : attachment'[c] # r
        <3>1. \A c \in Conns : attachment[c] = r => c = s
            BY <1>1, <2>0, FoundByAttachment DEF LastOfRunner, IInv
        <3> QED
            BY <1>0, <2>0, <3>1, HubAssumption DEF IInv, TypeOK, Sockets
    <2>5. AnnouncedIsPresence'
        <3> SUFFICES ASSUME NEW a \in OpenAdmins', NEW x \in Runners, told'[a][x] # Untold
                     PROVE  told'[a][x] = (x \in Online)'
            BY DEF AnnouncedIsPresence
        <3>1. a \in Admins /\ a \in OpenAdmins \ failed
            BY <2>0, <2>1, HubAssumption DEF OpenAdmins, Closed, Sockets
        <3>2. (x \in Online)' <=> \E c \in Conns : attachment'[c] = x
            BY <2>2, <2>3, OnlineIffAfter
        <3>3. CASE x = r
            <4>1. told'[a][x] = FALSE
                BY <2>1, <3>1, <3>3 DEF Announce, IInv, TypeOK
            <4>2. (x \in Online)' = FALSE
                BY <2>4, <3>2, <3>3
            <4> QED
                BY <4>1, <4>2
        <3>4. CASE x # r
            <4>1. told'[a][x] = told[a][x]
                BY <2>1, <3>1, <3>4 DEF Announce, IInv, TypeOK
            <4>2. \A c \in Conns : attachment'[c] = x <=> attachment[c] = x
                BY <1>0, <2>0, <3>4, HubAssumption DEF IInv, TypeOK, Sockets
            <4>3. x \in Online <=> \E c \in Conns : attachment[c] = x
                BY OnlineIff DEF IInv
            <4> QED
                BY <3>1, <3>2, <4>1, <4>2, <4>3 DEF IInv, AnnouncedIsPresence
        <3> QED
            BY <3>3, <3>4
    <2>6. NewIsUntold'
        BY <2>0, <2>1, HubAssumption DEF Announce, Closed, OpenAdmins, Sockets, IInv, NewIsUntold
    <2> QED
        BY <1>a, <2>2, <2>3, <2>5, <2>6 DEF IInv
<1>2. CASE ~LastOfRunner(s)
    <2>1. sock' = [sock EXCEPT ![s] = then] /\ UNCHANGED <<told, newest>>
        BY <1>2 DEF Disconnected
    <2>2. \A r \in Runners :
              (\E c \in Conns : attachment'[c] = r) <=> \E c \in Conns : attachment[c] = r
        <3> SUFFICES ASSUME NEW r \in Runners, s \in Conns, attachment[s] = r
                     PROVE  \E c \in Conns : attachment'[c] = r
            BY <1>0, HubAssumption DEF IInv, TypeOK, Sockets
        <3>1. PICK c \in RunnerSockets(r) : c # s
            BY <1>2, HubAssumption DEF LastOfRunner
        <3>2. c \in Conns /\ attachment[c] = r
            BY <3>1 DEF RunnerSockets
        <3> QED
            BY <1>0, <3>1, <3>2 DEF IInv, TypeOK, Sockets
    <2>3. sock' \in [Sockets -> SocketState]
        BY <2>1 DEF IInv, TypeOK, SocketState
    <2>4. attachment' \in [Sockets -> Runners \cup {Null, Admin}]
        BY <1>0 DEF IInv, TypeOK
    <2>5. \A x \in Conns : attachment'[x] # Null => Listed(x)'
        BY <1>0, <2>1 DEF IInv, NewestStandsForRunner, Listed, TypeOK, Sockets
    <2> QED
        BY <1>0, <1>a, <2>1, <2>2, <2>3, <2>4, <2>5, QuietStep DEF IInv, TypeOK
<1> QED
    BY <1>1, <1>2

\* Sockets that close keep their attachments, and an admin among them is
\* told nothing any more.
LEMMA ClosingStep ==
    ASSUME IInv, NEW S \in SUBSET Sockets, \A s \in S : Listed(s), sock' = Closed(S),
           UNCHANGED <<attachment, told, newest>>,
           woken' \in [Conns -> SUBSET Runners], OwnTasksOnly'
    PROVE  IInv'
<1>1. sock' \in [Sockets -> SocketState]
    BY ClosedType DEF IInv
<1>2. \A x \in Conns : attachment'[x] # Null => Listed(x)'
    BY DEF IInv, NewestStandsForRunner, Listed, Closed, Sockets
<1>3. \A a \in Admins : sock'[a] \in {"new", "open"} => sock[a] = sock'[a]
    BY DEF Closed, Sockets
<1> QED
    BY <1>1, <1>2, <1>3, QuietStep DEF IInv, TypeOK

LEMMA NextIInv ==
    ASSUME IInv, Next
    PROVE  IInv'
<1>1. ASSUME NEW c \in Conns, AcceptRunner(c) PROVE IInv'
    BY <1>1, AcceptRunnerStep
<1>2. ASSUME NEW a \in Admins, AcceptAdmin(a) PROVE IInv'
    <2>1. TypeOK'
        BY <1>2 DEF AcceptAdmin, IInv, TypeOK, Sockets, SocketState
    <2>2. \A c \in Conns : attachment'[c] = attachment[c] /\ Listed(c)' = Listed(c)
        BY <1>2, HubAssumption DEF AcceptAdmin, IInv, TypeOK, Sockets, Listed
    <2>3. NewestStandsForRunner'
        BY <1>2, <2>2 DEF AcceptAdmin, IInv, NewestStandsForRunner
    <2>4. AnnouncedIsPresence' /\ NewIsUntold'
        <3>1. \A r \in Runners : (r \in Online)' <=> r \in Online
            BY <2>1, <2>2, <2>3, OnlineIff, OnlineIffAfter DEF IInv
        <3> QED
            BY <1>2, <3>1, HubAssumption
               DEF AcceptAdmin, IInv, AnnouncedIsPresence, NewIsUntold, OpenAdmins, TypeOK, Sockets
    <2> QED
        BY <1>2, <2>1, <2>3, <2>4 DEF AcceptAdmin, IInv, OwnTasksOnly
<1>3. ASSUME NEW s \in Sockets, WebSocketClose(s) PROVE IInv'
    BY <1>3, DisconnectedStep DEF WebSocketClose, Listed
<1>4. ASSUME NEW s \in Sockets, WebSocketError(s) PROVE IInv'
    BY <1>4, DisconnectedStep DEF WebSocketError
<1>5. ASSUME NEW s \in Sockets, PeerLeaves(s) PROVE IInv'
    <2>1. OwnTasksOnly' /\ woken' \in [Conns -> SUBSET Runners]
        BY <1>5 DEF PeerLeaves, IInv, OwnTasksOnly, TypeOK
    <2> QED
        BY <1>5, <2>1, ClosingStep DEF PeerLeaves, Listed
<1>6. ASSUME NEW r \in Runners, NotifyTaskAvailable(r) PROVE IInv'
    <2>1. PICK failed \in SUBSET RunnerSockets(r) :
              /\ sock' = Closed(failed)
              /\ woken' = [c \in Conns |-> IF c \in RunnerSockets(r) \ failed
                                            THEN woken[c] \cup {r} ELSE woken[c]]
              /\ UNCHANGED <<attachment, told, newest>>
        BY <1>6 DEF NotifyTaskAvailable
    <2>2. \A c \in RunnerSockets(r) : c \in Conns /\ Listed(c) /\ OwnerOf[c] = r
        BY HubAssumption DEF RunnerSockets, IInv, NewestStandsForRunner
    <2>3. woken' \in [Conns -> SUBSET Runners]
        BY <2>1 DEF IInv, TypeOK
    <2>4. OwnTasksOnly'
        BY <2>1, <2>2 DEF IInv, OwnTasksOnly
    <2> QED
        BY <2>1, <2>2, <2>3, <2>4, ClosingStep DEF Sockets
<1>7. CASE BroadcastTaskChanged
    <2>1. OwnTasksOnly' /\ woken' \in [Conns -> SUBSET Runners]
        BY <1>7 DEF BroadcastTaskChanged, IInv, OwnTasksOnly, TypeOK
    <2> QED
        BY <1>7, <2>1, ClosingStep DEF BroadcastTaskChanged, Listed, OpenAdmins, Sockets
<1>8. CASE Redeploy
    <2>1. sock' \in [Sockets -> SocketState]
        BY <1>8 DEF Redeploy, IInv, TypeOK, SocketState
    <2>2. attachment' \in [Sockets -> Runners \cup {Null, Admin}]
        BY <1>8 DEF Redeploy
    <2>3. \A a \in Admins : sock'[a] # "open" /\ (sock'[a] = "new" => sock[a] = "new")
        BY <1>8 DEF Redeploy, Listed, Sockets
    <2> QED
        BY <1>8, <2>1, <2>2, <2>3, QuietStep DEF Redeploy, IInv, TypeOK, OwnTasksOnly, Sockets
<1> QED
    BY <1>1, <1>2, <1>3, <1>4, <1>5, <1>6, <1>7, <1>8 DEF Next

LEMMA Inductive == Spec => []IInv
<1>1. Init => IInv
    BY InitIInv
<1>2. IInv /\ [Next]_vars => IInv'
    <2>1. ASSUME IInv, UNCHANGED vars PROVE IInv'
        BY <2>1 DEF vars, IInv, TypeOK, AnnouncedIsPresence, NewestStandsForRunner, OwnTasksOnly,
            NewIsUntold, OpenAdmins, Online, Listed
    <2> QED
        BY <2>1, NextIInv
<1> QED
    BY <1>1, <1>2, PTL DEF Spec

\* Whatever the order of replacements, errors, failed sends and late close
\* events, the last presence event an admin got is what the snapshot says.
THEOREM PresenceIsAnnounced == Spec => []AnnouncedIsPresence
<1>1. IInv => AnnouncedIsPresence
    BY DEF IInv
<1> QED
    BY <1>1, Inductive, PTL

\* A replaced connection neither keeps its runner online nor is notified.
THEOREM ReplacedIsDisowned == Spec => []NewestStandsForRunner
<1>1. IInv => NewestStandsForRunner
    BY DEF IInv
<1> QED
    BY <1>1, Inductive, PTL

\* No runner is sent the tasks of another, whatever their tags.
THEOREM NotificationsAreTargeted == Spec => []OwnTasksOnly
<1>1. IInv => OwnTasksOnly
    BY DEF IInv
<1> QED
    BY <1>1, Inductive, PTL

\* Every socket has a state, and its attachment and what was told on it are of
\* their types, at every message, close, error and redeployment of the object.
THEOREM TypeCorrectness == Spec => []TypeOK
<1>1. IInv => TypeOK
    BY DEF IInv
<1> QED
    BY <1>1, Inductive, PTL
=============================================================================
