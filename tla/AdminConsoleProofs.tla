------------------------- MODULE AdminConsoleProofs -------------------------
(***************************************************************************)
(* What AdminConsole keeps in every state, for any runners, tasks and       *)
(* bounds.                                                                  *)
(*                                                                          *)
(* The script's functions call one another, so the proof follows them: one  *)
(* lemma per function says which parts of the invariant it preserves, and   *)
(* which it restores.  Sound is preserved by every function.  Connects and  *)
(* RowsFollow are not: taking an answered call from the page loses the      *)
(* reason why a socket or new rows were still to come, and what the answer  *)
(* does has to give it back (TakenFrom).                                    *)
(***************************************************************************)
EXTENDS AdminConsole, FiniteSetTheorems, WellFoundedInduction, TLAPS

\* A bag of finitely many different calls.
IsACallBag(B) == IsABag(B) /\ IsFiniteSet(BagToSet(B))

\* A count of n is n copies.
LEMMA CopiesAreFinite ==
  ASSUME NEW B, IsACallBag(B), NEW S \in SUBSET BagToSet(B)
  PROVE  IsFiniteSet(Copies(B, S)) /\ (S # {} => Copies(B, S) # {})
<1>1. \A c \in S : B[c] \in Nat /\ B[c] > 0
    BY DEF IsACallBag, IsABag, BagToSet
<1> DEFINE T == {{c} \X (1 .. B[c]) : c \in S}
           f == [c \in S |-> {c} \X (1 .. B[c])]
<1>2. IsFiniteSet(S)
    BY FS_Subset DEF IsACallBag
<1>3. f \in Surjection(S, T)
    BY DEF Surjection
<1>4. IsFiniteSet(T)
  <2> HIDE DEF f, T
  <2> QED BY <1>2, <1>3, FS_Surjection
<1>5. ASSUME NEW c \in S PROVE IsFiniteSet({c} \X (1 .. B[c]))
  <2>1. B[c] \in Int /\ 1 \in Int
      BY <1>1
  <2>2. IsFiniteSet(1 .. B[c]) /\ IsFiniteSet({c})
      BY <2>1, FS_Interval, FS_Singleton
  <2> QED BY <2>2, FS_Product
<1>6. \A x \in T : IsFiniteSet(x)
    BY <1>5
<1>7. IsFiniteSet(UNION T)
  <2> HIDE DEF T
  <2> QED BY <1>4, <1>6, FS_UNION
<1>8. ASSUME NEW c \in S PROVE <<c, 1>> \in UNION T
  <2>1. 1 \in 1 .. B[c]
      BY <1>1
  <2> QED BY <2>1
<1> QED BY <1>7, <1>8 DEF Copies

\* What becomes of a bag call by call is a bag of what becomes of the calls.
LEMMA ChangedIsACallBag ==
  ASSUME NEW B, IsACallBag(B), NEW f
  PROVE  /\ IsACallBag(Changed(B, f))
         /\ BagToSet(Changed(B, f)) = {f[c] : c \in BagToSet(B)}
<1>1. CASE \A c \in DOMAIN B : f[c] = c
    BY <1>1 DEF Changed, BagToSet
<1>2. CASE ~\A c \in DOMAIN B : f[c] = c
  <2> DEFINE D == DOMAIN B
             T == {f[c] : c \in D}
             class(d) == {c \in D : f[c] = d}
             C == [d \in T |-> Cardinality(Copies(B, class(d)))]
  <2>1. Changed(B, f) = C
      BY <1>2 DEF Changed
  <2>2. DOMAIN C = T
      OBVIOUS
  <2>3. ASSUME NEW d \in T PROVE C[d] \in Nat /\ C[d] > 0
    <3>1. class(d) # {} /\ class(d) \in SUBSET BagToSet(B)
        BY DEF BagToSet
    <3> DEFINE K == Copies(B, class(d))
    <3>2. IsFiniteSet(K) /\ K # {}
      <4> HIDE DEF class
      <4> QED BY <3>1, CopiesAreFinite
    <3>3. C[d] = Cardinality(K)
        OBVIOUS
    <3> HIDE DEF K, C
    <3>4. Cardinality(K) \in Nat /\ Cardinality(K) # 0
        BY <3>2, FS_CardinalityType, FS_EmptySet
    <3> QED BY <3>3, <3>4
  <2>4. IsFiniteSet(T)
    <3> DEFINE g == [c \in D |-> f[c]]
    <3>1. g \in Surjection(D, T)
        BY DEF Surjection
    <3>2. IsFiniteSet(D)
        BY DEF IsACallBag, BagToSet
    <3> HIDE DEF g, T, D
    <3> QED BY <3>1, <3>2, FS_Surjection
  <2>5. C \in [DOMAIN C -> {n \in Nat : n > 0}]
      BY <2>2, <2>3
  <2> HIDE DEF C, T
  <2> QED BY <2>1, <2>2, <2>4, <2>5 DEF IsACallBag, IsABag, BagToSet, T
<1> QED BY <1>1, <1>2

\* One call more.
LEMMA CallIsAdded ==
  ASSUME NEW B, IsACallBag(B), NEW c
  PROVE  LET C == B (+) SetToBag({c})
         IN  IsACallBag(C) /\ BagToSet(C) = BagToSet(B) \cup {c}
<1> DEFINE C == B (+) SetToBag({c})
<1>1. BagToSet(C) = BagToSet(B) \cup {c}
    BY DEF BagToSet, SetToBag, (+)
<1>2. \A d \in BagToSet(B) : B[d] \in Nat /\ B[d] > 0
    BY DEF IsACallBag, IsABag, BagToSet
<1>3. C \in [DOMAIN C -> {n \in Nat : n > 0}]
    BY <1>2 DEF BagToSet, SetToBag, (+)
<1> HIDE DEF C
<1>4. IsFiniteSet(BagToSet(C))
    BY <1>1, FS_AddElement DEF IsACallBag
<1> QED BY <1>1, <1>3, <1>4 DEF IsACallBag, IsABag, C

\* One copy less.
LEMMA CallIsRemoved ==
  ASSUME NEW B, IsACallBag(B), NEW c \in BagToSet(B)
  PROVE  /\ IsACallBag(Without(B, c))
         /\ BagToSet(Without(B, c)) \subseteq BagToSet(B)
         /\ BagToSet(B) \ {c} \subseteq BagToSet(Without(B, c))
<1> DEFINE C == Without(B, c)
<1>1. BagToSet(C) \subseteq BagToSet(B) /\ BagToSet(B) \ {c} \subseteq BagToSet(C)
    BY DEF Without, BagToSet
<1>2. \A d \in DOMAIN B : B[d] \in Nat /\ B[d] > 0
    BY DEF IsACallBag, IsABag
<1>3. C \in [DOMAIN C -> {n \in Nat : n > 0}]
  <2>1. CASE B[c] > 1
    <3>1. C = [d \in DOMAIN B |-> IF d = c THEN B[c] - 1 ELSE B[d]]
        BY <2>1 DEF Without
    <3>2. B[c] - 1 \in Nat /\ B[c] - 1 > 0
        BY <1>2, <2>1 DEF BagToSet
    <3> QED BY <1>2, <3>1, <3>2
  <2>2. CASE ~(B[c] > 1)
      BY <1>2, <2>2 DEF Without, BagToSet
  <2> QED BY <2>1, <2>2
<1> HIDE DEF C
<1>4. IsFiniteSet(BagToSet(C))
    BY <1>1, FS_Subset DEF IsACallBag
<1> QED BY <1>1, <1>3, <1>4 DEF IsACallBag, IsABag, C

\* Everything but the calls is the same.
OtherFields(p, q) ==
    /\ q.token = p.token /\ q.app = p.app /\ q.hidden = p.hidden
    /\ q.filter = p.filter /\ q.rows = p.rows /\ q.banner = p.banner
    /\ q.selected = p.selected /\ q.detail = p.detail /\ q.online = p.online
    /\ q.socket = p.socket /\ q.timer = p.timer /\ q.refresh = p.refresh

\* api(): the earlier calls of the kind are late, the new one is the latest.
LEMMA CallsIssued ==
  ASSUME NEW p, PageTyped(p), NEW kind \in Kinds, NEW of \in Runners \cup Tasks \cup {All, None},
         NEW refreshing \in BOOLEAN
  PROVE  LET q == Issue(p, kind, of, refreshing)
             call == [kind |-> kind, of |-> of, fresh |-> TRUE, latest |-> TRUE,
                      refreshing |-> refreshing, answer |-> None]
             older(c) == IF c.kind = kind THEN [c EXCEPT !.latest = FALSE] ELSE c
         IN  /\ BagToSet(q.calls) = {older(c) : c \in BagToSet(p.calls)} \cup {call}
             /\ OtherFields(p, q)
             /\ PageTyped(q)
<1> DEFINE q == Issue(p, kind, of, refreshing)
           call == [kind |-> kind, of |-> of, fresh |-> TRUE, latest |-> TRUE,
                    refreshing |-> refreshing, answer |-> None]
           older(c) == IF c.kind = kind THEN [c EXCEPT !.latest = FALSE] ELSE c
           late == [c \in BagToSet(p.calls) |-> older(c)]
           bag == Changed(p.calls, late) (+) SetToBag({call})
<1>1. q = [p EXCEPT !.calls = bag]
    BY DEF Issue
<1>2. IsACallBag(bag) /\ BagToSet(bag) = {older(c) : c \in BagToSet(p.calls)} \cup {call}
  <2>1. {late[c] : c \in BagToSet(p.calls)} = {older(c) : c \in BagToSet(p.calls)}
      OBVIOUS
  <2>2. /\ IsACallBag(Changed(p.calls, late))
        /\ BagToSet(Changed(p.calls, late)) = {late[c] : c \in BagToSet(p.calls)}
    <3> HIDE DEF late
    <3> QED BY ChangedIsACallBag DEF PageTyped, IsACallBag
  <2> DEFINE B == Changed(p.calls, late)
  <2>3. BagToSet(B) = {older(c) : c \in BagToSet(p.calls)}
      BY <2>1, <2>2
  <2> HIDE DEF B, call
  <2>4. IsACallBag(bag) /\ BagToSet(bag) = BagToSet(B) \cup {call}
      BY <2>2, CallIsAdded DEF B
  <2> QED BY <2>3, <2>4
<1> HIDE DEF bag
<1>3. BagToSet(bag) \subseteq Call
  <2>1. call \in Call
      BY DEF Call
  <2>2. \A c \in Call : [c EXCEPT !.latest = FALSE] \in Call
      BY DEF Call
  <2>3. \A c \in Call : older(c) \in Call
      BY <2>2
  <2> HIDE DEF older, call
  <2> QED BY <1>2, <2>1, <2>3 DEF PageTyped
<1>4. OtherFields(p, q) /\ q.calls = bag
    BY <1>1 DEF OtherFields, PageTyped
<1>5. PageTyped(q)
    BY <1>1, <1>2, <1>3, <1>4 DEF PageTyped, IsACallBag
<1> QED BY <1>2, <1>4, <1>5

\* A request that asks for the rows of the filter, if it asks for rows, keeps the
\* page sound; for rows it gives the reason of RowsFollow.
LEMMA IssueIsSound ==
  ASSUME NEW p, Sound(p), NEW kind \in Kinds, NEW of \in Runners \cup Tasks \cup {All, None},
         NEW refreshing \in BOOLEAN, refreshing => p.token,
         kind = "tasks" => of = p.filter
  PROVE  LET q == Issue(p, kind, of, refreshing)
         IN  /\ Sound(q) /\ OtherFields(p, q) /\ CurrentOf(q, kind)
             /\ Connects(p) \/ kind = "ticket" => Connects(q)
             /\ RowsFollow(p) \/ kind = "tasks" => RowsFollow(q)
<1> DEFINE q == Issue(p, kind, of, refreshing)
           call == [kind |-> kind, of |-> of, fresh |-> TRUE, latest |-> TRUE,
                    refreshing |-> refreshing, answer |-> None]
           older(c) == IF c.kind = kind THEN [c EXCEPT !.latest = FALSE] ELSE c
           P == BagToSet(p.calls)
           Q == BagToSet(q.calls)
<1>1. Q = {older(c) : c \in P} \cup {call} /\ OtherFields(p, q) /\ PageTyped(q)
    BY CallsIssued DEF Sound
<1>2. /\ call.kind = kind /\ call.of = of /\ call.fresh /\ call.latest
      /\ call.refreshing = refreshing
    OBVIOUS
<1>3. ASSUME NEW d \in P
      PROVE  /\ older(d).kind = d.kind /\ older(d).of = d.of /\ older(d).fresh = d.fresh
             /\ older(d).refreshing = d.refreshing
             /\ d.kind = kind => ~older(d).latest
             /\ d.kind # kind => older(d) = d
  <2>1. d \in Call
      BY DEF Sound, PageTyped
  <2>2. LET e == [d EXCEPT !.latest = FALSE]
        IN  /\ e.kind = d.kind /\ e.of = d.of /\ e.fresh = d.fresh
            /\ e.refreshing = d.refreshing /\ ~e.latest
      BY <2>1 DEF Call
  <2> QED BY <2>2
<1> HIDE DEF q, call, older
<1>4. /\ call \in Q
      /\ \A d \in P : older(d) \in Q
      /\ \A c \in Q : c = call \/ \E d \in P : c = older(d)
    BY <1>1
<1> HIDE DEF P, Q
<1>5. BlankWithoutSession(q)
    BY <1>1, <1>2, <1>3, <1>4 DEF Sound, BlankWithoutSession, OtherFields, P, Q
<1>6. RowsAskedMatch(q)
    BY <1>1, <1>2, <1>3, <1>4 DEF Sound, RowsAskedMatch, OtherFields, P, Q
<1>7. Quiet(q) /\ DetailFollows(q)
    BY <1>1 DEF Sound, Quiet, DetailFollows, OtherFields
<1>8. Connects(p) \/ kind = "ticket" => Connects(q)
    BY <1>1, <1>2, <1>3, <1>4 DEF Connects, OtherFields, P, Q
<1>10. CurrentOf(q, kind)
    BY <1>2, <1>4 DEF CurrentOf, Q
<1>9. RowsFollow(p) \/ kind = "tasks" => RowsFollow(q)
  <2>1. CASE kind = "tasks"
      BY <2>1, <1>10 DEF RowsFollow
  <2>2. CASE kind # "tasks" /\ RowsFollow(p)
    <3>1. CurrentOf(p, "tasks") => CurrentOf(q, "tasks")
        BY <2>2, <1>3, <1>4 DEF CurrentOf, P, Q
    <3> QED BY <2>2, <3>1, <1>1 DEF RowsFollow, OtherFields
  <2> QED BY <2>1, <2>2
<1> QED BY <1>1, <1>5, <1>6, <1>7, <1>8, <1>9, <1>10 DEF Sound, q

\* loadTasks asks for the rows of the filter.
LEMMA LoadTasksIsSound ==
  ASSUME NEW p, Sound(p)
  PROVE  LET q == LoadTasks(p)
         IN  /\ Sound(q) /\ OtherFields(p, q)
             /\ Connects(p) => Connects(q)
             /\ RowsFollow(q)
<1>1. p.filter \in Runners \cup Tasks \cup {All, None} /\ "tasks" \in Kinds
    BY DEF Sound, PageTyped, Kinds
<1> QED BY <1>1, IssueIsSound DEF LoadTasks

\* selectTask empties the pane before it asks for the new task.
LEMMA SelectTaskIsSound ==
  ASSUME NEW p, Sound(p), NEW t \in Tasks
  PROVE  LET q == SelectTask(p, t)
         IN  /\ Sound(q)
             /\ Connects(p) => Connects(q)
             /\ RowsFollow(p) => RowsFollow(q)
<1> DEFINE b == [p EXCEPT !.selected = t, !.detail = None]
<1>1. /\ b.token = p.token /\ b.app = p.app /\ b.hidden = p.hidden /\ b.filter = p.filter
      /\ b.rows = p.rows /\ b.banner = p.banner /\ b.selected = t /\ b.detail = None
      /\ b.online = p.online /\ b.socket = p.socket /\ b.timer = p.timer
      /\ b.refresh = p.refresh /\ b.calls = p.calls
    BY DEF Sound, PageTyped
<1>2. PageTyped(b)
    BY <1>1 DEF Sound, PageTyped
<1> HIDE DEF b
<1>3. Sound(b)
    BY <1>1, <1>2 DEF Sound, BlankWithoutSession, Quiet, RowsAskedMatch, DetailFollows
<1>4. Connects(p) => Connects(b)
    BY <1>1 DEF Connects
<1>5. RowsFollow(p) => RowsFollow(b)
    BY <1>1 DEF RowsFollow, CurrentOf
<1>6. t \in Runners \cup Tasks \cup {All, None} /\ "detail" \in Kinds
    BY DEF Kinds
<1> QED BY <1>3, <1>4, <1>5, <1>6, IssueIsSound DEF SelectTask, b

\* A refresh that connect() waits for asks for new rows, so that RowsFollow holds
\* once the app may be shown.
LEMMA RefreshAllIsSound ==
  ASSUME NEW p, Sound(p), p.token, NEW kind \in {"click", "connect"}
  PROVE  LET q == RefreshAll(p, kind)
         IN  /\ Sound(q)
             /\ q.app = p.app /\ q.token = p.token /\ q.hidden = p.hidden
             /\ q.socket = p.socket /\ q.timer = p.timer
             /\ Connects(p) => Connects(q)
             /\ RowsFollow(p) \/ p.refresh = "none" => RowsFollow(q)
<1>1. CASE p.refresh # "none"
    BY <1>1 DEF RefreshAll
<1>2. CASE p.refresh = "none"
  <2> DEFINE a == Issue(p, "presence", None, TRUE)
             b == Issue(a, "tasks", a.filter, TRUE)
             q == [b EXCEPT !.refresh = kind]
  <2>1. /\ "presence" \in Kinds /\ "tasks" \in Kinds
        /\ None \in Runners \cup Tasks \cup {All, None}
      BY DEF Kinds
  <2>2. Sound(a) /\ OtherFields(p, a) /\ (Connects(p) => Connects(a))
      BY <2>1, IssueIsSound
  <2> HIDE DEF a
  <2>3. /\ a.filter \in Runners \cup Tasks \cup {All, None}
        /\ a.filter = p.filter /\ a.token
      BY <2>2 DEF Sound, PageTyped, OtherFields
  <2>4. Sound(b) /\ OtherFields(a, b) /\ (Connects(a) => Connects(b))
        /\ CurrentOf(b, "tasks")
      BY <2>1, <2>2, <2>3, IssueIsSound
  <2>5. RefreshAll(p, kind) = q
      BY <1>2, <2>3 DEF RefreshAll, a
  <2> HIDE DEF b
  <2>6. /\ q.token = b.token /\ q.app = b.app /\ q.hidden = b.hidden /\ q.filter = b.filter
        /\ q.rows = b.rows /\ q.banner = b.banner /\ q.selected = b.selected
        /\ q.detail = b.detail /\ q.online = b.online /\ q.socket = b.socket
        /\ q.timer = b.timer /\ q.refresh = kind /\ q.calls = b.calls
      BY <2>4 DEF Sound, PageTyped
  <2>7. PageTyped(q)
      BY <2>4, <2>6 DEF Sound, PageTyped
  <2>8. b.token = p.token /\ b.app = p.app /\ b.hidden = p.hidden
        /\ b.socket = p.socket /\ b.timer = p.timer
      BY <2>2, <2>4 DEF OtherFields
  <2> HIDE DEF q
  <2>9. Sound(q)
      BY <2>4, <2>6, <2>7, <2>8
         DEF Sound, BlankWithoutSession, Quiet, RowsAskedMatch, DetailFollows
  <2>10. Connects(p) => Connects(q)
      BY <2>2, <2>4, <2>6 DEF Connects
  <2>11. RowsFollow(q)
      BY <2>4, <2>6 DEF RowsFollow, CurrentOf
  <2> QED BY <2>5, <2>6, <2>8, <2>9, <2>10, <2>11
<1> QED BY <1>1, <1>2

\* The calls of an earlier session are neither current nor part of a refresh.
LEMMA NewSessionIsSound ==
  ASSUME NEW p, Sound(p)
  PROVE  LET q == NewSession(p)
         IN  /\ Sound(q)
             /\ q.token = p.token /\ q.app = p.app /\ q.hidden = p.hidden
             /\ q.refresh = "none"
             /\ \A c \in BagToSet(q.calls) : ~c.refreshing /\ ~c.fresh
<1> DEFINE stale(c) == [c EXCEPT !.fresh = FALSE, !.latest = FALSE, !.refreshing = FALSE,
                               !.of = None, !.answer = None]
           late == [c \in BagToSet(p.calls) |-> stale(c)]
           bag == Changed(p.calls, late)
           q == [p EXCEPT !.calls = bag, !.refresh = "none", !.socket.mine = FALSE]
<1>1. IsACallBag(bag) /\ BagToSet(bag) = {stale(c) : c \in BagToSet(p.calls)}
  <2>1. {late[c] : c \in BagToSet(p.calls)} = {stale(c) : c \in BagToSet(p.calls)}
      OBVIOUS
  <2>2. IsACallBag(bag) /\ BagToSet(bag) = {late[c] : c \in BagToSet(p.calls)}
    <3> HIDE DEF late
    <3> QED BY ChangedIsACallBag DEF Sound, PageTyped, IsACallBag
  <2> QED BY <2>1, <2>2
<1> HIDE DEF bag
<1>2. ASSUME NEW c \in Call
      PROVE  stale(c) \in Call /\ stale(c).fresh = FALSE /\ stale(c).refreshing = FALSE
    BY DEF Call
<1> HIDE DEF late, stale
<1>3. ASSUME NEW c \in BagToSet(bag) PROVE c \in Call /\ ~c.fresh /\ ~c.refreshing
  <2>1. PICK d \in BagToSet(p.calls) : c = stale(d)
      BY <1>1
  <2> QED BY <1>2, <2>1 DEF Sound, PageTyped
<1>4. /\ p.socket \in Socket /\ [p.socket EXCEPT !.mine = FALSE] \in Socket
      /\ p.socket = NoSocket => [p.socket EXCEPT !.mine = FALSE] = NoSocket
  <2>1. p.socket \in Socket /\ [p.socket EXCEPT !.mine = FALSE] \in Socket
      BY DEF Sound, PageTyped, Socket
  <2>2. [NoSocket EXCEPT !.mine = FALSE] = NoSocket
    <3> DEFINE e == [NoSocket EXCEPT !.mine = FALSE]
    <3>1. e \in [stage : {"none"}, mine : {FALSE}, wire : {<<>>}]
        BY DEF NoSocket
    <3> HIDE DEF e
    <3>2. e = [stage |-> "none", mine |-> FALSE, wire |-> <<>>]
        BY <3>1
    <3> QED BY <3>2 DEF NoSocket, e
  <2> QED BY <2>1, <2>2
<1>5. /\ q.token = p.token /\ q.app = p.app /\ q.hidden = p.hidden /\ q.filter = p.filter
      /\ q.rows = p.rows /\ q.banner = p.banner /\ q.selected = p.selected
      /\ q.detail = p.detail /\ q.online = p.online
      /\ q.socket = [p.socket EXCEPT !.mine = FALSE]
      /\ q.timer = p.timer /\ q.refresh = "none" /\ q.calls = bag
    BY DEF Sound, PageTyped
<1>6. PageTyped(q)
    BY <1>1, <1>3, <1>4, <1>5 DEF Sound, PageTyped, IsACallBag
<1>7. NewSession(p) = q
    BY DEF NewSession, bag, late, stale
<1> HIDE DEF q
<1>8. Sound(q)
    BY <1>3, <1>4, <1>5, <1>6
       DEF Sound, BlankWithoutSession, Quiet, RowsAskedMatch, DetailFollows
<1> QED BY <1>3, <1>5, <1>7, <1>8

\* No socket is a value of the field.
LEMMA NoSocketTyped == NoSocket \in Socket
    BY DEF NoSocket, Socket

\* closeRealtime() leaves neither socket nor timer.
LEMMA CloseRealtimeIsSound ==
  ASSUME NEW p, Sound(p)
  PROVE  LET q == CloseRealtime(p)
         IN  /\ Sound(q)
             /\ q.token = p.token /\ q.app = p.app /\ q.hidden = p.hidden
             /\ q.refresh = p.refresh /\ q.calls = p.calls
             /\ q.socket = NoSocket /\ q.timer = FALSE
             /\ RowsFollow(p) => RowsFollow(q)
<1> DEFINE q == CloseRealtime(p)
<1>1. /\ q.token = p.token /\ q.app = p.app /\ q.hidden = p.hidden /\ q.filter = p.filter
      /\ q.rows = p.rows /\ q.banner = p.banner /\ q.selected = p.selected
      /\ q.detail = p.detail /\ q.online = p.online /\ q.socket = NoSocket
      /\ q.timer = FALSE /\ q.refresh = p.refresh /\ q.calls = p.calls
    BY DEF CloseRealtime, Sound, PageTyped
<1>2. PageTyped(q)
    BY <1>1, NoSocketTyped DEF CloseRealtime, Sound, PageTyped
<1> HIDE DEF q
<1>3. Sound(q)
    BY <1>1, <1>2 DEF Sound, BlankWithoutSession, Quiet, RowsAskedMatch, DetailFollows
<1>4. RowsFollow(p) => RowsFollow(q)
    BY <1>1 DEF RowsFollow, CurrentOf
<1> QED BY <1>1, <1>3, <1>4 DEF q

\* A page without the app has nothing to connect and no rows to keep.
LEMMA SignOutIsSound ==
  ASSUME NEW p, Sound(p)
  PROVE  LET q == SignOut(p) IN Sound(q) /\ Connects(q) /\ RowsFollow(q)
<1> DEFINE m == CloseRealtime(NewSession(p))
           q == SignOut(p)
<1>1. /\ Sound(m) /\ m.refresh = "none" /\ m.socket = NoSocket /\ m.timer = FALSE
      /\ \A c \in BagToSet(m.calls) : ~c.refreshing /\ ~c.fresh
    BY NewSessionIsSound, CloseRealtimeIsSound
<1>2. q = [m EXCEPT !.token = FALSE, !.app = FALSE, !.online = {}, !.rows = None,
                    !.filter = All, !.selected = None, !.detail = None]
    BY DEF SignOut
<1> HIDE DEF m
<1>3. /\ q.token = FALSE /\ q.app = FALSE /\ q.hidden = m.hidden /\ q.filter = All
      /\ q.rows = None /\ q.banner = m.banner /\ q.selected = None
      /\ q.detail = None /\ q.online = {} /\ q.socket = m.socket
      /\ q.timer = m.timer /\ q.refresh = m.refresh /\ q.calls = m.calls
    BY <1>1, <1>2 DEF Sound, PageTyped
<1>4. PageTyped(q)
    BY <1>1, <1>2, <1>3 DEF Sound, PageTyped
<1> HIDE DEF q
<1>5. Sound(q)
    BY <1>1, <1>3, <1>4 DEF Sound, BlankWithoutSession, Quiet, RowsAskedMatch, DetailFollows
<1>6. Connects(q) /\ RowsFollow(q)
    BY <1>1, <1>3 DEF Connects, RowsFollow
<1> QED BY <1>5, <1>6 DEF q

\* connectRealtime() gives the page a ticket request unless it has a socket.
LEMMA ConnectRealtimeIsSound ==
  ASSUME NEW p, Sound(p), p.token
  PROVE  LET q == ConnectRealtime(p)
         IN  Sound(q) /\ Connects(q) /\ (RowsFollow(p) => RowsFollow(q))
<1>1. CASE ~p.hidden /\ p.socket.stage = "none"
  <2>1. "ticket" \in Kinds /\ None \in Runners \cup Tasks \cup {All, None}
        /\ "ticket" # "tasks"
      BY DEF Kinds
  <2>2. ConnectRealtime(p) = Issue(p, "ticket", None, FALSE)
      BY <1>1 DEF ConnectRealtime
  <2> QED BY <2>1, <2>2, IssueIsSound
<1>2. CASE ~(~p.hidden /\ p.socket.stage = "none")
  <2>1. ConnectRealtime(p) = p
      BY <1>2 DEF ConnectRealtime
  <2>2. Connects(p)
      BY <1>2 DEF Connects, NoSocket
  <2> QED BY <2>1, <2>2
<1> QED BY <1>1, <1>2

\* scheduleReconnect() gives the page a timer, unless it is hidden or signed out.
LEMMA ScheduleReconnectIsSound ==
  ASSUME NEW p, Sound(p)
  PROVE  LET q == ScheduleReconnect(p)
         IN  /\ Sound(q) /\ Connects(q)
             /\ RowsFollow(p) => RowsFollow(q)
<1> DEFINE q == ScheduleReconnect(p)
<1>0. (p.token /\ ~p.hidden) \in BOOLEAN
    OBVIOUS
<1>1. /\ q.token = p.token /\ q.app = p.app /\ q.hidden = p.hidden /\ q.filter = p.filter
      /\ q.rows = p.rows /\ q.banner = p.banner /\ q.selected = p.selected
      /\ q.detail = p.detail /\ q.online = p.online /\ q.socket = p.socket
      /\ q.timer = (p.token /\ ~p.hidden) /\ q.refresh = p.refresh /\ q.calls = p.calls
    BY DEF ScheduleReconnect, Sound, PageTyped
<1>2. PageTyped(q)
    BY <1>0, <1>1 DEF ScheduleReconnect, Sound, PageTyped
<1> HIDE DEF q
<1>3. Sound(q)
    BY <1>1, <1>2 DEF Sound, BlankWithoutSession, Quiet, RowsAskedMatch, DetailFollows
<1>4. Connects(q)
    BY <1>1 DEF Connects, Sound, BlankWithoutSession
<1>5. RowsFollow(p) => RowsFollow(q)
    BY <1>1 DEF RowsFollow, CurrentOf
<1> QED BY <1>3, <1>4, <1>5 DEF q

\* A failed refresh leaves its calls to themselves.
LEMMA RefreshFailsIsSound ==
  ASSUME NEW p, Sound(p)
  PROVE  LET q == RefreshFails(p)
         IN  /\ Sound(q)
             /\ Connects(p) => Connects(q)
             /\ RowsFollow(p) => RowsFollow(q)
<1> DEFINE alone(c) == [c EXCEPT !.refreshing = FALSE]
           apart == [c \in BagToSet(p.calls) |-> alone(c)]
           bag == Changed(p.calls, apart)
           q == [p EXCEPT !.refresh = "none", !.calls = bag]
<1>1. IsACallBag(bag) /\ BagToSet(bag) = {alone(c) : c \in BagToSet(p.calls)}
  <2>1. {apart[c] : c \in BagToSet(p.calls)} = {alone(c) : c \in BagToSet(p.calls)}
      OBVIOUS
  <2>2. IsACallBag(bag) /\ BagToSet(bag) = {apart[c] : c \in BagToSet(p.calls)}
    <3> HIDE DEF apart
    <3> QED BY ChangedIsACallBag DEF Sound, PageTyped, IsACallBag
  <2> QED BY <2>1, <2>2
<1> HIDE DEF bag
<1>2. ASSUME NEW c \in Call
      PROVE  /\ alone(c) \in Call /\ alone(c).kind = c.kind /\ alone(c).of = c.of
             /\ alone(c).fresh = c.fresh /\ alone(c).latest = c.latest
             /\ alone(c).refreshing = FALSE
    BY DEF Call
<1> HIDE DEF apart, alone
<1>3. ASSUME NEW c \in BagToSet(p.calls)
      PROVE  /\ alone(c) \in BagToSet(bag)
             /\ alone(c).kind = c.kind /\ alone(c).fresh = c.fresh
             /\ alone(c).latest = c.latest
    BY <1>1, <1>2 DEF Sound, PageTyped
<1>12. ASSUME NEW d \in BagToSet(bag)
       PROVE  /\ d \in Call /\ d.refreshing = FALSE
              /\ \E c \in BagToSet(p.calls) :
                    d.kind = c.kind /\ d.of = c.of /\ d.fresh = c.fresh /\ d.latest = c.latest
  <2>1. PICK c \in BagToSet(p.calls) : d = alone(c)
      BY <1>1
  <2> QED BY <1>2, <2>1 DEF Sound, PageTyped
<1>4. /\ q.token = p.token /\ q.app = p.app /\ q.hidden = p.hidden /\ q.filter = p.filter
      /\ q.rows = p.rows /\ q.banner = p.banner /\ q.selected = p.selected
      /\ q.detail = p.detail /\ q.online = p.online /\ q.socket = p.socket
      /\ q.timer = p.timer /\ q.refresh = "none" /\ q.calls = bag
    BY DEF Sound, PageTyped
<1>5. BagToSet(bag) \subseteq Call
    BY <1>12
<1>6. PageTyped(q)
    BY <1>1, <1>4, <1>5 DEF Sound, PageTyped, IsACallBag
<1>7. RefreshFails(p) = q
    BY DEF RefreshFails, bag, apart, alone
<1> HIDE DEF q
<1>8. RowsAskedMatch(q) /\ \A c \in BagToSet(q.calls) : ~c.refreshing
  <2>1. ASSUME NEW d \in BagToSet(q.calls), d.kind = "tasks" /\ d.fresh /\ d.latest
        PROVE  d.of = q.filter
    <3>1. PICK c \in BagToSet(p.calls) :
              d.kind = c.kind /\ d.of = c.of /\ d.fresh = c.fresh /\ d.latest = c.latest
        BY <1>4, <1>12
    <3>2. c.kind = "tasks" /\ c.fresh /\ c.latest
        BY <2>1, <3>1
    <3> QED BY <1>4, <3>1, <3>2 DEF Sound, RowsAskedMatch
  <2>2. \A c \in BagToSet(q.calls) : ~c.refreshing
      BY <1>4, <1>12
  <2> QED BY <2>1, <2>2 DEF RowsAskedMatch
<1>9. Sound(q)
    BY <1>4, <1>6, <1>8 DEF Sound, BlankWithoutSession, Quiet, DetailFollows
<1>10. Connects(p) => Connects(q)
    BY <1>3, <1>4 DEF Connects
<1>11. RowsFollow(p) => RowsFollow(q)
    BY <1>3, <1>4 DEF RowsFollow, CurrentOf
<1> QED BY <1>7, <1>9, <1>10, <1>11

\* The last part of connect()'s refresh shows the app, and connects it.
LEMMA RefreshPartDoneIsSound ==
  ASSUME NEW p, Sound(p), p.token
  PROVE  LET q == RefreshPartDone(p)
         IN  /\ Sound(q)
             /\ Connects(p) => Connects(q)
             /\ RowsFollow(p) => RowsFollow(q)
<1> SUFFICES ASSUME ~\E c \in BagToSet(p.calls) : c.refreshing
             PROVE  LET q == RefreshPartDone(p)
                    IN  /\ Sound(q)
                        /\ Connects(p) => Connects(q)
                        /\ RowsFollow(p) => RowsFollow(q)
    BY DEF RefreshPartDone
<1> DEFINE m == [p EXCEPT !.refresh = "none"]
<1>1. /\ m.token = p.token /\ m.app = p.app /\ m.hidden = p.hidden /\ m.filter = p.filter
      /\ m.rows = p.rows /\ m.banner = p.banner /\ m.selected = p.selected
      /\ m.detail = p.detail /\ m.online = p.online /\ m.socket = p.socket
      /\ m.timer = p.timer /\ m.refresh = "none" /\ m.calls = p.calls
    BY DEF Sound, PageTyped
<1>2. PageTyped(m)
    BY <1>1 DEF Sound, PageTyped
<1>3. RefreshPartDone(p) = IF p.refresh = "connect"
                           THEN ConnectRealtime([m EXCEPT !.app = TRUE]) ELSE m
    BY DEF RefreshPartDone
<1> HIDE DEF m
<1>4. CASE p.refresh # "connect"
  <2>1. Sound(m)
      BY <1>1, <1>2 DEF Sound, BlankWithoutSession, Quiet, RowsAskedMatch, DetailFollows
  <2>2. (Connects(p) => Connects(m)) /\ (RowsFollow(p) => RowsFollow(m))
      BY <1>1 DEF Connects, RowsFollow, CurrentOf
  <2> QED BY <1>3, <1>4, <2>1, <2>2
<1>5. CASE p.refresh = "connect"
  <2> DEFINE n == [m EXCEPT !.app = TRUE]
  <2>1. /\ n.token = p.token /\ n.app = TRUE /\ n.hidden = p.hidden /\ n.filter = p.filter
        /\ n.rows = p.rows /\ n.banner = p.banner /\ n.selected = p.selected
        /\ n.detail = p.detail /\ n.online = p.online /\ n.socket = p.socket
        /\ n.timer = p.timer /\ n.refresh = "none" /\ n.calls = p.calls
      BY <1>1, <1>2 DEF PageTyped
  <2>2. PageTyped(n)
      BY <1>2, <2>1 DEF PageTyped
  <2> HIDE DEF n
  <2>3. Sound(n)
      BY <2>1, <2>2 DEF Sound, BlankWithoutSession, Quiet, RowsAskedMatch, DetailFollows
  <2>4. RowsFollow(p) => RowsFollow(n)
      BY <1>5, <2>1 DEF RowsFollow, CurrentOf
  <2>5. RefreshPartDone(p) = ConnectRealtime(n)
      BY <1>3, <1>5 DEF n
  <2> QED BY <2>1, <2>3, <2>4, <2>5, ConnectRealtimeIsSound
<1> QED BY <1>4, <1>5
-----------------------------------------------------------------------------
(* An answered call leaves the bag, and what it does follows.               *)

IsCurrentTasks(c) == c.kind = "tasks" /\ c.fresh /\ c.latest
IsFreshTicket(c) == c.kind = "ticket" /\ c.fresh

\* p is a page that the call c has just been taken from.
TakenFrom(p, c) ==
    /\ Sound(p) /\ c \in Call
    /\ c.refreshing => p.token
    /\ IsCurrentTasks(c) => c.of = p.filter
    /\ Connects(p) \/ IsFreshTicket(c)
    /\ RowsFollow(p) \/ IsCurrentTasks(c)

\* Only a fresh ticket call can be the last reason of Connects, and only a current
\* tasks call that of RowsFollow.
LEMMA CallIsTaken ==
  ASSUME NEW p, Sound(p), Connects(p), RowsFollow(p), NEW c \in BagToSet(p.calls)
  PROVE  LET q == [p EXCEPT !.calls = Without(@, c)]
         IN  TakenFrom(q, c) /\ q.token = p.token
<1> DEFINE bag == Without(p.calls, c)
           q == [p EXCEPT !.calls = bag]
<1>1. /\ IsACallBag(bag)
      /\ BagToSet(bag) \subseteq BagToSet(p.calls)
      /\ BagToSet(p.calls) \ {c} \subseteq BagToSet(bag)
    BY CallIsRemoved DEF Sound, PageTyped, IsACallBag
<1> HIDE DEF bag
<1>2. /\ q.token = p.token /\ q.app = p.app /\ q.hidden = p.hidden /\ q.filter = p.filter
      /\ q.rows = p.rows /\ q.banner = p.banner /\ q.selected = p.selected
      /\ q.detail = p.detail /\ q.online = p.online /\ q.socket = p.socket
      /\ q.timer = p.timer /\ q.refresh = p.refresh /\ q.calls = bag
    BY DEF Sound, PageTyped
<1>3. PageTyped(q)
    BY <1>1, <1>2 DEF Sound, PageTyped, IsACallBag
<1> HIDE DEF q
<1>4. Sound(q)
    BY <1>1, <1>2, <1>3
       DEF Sound, BlankWithoutSession, Quiet, RowsAskedMatch, DetailFollows
<1>5. Connects(q) \/ IsFreshTicket(c)
    BY <1>1, <1>2 DEF Connects, IsFreshTicket
<1>6. RowsFollow(q) \/ IsCurrentTasks(c)
    BY <1>1, <1>2 DEF RowsFollow, CurrentOf, IsCurrentTasks
<1>7. /\ c \in Call
      /\ c.refreshing => p.token
      /\ IsCurrentTasks(c) => c.of = p.filter
    BY DEF Sound, PageTyped, BlankWithoutSession, RowsAskedMatch, IsCurrentTasks
<1> QED BY <1>2, <1>4, <1>5, <1>6, <1>7 DEF TakenFrom, q, bag

\* An error that is shown stands for the rows.
LEMMA BannerIsSound ==
  ASSUME NEW p, Sound(p)
  PROVE  LET q == [p EXCEPT !.banner = TRUE]
         IN  /\ Sound(q) /\ q.token = p.token
             /\ Connects(p) => Connects(q)
             /\ RowsFollow(q)
<1> DEFINE q == [p EXCEPT !.banner = TRUE]
<1>1. /\ q.token = p.token /\ q.app = p.app /\ q.hidden = p.hidden /\ q.filter = p.filter
      /\ q.rows = p.rows /\ q.banner = TRUE /\ q.selected = p.selected
      /\ q.detail = p.detail /\ q.online = p.online /\ q.socket = p.socket
      /\ q.timer = p.timer /\ q.refresh = p.refresh /\ q.calls = p.calls
    BY DEF Sound, PageTyped
<1>2. PageTyped(q)
    BY <1>1 DEF Sound, PageTyped
<1> HIDE DEF q
<1>3. Sound(q)
    BY <1>1, <1>2 DEF Sound, BlankWithoutSession, Quiet, RowsAskedMatch, DetailFollows
<1>4. (Connects(p) => Connects(q)) /\ RowsFollow(q)
    BY <1>1 DEF Connects, RowsFollow
<1> QED BY <1>1, <1>3, <1>4 DEF q

\* A failed ticket sets the timer, failed rows show the error.
LEMMA RefusedIsSound ==
  ASSUME NEW p, NEW c, TakenFrom(p, c)
  PROVE  LET q == Refused(p, c) IN Sound(q) /\ Connects(q) /\ RowsFollow(q)
<1> DEFINE current == c.fresh /\ c.latest
           shown == IF c.kind = "selfcheck" \/ (c.kind = "tasks" /\ current)
                    THEN [p EXCEPT !.banner = TRUE] ELSE p
           Good(q) == Sound(q) /\ Connects(q) /\ RowsFollow(q)
<1>1. Sound(p) /\ c \in Call
    BY DEF TakenFrom
<1>2. CASE c.kind = "ticket"
  <2>1. RowsFollow(p)
      BY <1>2 DEF TakenFrom, IsCurrentTasks
  <2>2. Refused(p, c) = IF c.fresh THEN ScheduleReconnect(p) ELSE p
      BY <1>2 DEF Refused
  <2>3. c.fresh \/ Connects(p)
      BY DEF TakenFrom, IsFreshTicket
  <2> QED BY <1>1, <2>1, <2>2, <2>3, ScheduleReconnectIsSound
<1>3. CASE c.kind # "ticket"
  <2>1. Connects(p)
      BY <1>3 DEF TakenFrom, IsFreshTicket
  <2>2. Good(shown)
    <3>1. CASE c.kind = "selfcheck" \/ (c.kind = "tasks" /\ current)
        BY <1>1, <2>1, <3>1, BannerIsSound
    <3>2. CASE ~(c.kind = "selfcheck" \/ (c.kind = "tasks" /\ current))
      <4>1. RowsFollow(p)
          BY <3>2 DEF TakenFrom, IsCurrentTasks
      <4> QED BY <1>1, <2>1, <3>2, <4>1
    <3> QED BY <3>1, <3>2
  <2>3. CASE c.refreshing /\ c.kind = "tasks" /\ ~current
    <3>1. Refused(p, c) = RefreshPartDone(p)
        BY <2>3 DEF Refused
    <3>2. RowsFollow(p) /\ p.token
        BY <2>3 DEF TakenFrom, IsCurrentTasks
    <3> QED BY <1>1, <2>1, <3>1, <3>2, RefreshPartDoneIsSound
  <2>4. CASE c.refreshing /\ (c.kind = "presence" \/ (c.kind = "tasks" /\ current))
    <3>1. Refused(p, c) = RefreshFails(shown)
        BY <2>4 DEF Refused
    <3> HIDE DEF shown
    <3> QED BY <2>2, <3>1, RefreshFailsIsSound
  <2>5. CASE ~c.refreshing \/ c.kind \notin {"presence", "tasks"}
    <3>1. Refused(p, c) = shown
        BY <1>3, <2>5 DEF Refused
    <3> HIDE DEF shown
    <3> QED BY <2>2, <3>1
  <2>6. \/ c.refreshing /\ c.kind = "tasks" /\ ~current
        \/ c.refreshing /\ (c.kind = "presence" \/ (c.kind = "tasks" /\ current))
        \/ ~c.refreshing \/ c.kind \notin {"presence", "tasks"}
    <3>1. c.refreshing \in BOOLEAN /\ current \in BOOLEAN
        BY <1>1 DEF Call
    <3> HIDE DEF current
    <3> QED BY <3>1, SMT
  <2> HIDE DEF shown, current
  <2> QED BY <2>3, <2>4, <2>5, <2>6
<1> QED BY <1>2, <1>3

\* 401 of this session ends it; 401 of an earlier one changes nothing that counts.
LEMMA UnauthorizedIsSound ==
  ASSUME NEW p, NEW c, TakenFrom(p, c)
  PROVE  LET q == Unauthorized(p, c) IN Sound(q) /\ Connects(q) /\ RowsFollow(q)
<1> DEFINE q == IF c.fresh THEN SignOut(p) ELSE p
<1>1. Sound(q) /\ Connects(q) /\ RowsFollow(q)
    BY SignOutIsSound DEF TakenFrom, IsFreshTicket, IsCurrentTasks
<1>2. Unauthorized(p, c) = IF c.kind = "selfcheck" THEN [q EXCEPT !.banner = TRUE] ELSE q
    BY DEF Unauthorized
<1> HIDE DEF q
<1> QED BY <1>1, <1>2, BannerIsSound

\* A ticket becomes a socket or finds one; rows asked for last are those of the
\* filter.
LEMMA AnsweredIsSound ==
  ASSUME NEW p, NEW c, TakenFrom(p, c), c.fresh => p.token,
         c.kind = "presence" /\ c.fresh => c.answer # None
  PROVE  LET q == Answered(p, c) IN Sound(q) /\ Connects(q) /\ RowsFollow(q)
<1> DEFINE current == c.fresh /\ c.latest
           q == CASE c.kind = "presence" /\ c.fresh -> [p EXCEPT !.online = c.answer]
                  [] c.kind = "tasks" /\ current -> [p EXCEPT !.rows = c.of, !.banner = FALSE]
                  [] c.kind = "detail" /\ current /\ c.of = p.selected ->
                         [p EXCEPT !.detail = c.of]
                  [] c.kind = "ticket" /\ c.fresh /\ ~p.hidden /\ p.socket.stage = "none" ->
                         [p EXCEPT !.socket = [NoSocket EXCEPT !.stage = "connecting",
                                                               !.mine = TRUE]]
                  [] c.kind = "selfcheck" -> LoadTasks(p)
                  [] OTHER -> p
           Good(m) == Sound(m) /\ Connects(m) /\ RowsFollow(m) /\ m.token = p.token
<1>1. /\ Sound(p) /\ c \in Call
      /\ Connects(p) \/ IsFreshTicket(c)
      /\ RowsFollow(p) \/ IsCurrentTasks(c)
    BY DEF TakenFrom
<1>2. Good(q)
  <2>1. CASE c.kind = "presence" /\ c.fresh
    <3> DEFINE m == [p EXCEPT !.online = c.answer]
    <3>1. q = m
        BY <2>1
    <3>2. c.answer \in SUBSET Runners /\ p.token
        BY <1>1, <2>1 DEF Call
    <3>3. /\ m.token = p.token /\ m.app = p.app /\ m.hidden = p.hidden /\ m.filter = p.filter
          /\ m.rows = p.rows /\ m.banner = p.banner /\ m.selected = p.selected
          /\ m.detail = p.detail /\ m.socket = p.socket /\ m.timer = p.timer
          /\ m.refresh = p.refresh /\ m.calls = p.calls
        BY <1>1 DEF Sound, PageTyped
    <3>4. PageTyped(m)
        BY <1>1, <3>2, <3>3 DEF Sound, PageTyped
    <3> HIDE DEF m
    <3>5. Sound(m)
        BY <1>1, <3>2, <3>3, <3>4
           DEF Sound, BlankWithoutSession, Quiet, RowsAskedMatch, DetailFollows
    <3>6. Connects(m) /\ RowsFollow(m)
        BY <1>1, <2>1, <3>3
           DEF Connects, RowsFollow, CurrentOf, IsFreshTicket, IsCurrentTasks
    <3> QED BY <3>1, <3>3, <3>5, <3>6
  <2>2. CASE c.kind = "tasks" /\ current
    <3> DEFINE m == [p EXCEPT !.rows = c.of, !.banner = FALSE]
    <3>1. q = m
        BY <2>2
    <3>2. c.of = p.filter /\ p.token
        BY <2>2 DEF TakenFrom, IsCurrentTasks
    <3>3. /\ m.token = p.token /\ m.app = p.app /\ m.hidden = p.hidden /\ m.filter = p.filter
          /\ m.rows = p.filter /\ m.banner = FALSE /\ m.selected = p.selected
          /\ m.detail = p.detail /\ m.online = p.online /\ m.socket = p.socket
          /\ m.timer = p.timer /\ m.refresh = p.refresh /\ m.calls = p.calls
        BY <1>1, <3>2 DEF Sound, PageTyped
    <3>4. PageTyped(m)
        BY <1>1, <3>2, <3>3 DEF Sound, PageTyped
    <3> HIDE DEF m
    <3>5. Sound(m)
        BY <1>1, <3>2, <3>3, <3>4
           DEF Sound, BlankWithoutSession, Quiet, RowsAskedMatch, DetailFollows
    <3>6. Connects(m) /\ RowsFollow(m)
        BY <1>1, <2>2, <3>3 DEF Connects, RowsFollow, IsFreshTicket
    <3> QED BY <3>1, <3>3, <3>5, <3>6
  <2>3. CASE c.kind = "detail" /\ current /\ c.of = p.selected
    <3> DEFINE m == [p EXCEPT !.detail = c.of]
    <3>1. q = m
        BY <2>3
    <3>2. p.token
        BY <2>3
    <3>3. /\ m.token = p.token /\ m.app = p.app /\ m.hidden = p.hidden /\ m.filter = p.filter
          /\ m.rows = p.rows /\ m.banner = p.banner /\ m.selected = p.selected
          /\ m.detail = p.selected /\ m.online = p.online /\ m.socket = p.socket
          /\ m.timer = p.timer /\ m.refresh = p.refresh /\ m.calls = p.calls
        BY <1>1, <2>3 DEF Sound, PageTyped
    <3>4. PageTyped(m)
        BY <1>1, <2>3, <3>3 DEF Sound, PageTyped
    <3> HIDE DEF m
    <3>5. Sound(m)
        BY <1>1, <3>2, <3>3, <3>4
           DEF Sound, BlankWithoutSession, Quiet, RowsAskedMatch, DetailFollows
    <3>6. Connects(m) /\ RowsFollow(m)
        BY <1>1, <2>3, <3>3
           DEF Connects, RowsFollow, CurrentOf, IsFreshTicket, IsCurrentTasks
    <3> QED BY <3>1, <3>3, <3>5, <3>6
  <2>4. CASE c.kind = "ticket" /\ c.fresh /\ ~p.hidden /\ p.socket.stage = "none"
    <3> DEFINE s == [NoSocket EXCEPT !.stage = "connecting", !.mine = TRUE]
               m == [p EXCEPT !.socket = s]
    <3>1. q = m
        BY <2>4
    <3>2. p.token
        BY <2>4
    <3>7. s \in Socket /\ s # NoSocket
        BY NoSocketTyped DEF Socket, NoSocket
    <3> HIDE DEF s
    <3>3. /\ m.token = p.token /\ m.app = p.app /\ m.hidden = p.hidden /\ m.filter = p.filter
          /\ m.rows = p.rows /\ m.banner = p.banner /\ m.selected = p.selected
          /\ m.detail = p.detail /\ m.online = p.online /\ m.socket = s
          /\ m.timer = p.timer /\ m.refresh = p.refresh /\ m.calls = p.calls
        BY <1>1 DEF Sound, PageTyped
    <3>4. PageTyped(m)
        BY <1>1, <3>3, <3>7 DEF Sound, PageTyped
    <3> HIDE DEF m
    <3>5. Sound(m)
        BY <1>1, <2>4, <3>2, <3>3, <3>4
           DEF Sound, BlankWithoutSession, Quiet, RowsAskedMatch, DetailFollows
    <3>6. Connects(m) /\ RowsFollow(m)
        BY <1>1, <2>4, <3>3, <3>7
           DEF Connects, RowsFollow, CurrentOf, IsCurrentTasks
    <3>8. q = m
        BY <3>1 DEF m, s
    <3> HIDE DEF q
    <3> QED BY <3>8, <3>3, <3>5, <3>6
  <2>5. CASE c.kind = "selfcheck"
    <3>1. q = LoadTasks(p)
        BY <2>5
    <3> HIDE DEF q
    <3> QED BY <1>1, <2>5, <3>1, LoadTasksIsSound DEF OtherFields, IsFreshTicket
  <2>6. CASE /\ ~(c.kind = "presence" /\ c.fresh)
             /\ ~(c.kind = "tasks" /\ current)
             /\ ~(c.kind = "detail" /\ current /\ c.of = p.selected)
             /\ ~(c.kind = "ticket" /\ c.fresh /\ ~p.hidden /\ p.socket.stage = "none")
             /\ c.kind # "selfcheck"
    <3>1. q = p
        BY <2>6
    <3>2. Connects(p)
      <4>1. CASE IsFreshTicket(c)
        <5>1. p.hidden \/ p.socket.stage # "none"
            BY <2>6, <4>1 DEF IsFreshTicket
        <5> QED BY <5>1 DEF Connects, NoSocket
      <4> QED BY <1>1, <4>1
    <3>3. RowsFollow(p)
        BY <1>1, <2>6 DEF IsCurrentTasks
    <3> HIDE DEF q
    <3> QED BY <1>1, <3>1, <3>2, <3>3
  <2> HIDE DEF q
  <2> QED BY <2>1, <2>2, <2>3, <2>4, <2>5, <2>6, Zenon
<1>3. Answered(p, c) = IF c.refreshing THEN RefreshPartDone(q) ELSE q
    BY DEF Answered
<1>4. c.refreshing => q.token
    BY <1>2 DEF TakenFrom
<1> HIDE DEF q
<1> QED BY <1>2, <1>3, <1>4, RefreshPartDoneIsSound
-----------------------------------------------------------------------------
(* The steps.                                                               *)

Good(p) == Sound(p) /\ Connects(p) /\ RowsFollow(p)

\* The request for the new filter's rows makes those for the old one late.
LEMMA ChooseRunnerIsSound ==
  ASSUME NEW p, Good(p), p.app, NEW r \in Runners \cup {All}
  PROVE  Good(LoadTasks([p EXCEPT !.filter = r]))
<1> DEFINE b == [p EXCEPT !.filter = r]
           q == Issue(b, "tasks", r, FALSE)
           call == [kind |-> "tasks", of |-> r, fresh |-> TRUE, latest |-> TRUE,
                    refreshing |-> FALSE, answer |-> None]
           older(c) == IF c.kind = "tasks" THEN [c EXCEPT !.latest = FALSE] ELSE c
<1>1. /\ b.token = p.token /\ b.app = p.app /\ b.hidden = p.hidden /\ b.filter = r
      /\ b.rows = p.rows /\ b.banner = p.banner /\ b.selected = p.selected
      /\ b.detail = p.detail /\ b.online = p.online /\ b.socket = p.socket
      /\ b.timer = p.timer /\ b.refresh = p.refresh /\ b.calls = p.calls
    BY DEF Good, Sound, PageTyped
<1>2. PageTyped(b)
    BY <1>1 DEF Good, Sound, PageTyped
<1>3. LoadTasks(b) = q
    BY <1>1 DEF LoadTasks
<1> HIDE DEF b
<1>4. /\ BagToSet(q.calls) = {older(c) : c \in BagToSet(p.calls)} \cup {call}
      /\ OtherFields(b, q) /\ PageTyped(q)
  <2>1. /\ "tasks" \in Kinds /\ r \in Runners \cup Tasks \cup {All, None}
        /\ FALSE \in BOOLEAN
      BY DEF Kinds
  <2>2. /\ BagToSet(q.calls) = {older(c) : c \in BagToSet(b.calls)} \cup {call}
        /\ OtherFields(b, q) /\ PageTyped(q)
      BY <1>2, <2>1, CallsIssued
  <2> QED BY <1>1, <2>2
<1>5. /\ call.kind = "tasks" /\ call.of = r /\ call.fresh /\ call.latest
      /\ call.refreshing = FALSE
    OBVIOUS
<1>6. ASSUME NEW c \in BagToSet(p.calls)
      PROVE  /\ older(c).kind = c.kind /\ older(c).fresh = c.fresh
             /\ older(c).refreshing = c.refreshing
             /\ c.kind = "tasks" => ~older(c).latest
  <2>1. c \in Call
      BY DEF Good, Sound, PageTyped
  <2>2. LET e == [c EXCEPT !.latest = FALSE]
        IN  e.kind = c.kind /\ e.fresh = c.fresh /\ e.refreshing = c.refreshing /\ ~e.latest
      BY <2>1 DEF Call
  <2> QED BY <2>2
<1> HIDE DEF q, call, older
<1>7. /\ call \in BagToSet(q.calls)
      /\ \A c \in BagToSet(p.calls) : older(c) \in BagToSet(q.calls)
      /\ \A d \in BagToSet(q.calls) : d = call \/ \E c \in BagToSet(p.calls) : d = older(c)
    BY <1>4
<1>8. p.token
    BY DEF Good, Sound, BlankWithoutSession
<1>9. RowsAskedMatch(q)
    BY <1>1, <1>4, <1>5, <1>6, <1>7 DEF RowsAskedMatch, OtherFields
<1>10. Sound(q)
    BY <1>1, <1>4, <1>8, <1>9
       DEF Good, Sound, BlankWithoutSession, Quiet, DetailFollows, OtherFields
<1>11. Connects(q)
  <2>1. Connects(p) /\ q.app = p.app /\ q.hidden = p.hidden /\ q.socket = p.socket
        /\ q.timer = p.timer
      BY <1>1, <1>4 DEF Good, OtherFields
  <2>2. ASSUME NEW c \in BagToSet(p.calls), c.kind = "ticket" /\ c.fresh
        PROVE  \E d \in BagToSet(q.calls) : d.kind = "ticket" /\ d.fresh
      BY <1>6, <1>7, <2>2
  <2> QED BY <2>1, <2>2 DEF Connects
<1>12. RowsFollow(q)
    BY <1>5, <1>7 DEF RowsFollow, CurrentOf
<1> QED BY <1>3, <1>10, <1>11, <1>12 DEF Good, b

\* There is a socket only in a session and on a visible tab: another takes
\* its place.
LEMMA SocketMovesOn ==
  ASSUME NEW p, Good(p), p.socket # NoSocket, NEW s \in Socket, s # NoSocket
  PROVE  LET q == [p EXCEPT !.socket = s] IN Good(q) /\ q.token
<1> DEFINE q == [p EXCEPT !.socket = s]
<1>1. /\ q.token = p.token /\ q.app = p.app /\ q.hidden = p.hidden /\ q.filter = p.filter
      /\ q.rows = p.rows /\ q.banner = p.banner /\ q.selected = p.selected
      /\ q.detail = p.detail /\ q.online = p.online /\ q.socket = s
      /\ q.timer = p.timer /\ q.refresh = p.refresh /\ q.calls = p.calls
    BY DEF Good, Sound, PageTyped
<1>2. PageTyped(q)
    BY <1>1 DEF Good, Sound, PageTyped
<1>3. p.token /\ ~p.hidden
    BY DEF Good, Sound, BlankWithoutSession, Quiet
<1> HIDE DEF q
<1>4. Sound(q)
    BY <1>1, <1>2, <1>3
       DEF Good, Sound, BlankWithoutSession, Quiet, RowsAskedMatch, DetailFollows
<1>5. Connects(q) /\ RowsFollow(q)
    BY <1>1 DEF Good, Connects, RowsFollow, CurrentOf
<1> QED BY <1>1, <1>3, <1>4, <1>5 DEF Good, q

\* Nothing else looks at the socket, so that losing it takes only Connects.
LEMMA SocketGoes ==
  ASSUME NEW p, Good(p)
  PROVE  LET q == [p EXCEPT !.socket = NoSocket] IN Sound(q) /\ RowsFollow(q)
<1> DEFINE q == [p EXCEPT !.socket = NoSocket]
<1>1. /\ q.token = p.token /\ q.app = p.app /\ q.hidden = p.hidden /\ q.filter = p.filter
      /\ q.rows = p.rows /\ q.banner = p.banner /\ q.selected = p.selected
      /\ q.detail = p.detail /\ q.online = p.online /\ q.socket = NoSocket
      /\ q.timer = p.timer /\ q.refresh = p.refresh /\ q.calls = p.calls
    BY DEF Good, Sound, PageTyped
<1>2. PageTyped(q)
    BY <1>1, NoSocketTyped DEF Good, Sound, PageTyped
<1> HIDE DEF q
<1>3. Sound(q)
    BY <1>1, <1>2
       DEF Good, Sound, BlankWithoutSession, Quiet, RowsAskedMatch, DetailFollows
<1>4. RowsFollow(q)
    BY <1>1 DEF Good, RowsFollow, CurrentOf
<1> QED BY <1>3, <1>4 DEF q

\* The Worker's reading of the hub changes only the answer to come.
LEMMA PresenceReadIsSound ==
  ASSUME NEW p, Good(p), NEW c \in BagToSet(p.calls), c.kind = "presence",
         NEW online \in SUBSET Runners
  PROVE  Good([p EXCEPT !.calls = Without(@, c) (+) SetToBag({[c EXCEPT !.answer = online]})])
<1> DEFINE left == Without(p.calls, c)
           d == [c EXCEPT !.answer = online]
           bag == left (+) SetToBag({d})
           q == [p EXCEPT !.calls = bag]
<1>1. /\ IsACallBag(left)
      /\ BagToSet(left) \subseteq BagToSet(p.calls)
      /\ BagToSet(p.calls) \ {c} \subseteq BagToSet(left)
    BY CallIsRemoved DEF Good, Sound, PageTyped, IsACallBag
<1> HIDE DEF left, d
<1>2. IsACallBag(bag) /\ BagToSet(bag) = BagToSet(left) \cup {d}
    BY <1>1, CallIsAdded
<1>3. /\ d \in Call /\ d.kind = "presence" /\ d.fresh = c.fresh
      /\ d.refreshing = c.refreshing
    BY DEF Good, Sound, PageTyped, Call, d
<1> HIDE DEF bag
<1>4. /\ q.token = p.token /\ q.app = p.app /\ q.hidden = p.hidden /\ q.filter = p.filter
      /\ q.rows = p.rows /\ q.banner = p.banner /\ q.selected = p.selected
      /\ q.detail = p.detail /\ q.online = p.online /\ q.socket = p.socket
      /\ q.timer = p.timer /\ q.refresh = p.refresh /\ q.calls = bag
    BY DEF Good, Sound, PageTyped
<1>5. PageTyped(q)
    BY <1>1, <1>2, <1>3, <1>4 DEF Good, Sound, PageTyped, IsACallBag
<1> HIDE DEF q
<1>6. Sound(q)
    BY <1>1, <1>2, <1>3, <1>4, <1>5
       DEF Good, Sound, BlankWithoutSession, Quiet, RowsAskedMatch, DetailFollows
<1>7. Connects(q)
    BY <1>1, <1>2, <1>4 DEF Good, Connects
<1>8. RowsFollow(q)
    BY <1>1, <1>2, <1>4 DEF Good, RowsFollow, CurrentOf
<1> QED BY <1>6, <1>7, <1>8 DEF Good, q, bag, left, d

\* The page as it is loaded, with or without a stored token.
LEMMA Start == Init => IInv
<1> SUFFICES ASSUME Init PROVE IInv
    OBVIOUS
<1>1. PICK token, hidden \in BOOLEAN :
          LET p == [Blank EXCEPT !.token = token, !.hidden = hidden]
          IN  page = IF token THEN RefreshAll(p, "connect") ELSE p
    BY DEF Init
<1> DEFINE p == [Blank EXCEPT !.token = token, !.hidden = hidden]
<1>2. /\ p.token = token /\ p.app = FALSE /\ p.hidden = hidden /\ p.filter = All
      /\ p.rows = None /\ p.banner = FALSE /\ p.selected = None /\ p.detail = None
      /\ p.online = {} /\ p.socket = NoSocket /\ p.timer = FALSE /\ p.refresh = "none"
      /\ p.calls = EmptyBag
    BY DEF Blank
<1>3. BagToSet(p.calls) = {} /\ IsABag(p.calls) /\ IsFiniteSet(BagToSet(p.calls))
    BY <1>2, FS_EmptySet DEF EmptyBag, SetToBag, BagToSet, IsABag
<1>4. PageTyped(p)
    BY <1>2, <1>3, NoSocketTyped DEF PageTyped, Blank
<1> HIDE DEF p
<1>5. Sound(p)
    BY <1>2, <1>3, <1>4
       DEF Sound, BlankWithoutSession, Quiet, RowsAskedMatch, DetailFollows
<1>6. Connects(p) /\ RowsFollow(p)
    BY <1>2 DEF Connects, RowsFollow
<1>7. page = IF token THEN RefreshAll(p, "connect") ELSE p
    BY <1>1 DEF p
<1>8. Good(page)
    BY <1>2, <1>5, <1>6, <1>7, RefreshAllIsSound DEF Good
<1> QED BY <1>8 DEF IInv, Init, Good

\* A new session: no call of an earlier one is fresh, and nothing is shown yet.
LEMMA SubmitIsSound ==
  ASSUME NEW p, Good(p), ~p.app
  PROVE  Good(RefreshAll([NewSession(p) EXCEPT !.token = TRUE], "connect"))
<1> DEFINE n == NewSession(p)
           b == [n EXCEPT !.token = TRUE]
<1>1. Sound(n) /\ n.app = p.app /\ n.refresh = "none"
    BY NewSessionIsSound DEF Good
<1> HIDE DEF n
<1>2. /\ b.token = TRUE /\ b.app = n.app /\ b.hidden = n.hidden /\ b.filter = n.filter
      /\ b.rows = n.rows /\ b.banner = n.banner /\ b.selected = n.selected
      /\ b.detail = n.detail /\ b.online = n.online /\ b.socket = n.socket
      /\ b.timer = n.timer /\ b.refresh = n.refresh /\ b.calls = n.calls
    BY <1>1 DEF Sound, PageTyped
<1>3. PageTyped(b)
    BY <1>1, <1>2 DEF Sound, PageTyped
<1> HIDE DEF b
<1>4. Sound(b)
    BY <1>1, <1>2, <1>3
       DEF Sound, BlankWithoutSession, Quiet, RowsAskedMatch, DetailFollows
<1>5. Connects(b)
    BY <1>1, <1>2 DEF Connects
<1> QED BY <1>1, <1>2, <1>4, <1>5, RefreshAllIsSound DEF Good, b, n

\* A tab that is shown again refreshes and connects.
LEMMA TabIsShown ==
  ASSUME NEW p, Good(p), p.hidden
  PROVE  LET q == [p EXCEPT !.hidden = FALSE]
         IN  Good(IF q.token THEN ConnectRealtime(RefreshAll(q, "click")) ELSE q)
<1> DEFINE q == [p EXCEPT !.hidden = FALSE]
<1>1. /\ q.token = p.token /\ q.app = p.app /\ q.hidden = FALSE /\ q.filter = p.filter
      /\ q.rows = p.rows /\ q.banner = p.banner /\ q.selected = p.selected
      /\ q.detail = p.detail /\ q.online = p.online /\ q.socket = p.socket
      /\ q.timer = p.timer /\ q.refresh = p.refresh /\ q.calls = p.calls
    BY DEF Good, Sound, PageTyped
<1>2. PageTyped(q)
    BY <1>1 DEF Good, Sound, PageTyped
<1> HIDE DEF q
<1>3. Sound(q)
    BY <1>1, <1>2
       DEF Good, Sound, BlankWithoutSession, Quiet, RowsAskedMatch, DetailFollows
<1>4. RowsFollow(q)
    BY <1>1 DEF Good, RowsFollow, CurrentOf
<1>5. ~q.token => Connects(q)
    BY <1>3 DEF Connects, Sound, BlankWithoutSession
<1>6. CASE q.token
    BY <1>3, <1>4, <1>6, RefreshAllIsSound, ConnectRealtimeIsSound DEF Good, q
<1>7. CASE ~q.token
    BY <1>3, <1>4, <1>5, <1>7 DEF Good, q
<1> QED BY <1>6, <1>7

\* A tab that is hidden loses socket and timer in the same turn.
LEMMA TabIsHidden ==
  ASSUME NEW p, Good(p)
  PROVE  Good(CloseRealtime([p EXCEPT !.hidden = TRUE]))
<1> DEFINE q == CloseRealtime([p EXCEPT !.hidden = TRUE])
<1>1. /\ q.token = p.token /\ q.app = p.app /\ q.hidden = TRUE /\ q.filter = p.filter
      /\ q.rows = p.rows /\ q.banner = p.banner /\ q.selected = p.selected
      /\ q.detail = p.detail /\ q.online = p.online /\ q.socket = NoSocket
      /\ q.timer = FALSE /\ q.refresh = p.refresh /\ q.calls = p.calls
    BY DEF CloseRealtime, Good, Sound, PageTyped
<1>2. PageTyped(q)
    BY <1>1, NoSocketTyped DEF CloseRealtime, Good, Sound, PageTyped
<1> HIDE DEF q
<1>3. Sound(q)
    BY <1>1, <1>2
       DEF Good, Sound, BlankWithoutSession, Quiet, RowsAskedMatch, DetailFollows
<1>4. Connects(q) /\ RowsFollow(q)
    BY <1>1 DEF Good, Connects, RowsFollow, CurrentOf
<1> QED BY <1>3, <1>4 DEF Good, q

\* The timer that has run out is replaced by a ticket request.
LEMMA TimerIsSound ==
  ASSUME NEW p, Good(p), p.timer
  PROVE  Good(ConnectRealtime([p EXCEPT !.timer = FALSE]))
<1> DEFINE q == [p EXCEPT !.timer = FALSE]
<1>1. /\ q.token = p.token /\ q.app = p.app /\ q.hidden = p.hidden /\ q.filter = p.filter
      /\ q.rows = p.rows /\ q.banner = p.banner /\ q.selected = p.selected
      /\ q.detail = p.detail /\ q.online = p.online /\ q.socket = p.socket
      /\ q.timer = FALSE /\ q.refresh = p.refresh /\ q.calls = p.calls
    BY DEF Good, Sound, PageTyped
<1>2. PageTyped(q)
    BY <1>1 DEF Good, Sound, PageTyped
<1> HIDE DEF q
<1>3. Sound(q) /\ q.token
    BY <1>1, <1>2
       DEF Good, Sound, BlankWithoutSession, Quiet, RowsAskedMatch, DetailFollows
<1>4. RowsFollow(q)
    BY <1>1 DEF Good, RowsFollow, CurrentOf
<1> QED BY <1>3, <1>4, ConnectRealtimeIsSound DEF Good, q

\* An event of a runner changes the online set, one of a task asks for rows again.
LEMMA HandleIsSound ==
  ASSUME NEW p, Good(p), p.token, NEW e \in Event
  PROVE  Good(Handle(p, e))
<1>1. CASE e.about \in Runners
  <2> DEFINE online == IF e.online THEN p.online \cup {e.about} ELSE p.online \ {e.about}
             q == [p EXCEPT !.online = online]
  <2>1. Handle(p, e) = q
      BY <1>1 DEF Handle
  <2>2. online \in SUBSET Runners
      BY <1>1 DEF Good, Sound, PageTyped
  <2> HIDE DEF online
  <2>3. /\ q.token = p.token /\ q.app = p.app /\ q.hidden = p.hidden /\ q.filter = p.filter
        /\ q.rows = p.rows /\ q.banner = p.banner /\ q.selected = p.selected
        /\ q.detail = p.detail /\ q.socket = p.socket /\ q.timer = p.timer
        /\ q.refresh = p.refresh /\ q.calls = p.calls
      BY DEF Good, Sound, PageTyped
  <2>4. PageTyped(q)
      BY <2>2, <2>3 DEF Good, Sound, PageTyped
  <2> HIDE DEF q
  <2>5. Sound(q)
      BY <2>3, <2>4
         DEF Good, Sound, BlankWithoutSession, Quiet, RowsAskedMatch, DetailFollows
  <2>6. Connects(q) /\ RowsFollow(q)
      BY <2>3 DEF Good, Connects, RowsFollow, CurrentOf
  <2> QED BY <2>1, <2>5, <2>6 DEF Good
<1>2. CASE e.about \notin Runners
  <2>1. e.about \in Tasks
      BY <1>2 DEF Event
  <2>2. Good(LoadTasks(p))
      BY LoadTasksIsSound DEF Good
  <2>3. Good(SelectTask(LoadTasks(p), e.about))
      BY <2>1, <2>2, SelectTaskIsSound DEF Good
  <2> QED BY <1>2, <2>2, <2>3 DEF Handle
<1> QED BY <1>1, <1>2

\* Every step of the page keeps the invariant.
LEMMA Step == IInv /\ [Next]_vars => IInv'
<1> SUFFICES ASSUME IInv, [Next]_vars PROVE IInv'
    OBVIOUS
<1>0. hub \subseteq Runners /\ Good(page)
    BY DEF IInv, Good
<1>1. /\ page.socket.stage # "none" => page.socket # NoSocket
      /\ page.socket \in Socket
      /\ page.app \/ page.timer \/ page.socket # NoSocket => page.token
    BY <1>0 DEF NoSocket, Good, Sound, PageTyped, BlankWithoutSession
<1>2. SUFFICES hub' \subseteq Runners /\ Good(page')
    BY DEF IInv, Good, Sound, PageTyped, BlankWithoutSession, Quiet, RowsAskedMatch,
           DetailFollows, Connects, RowsFollow, CurrentOf
<1> DEFINE Fits == hub' \subseteq Runners /\ Good(page')
<1>3. ASSUME NEW q, Become(q), Good(q) PROVE Fits
    BY <1>0, <1>3 DEF Become
<1>4. CASE Submit
    BY <1>0, <1>3, <1>4, SubmitIsSound DEF Submit
<1>5. CASE ClickSignOut
    BY <1>0, <1>3, <1>5, SignOutIsSound DEF ClickSignOut, Good
<1>6. CASE ClickRefresh
  <2>1. Good(RefreshAll(page, "click"))
      BY <1>0, <1>1, <1>6, RefreshAllIsSound DEF ClickRefresh, Good
  <2> QED BY <1>3, <1>6, <2>1 DEF ClickRefresh
<1>7. ASSUME NEW r \in Runners \cup {All}, ChooseRunner(r) PROVE Fits
    BY <1>0, <1>3, <1>7, ChooseRunnerIsSound DEF ChooseRunner
<1>8. ASSUME NEW t \in Tasks, ChooseTask(t) PROVE Fits
  <2>1. Good(SelectTask(page, t))
      BY <1>0, SelectTaskIsSound DEF Good
  <2> QED BY <1>3, <1>8, <2>1 DEF ChooseTask
<1>9. CASE RunSelfcheck
  <2>1. "selfcheck" \in Kinds /\ "selfcheck" # "tasks"
        /\ None \in Runners \cup Tasks \cup {All, None} /\ FALSE \in BOOLEAN
      BY DEF Kinds
  <2>2. Good(Issue(page, "selfcheck", None, FALSE))
      BY <1>0, <2>1, IssueIsSound DEF Good
  <2> QED BY <1>3, <1>9, <2>2 DEF RunSelfcheck
<1>10. CASE VisibilityChange
  <2>1. CASE page.hidden
      BY <1>0, <1>3, <1>10, <2>1, TabIsShown DEF VisibilityChange
  <2>2. CASE ~page.hidden
      BY <1>0, <1>3, <1>10, <2>2, TabIsHidden DEF VisibilityChange
  <2> QED BY <2>1, <2>2
<1>11. CASE Timer
    BY <1>0, <1>3, <1>11, TimerIsSound DEF Timer
<1>12. ASSUME NEW c \in BagToSet(page.calls), PresenceRead(c) PROVE Fits
    BY <1>0, <1>3, <1>12, PresenceReadIsSound DEF PresenceRead
<1>13. ASSUME NEW c \in BagToSet(page.calls), Response(c) PROVE Fits
  <2> DEFINE p == [page EXCEPT !.calls = Without(@, c)]
  <2>1. TakenFrom(p, c) /\ p.token = page.token
      BY <1>0, CallIsTaken DEF Good
  <2>2. \/ /\ c.kind = "presence" /\ c.fresh => c.answer # None
           /\ c.fresh => page.token
           /\ Become(Answered(p, c))
        \/ Become(Refused(p, c))
        \/ Become(Unauthorized(p, c))
      BY <1>13 DEF Response
  <2> HIDE DEF p
  <2>3. CASE Become(Refused(p, c))
      BY <1>3, <2>1, <2>3, RefusedIsSound DEF Good
  <2>4. CASE Become(Unauthorized(p, c))
      BY <1>3, <2>1, <2>4, UnauthorizedIsSound DEF Good
  <2>5. CASE /\ c.kind = "presence" /\ c.fresh => c.answer # None
             /\ c.fresh => page.token
             /\ Become(Answered(p, c))
      BY <1>3, <2>1, <2>5, AnsweredIsSound DEF Good
  <2> QED BY <2>2, <2>3, <2>4, <2>5
<1>14. CASE HubAccepts
  <2> DEFINE s == [page.socket EXCEPT !.stage = "accepted"]
  <2>1. s \in Socket /\ s # NoSocket
      BY <1>1 DEF Socket, NoSocket
  <2>2. Become([page EXCEPT !.socket = s])
      BY <1>14 DEF HubAccepts
  <2> HIDE DEF s
  <2>3. Good([page EXCEPT !.socket = s])
      BY <1>0, <1>1, <1>14, <2>1, SocketMovesOn DEF HubAccepts
  <2> QED BY <1>3, <2>2, <2>3
<1>15. CASE SocketOpens
  <2> DEFINE s == [page.socket EXCEPT !.stage = "open"]
             p == [page EXCEPT !.socket = s]
  <2>1. s \in Socket /\ s # NoSocket
      BY <1>1 DEF Socket, NoSocket
  <2>2. Become(IF p.socket.mine THEN RefreshAll(p, "click") ELSE p)
      BY <1>15 DEF SocketOpens
  <2> HIDE DEF s
  <2>3. Good(p) /\ p.token
      BY <1>0, <1>1, <1>15, <2>1, SocketMovesOn DEF SocketOpens
  <2> HIDE DEF p
  <2>4. Good(RefreshAll(p, "click"))
      BY <2>3, RefreshAllIsSound DEF Good
  <2> QED BY <1>3, <2>2, <2>3, <2>4
<1>16. CASE SocketCloses
  <2>1. Good(ScheduleReconnect([page EXCEPT !.socket = NoSocket]))
      BY <1>0, SocketGoes, ScheduleReconnectIsSound DEF Good
  <2> QED BY <1>3, <1>16, <2>1 DEF SocketCloses
<1>17. CASE Message
  <2> DEFINE s == [page.socket EXCEPT !.wire = Tail(@)]
             p == [page EXCEPT !.socket = s]
             e == Head(page.socket.wire)
  <2>1. s \in Socket /\ s # NoSocket /\ e \in Event
    <3>1. /\ page.socket.wire \in Seq(Event) /\ page.socket.wire # <<>>
          /\ page.socket.stage = "open"
        BY <1>1, <1>17 DEF Socket, Message
    <3>2. e \in Event /\ Tail(page.socket.wire) \in Seq(Event)
        BY <3>1
    <3>3. s \in Socket /\ s.stage = "open"
        BY <1>1, <3>1, <3>2 DEF Socket
    <3> QED BY <3>2, <3>3 DEF NoSocket
  <2>2. Become(IF p.socket.mine THEN Handle(p, e) ELSE p)
      BY <1>17 DEF Message
  <2> HIDE DEF s, e
  <2>3. Good(p) /\ p.token
      BY <1>0, <1>1, <1>17, <2>1, SocketMovesOn DEF Message
  <2> HIDE DEF p
  <2>4. Good(Handle(p, e))
      BY <2>1, <2>3, HandleIsSound
  <2> QED BY <1>3, <2>2, <2>3, <2>4
<1>18. ASSUME NEW e \in Event, Broadcast(e) PROVE Good(page')
  <2>1. CASE page.socket.stage \in {"accepted", "open"}
    <3> DEFINE s == [page.socket EXCEPT !.wire = Append(@, e)]
    <3>1. s \in Socket /\ s # NoSocket
      <4>1. Append(page.socket.wire, e) \in Seq(Event)
          BY <1>1 DEF Socket
      <4>2. s \in Socket /\ s.stage = page.socket.stage
          BY <1>1, <2>1, <4>1 DEF Socket
      <4> QED BY <2>1, <4>2 DEF NoSocket
    <3>2. page' = [page EXCEPT !.socket = s]
        BY <1>18, <2>1 DEF Broadcast
    <3> HIDE DEF s
    <3> QED BY <1>0, <1>1, <2>1, <3>1, <3>2, SocketMovesOn
  <2>2. CASE page.socket.stage \notin {"accepted", "open"}
      BY <1>0, <1>18, <2>2 DEF Broadcast
  <2> QED BY <2>1, <2>2
<1>19. ASSUME NEW r \in Runners, RunnerChanges(r) PROVE Fits
  <2>1. [about |-> r, online |-> r \notin hub] \in Event
      BY DEF Event
  <2> QED BY <1>0, <1>18, <1>19, <2>1 DEF RunnerChanges
<1>20. ASSUME NEW t \in Tasks, TaskChanges(t) PROVE Fits
  <2>1. [about |-> t, online |-> FALSE] \in Event
      BY DEF Event
  <2> QED BY <1>0, <1>18, <1>20, <2>1 DEF TaskChanges
<1>21. CASE UNCHANGED vars
    BY <1>0, <1>21 DEF vars
<1> QED BY <1>4, <1>5, <1>6, <1>7, <1>8, <1>9, <1>10, <1>11, <1>12, <1>13, <1>14, <1>15,
           <1>16, <1>17, <1>19, <1>20, <1>21 DEF Next

\* What is kept of the page follows from the session, the tab and the filter
\* in every state the script reaches.
THEOREM Invariance == Spec => []IInv
    BY Start, Step, PTL DEF Spec

\* What the page shows and keeps is of its type; its calls are a bag, of finitely
\* many.
THEOREM TypeCorrectness == Spec => []TypeOK
<1>1. IInv => TypeOK
    BY DEF IInv, Sound, TypeOK
<1> QED BY Invariance, <1>1, PTL

\* signOut and sessionEpoch: a page without a session shows and keeps nothing,
\* whichever answers, timers and sockets were still to come.
THEOREM NothingIsShownSignedOut == Spec => []SignedOutShowsNothing
<1>1. IInv => SignedOutShowsNothing
    BY DEF IInv, Sound, BlankWithoutSession, SignedOutShowsNothing
<1> QED BY Invariance, <1>1, PTL

\* closeRealtime and connectRealtime: a hidden tab has no socket and no timer.
THEOREM HiddenIsQuiet == Spec => []QuietWhenHidden
<1>1. IInv => QuietWhenHidden
    BY DEF IInv, Sound, Quiet, QuietWhenHidden
<1> QED BY Invariance, <1>1, PTL

\* scheduleReconnect: a visible console with a session has a socket, is getting
\* one, or will try again.
THEOREM VisibleConnects == Spec => []KeepsConnecting
<1>1. IInv => KeepsConnecting
    BY DEF IInv, Connects, KeepsConnecting
<1> QED BY Invariance, <1>1, PTL

\* taskRequestGeneration: the rows are those of the chosen filter, or newer
\* ones are on their way, or an error is shown.
THEOREM RowsFollowFilter == Spec => []RowsMatchFilter
<1>1. IInv => RowsMatchFilter
    BY DEF IInv, RowsFollow, CurrentOf, RowsMatchFilter, Current
<1> QED BY Invariance, <1>1, PTL

\* detailRequestGeneration: the detail is that of the selected task.
THEOREM DetailFollowsSelection == Spec => []DetailIsSelected
<1>1. IInv => DetailIsSelected
    BY DEF IInv, Sound, DetailFollows, DetailIsSelected
<1> QED BY Invariance, <1>1, PTL
=============================================================================
