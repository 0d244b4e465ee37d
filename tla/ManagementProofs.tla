-------------------------- MODULE ManagementProofs --------------------------
(***************************************************************************)
(* Theorems about Management, for every value of the constants.            *)
(*                                                                         *)
(* First TaskPages, for all tasks, filters, page sizes and numbers of      *)
(* requests in flight: who pages through a filter misses nothing and is    *)
(* shown nothing of the page before again.  The argument: the sort key of  *)
(* a stored row never changes, a page holds every row between its two      *)
(* cursors, and the only load that is listened to asks for what the list   *)
(* is set to.                                                              *)
(*                                                                         *)
(* Then the API as a whole: a behaviour of it is one of each of its parts, *)
(* so that what RunnerDirectoryProofs and TaskLogsProofs show of theirs    *)
(* holds of the API.                                                       *)
(***************************************************************************)
EXTENDS Management, FiniteSetTheorems, WellFoundedInduction, TLAPS

-----------------------------------------------------------------------------
(* The order of the keys.                                                   *)

LEMMA KeyType == ASSUME TypeOK, NEW t \in Tasks PROVE Key(t) \in Nat \X Nat
    BY PagesAssumption DEF TypeOK, Key

LEMMA OrderIsTotal ==
    ASSUME NEW j \in Nat \X Nat, NEW k \in Nat \X Nat
    PROVE  /\ Precedes(j, k) \/ j = k \/ Precedes(k, j)
           /\ ~(Precedes(j, k) /\ Precedes(k, j))
           /\ ~Precedes(j, j)
    BY DEF Precedes

LEMMA OrderIsTransitive ==
    ASSUME NEW i \in Nat \X Nat, NEW j \in Nat \X Nat, NEW k \in Nat \X Nat,
           Precedes(i, j), Precedes(j, k)
    PROVE  Precedes(i, k)
    BY DEF Precedes

LEMMA KeysDiffer == ASSUME NEW t \in Tasks, NEW u \in Tasks, Key(t) = Key(u) PROVE t = u
    BY DEF Key

\* A set of sets of tasks that is not empty has a member none is a part of.
LEMMA SmallestSet ==
    ASSUME NEW SS \in SUBSET (SUBSET Tasks), SS # {}
    PROVE  \E X \in SS : \A Y \in SS : ~(Y \subseteq X /\ Y # X)
<1>1. IsWellFoundedOn(StrictSubsetOrdering(Tasks), FiniteSubsetsOf(Tasks))
    BY FS_StrictSubsetOrderingWellFounded
<1>2. SS \subseteq FiniteSubsetsOf(Tasks)
    BY PagesAssumption, FS_Subset DEF FiniteSubsetsOf
<1>3. PICK X \in SS : \A Y \in SS : ~(<<Y, X>> \in StrictSubsetOrdering(Tasks))
    BY <1>1, <1>2, WFMin
<1>4. \A Y \in SS : ~(Y \subseteq X /\ Y # X)
    BY <1>3 DEF StrictSubsetOrdering
<1> QED BY <1>4

\* A set of rows has a last one, and a first one.
LEMMA LastExists ==
    ASSUME TypeOK, NEW S \in SUBSET Tasks, S # {}
    PROVE  \E t \in S : \A u \in S : u = t \/ Precedes(Key(u), Key(t))
<1> DEFINE Later(t) == {u \in S : Precedes(Key(t), Key(u))}
           SS == {Later(t) : t \in S}
<1>1. SS \in SUBSET (SUBSET Tasks) /\ SS # {}
    OBVIOUS
<1>2. PICK X \in SS : \A Y \in SS : ~(Y \subseteq X /\ Y # X)
    BY <1>1, SmallestSet
<1>3. PICK t \in S : X = Later(t)
    OBVIOUS
<1>4. ASSUME NEW u \in S, u # t, ~Precedes(Key(u), Key(t)) PROVE FALSE
  <2>1. Precedes(Key(t), Key(u))
      BY <1>4, KeyType, KeysDiffer, OrderIsTotal
  <2>2. Later(u) \subseteq Later(t)
      BY <2>1, KeyType, OrderIsTransitive
  <2>3. u \in Later(t) /\ u \notin Later(u)
      BY <2>1, KeyType, OrderIsTotal
  <2> QED BY <1>2, <1>3, <2>2, <2>3
<1> QED BY <1>4

LEMMA FirstExists ==
    ASSUME TypeOK, NEW S \in SUBSET Tasks, S # {}
    PROVE  \E t \in S : Before(t, S) = {}
<1> DEFINE SS == {Before(t, S) : t \in S}
<1>1. SS \in SUBSET (SUBSET Tasks) /\ SS # {}
    BY DEF Before
<1>2. PICK X \in SS : \A Y \in SS : ~(Y \subseteq X /\ Y # X)
    BY <1>1, SmallestSet
<1>3. PICK t \in S : X = Before(t, S)
    OBVIOUS
<1>4. ASSUME NEW u \in Before(t, S) PROVE FALSE
  <2>1. u \in S /\ Precedes(Key(u), Key(t))
      BY <1>4 DEF Before
  <2>2. Before(u, S) \subseteq Before(t, S)
      BY <2>1, KeyType, OrderIsTransitive DEF Before
  <2>3. u \notin Before(u, S)
      BY <2>1, KeyType, OrderIsTotal DEF Before
  <2> QED BY <1>2, <1>3, <1>4, <2>1, <2>2, <2>3
<1> QED BY <1>4

-----------------------------------------------------------------------------
(* A page.                                                                  *)

LEMMA CursorType == None \notin Nat \X Nat
    BY PagesAssumption

LEMMA FirstOfIsClosed ==
    ASSUME TypeOK, NEW S \in SUBSET Tasks, NEW t \in FirstOf(S), NEW u \in S,
           Precedes(Key(u), Key(t))
    PROVE  u \in FirstOf(S)
<1>1. t \in S /\ Cardinality(Before(t, S)) < Limit
    BY DEF FirstOf
<1>2. Before(u, S) \subseteq Before(t, S)
    BY <1>1, KeyType, OrderIsTransitive DEF Before
<1>3. IsFiniteSet(Before(t, S))
    BY PagesAssumption, FS_Subset DEF Before
<1>4. /\ Cardinality(Before(u, S)) <= Cardinality(Before(t, S))
      /\ Cardinality(Before(t, S)) \in Nat /\ Cardinality(Before(u, S)) \in Nat
    BY <1>2, <1>3, FS_Subset, FS_CardinalityType
<1>5. Cardinality(Before(u, S)) < Limit
    BY <1>1, <1>4, PagesAssumption
<1> QED BY <1>5 DEF FirstOf

\* What a page promises: rows that match, between the cursor asked with and
\* the one answered, and all of those.
LEMMA PageIsTheRange ==
    ASSUME TypeOK, NEW f, NEW c \in Cursor
    PROVE  LET p == Page(f, c)
               S == Candidates(f, c)
           IN  /\ p \in Answer
               /\ p.items \subseteq S
               /\ \A t \in S : t \in p.items <=> UpTo(p.next, t)
<1> DEFINE S == Candidates(f, c)
           F == FirstOf(S)
           IsLast(t) == \A u \in F : u = t \/ Precedes(Key(u), Key(t))
           last == CHOOSE t \in F : IsLast(t)
           p == Page(f, c)
<1>1. S \in SUBSET Tasks /\ F \in SUBSET S
    BY DEF Candidates, FirstOf
<1>2. p = [items |-> F, next |-> IF S = F THEN None ELSE Key(last)]
    BY DEF Page
<1>3. CASE S = F
    BY <1>1, <1>2, <1>3 DEF Answer, Cursor, UpTo
<1>4. CASE S # F
  <2>1. F # {}
    <3>1. PICK t \in S : Before(t, S) = {}
        BY <1>1, <1>4, FirstExists
    <3>2. Cardinality(Before(t, S)) < Limit
        BY <3>1, FS_EmptySet, PagesAssumption
    <3> QED BY <3>2 DEF FirstOf
  <2>2. last \in F /\ IsLast(last)
    <3>1. \E t \in F : IsLast(t)
        BY <1>1, <2>1, LastExists
    <3> QED BY <3>1
  <2>3. Key(last) \in Nat \X Nat
      BY <1>1, <2>2, KeyType
  <2>4. p \in Answer /\ p.items = F /\ p.next = Key(last)
      BY <1>1, <1>2, <1>4, <2>3 DEF Answer, Cursor
  <2>5. ASSUME NEW t \in F PROVE UpTo(p.next, t)
    <3>1. ~Precedes(Key(last), Key(t))
        BY <1>1, <2>2, <2>3, KeyType, OrderIsTotal
    <3> QED BY <2>3, <2>4, <3>1, CursorType DEF UpTo, After
  <2>6. ASSUME NEW t \in S, UpTo(p.next, t) PROVE t \in F
    <3>1. ~Precedes(Key(last), Key(t))
        BY <2>3, <2>4, <2>6, CursorType DEF UpTo, After
    <3>2. t = last \/ Precedes(Key(t), Key(last))
        BY <1>1, <2>2, <3>1, KeyType, KeysDiffer, OrderIsTotal
    <3> QED BY <1>1, <2>2, <3>2, FirstOfIsClosed
  <2> QED BY <1>1, <2>4, <2>5, <2>6
<1> QED BY <1>3, <1>4

-----------------------------------------------------------------------------
(* Steps of the table.                                                      *)

\* What no step of the table takes from a row, and no step of the table does.
RowsStay ==
    /\ \A t \in Tasks : Stored(t) => Stored(t)' /\ Key(t)' = Key(t)
    /\ steady' \subseteq steady /\ \A t \in steady' : Matches(list.filter, t)'
    /\ UNCHANGED <<list, loads, shown>>

LEMMA StoredStay ==
    ASSUME RowsStay, NEW t \in Tasks, Stored(t), NEW c
    PROVE  /\ Stored(t)'
           /\ After(c, t)' <=> After(c, t)
           /\ UpTo(c, t)' <=> UpTo(c, t)
    BY DEF RowsStay, After, UpTo

LEMMA TableKeepsIInv == ASSUME IInv, TypeOK', RowsStay PROVE IInv'
<1>1. \A t \in steady : t \in Tasks /\ Stored(t)
    BY DEF IInv, TypeOK, SteadyMatches, Matches
<1>2. \A k \in loads' : LatestLoad(k)'
  <2> SUFFICES ASSUME NEW k \in loads', k.latest PROVE LatestLoad(k)'
      BY DEF LatestLoad
  <2>1. k \in loads /\ LatestLoad(k)
      BY DEF RowsStay, IInv
  <2>2. \A t \in steady' : \A c : (After(c, t)' <=> After(c, t)) /\ (UpTo(c, t)' <=> UpTo(c, t))
      BY <1>1, StoredStay DEF RowsStay
  <2> QED BY <2>1, <2>2 DEF RowsStay, LatestLoad
<1>3. \A k \in loads' : AnswerWithin(k)'
  <2> SUFFICES ASSUME NEW k \in loads', k.answer # None, NEW t \in k.answer.items
               PROVE  (Stored(t) /\ After(k.cursor, t) /\ UpTo(k.answer.next, t))'
      BY DEF AnswerWithin
  <2>1. k \in loads /\ Stored(t) /\ After(k.cursor, t) /\ UpTo(k.answer.next, t)
      BY DEF RowsStay, IInv, AnswerWithin
  <2>2. t \in Tasks
      BY <2>1 DEF IInv, TypeOK, Load, Answer
  <2> QED BY <2>1, <2>2, StoredStay
<1>4. SteadyMatches'
    BY DEF RowsStay, SteadyMatches
<1>5. WalkIsShown'
    BY <1>1, StoredStay DEF RowsStay, IInv, WalkIsShown
<1>6. RowsArePassed'
  <2>1. list.rows \subseteq Tasks
      BY DEF IInv, TypeOK, List
  <2> QED BY <2>1, StoredStay DEF RowsStay, IInv, RowsArePassed, Passed
<1>7. NothingSkipped'
    BY <1>1, StoredStay DEF RowsStay, IInv, NothingSkipped, Passed
<1>8. RowsAnswerTheList'
    BY DEF RowsStay, IInv, RowsAnswerTheList
<1> QED BY <1>2, <1>3, <1>4, <1>5, <1>6, <1>7, <1>8 DEF IInv

LEMMA InsertStep ==
    ASSUME IInv, NEW t \in Tasks, NEW c \in 0 .. clock, Insert(t, c)
    PROVE  IInv'
<1>1. c \in Nat
    BY DEF IInv, TypeOK
<1>2. TypeOK'
    BY <1>1, PagesAssumption DEF IInv, TypeOK, Insert
<1>3. \A u \in Tasks : Stored(u) => u # t /\ rows'[u] = rows[u]
    BY DEF IInv, TypeOK, Insert
<1>4. RowsStay
    BY <1>3 DEF RowsStay, IInv, TypeOK, SteadyMatches, Matches, Insert, Stored, Key
<1> QED BY <1>2, <1>4, TableKeepsIInv

LEMMA SetStatusStep ==
    ASSUME IInv, NEW t \in Tasks, NEW s \in Statuses, SetStatus(t, s)
    PROVE  IInv'
<1>1. TypeOK'
    BY DEF IInv, TypeOK, SetStatus, KeepSteady
<1>2. \A u \in Tasks : Stored(u) => Stored(u)' /\ Key(u)' = Key(u)
    BY PagesAssumption DEF IInv, TypeOK, SetStatus, Stored, Key
<1>3. RowsStay
    BY <1>2 DEF RowsStay, SetStatus, KeepSteady
<1> QED BY <1>1, <1>3, TableKeepsIInv

LEMMA TickStep == ASSUME IInv, Tick PROVE IInv'
<1>1. TypeOK'
    BY DEF IInv, TypeOK, Tick
<1>2. RowsStay
    BY DEF RowsStay, IInv, SteadyMatches, Tick, Stored, Key, Matches
<1> QED BY <1>1, <1>2, TableKeepsIInv

-----------------------------------------------------------------------------
(* Steps of the console.                                                    *)

\* What is left to show of a request that is sent.
LEMMA SendKeepsIInv ==
    ASSUME IInv, NEW l \in List, Send(l), UNCHANGED <<rows, clock>>,
           l.next = list.next, l.rows = list.rows, l.of = list.of,
           shown' \subseteq Tasks, steady' \subseteq Tasks,
           SteadyMatches', WalkIsShown', NothingSkipped'
    PROVE  IInv'
<1> DEFINE new == [filter |-> l.filter, cursor |-> l.cursor, latest |-> TRUE, answer |-> None]
           older == {[k EXCEPT !.latest = FALSE] : k \in loads}
<1>1. list' = l /\ loads' = older \cup {new}
    BY DEF Send
<1>2. new \in Load
    BY DEF List, Load
<1>3. \A k \in older : k \in Load /\ ~k.latest
    BY DEF IInv, TypeOK, Load
<1>4. TypeOK'
    BY <1>1, <1>2, <1>3 DEF IInv, TypeOK
<1>5. \A k \in loads' : LatestLoad(k)'
    BY <1>1, <1>3 DEF LatestLoad
<1>6. \A k \in loads' : AnswerWithin(k)'
  <2>1. \A k \in older : AnswerWithin(k)'
    <3> SUFFICES ASSUME NEW k \in loads PROVE AnswerWithin([k EXCEPT !.latest = FALSE])'
        OBVIOUS
    <3>1. AnswerWithin(k) /\ k \in Load
        BY DEF IInv, TypeOK
    <3> QED BY <3>1 DEF AnswerWithin, Load, Stored, After, UpTo, Key
  <2>2. AnswerWithin(new)'
      BY DEF AnswerWithin
  <2> QED BY <1>1, <2>1, <2>2
<1>7. RowsArePassed'
    BY <1>1 DEF IInv, RowsArePassed, Passed, UpTo, After, Stored, Key
<1>8. RowsAnswerTheList'
  <2>1. new \in loads' /\ new.latest
      BY <1>1
  <2> QED BY <2>1 DEF RowsAnswerTheList
<1> QED BY <1>4, <1>5, <1>6, <1>7, <1>8 DEF IInv

LEMMA ChooseFilterStep ==
    ASSUME IInv, NEW f \in Filters, ChooseFilter(f)
    PROVE  IInv'
<1> DEFINE l == [list EXCEPT !.filter = f, !.cursor = None, !.walk = TRUE, !.ours = FALSE]
<1>1. l \in List
    BY PagesAssumption DEF IInv, TypeOK, List, Filter, Cursor
<1>2. Send(l) /\ list' = l
    BY DEF ChooseFilter, Send
<1>3. l.filter = f /\ l.cursor = None /\ ~l.ours
    BY DEF IInv, TypeOK, List
<1>4. SteadyMatches'
    BY <1>2, <1>3 DEF ChooseFilter, SteadyMatches, Matches, Stored
<1>5. WalkIsShown'
    BY <1>2, <1>3 DEF WalkIsShown, After
<1>6. NothingSkipped'
    BY <1>2, <1>3 DEF NothingSkipped
<1>7. l.next = list.next /\ l.rows = list.rows /\ l.of = list.of
    BY DEF IInv, TypeOK, List
<1>8. /\ UNCHANGED <<rows, clock>>
      /\ shown' \subseteq Tasks /\ steady' \subseteq Tasks
    BY DEF ChooseFilter
<1> QED BY <1>1, <1>2, <1>4, <1>5, <1>6, <1>7, <1>8, SendKeepsIInv

\* The same for the steps that keep the filter and the histories.
LEMMA SendSameFilter ==
    ASSUME IInv, NEW l \in List, Send(l), UNCHANGED <<rows, clock, shown, steady>>,
           l.filter = list.filter, l.next = list.next, l.rows = list.rows,
           l.of = list.of, l.ours = list.ours,
           l.walk => \A t \in steady : ~After(l.cursor, t) => t \in shown
    PROVE  IInv'
<1>1. list' = l
    BY DEF Send
<1>2. SteadyMatches'
    BY <1>1 DEF IInv, SteadyMatches, Matches, Stored
<1>3. WalkIsShown'
    BY <1>1 DEF WalkIsShown, After, Key
<1>4. NothingSkipped'
    BY <1>1 DEF IInv, NothingSkipped, Passed, UpTo, After, Key
<1>5. shown' \subseteq Tasks /\ steady' \subseteq Tasks
    BY DEF IInv, TypeOK
<1> QED BY <1>2, <1>3, <1>4, <1>5, SendKeepsIInv

LEMMA NextPageStep == ASSUME IInv, NextPage PROVE IInv'
<1> DEFINE l == [list EXCEPT !.cursor = list.next, !.walk = list.ours]
<1>1. l \in List
    BY DEF IInv, TypeOK, List
<1>2. l.cursor = list.next /\ l.walk = list.ours
    BY DEF IInv, TypeOK, List
<1>3. l.walk => \A t \in steady : ~After(l.cursor, t) => t \in shown
    BY <1>2 DEF IInv, NothingSkipped, Passed, UpTo
<1>4. /\ l.filter = list.filter /\ l.next = list.next /\ l.rows = list.rows
      /\ l.of = list.of /\ l.ours = list.ours
    BY DEF IInv, TypeOK, List
<1> QED BY <1>1, <1>3, <1>4, SendSameFilter DEF NextPage

LEMMA RestartStep == ASSUME IInv, Restart PROVE IInv'
<1> DEFINE l == [list EXCEPT !.cursor = None, !.walk = TRUE]
<1>1. l \in List
    BY DEF IInv, TypeOK, List, Cursor
<1>2. l.cursor = None
    BY DEF IInv, TypeOK, List
<1>3. /\ l.filter = list.filter /\ l.next = list.next /\ l.rows = list.rows
      /\ l.of = list.of /\ l.ours = list.ours
    BY DEF IInv, TypeOK, List
<1> QED BY <1>1, <1>2, <1>3, SendSameFilter DEF Restart, After

LEMMA ReloadStep == ASSUME IInv, Reload PROVE IInv'
<1>1. list \in List
    BY DEF IInv, TypeOK
<1>2. list.walk => \A t \in steady : ~After(list.cursor, t) => t \in shown
    BY DEF IInv, WalkIsShown
<1> QED BY <1>1, <1>2, SendSameFilter DEF Reload

-----------------------------------------------------------------------------
(* Steps of a request.                                                      *)

LEMMA RowsUnchanged ==
    ASSUME UNCHANGED rows
    PROVE  \A t, c, f : /\ Stored(t)' <=> Stored(t)
                        /\ After(c, t)' <=> After(c, t)
                        /\ UpTo(c, t)' <=> UpTo(c, t)
                        /\ Matches(f, t)' <=> Matches(f, t)
    BY DEF Stored, Key, After, UpTo, Matches

LEMMA ReadStep == ASSUME IInv, NEW k \in loads, Read(k) PROVE IInv'
<1> DEFINE p == Page(k.filter, k.cursor)
           S == Candidates(k.filter, k.cursor)
           j == [k EXCEPT !.answer = p]
<1>1. k \in Load /\ LatestLoad(k) /\ k.cursor \in Cursor
    BY DEF IInv, TypeOK, Load
<1>2. /\ p \in Answer /\ p.items \subseteq S
      /\ \A t \in S : t \in p.items <=> UpTo(p.next, t)
    BY <1>1, PageIsTheRange DEF IInv
<1>3. /\ j \in Load /\ j.answer = p /\ j.filter = k.filter
      /\ j.cursor = k.cursor /\ j.latest = k.latest
    BY <1>1, <1>2 DEF Load
<1>4. loads' = (loads \ {k}) \cup {j} /\ UNCHANGED <<rows, clock, list, shown, steady>>
    BY DEF Read
<1>5. TypeOK'
    BY <1>3, <1>4 DEF IInv, TypeOK
<1>6. LatestLoad(j)
  <2> SUFFICES ASSUME j.latest, NEW t \in steady, After(j.cursor, t), UpTo(j.answer.next, t)
               PROVE  t \in j.answer.items
      BY <1>1, <1>3 DEF LatestLoad
  <2>1. t \in Tasks /\ Matches(k.filter, t)
      BY <1>1, <1>3 DEF IInv, TypeOK, SteadyMatches, LatestLoad
  <2>2. t \in S
      BY <1>3, <2>1 DEF Candidates
  <2> QED BY <1>2, <1>3, <2>2
<1>7. AnswerWithin(j)
    BY <1>2, <1>3 DEF AnswerWithin, Candidates, Matches
<1>8. \A i \in loads' : LatestLoad(i) /\ AnswerWithin(i)
    BY <1>4, <1>6, <1>7 DEF IInv
<1>9. \A i \in loads' : LatestLoad(i)' /\ AnswerWithin(i)'
    BY <1>4, <1>8, RowsUnchanged DEF LatestLoad, AnswerWithin
<1>10. SteadyMatches' /\ WalkIsShown' /\ RowsArePassed' /\ NothingSkipped'
    BY <1>4, RowsUnchanged
       DEF IInv, SteadyMatches, WalkIsShown, RowsArePassed, NothingSkipped, Passed
<1>11. RowsAnswerTheList'
  <2>1. CASE \E i \in loads : i.latest
    <3>1. PICK i \in loads : i.latest
        BY <2>1
    <3>2. \E n \in loads' : n.latest
        BY <1>3, <1>4, <3>1
    <3> QED BY <3>2 DEF RowsAnswerTheList
  <2>2. CASE ~\E i \in loads : i.latest
      BY <1>4, <2>2 DEF IInv, RowsAnswerTheList
  <2> QED BY <2>1, <2>2
<1> QED BY <1>5, <1>9, <1>10, <1>11 DEF IInv

\* A load that is over leaves the others as they are.
LEMMA OthersStay ==
    ASSUME IInv, NEW k \in loads, loads' = loads \ {k}, UNCHANGED <<rows, steady>>,
           list'.filter = list.filter, list'.cursor = list.cursor
    PROVE  \A i \in loads' : LatestLoad(i)' /\ AnswerWithin(i)'
    BY RowsUnchanged DEF IInv, LatestLoad, AnswerWithin

LEMMA ReceiveStep == ASSUME IInv, NEW k \in loads, Receive(k) PROVE IInv'
<1>1. k \in Load /\ LatestLoad(k) /\ AnswerWithin(k) /\ k.answer # None /\ k.answer \in Answer
    BY DEF IInv, TypeOK, Load, Receive
<1>2. loads' = loads \ {k} /\ UNCHANGED <<rows, clock, steady>>
    BY DEF Receive
<1>3. CASE ~k.latest
  <2>1. UNCHANGED <<list, shown>>
      BY <1>3 DEF Receive
  <2>2. TypeOK'
      BY <1>2, <2>1 DEF IInv, TypeOK
  <2>3. \A i \in loads' : LatestLoad(i)' /\ AnswerWithin(i)'
      BY <1>2, <2>1, OthersStay
  <2>4. SteadyMatches' /\ WalkIsShown' /\ RowsArePassed' /\ NothingSkipped'
      BY <1>2, <2>1, RowsUnchanged
         DEF IInv, SteadyMatches, WalkIsShown, RowsArePassed, NothingSkipped, Passed
  <2>5. RowsAnswerTheList'
      BY <1>2, <1>3, <2>1 DEF IInv, RowsAnswerTheList
  <2> QED BY <2>2, <2>3, <2>4, <2>5 DEF IInv
<1>4. CASE k.latest
  <2> DEFINE of == [filter |-> k.filter, cursor |-> k.cursor]
  <2>1. /\ list' = [list EXCEPT !.rows = k.answer.items, !.next = k.answer.next, !.of = of,
                                !.ours = list.walk, !.banner = FALSE]
        /\ shown' = shown \cup k.answer.items
      BY <1>4 DEF Receive
  <2>2. /\ list'.filter = list.filter /\ list'.cursor = list.cursor
        /\ list'.rows = k.answer.items /\ list'.next = k.answer.next
        /\ list'.of = of /\ list'.ours = list.walk /\ list'.walk = list.walk
      BY <2>1 DEF IInv, TypeOK, List
  <2>3. TypeOK'
    <3>1. of \in Query /\ k.answer.items \in SUBSET Tasks /\ k.answer.next \in Cursor
        BY <1>1 DEF Load, Query, Answer
    <3>2. list' \in List /\ shown' \subseteq Tasks
        BY <2>1, <3>1 DEF IInv, TypeOK, List
    <3> QED BY <1>2, <3>2 DEF IInv, TypeOK
  <2>4. \A i \in loads' : LatestLoad(i)' /\ AnswerWithin(i)'
      BY <1>2, <2>2, OthersStay
  <2>5. SteadyMatches'
      BY <1>2, <2>2, RowsUnchanged DEF IInv, SteadyMatches
  <2>6. WalkIsShown'
      BY <1>2, <2>1, <2>2, RowsUnchanged DEF IInv, WalkIsShown
  <2>7. RowsArePassed'
      BY <1>1, <1>2, <2>2, RowsUnchanged DEF RowsArePassed, AnswerWithin, Passed
  <2>8. NothingSkipped'
    <3> SUFFICES ASSUME list.walk, NEW t \in steady, UpTo(k.answer.next, t)
                 PROVE  t \in shown'
        BY <1>2, <2>2, RowsUnchanged DEF NothingSkipped, Passed
    <3>1. CASE After(k.cursor, t)
        BY <1>1, <1>4, <2>1, <3>1 DEF LatestLoad
    <3>2. CASE ~After(k.cursor, t)
        BY <1>1, <1>4, <2>1, <3>2 DEF LatestLoad, IInv, WalkIsShown
    <3> QED BY <3>1, <3>2
  <2>9. RowsAnswerTheList'
      BY <1>1, <1>4, <2>2 DEF RowsAnswerTheList, LatestLoad
  <2> QED BY <2>3, <2>4, <2>5, <2>6, <2>7, <2>8, <2>9 DEF IInv
<1>5. k.latest \in BOOLEAN
    BY <1>1 DEF Load
<1> QED BY <1>3, <1>4, <1>5

LEMMA LoadFailsStep == ASSUME IInv, NEW k \in loads, LoadFails(k) PROVE IInv'
<1>1. /\ loads' = loads \ {k} /\ UNCHANGED <<rows, clock, shown, steady>>
      /\ list' = [list EXCEPT !.banner = @ \/ k.latest]
    BY DEF LoadFails
<1>2. k.latest \in BOOLEAN /\ list \in List
    BY DEF IInv, TypeOK, Load
<1>3. /\ list'.filter = list.filter /\ list'.cursor = list.cursor /\ list'.rows = list.rows
      /\ list'.next = list.next /\ list'.of = list.of /\ list'.ours = list.ours
      /\ list'.walk = list.walk /\ list'.banner = (list.banner \/ k.latest)
    BY <1>1, <1>2 DEF List
<1>4. TypeOK'
    BY <1>1, <1>2 DEF IInv, TypeOK, List
<1>5. \A i \in loads' : LatestLoad(i)' /\ AnswerWithin(i)'
    BY <1>1, <1>3, OthersStay
<1>6. SteadyMatches' /\ WalkIsShown' /\ RowsArePassed' /\ NothingSkipped'
    BY <1>1, <1>3, RowsUnchanged
       DEF IInv, SteadyMatches, WalkIsShown, RowsArePassed, NothingSkipped, Passed
<1>7. RowsAnswerTheList'
    BY <1>1, <1>3 DEF IInv, RowsAnswerTheList
<1> QED BY <1>4, <1>5, <1>6, <1>7 DEF IInv

-----------------------------------------------------------------------------
(* The theorems.                                                            *)

LEMMA InitIInv == Init => IInv
<1> SUFFICES ASSUME Init PROVE IInv
    OBVIOUS
<1>1. TypeOK
    BY PagesAssumption DEF Init, TypeOK, List, Filter, NoFilter, Query, Cursor
<1>2. loads = {} /\ steady = {} /\ list.rows = {} /\ ~list.ours
    BY DEF Init
<1>3. RowsAnswerTheList
    BY DEF Init, RowsAnswerTheList
<1> QED BY <1>1, <1>2, <1>3
        DEF IInv, SteadyMatches, WalkIsShown, RowsArePassed, NothingSkipped

LEMMA NextIInv == IInv /\ [Next]_vars => IInv'
<1> SUFFICES ASSUME IInv, [Next]_vars PROVE IInv'
    OBVIOUS
<1>1. CASE \E t \in Tasks, c \in 0 .. clock : Insert(t, c)
    BY <1>1, InsertStep
<1>2. CASE \E t \in Tasks, s \in Statuses : SetStatus(t, s)
    BY <1>2, SetStatusStep
<1>3. CASE Tick
    BY <1>3, TickStep
<1>4. CASE \E f \in Filters : ChooseFilter(f)
    BY <1>4, ChooseFilterStep
<1>5. CASE NextPage \/ Reload \/ Restart
    BY <1>5, NextPageStep, ReloadStep, RestartStep
<1>6. CASE \E k \in loads : Read(k) \/ Receive(k) \/ LoadFails(k)
    BY <1>6, ReadStep, ReceiveStep, LoadFailsStep
<1>7. CASE UNCHANGED vars
  <2>1. TypeOK' /\ RowsStay
      BY <1>7 DEF vars, IInv, TypeOK, RowsStay, SteadyMatches, Stored, Key, Matches
  <2> QED BY <2>1, TableKeepsIInv
<1> QED BY <1>1, <1>2, <1>3, <1>4, <1>5, <1>6, <1>7 DEF Next

THEOREM Invariance == Spec => []IInv
<1> QED BY InitIInv, NextIInv, PTL DEF Spec

\* Every variable holds values of its type, for any tasks and bounds.
THEOREM TypeCorrectness == Spec => []TypeOK
<1>1. IInv => TypeOK
    BY DEF IInv
<1> QED BY <1>1, Invariance, PTL

\* Paging through the tasks of a filter misses none that matched all along
\* (listTasks with its cursors, read by loadTasks).
THEOREM PagingIsComplete == Spec => []NothingSkipped
<1>1. IInv => NothingSkipped
    BY DEF IInv
<1> QED BY <1>1, Invariance, PTL

\* The rows shown are those asked for, or newer ones are on their way, or an
\* error is shown (taskRequestGeneration).
THEOREM RowsAreCurrent == Spec => []RowsAnswerTheList
<1>1. IInv => RowsAnswerTheList
    BY DEF IInv
<1> QED BY <1>1, Invariance, PTL

\* A page never repeats a row of the page before it (the strict cursor
\* comparison of listTasks).
THEOREM PagesAreDisjoint == Spec => NextPageIsNew
<1> DEFINE Turned == list.next # None /\ list'.of.cursor = list.next /\ list.of # list'.of
           Disjoint == list'.rows \cap list.rows = {}
<1>1. ASSUME IInv, Next, Turned PROVE Disjoint
  <2>1. PICK k \in loads : Receive(k) /\ k.latest
    <3>1. list'.of # list.of
        BY <1>1
    <3>2. ~(NextPage \/ Reload \/ Restart \/ \E f \in Filters : ChooseFilter(f))
        BY <1>1, <3>1 DEF NextPage, Reload, Restart, ChooseFilter, Send, IInv, TypeOK, List
    <3>3. \A k \in loads : ~LoadFails(k) /\ ~Read(k)
        BY <1>1, <3>1 DEF LoadFails, Read, IInv, TypeOK, List
    <3>4. PICK k \in loads : Receive(k)
        BY <1>1, <3>1, <3>2, <3>3 DEF Next, Insert, SetStatus, Tick
    <3>5. k.latest
        BY <3>1, <3>4 DEF Receive
    <3> QED BY <3>4, <3>5
  <2>2. k.answer # None /\ AnswerWithin(k) /\ k \in Load
      BY <1>1, <2>1 DEF IInv, TypeOK, Receive
  <2>3. list'.rows = k.answer.items /\ list'.of.cursor = k.cursor
    <3> DEFINE of == [filter |-> k.filter, cursor |-> k.cursor]
    <3>1. list' = [list EXCEPT !.rows = k.answer.items, !.next = k.answer.next, !.of = of,
                               !.ours = list.walk, !.banner = FALSE]
        BY <2>1 DEF Receive
    <3>2. list'.rows = k.answer.items /\ list'.of = of
        BY <1>1, <3>1 DEF IInv, TypeOK, List
    <3> QED BY <3>2
  <2>4. \A t \in list'.rows : After(list.next, t)
      BY <1>1, <2>2, <2>3 DEF AnswerWithin
  <2>5. \A t \in list.rows : ~After(list.next, t)
      BY <1>1 DEF IInv, RowsArePassed, Passed, UpTo
  <2> QED BY <2>4, <2>5
<1>2. ASSUME IInv, [Next]_vars PROVE [Turned => Disjoint]_vars
    BY <1>1, <1>2
<1> QED BY <1>2, Invariance, PTL DEF Spec, NextPageIsNew

-----------------------------------------------------------------------------
(* The API as a whole.                                                      *)

D == INSTANCE RunnerDirectoryProofs WITH
    rows <- runnerRows, steady <- steadyRunners, Filters <- RunnerFilters
L == INSTANCE TaskLogsProofs

\* What a behaviour of the API does to the state of a part is a behaviour of
\* that part: the steps of the others leave it alone.
LEMMA EachPartOfItsOwn == ApiSpec => Spec /\ Directory!Spec /\ Logs!Spec
<1>1. ApiInit => Init /\ Directory!Init /\ Logs!Init
    BY DEF ApiInit
<1>2. [ApiNext]_apiVars => [Next]_vars
    BY DEF ApiNext, TasksStep, DirectoryStep, LogsStep, apiVars
<1>3. [ApiNext]_apiVars => [Directory!Next]_directoryVars
    BY DEF ApiNext, TasksStep, DirectoryStep, LogsStep, apiVars
<1>4. [ApiNext]_apiVars => [Logs!Next]_logsVars
    BY DEF ApiNext, TasksStep, DirectoryStep, LogsStep, apiVars
<1>5. ApiSpec => Spec
    BY <1>1, <1>2, PTL DEF ApiSpec, Spec
<1>6. ApiSpec => Directory!Spec
    BY <1>1, <1>3, PTL DEF ApiSpec, Directory!Spec, Directory!vars, directoryVars
<1>7. ApiSpec => Logs!Spec
    BY <1>1, <1>4, PTL DEF ApiSpec, Logs!Spec, Logs!vars, logsVars
<1> QED BY <1>5, <1>6, <1>7

\* The specifications that RunnerDirectoryProofs and TaskLogsProofs speak of.
LEMMA ApiSpecIsTheirs == ApiSpec => D!Spec /\ L!Spec
<1>1. Directory!Spec => D!Spec
    BY PTL
       DEF Directory!Spec, D!Spec, Directory!Init, D!Init, Directory!NoLoad, D!NoLoad,
           Directory!Next, D!Next, Directory!Fairness, D!Fairness,
           Directory!RegisterRead, D!RegisterRead, Directory!TouchRead, D!TouchRead,
           Directory!Select, D!Select, Directory!RegisterPut, D!RegisterPut,
           Directory!Touch, D!Touch, Directory!CallFails, D!CallFails, Directory!Tick,
           D!Tick, Directory!BeginLoad, D!BeginLoad, Directory!ReadPage, D!ReadPage,
           Directory!Receive, D!Receive, Directory!LoadFails, D!LoadFails,
           Directory!Write, D!Write, Directory!KeepSteady, D!KeepSteady,
           Directory!Stored, D!Stored, Directory!Matches, D!Matches, Directory!StatusOf,
           D!StatusOf, Directory!Page, D!Page, Directory!Ascending, D!Ascending,
           Directory!After, D!After, Directory!Show, D!Show, Directory!Shown, D!Shown,
           Directory!Loading, D!Loading, Directory!Cardinality, D!Cardinality,
           Directory!vars, D!vars
<1>2. Logs!Spec => L!Spec
    BY PTL
       DEF Logs!Spec, L!Spec, Logs!Init, L!Init, Logs!NoReading, L!NoReading, Logs!Next,
           L!Next, Logs!ClaimAgain, L!ClaimAgain, Logs!AppendLogs, L!AppendLogs,
           Logs!SaveLogs, L!SaveLogs, Logs!Put, L!Put, Logs!SaveFails, L!SaveFails,
           Logs!Tick, L!Tick, Logs!BeginReading, L!BeginReading, Logs!ListPage,
           L!ListPage, Logs!GetObject, L!GetObject, Logs!Answer, L!Answer,
           Logs!ReadingFails, L!ReadingFails, Logs!Remove, L!Remove, Logs!Stored, L!Stored, Logs!PageOf,
           L!PageOf, Logs!Precedes, L!Precedes, Logs!Ahead, L!Ahead, Logs!LastOf,
           L!LastOf, Logs!vars, L!vars,
           Logs!Cardinality, L!Cardinality
<1> QED BY <1>1, <1>2, EachPartOfItsOwn, PTL

\* What those modules assume of the constants is assumed of the API's.
LEMMA ConstantsSuitThem == D!ClockAssumption /\ D!ListAssumption /\ L!LogsAssumption
    BY ManagementAssumption
       DEF Directory!ClockAssumption, D!ClockAssumption, Directory!ListAssumption,
           D!ListAssumption, Directory!RunnerStatuses, D!RunnerStatuses,
           Directory!Answer, D!Answer, Directory!IsFiniteSet, D!IsFiniteSet,
           Logs!LogsAssumption, L!LogsAssumption, Logs!Key, L!Key, Logs!IsFiniteSet,
           L!IsFiniteSet

\* Tables, buckets, requests in flight and what the console shows keep their
\* types.
THEOREM ApiTypeCorrectness == ApiSpec => []ApiTypeOK
<1>1. D!TypeOK => Directory!TypeOK
    BY DEF Directory!TypeOK, D!TypeOK, Directory!RowsTyped, D!RowsTyped,
           Directory!ListsTyped, D!ListsTyped, Directory!Stored, D!Stored,
           Directory!Seen, D!Seen, Directory!Times, D!Times, Directory!Call, D!Call,
           Directory!RunnerStatuses, D!RunnerStatuses, Directory!Answer, D!Answer
<1>2. L!TypeOK => Logs!TypeOK
    BY DEF Logs!TypeOK, L!TypeOK, Logs!Stored, L!Stored, Logs!Key, L!Key,
           Logs!Cardinality, L!Cardinality
<1>3. D!Spec => []D!TypeOK
    BY ConstantsSuitThem, D!TypeCorrectness
<1>4. L!Spec => []L!TypeOK
    BY ConstantsSuitThem, L!TypeCorrectness
<1> QED BY <1>1, <1>2, <1>3, <1>4, TypeCorrectness, EachPartOfItsOwn, ApiSpecIsTheirs, PTL
        DEF ApiTypeOK

\* A runner listed as online has claimed or sent a heartbeat that recently (the
\* status CASE of listRunnerViews, touchRunnerHeartbeat).
THEOREM OnlineOnlyByCalling == ApiSpec => []OnlineHasCalled
<1>1. D!OnlineHasCalled => OnlineHasCalled
    BY DEF OnlineHasCalled,
       Directory!OnlineHasCalled, D!OnlineHasCalled, Directory!StatusOf,
       D!StatusOf, Directory!Stored, D!Stored
<1>2. D!Spec => []D!OnlineHasCalled
    BY ConstantsSuitThem, D!OnlyCallersAreOnline
<1> QED BY <1>1, <1>2, ApiSpecIsTheirs, PTL

\* A registration takes no heartbeat from the row (putRunner's COALESCE).
THEOREM HeartbeatsStay == ApiSpec => SeenStaysSeen
<1>1. D!SeenStaysSeen => SeenStaysSeen
    BY PTL
    DEF SeenStaysSeen, Directory!SeenStaysSeen, D!SeenStaysSeen, Directory!Stored, D!Stored,
        Directory!vars, D!vars
<1>2. D!Spec => D!SeenStaysSeen
    BY ConstantsSuitThem, D!HeartbeatsAreKept
<1> QED BY <1>1, <1>2, ApiSpecIsTheirs, PTL

\* A list of runners read to its end is in order and misses none that matched
\* all along (listRunnerViews, loadRunners).
THEOREM RunnerListsAreComplete == ApiSpec => []ListIsComplete
<1>1. D!ListIsComplete => ListIsComplete
    BY DEF ListIsComplete,
       Directory!ListIsComplete, D!ListIsComplete, Directory!Shown, D!Shown
<1>2. D!Spec => []D!ListIsComplete
    BY ConstantsSuitThem, D!ListsAreComplete
<1> QED BY <1>1, <1>2, ApiSpecIsTheirs, PTL

\* Reading the runners again keeps the selection (loadRunners).
THEOREM OnlyClicksSelect == ApiSpec => SelectionIsKept
<1>1. D!SelectionIsKept => SelectionIsKept
    BY PTL
    DEF SelectionIsKept, Directory!SelectionIsKept, D!SelectionIsKept, Directory!Select,
        D!Select, Directory!vars, D!vars
<1>2. D!Spec => D!SelectionIsKept
    BY ConstantsSuitThem, D!SelectionsAreKept
<1> QED BY <1>1, <1>2, ApiSpecIsTheirs, PTL

\* Logs are lost only to a batch of the same lease (saveLogs).
THEOREM LogsAreLostToOwnLease == ApiSpec => []LostToOwnLeaseOnly
<1>1. L!LostToOwnLeaseOnly => LostToOwnLeaseOnly
    BY DEF LostToOwnLeaseOnly,
       Logs!LostToOwnLeaseOnly, L!LostToOwnLeaseOnly, Logs!Stored, L!Stored
<1>2. L!Spec => []L!LostToOwnLeaseOnly
    BY ConstantsSuitThem, L!LogsAreLostToOwnLeaseOnly
<1> QED BY <1>1, <1>2, ApiSpecIsTheirs, PTL

\* A reading of the logs shows or counts all that was stored before (getTaskLogs).
THEOREM LogReadingsAreComplete == ApiSpec => []ReadingIsComplete
<1>1. L!ReadingIsComplete => ReadingIsComplete
    BY DEF ReadingIsComplete,
       Logs!ReadingIsComplete, L!ReadingIsComplete, Logs!Cardinality,
       L!Cardinality
<1>2. L!Spec => []L!ReadingIsComplete
    BY ConstantsSuitThem, L!ReadingsAreComplete
<1> QED BY <1>1, <1>2, ApiSpecIsTheirs, PTL
=============================================================================
