------------------------------ MODULE TaskPages ------------------------------
(***************************************************************************)
(* The task list of the management API, page by page: listTasks of         *)
(* src/worker/d1-store.ts with the cursors of src/worker/pagination.ts,    *)
(* behind GET /api/admin/tasks (src/worker/index.ts), read by the task     *)
(* list of the console (loadTasks and the "Next page" button of            *)
(* src/worker/admin-page.ts) while tasks are stored and change status.     *)
(*                                                                         *)
(* A request reads the table at some moment after it was sent, its answer  *)
(* comes later or not at all, and the user goes on meanwhile.  A cursor is *)
(* the sort key of the last row of a page.  On the wire it is base64 of    *)
(* JSON, which gives back what was encoded: a created_at and a task id are *)
(* ASCII, both made by submitTask.  The refusal of other cursors is left   *)
(* out, and so are the type filter, which the console never sends, the     *)
(* columns that are only shown, and the session (AdminConsole).            *)
(***************************************************************************)
EXTENDS Integers, FiniteSets

CONSTANTS
    Tasks,      \* task ids; numbers, in the order of the strings
    Runners,    \* runner ids
    Statuses,   \* task statuses
    RunnerOf,   \* the runner a task was submitted for
    All,        \* an empty filter
    None,       \* no cursor, no answer, no row
    Filters,    \* the pairs of filters the user chooses
    Limit,      \* rows of a page
    MaxTime,    \* bound: the clock stops here
    MaxLoads    \* bound: requests in flight

ASSUME PagesAssumption ==
    /\ Tasks \subseteq Nat /\ IsFiniteSet(Tasks)
    /\ Filters \subseteq [runner : Runners \cup {All}, status : Statuses \cup {All}]
    /\ RunnerOf \in [Tasks -> Runners]
    /\ Limit \in Nat \ {0}
    /\ All \notin Runners \cup Statuses
    /\ "queued" \in Statuses
    /\ None \notin Statuses
    /\ None \notin Nat \X Nat
    /\ None \notin [items : SUBSET Tasks, next : {None} \cup (Nat \X Nat)]
    /\ MaxTime \in Nat /\ MaxLoads \in Nat

VARIABLES
    rows,       \* the tasks table: status (None: no such row) and created_at
    clock,      \* the time
    list,       \* the console's list
    loads,      \* its requests in flight
    shown,      \* history: the tasks shown since the filter was chosen
    steady      \* history: the tasks that have matched the filter ever since

vars == <<rows, clock, list, loads, shown, steady>>

Filter == [runner : Runners \cup {All}, status : Statuses \cup {All}]
NoFilter == [runner |-> All, status |-> All]
Cursor == {None} \cup (Nat \X Nat)      \* created_at and task_id
Answer == [items : SUBSET Tasks, next : Cursor]

\* latest: no later loadTasks, so taskRequestGeneration is still the load's.
Load == [filter : Filter, cursor : Cursor, latest : BOOLEAN, answer : {None} \cup Answer]

\* filter: selectedRunnerId and the status filter.  cursor: taskCursor.
\* next: nextCursor, with which "Next page" is enabled.  rows: the tasks shown.
\* of: history, the filter and the cursor they were asked for with.  walk: history, the cursor
\* comes from a walk through this filter from its first page on.  ours:
\* history, so do the rows.
Query == [filter : Filter, cursor : Cursor]
List == [filter : Filter, cursor : Cursor, next : Cursor, rows : SUBSET Tasks, of : Query,
         walk : BOOLEAN, ours : BOOLEAN, banner : BOOLEAN]

-----------------------------------------------------------------------------
(* listTasks.                                                               *)

Stored(t) == rows[t].status # None
Key(t) == <<rows[t].created, t>>

\* ORDER BY created_at DESC, task_id DESC, on keys.
Precedes(j, k) == j[1] > k[1] \/ (j[1] = k[1] /\ j[2] > k[2])

\* Mutant: the row of the cursor itself is listed again.
AfterOrAt(cursor, t) == cursor = None \/ ~Precedes(Key(t), cursor)

\* created_at < ? OR (created_at = ? AND task_id < ?)
After(cursor, t) == cursor = None \/ Precedes(cursor, Key(t))

Matches(filter, t) ==
    /\ Stored(t)
    /\ filter.runner \in {All, RunnerOf[t]}
    /\ filter.status \in {All, rows[t].status}

Candidates(filter, cursor) == {t \in Tasks : Matches(filter, t) /\ After(cursor, t)}

\* The first Limit of them, and whether there is another (LIMIT limit + 1).
Before(t, S) == {u \in S : Precedes(Key(u), Key(t))}
FirstOf(S) == {t \in S : Cardinality(Before(t, S)) < Limit}

\* Mutant: the next page begins after the extra row that was read.
PageSkipsRow(filter, cursor) ==
    LET S == Candidates(filter, cursor)
        last == CHOOSE t \in S : Cardinality(Before(t, S)) = Limit
    IN  [items |-> FirstOf(S), next |-> IF Cardinality(S) > Limit THEN Key(last) ELSE None]

Page(filter, cursor) ==
    LET S == Candidates(filter, cursor)
        last == CHOOSE t \in FirstOf(S) : \A u \in FirstOf(S) : u = t \/ Precedes(Key(u), Key(t))
    IN  [items |-> FirstOf(S), next |-> IF S = FirstOf(S) THEN None ELSE Key(last)]

-----------------------------------------------------------------------------
(* The table.                                                               *)

Init ==
    /\ rows = [t \in Tasks |-> [status |-> None, created |-> 0]]
    /\ clock = 0
    /\ list = [filter |-> NoFilter, cursor |-> None, next |-> None,
               rows |-> {}, of |-> [filter |-> NoFilter, cursor |-> None],
               walk |-> TRUE, ours |-> FALSE, banner |-> FALSE]
    /\ loads = {}
    /\ shown = {} /\ steady = {}

\* What is left of steady once the rows are those of the next state.
KeepSteady == steady' = {t \in steady : Matches(list.filter, t)'}

\* submitTask inserts the row after it took the time, perhaps long after.
Insert(t, created) ==
    /\ ~Stored(t)
    /\ rows' = [rows EXCEPT ![t] = [status |-> "queued", created |-> created]]
    /\ UNCHANGED <<clock, list, loads, shown, steady>>

\* updateTask of any handler; created_at is not among the columns it sets.
SetStatus(t, s) ==
    /\ Stored(t)
    /\ rows' = [rows EXCEPT ![t].status = s]
    /\ UNCHANGED <<clock, list, loads, shown>>
    /\ KeepSteady

Tick ==
    /\ clock < MaxTime
    /\ clock' = clock + 1
    /\ UNCHANGED <<rows, list, loads, shown, steady>>

-----------------------------------------------------------------------------
(* The console.                                                             *)

\* loadTasks: the request is made of what the list is now.
Send(l) ==
    /\ list' = l
    /\ loads' = {[k EXCEPT !.latest = FALSE] : k \in loads} \cup
                {[filter |-> l.filter, cursor |-> l.cursor, latest |-> TRUE, answer |-> None]}
    /\ Cardinality(loads') <= MaxLoads

\* One of the two filters is set: the list starts again at the first page.
ChooseFilter(f) ==
    /\ f # list.filter
    /\ f.runner = list.filter.runner \/ f.status = list.filter.status
    /\ Send([list EXCEPT !.filter = f, !.cursor = None, !.walk = TRUE, !.ours = FALSE])
    /\ shown' = {} /\ steady' = {t \in Tasks : Matches(f, t)}
    /\ UNCHANGED <<rows, clock>>

NextPage ==
    /\ list.next # None
    /\ Send([list EXCEPT !.cursor = list.next, !.walk = list.ours])
    /\ UNCHANGED <<rows, clock, shown, steady>>

\* A refresh or a task_changed event: the same page once more.
Reload ==
    /\ Send(list)
    /\ UNCHANGED <<rows, clock, shown, steady>>

\* The self-check was submitted: back to the first page.
Restart ==
    /\ Send([list EXCEPT !.cursor = None, !.walk = TRUE])
    /\ UNCHANGED <<rows, clock, shown, steady>>

\* The Worker answers with the page at this moment.
Read(k) ==
    /\ k.answer = None
    /\ loads' = (loads \ {k}) \cup {[k EXCEPT !.answer = Page(k.filter, k.cursor)]}
    /\ UNCHANGED <<rows, clock, list, shown, steady>>

\* Mutant: any answer is taken, the latest or not.
ReceiveAny(k) ==
    /\ k.answer # None
    /\ loads' = loads \ {k}
    /\ list' = [list EXCEPT !.rows = k.answer.items, !.next = k.answer.next,
                            !.of = [filter |-> k.filter, cursor |-> k.cursor], !.ours = list.walk,
                            !.banner = FALSE]
    /\ shown' = shown \cup k.answer.items
    /\ UNCHANGED <<rows, clock, steady>>

Receive(k) ==
    /\ k.answer # None
    /\ loads' = loads \ {k}
    /\ IF k.latest
       THEN /\ list' = [list EXCEPT !.rows = k.answer.items, !.next = k.answer.next,
                                    !.of = [filter |-> k.filter, cursor |-> k.cursor],
                                    !.ours = list.walk, !.banner = FALSE]
            /\ shown' = shown \cup k.answer.items
       ELSE UNCHANGED <<list, shown>>
    /\ UNCHANGED <<rows, clock, steady>>

\* An error status or no answer.
LoadFails(k) ==
    /\ loads' = loads \ {k}
    /\ list' = [list EXCEPT !.banner = @ \/ k.latest]
    /\ UNCHANGED <<rows, clock, shown, steady>>

Next ==
    \/ \E t \in Tasks, c \in 0 .. clock : Insert(t, c)
    \/ \E t \in Tasks, s \in Statuses : SetStatus(t, s)
    \/ Tick
    \/ \E f \in Filters : ChooseFilter(f)
    \/ NextPage \/ Reload \/ Restart
    \/ \E k \in loads : Read(k) \/ Receive(k) \/ LoadFails(k)

Spec == Init /\ [][Next]_vars

-----------------------------------------------------------------------------
(* Properties.                                                              *)

TypeOK ==
    /\ rows \in [Tasks -> [status : Statuses \cup {None}, created : Nat]]
    /\ clock \in Nat
    /\ list \in List
    /\ loads \subseteq Load
    /\ shown \subseteq Tasks /\ steady \subseteq Tasks

\* t is at or before the end of a page that ends at next.
UpTo(next, t) == next = None \/ ~After(next, t)

\* The rows up to the end of the page shown.
Passed(t) == UpTo(list.next, t)

\* Who pages through a filter misses nothing: every task that matched it all
\* along and sorts before the end of the page shown was on some page, whatever
\* was stored, changed, reloaded, refused or answered late in between
\* (admin-service.test.ts "task pagination remains stable when newer tasks
\* arrive").  Left out is a walk that did not begin at the first page: "Next
\* page" clicked before the first answer under a new filter.
NothingSkipped == list.ours => \A t \in steady : Passed(t) => t \in shown

\* "Next page" never shows a row of the page before again, though rows were
\* stored in front of it and pages were reloaded meanwhile.
NextPageIsNew ==
    [][list.next # None /\ list'.of.cursor = list.next /\ list.of # list'.of =>
           list'.rows \cap list.rows = {}]_vars

\* The rows shown answer the filter and the cursor that are set, or newer
\* rows are on their way, or an error is shown (taskRequestGeneration).
RowsAnswerTheList ==
    \/ \E k \in loads : k.latest
    \/ list.banner
    \/ list.of = [filter |-> list.filter, cursor |-> list.cursor]
-----------------------------------------------------------------------------
(* The inductive invariant behind the properties above.                     *)

\* The latest load asks for what the list is set to, and once answered shows
\* all the steady tasks of its page.
LatestLoad(k) ==
    k.latest => /\ k.filter = list.filter /\ k.cursor = list.cursor
                /\ k.answer # None => \A t \in steady :
                      After(k.cursor, t) /\ UpTo(k.answer.next, t) => t \in k.answer.items

\* The rows of an answer lie between its two cursors.
AnswerWithin(k) ==
    k.answer # None => \A t \in k.answer.items :
        Stored(t) /\ After(k.cursor, t) /\ UpTo(k.answer.next, t)

SteadyMatches == \A t \in steady : Matches(list.filter, t)
WalkIsShown == list.walk => \A t \in steady : ~After(list.cursor, t) => t \in shown
RowsArePassed == \A t \in list.rows : Stored(t) /\ Passed(t)

IInv ==
    /\ TypeOK
    /\ \A k \in loads : LatestLoad(k) /\ AnswerWithin(k)
    /\ SteadyMatches /\ WalkIsShown /\ RowsArePassed
    /\ NothingSkipped /\ RowsAnswerTheList
=============================================================================
