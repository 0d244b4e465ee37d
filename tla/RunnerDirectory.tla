--------------------------- MODULE RunnerDirectory ---------------------------
(***************************************************************************)
(* The runners of the management API: the rows written by registrations    *)
(* and by the heartbeat column that claims and heartbeats touch            *)
(* (src/worker/task-service.ts, src/worker/d1-store.ts), and their views,  *)
(* listed page by page with a status that depends on the clock, as the     *)
(* console's loadRunners (src/worker/admin-page.ts) reads them.            *)
(*                                                                         *)
(* Nothing serialises a registration, which reads a row and writes it      *)
(* back, with the touches of the same runner, or a list read over several  *)
(* requests with either.  Left out: the descriptive columns, the           *)
(* credential, the current task of a view (TaskHubService has the tasks),  *)
(* and the presence that stands in for the status once it is known         *)
(* (AdminConsole).                                                         *)
(***************************************************************************)
EXTENDS Integers, FiniteSets, Sequences

CONSTANTS
    RunnerIds,  \* runner ids; numbers, in the order of the strings
    Encodable,  \* those whose characters are all Latin-1, which btoa takes
    Never,      \* SQL NULL in last_heartbeat_at
    All,        \* no status filter
    None,       \* no cursor, no answer, no selection
    Filters,    \* the statuses other clients of the API ask for, and All
    Limit,      \* rows of a page
    OnlineFor,  \* 15 seconds, in ticks
    StaleFor,   \* 60 seconds, in ticks
    MaxNow,     \* bound: the clock stops here
    MaxCalls,   \* bound: invocations in flight
    MaxReloads  \* bound: how often the list is asked for

VARIABLES
    rows,       \* the runners table: last_heartbeat_at of the rows there are
    now,        \* the time
    calls,      \* the invocations between their read and their write
    load,       \* the list being read page by page
    console,    \* the list it shows, and selectedRunnerId
    called,     \* history: the time of the last claim or heartbeat of a runner
    steady,     \* history: the runners that have matched since the load began
    reloads     \* the loads so far

vars == <<rows, now, calls, load, console, called, steady, reloads>>

RunnerStatuses == {"online", "stale", "offline"}
Times == 0 .. MaxNow
Seen == Times \cup {Never}

\* A registration has read last_heartbeat_at, a touch has read the clock.
Call == [kind : {"register", "touch"}, runner : RunnerIds, seen : Seen]

Answer == [items : Seq(RunnerIds), next : RunnerIds \cup {None}]

\* filter, cursor: the query.  runners: those of the pages received.
NoLoad == [filter |-> All, runners |-> <<>>, cursor |-> None, answer |-> None, pc |-> "idle"]

-----------------------------------------------------------------------------
(* The views.                                                               *)

Stored == DOMAIN rows

\* The status CASE of the view.
StatusOf(seen) ==
    IF seen # Never /\ seen >= now - OnlineFor THEN "online"
    ELSE IF seen # Never /\ seen >= now - StaleFor THEN "stale" ELSE "offline"

Matches(r, filter) == r \in Stored /\ filter \in {All, StatusOf(rows[r])}

\* runner_id > ?
After(r, cursor) == cursor = None \/ r > cursor

\* ORDER BY runner_id ASC: the views of a set of runners.
Ascending(S) == CHOOSE s \in [1 .. Cardinality(S) -> S] :
                    \A i, j \in 1 .. Cardinality(S) : i < j => s[i] < s[j]

\* Mutant: the next page begins after the extra row that was read.
PageSkipsRow(filter, cursor) ==
    LET S == Ascending({r \in RunnerIds : Matches(r, filter) /\ After(r, cursor)})
        n == IF Len(S) > Limit THEN Limit ELSE Len(S)
    IN  [items |-> SubSeq(S, 1, n),
         next |-> IF Len(S) > Limit THEN S[n + 1] ELSE None]

\* LIMIT limit + 1: the extra row only says that there is another page.
Page(filter, cursor) ==
    LET S == Ascending({r \in RunnerIds : Matches(r, filter) /\ After(r, cursor)})
        n == IF Len(S) > Limit THEN Limit ELSE Len(S)
    IN  [items |-> SubSeq(S, 1, n),
         next |-> IF Len(S) > Limit THEN S[n] ELSE None]

Init ==
    /\ rows = [r \in {} |-> Never]
    /\ now = 0
    /\ calls = {}
    /\ load = NoLoad
    /\ console = [runners |-> {}, selected |-> None]
    /\ called = [r \in RunnerIds |-> Never]
    /\ steady = {}
    /\ reloads = 0

\* The matching runners that match on in the next state.
KeepSteady == steady' = {r \in steady : Matches(r, load.filter)'}

-----------------------------------------------------------------------------
(* The rows.                                                                *)

\* registerRunner: the previous row is read, if there is one.
RegisterRead(r) ==
    /\ Cardinality(calls) < MaxCalls
    /\ calls' = calls \cup {[kind |-> "register", runner |-> r,
                             seen |-> IF r \in Stored THEN rows[r] ELSE Never]}
    /\ UNCHANGED <<rows, now, load, console, called, steady, reloads>>

Write(r, seen) ==
    /\ rows' = [x \in Stored \cup {r} |-> IF x = r THEN seen ELSE rows[x]]
    /\ UNCHANGED <<now, load, console, called, reloads>>
    /\ KeepSteady

\* Mutant: putRunner of in-memory-store.ts, which writes what was read.
RegisterPutOverwrites(c) ==
    /\ c.kind = "register"
    /\ calls' = calls \ {c}
    /\ Write(c.runner, c.seen)

\* Mutant: the registration itself counts as a heartbeat.
RegisterPutTouches(c) ==
    /\ c.kind = "register"
    /\ calls' = calls \ {c}
    /\ Write(c.runner, now)

\* putRunner: COALESCE(excluded.last_heartbeat_at, runners.last_heartbeat_at).
RegisterPut(c) ==
    /\ c.kind = "register"
    /\ calls' = calls \ {c}
    /\ Write(c.runner, IF c.seen = Never /\ c.runner \in Stored THEN rows[c.runner] ELSE c.seen)

\* claimTask or heartbeat of a registered runner takes the time ...
TouchRead(r) ==
    /\ Cardinality(calls) < MaxCalls
    /\ r \in Stored
    /\ calls' = calls \cup {[kind |-> "touch", runner |-> r, seen |-> now]}
    /\ called' = [called EXCEPT ![r] = now]
    /\ UNCHANGED <<rows, now, load, console, steady, reloads>>

\* ... and touchRunnerHeartbeat writes it.
Touch(c) ==
    /\ c.kind = "touch"
    /\ calls' = calls \ {c}
    /\ Write(c.runner, c.seen)

\* The storage call throws, or the isolate dies.
CallFails(c) ==
    /\ calls' = calls \ {c}
    /\ UNCHANGED <<rows, now, load, console, called, steady, reloads>>

Tick ==
    /\ now < MaxNow
    /\ now' = now + 1
    /\ UNCHANGED <<rows, calls, load, console, called, reloads>>
    /\ KeepSteady

-----------------------------------------------------------------------------
(* The console.                                                             *)

Loading == load.pc \in {"asked", "answered"}

\* loadRunners, without a filter: what an older load still does is ignored from
\* here on (runnerRequestGeneration).  Or another client of the API, one at a
\* time, that asks for a status and reads all pages.
BeginLoad(filter) ==
    /\ reloads < MaxReloads
    /\ load' = [NoLoad EXCEPT !.filter = filter, !.pc = "asked"]
    /\ steady' = {r \in RunnerIds : Matches(r, filter)}
    /\ reloads' = reloads + 1
    /\ UNCHANGED <<rows, now, calls, console, called>>

\* listRunners at the time of the request.  encodeRunnerCursor throws for an id
\* that btoa cannot take: the request is answered 500, and the load is over.
ReadPage ==
    /\ load.pc = "asked"
    /\ LET page == Page(load.filter, load.cursor)
       IN  load' = IF page.next \in Encodable \cup {None}
                   THEN [load EXCEPT !.answer = page, !.pc = "answered"] ELSE NoLoad
    /\ UNCHANGED <<rows, now, calls, console, called, steady, reloads>>

Shown(l) == {l[i] : i \in 1 .. Len(l)}

\* The last page: the list is shown, and a selected runner not on it dropped.
Show(runners) ==
    console' = [runners |-> Shown(runners),
                selected |-> IF console.selected \in Shown(runners)
                             THEN console.selected ELSE None]

\* Mutant: every page is shown as if it were the whole list.
ReceiveEachPage ==
    /\ load.pc = "answered"
    /\ LET more == load.answer.next # None
       IN  /\ load' = [load EXCEPT !.cursor = load.answer.next, !.answer = None,
                                   !.pc = IF more THEN "asked" ELSE "shown"]
           /\ IF load.filter # All THEN UNCHANGED console ELSE Show(load.answer.items)
    /\ UNCHANGED <<rows, now, calls, called, steady, reloads>>

\* Mutant: the cursor of the first request is sent again.
ReceiveKeepsCursor ==
    /\ load.pc = "answered"
    /\ LET runners == load.answer.items
           more == load.answer.next # None
       IN  /\ load' = [load EXCEPT !.runners = runners, !.answer = None,
                                   !.pc = IF more THEN "asked" ELSE "shown"]
           /\ IF more \/ load.filter # All THEN UNCHANGED console ELSE Show(runners)
    /\ UNCHANGED <<rows, now, calls, called, steady, reloads>>

\* One turn of the do-while loop.
Receive ==
    /\ load.pc = "answered"
    /\ LET runners == load.runners \o load.answer.items
           more == load.answer.next # None
       IN  /\ load' = [load EXCEPT !.runners = runners, !.cursor = load.answer.next,
                                   !.answer = None, !.pc = IF more THEN "asked" ELSE "shown"]
           /\ IF more \/ load.filter # All THEN UNCHANGED console ELSE Show(runners)
    /\ UNCHANGED <<rows, now, calls, called, steady, reloads>>

LoadFails ==
    /\ Loading
    /\ load' = NoLoad
    /\ UNCHANGED <<rows, now, calls, console, called, steady, reloads>>

\* A click on a runner of the list, or on the one that is selected.
Select(r) ==
    /\ r \in console.runners
    /\ console' = [console EXCEPT !.selected = IF @ = r THEN None ELSE r]
    /\ UNCHANGED <<rows, now, calls, load, called, steady, reloads>>

Next ==
    \/ \E r \in RunnerIds : RegisterRead(r) \/ TouchRead(r) \/ Select(r)
    \/ \E c \in calls : RegisterPut(c) \/ Touch(c) \/ CallFails(c)
    \/ Tick
    \/ \E f \in Filters : BeginLoad(f)
    \/ ReadPage \/ Receive \/ LoadFails

\* A request is answered and its answer is received.
Fairness == WF_vars(ReadPage) /\ WF_vars(Receive)

Spec == Init /\ [][Next]_vars /\ Fairness

-----------------------------------------------------------------------------
(* Properties.                                                              *)

\* The rows and the calls under way.
RowsTyped ==
    /\ Stored \subseteq RunnerIds /\ rows \in [Stored -> Seen]
    /\ now \in Times
    /\ calls \subseteq Call
    /\ called \in [RunnerIds -> Seen]

\* The lists.
ListsTyped ==
    /\ load \in [filter : RunnerStatuses \cup {All}, runners : Seq(RunnerIds),
                 cursor : RunnerIds \cup {None}, answer : Answer \cup {None},
                 pc : {"idle", "asked", "answered", "shown"}]
    /\ console \in [runners : SUBSET RunnerIds, selected : RunnerIds \cup {None}]
    /\ steady \subseteq RunnerIds
    /\ reloads \in 0 .. MaxReloads

\* Every variable holds a value of its type.
TypeOK == RowsTyped /\ ListsTyped

\* A runner that has called is never again listed as one that never did,
\* however a registration overlaps its calls (putRunner's COALESCE).
SeenStaysSeen ==
    [][\A r \in Stored : rows[r] # Never => r \in DOMAIN rows' /\ rows'[r] # Never]_vars

\* Only calls make a runner online: whoever is listed online claimed or sent a
\* heartbeat no longer ago than that (admin-service.test.ts, "online").
OnlineHasCalled ==
    \A r \in Stored : StatusOf(rows[r]) = "online" =>
        called[r] # Never /\ called[r] >= now - OnlineFor

\* A finished list shows each runner once, in order, and every runner that
\* matched from the request of its first page to that of its last, though
\* statuses changed and runners registered between the pages.
ListIsComplete ==
    load.pc = "shown" =>
        /\ \A i, j \in 1 .. Len(load.runners) :
              i < j => load.runners[i] < load.runners[j]
        /\ steady \subseteq Shown(load.runners)

\* Reading the list again, in pages and perhaps cut short, never takes the
\* selection from the user (loadRunners): only a click does.
SelectionIsKept ==
    [][console.selected # None /\ ~(\E r \in RunnerIds : Select(r)) =>
          console'.selected = console.selected]_vars

\* A list that is not asked for again is shown, or its request failed.
LoadEnds == Loading ~> ~Loading
-----------------------------------------------------------------------------
(* The inductive invariant behind SeenStaysSeen and OnlineHasCalled.        *)

\* What it takes of the constants.
ClockAssumption == MaxNow \in Nat /\ OnlineFor \in Nat /\ Never \notin Int

\* The runner r has called at seen or later.
HeardFrom(r, seen) == seen # Never => called[r] # Never /\ seen <= called[r]

RowsHeard == \A r \in Stored : HeardFrom(r, rows[r])
CallsHeard == \A c \in calls : /\ HeardFrom(c.runner, c.seen)
                               /\ c.kind = "touch" => c.seen # Never
CalledBefore == \A r \in RunnerIds : called[r] # Never => called[r] <= now

IInv == RowsTyped /\ RowsHeard /\ CallsHeard /\ CalledBefore

-----------------------------------------------------------------------------
(* The inductive invariant behind ListIsComplete and SelectionIsKept.       *)

\* What it takes of the constants besides.
ListAssumption ==
    /\ RunnerIds \subseteq Nat /\ IsFiniteSet(RunnerIds)
    /\ None \notin RunnerIds /\ None \notin Answer
    /\ Filters \subseteq RunnerStatuses \cup {All}
    /\ Limit \in Nat \ {0}
    /\ MaxReloads \in Nat

Sorted(l) == \A i, j \in 1 .. Len(l) : i < j => l[i] < l[j]

\* A page with this next cursor reaches as far as r.
UpTo(r, next) == next = None \/ r <= next

ListSorted == Sorted(load.runners)

\* No row is ever deleted, so that what was read once is there.
ListStored ==
    /\ Shown(load.runners) \subseteq Stored
    /\ console.runners \subseteq Stored
    /\ console.selected \in console.runners \cup {None}

SteadyMatches == \A r \in steady : Matches(r, load.filter)

\* The pages received are the list up to the cursor.
ReceivedSoFar ==
    Loading =>
        /\ \A r \in Shown(load.runners) : ~After(r, load.cursor)
        /\ \A r \in steady : After(r, load.cursor) \/ r \in Shown(load.runners)

\* The page answered is the list from the cursor to the next one.
AnswerFollows ==
    load.pc = "answered" =>
        LET page == load.answer
        IN  /\ page # None
            /\ Sorted(page.items) /\ Shown(page.items) \subseteq Stored
            /\ \A r \in Shown(page.items) : After(r, load.cursor) /\ UpTo(r, page.next)
            /\ page.next # None => page.next \in Shown(page.items)
            /\ \A r \in steady : After(r, load.cursor) /\ UpTo(r, page.next)
                                  => r \in Shown(page.items)

\* A finished list holds what was steady (see ListIsComplete).
ShownIsComplete == load.pc = "shown" => steady \subseteq Shown(load.runners)

\* Whom the console shows is stored when it begins a load, and stays so.
ConsoleIsSteady == Loading /\ load.filter = All => console.runners \subseteq steady

ListInv ==
    /\ ListsTyped /\ ListSorted /\ ListStored /\ SteadyMatches
    /\ ReceivedSoFar /\ AnswerFollows /\ ShownIsComplete /\ ConsoleIsSteady
=============================================================================
