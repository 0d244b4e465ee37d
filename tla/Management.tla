----------------------------- MODULE Management -----------------------------
(***************************************************************************)
(* What the management API reads and its clients show: the pages of tasks  *)
(* (TaskPages), the list of runners (RunnerDirectory) and the logs of a    *)
(* task (TaskLogs), side by side.  They live in two tables of D1 and in    *)
(* R2, and in parts of the console of their own (src/worker/index.ts,      *)
(* src/worker/admin-page.ts): a step is one of either, and leaves what     *)
(* belongs to the others as it was.                                        *)
(***************************************************************************)
EXTENDS TaskPages

CONSTANTS
    RunnerIds, Encodable, Never, RunnerFilters, OnlineFor, StaleFor, MaxNow, MaxCalls, MaxReloads,
    Batches, Malformed, LeaseIds, PageSize, MaxMs

VARIABLES
    runnerRows, now, calls, load, console, called, steadyRunners, reloads,
    lease, ms, uploads, objects, reading, saved, removed

Directory == INSTANCE RunnerDirectory WITH
    rows <- runnerRows, steady <- steadyRunners, Filters <- RunnerFilters
Logs == INSTANCE TaskLogs

ASSUME ManagementAssumption ==
    Directory!ClockAssumption /\ Directory!ListAssumption /\ Logs!LogsAssumption

directoryVars == <<runnerRows, now, calls, load, console, called, steadyRunners, reloads>>
logsVars == <<lease, ms, uploads, objects, reading, saved, removed>>
apiVars == <<vars, directoryVars, logsVars>>

TasksStep == Next /\ UNCHANGED <<directoryVars, logsVars>>
DirectoryStep == Directory!Next /\ UNCHANGED <<vars, logsVars>>
LogsStep == Logs!Next /\ UNCHANGED <<vars, directoryVars>>

ApiInit == Init /\ Directory!Init /\ Logs!Init
ApiNext == TasksStep \/ DirectoryStep \/ LogsStep
ApiSpec == ApiInit /\ [][ApiNext]_apiVars /\ Directory!Fairness

-----------------------------------------------------------------------------
(* Properties, besides those of TaskPages.                                  *)

\* The variables of the three modules hold values of their types.
ApiTypeOK == TypeOK /\ Directory!TypeOK /\ Logs!TypeOK

\* Whoever is listed online has called (RunnerDirectory).
OnlineHasCalled == Directory!OnlineHasCalled

\* A list of runners read over several pages misses none (RunnerDirectory).
ListIsComplete == Directory!ListIsComplete

\* A runner that has called is never listed as one that never did
\* (RunnerDirectory).
SeenStaysSeen == Directory!SeenStaysSeen

\* Reloading the runners keeps the selection (RunnerDirectory).
SelectionIsKept == Directory!SelectionIsKept

\* Loading the runners comes to an end (RunnerDirectory).
LoadEnds == Directory!LoadEnds

\* A stored batch is overwritten only by one of its own lease (TaskLogs).
LostToOwnLeaseOnly == Logs!LostToOwnLeaseOnly

\* A reading shows all that was stored before it and still is (TaskLogs).
ReadingIsComplete == Logs!ReadingIsComplete
=============================================================================
