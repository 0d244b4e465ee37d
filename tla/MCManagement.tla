---------------------------- MODULE MCManagement ----------------------------
(* TLC instance of Management.  Since its parts share no state, one of them  *)
(* moves in a behaviour: part says which.                                    *)
EXTENDS Management, TLC

CONSTANTS r1, r2
VARIABLE part

MCRunnerOf == 1 :> r1 @@ 2 :> r2 @@ 3 :> r1
\* A runner is chosen, and then a status too or not, back and forth.
MCFilters == {[runner |-> r1, status |-> s] : s \in {All, "queued"}}

\* Bound: a second load is under way while there are two rows, not three.
Narrow == Cardinality(loads) < MaxLoads \/ ~Stored(3)

\* The clock bounds created_at and nothing else, and a row may be late: it is
\* enough that the clock goes on before the first row.
ClockGoesFirst == clock = MaxTime \/ \A t \in Tasks : ~Stored(t)

\* Bound: two runners are registered, the first or the last of three among them.
\* The one in the middle has an id that no cursor can carry, and does not call:
\* its client puts the id into the path of a claim as it is.
Two ==
    /\ Cardinality(DOMAIN runnerRows \cup {c.runner : c \in calls}) <= 2
    /\ \A c \in calls : c.kind = "touch" => c.runner \in Encodable

MCInit == part \in {"tasks", "runners", "logs"} /\ ApiInit

MCNext ==
    /\ UNCHANGED part
    /\ \/ part = "tasks" /\ TasksStep /\ (Narrow /\ ClockGoesFirst)'
       \/ part = "runners" /\ DirectoryStep /\ Two'
       \/ part = "logs" /\ LogsStep

MCSpec == MCInit /\ [][MCNext]_<<apiVars, part>> /\ Directory!Fairness
=============================================================================
