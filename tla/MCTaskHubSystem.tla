--------------------------- MODULE MCTaskHubSystem ---------------------------
(* TLC instances of TaskHubSystem: one runner, and tasks with a callback;   *)
(* t2, where there is one, is of a type the runner has no handler for.      *)
EXTENDS TaskHubSystem

CONSTANTS t1, t2, r1, q1, q2, l1, l2, l3, shell, python

MCRunnerOf == [t \in Tasks |-> r1]
MCTypeOf == [t \in Tasks |-> IF t = t2 THEN python ELSE shell]
MCKeyOf == [t \in Tasks |-> NoKey]
MCPriorityOf == [t \in Tasks |-> 0]
=============================================================================
