--------------------------- MODULE MCAdminConsole ---------------------------
(* The console with interchangeable tasks.                                  *)
EXTENDS AdminConsole, TLC

\* Bound: while a call of an ended session is in flight and no other call can be
\* made, no event is on its way.
Narrow ==
    \/ BagCardinality(page.calls) < MaxCalls
    \/ \A c \in BagToSet(page.calls) : c.fresh
    \/ page.socket.wire = <<>>

MCSpec == Init /\ [][Next /\ Narrow']_vars

TaskSymmetry == Permutations(Tasks)
=============================================================================
