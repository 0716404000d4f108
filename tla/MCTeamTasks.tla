---------------------------- MODULE MCTeamTasks ----------------------------
(* Graphs of tasks for TeamTasks. *)
EXTENDS TeamTasks, TLC

CONSTANTS w1, w2, a, b, c

\* b and c are blocked by a.
ConstFan == [t \in {a, b, c} |-> IF t = a THEN {} ELSE {a}]
\* c is blocked by b, b by a.
ConstChain == [t \in {a, b, c} |-> CASE t = a -> {} [] t = b -> {a} [] t = c -> {b}]
ConstAssigned == [t \in {a, b, c} |-> IF t = a THEN w1 ELSE None]

\* In the fan b and c are alike.
Symmetry == Permutations({b, c})
=============================================================================
