-------------------------- MODULE MCClientConnection --------------------------
(* Instance of ClientConnection for TLC. *)
EXTENDS ClientConnection, TLC

CONSTANTS d, t1, t2  \* model values: the dispatcher and two other tasks

TwoTasks == {d, t1}
ThreeTasks == {d, t1, t2}

\* The tasks other than the dispatcher are interchangeable.
Symmetry == Permutations({t1, t2})
=============================================================================
