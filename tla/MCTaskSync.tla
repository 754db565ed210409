----------------------------- MODULE MCTaskSync -----------------------------
(* TaskSync with two directories and two tasks.                              *)
EXTENDS TaskSync

M(kind, pk, tag, n) == [kind |-> kind, pk |-> pk, tag |-> tag, groups |-> n]

\* Task 1 with more and fewer subtasks or a bad one, task 2, and what is
\* passed over or fatal.
MCManifests == {M("good", 1, 1, 2), M("good", 1, 2, 1), M("half", 1, 3, 1),
                M("good", 2, 1, 1), M("skipped", 1, 1, 0), M("fatal", 1, 1, 0)}
=============================================================================
