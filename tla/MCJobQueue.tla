----------------------------- MODULE MCJobQueue -----------------------------
(* Small instances of JobQueue for TLC.                                      *)
EXTENDS JobQueue, TLC

\* Process slots are interchangeable within Services and outside it, and so
\* are process ids: no definition orders or names them.
Symmetry == Permutations(Services) \cup Permutations(Graders \ Services)
                \cup Permutations(Pids)
=============================================================================
