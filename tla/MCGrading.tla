----------------------------- MODULE MCGrading -----------------------------
(* Grading with three cases, a few runs and the rows two manifests can give. *)
EXTENDS Grading

G(score, from, to) == [score |-> score, first |-> from, last |-> to]

\* No subtasks; one; two; two whose counts do not reach the last case; two that
\* pass it.  <<G(2, 1, 1)>> is also what is there of [[2,1],[4,2]] while the
\* web process stores it.
MCLayouts == {<<>>, <<G(6, 1, 3)>>, <<G(2, 1, 1), G(4, 2, 3)>>, <<G(2, 1, 1)>>,
              <<G(3, 1, 2), G(3, 3, 4)>>}

R(end, slow, output, checks) ==
    [end |-> end, slow |-> slow, big |-> FALSE, output |-> output, checks |-> checks]

\* Of the runs that end well one has removed its output.
MCRuns == {
    R("ok", FALSE, "right", TRUE), R("ok", FALSE, "wrong", TRUE),
    R("ok", FALSE, "none", TRUE), R("ok", FALSE, "right", FALSE), R("TO", TRUE, "right", TRUE),
    R("exit", FALSE, "right", TRUE), R("XX", FALSE, "none", TRUE),
    R("failed", FALSE, "none", TRUE),
    [R("other", FALSE, "right", TRUE) EXCEPT !.big = TRUE]}
=============================================================================
