------------------------------- MODULE MCSite -------------------------------
(* Site with two users, two tasks and one submission of an older version.    *)
EXTENDS Site, TLC

CONSTANTS u1, u2, t1, t2

MCOld == <<[user |-> u1, task |-> t1, public |-> FALSE, result |-> "accepted"]>>
MCFilters == {NoFilter, [NoFilter EXCEPT !.user = u1],
              [NoFilter EXCEPT !.task = t2, !.verdict = "accepted"]}
MCCounts == {1, 2}
=============================================================================
