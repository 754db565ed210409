----------------------------- MODULE Communicate -----------------------------
(* tle_communicate: it runs a manager and a contestant connected by two      *)
(* pipes, polls both with waitpid(WNOHANG) every 10 ms, and gives up when    *)
(* the time limit plus five seconds has passed.  The two waitpid calls of an *)
(* iteration are separate steps, for a child may end between them.           *)
EXTENDS Naturals

VARIABLES
    pc,      \* where main() is
    child,   \* each child: "none", "running", "zombie", "reaped"
    code,    \* how a child ended: "ok" is exit(0), "bad" anything else
    waited,  \* manager_done and contestant_done: "self", "zero" or "error"
    late,    \* elapsed_ms > time_ms + 5000
    killed,  \* children that kill_if_running found running in the loop
    box,     \* the isolate box: "none", "initialised", "cleaned", or "kept" when
             \* isolate --init or --cleanup failed
    ret      \* the exit status, 3 while there is none

vars == <<pc, child, code, waited, late, killed, box, ret>>

Children == {"manager", "contestant"}

TypeOK ==
    /\ pc \in {"setup", "pipes", "forkManager", "forkContestant", "waitManager",
               "waitContestant", "decide", "teardown", "done"}
    /\ child \in [Children -> {"none", "running", "zombie", "reaped"}]
    /\ code \in [Children -> {"none", "ok", "bad"}]
    /\ waited \in [Children -> {"zero", "self", "error"}]
    /\ late \in BOOLEAN
    /\ killed \subseteq Children
    /\ box \in {"none", "initialised", "cleaned", "kept"}
    /\ ret \in 0..3

Init ==
    /\ pc = "setup"
    /\ child = [c \in Children |-> "none"]
    /\ code = [c \in Children |-> "none"]
    /\ waited = [c \in Children |-> "zero"]
    /\ late = FALSE
    /\ killed = {}
    /\ box = "none"
    /\ ret = 3

-----------------------------------------------------------------------------
Running == {c \in Children : child[c] = "running"}

\* SIGKILL to both and a blocking waitpid for each: a child that runs dies of
\* the signal, a zombie keeps its status, and both are reaped.
KillAndReap ==
    /\ child' = [c \in Children |-> IF child[c] = "none" THEN "none" ELSE "reaped"]
    /\ code' = [c \in Children |-> IF c \in Running THEN "bad" ELSE code[c]]

\* The status is settled, and isolate_teardown is what is left to do.
Return(status) ==
    /\ ret' = status
    /\ pc' = "teardown"
    /\ UNCHANGED box

\* isolate_teardown: its fork may fail, and the status of isolate --cleanup is
\* not looked at, so that the box may be there still.
Teardown ==
    /\ pc = "teardown"
    /\ box' \in {"cleaned", "kept"}
    /\ pc' = "done"
    /\ UNCHANGED <<child, code, waited, late, killed, ret>>

\* isolate --init fails, at once or half way: main() returns without a teardown.
SetupFails ==
    /\ pc = "setup"
    /\ box' \in {"none", "kept"}
    /\ ret' = 2
    /\ pc' = "done"
    /\ UNCHANGED <<child, code, waited, late, killed>>

Setup ==
    /\ pc = "setup"
    /\ box' = "initialised"
    /\ pc' = "pipes"
    /\ UNCHANGED <<child, code, waited, late, killed, ret>>

MakePipes ==
    /\ pc = "pipes"
    /\ pc' = "forkManager"
    /\ UNCHANGED <<child, code, waited, late, killed, box, ret>>

\* pipe() fails, or the first fork() does.
NoPipesOrManager ==
    /\ pc \in {"pipes", "forkManager"}
    /\ Return(2)
    /\ UNCHANGED <<child, code, waited, late, killed>>

ForkManager ==
    /\ pc = "forkManager"
    /\ child' = [child EXCEPT !["manager"] = "running"]
    /\ pc' = "forkContestant"
    /\ UNCHANGED <<code, waited, late, killed, box, ret>>

\* The second fork() fails: the manager is killed and reaped.
NoContestant ==
    /\ pc = "forkContestant"
    /\ KillAndReap
    /\ Return(2)
    /\ UNCHANGED <<waited, late, killed>>

\* The clock of the time limit starts after the second fork.
ForkContestant ==
    /\ pc = "forkContestant"
    /\ child' = [child EXCEPT !["contestant"] = "running"]
    /\ pc' = "waitManager"
    /\ UNCHANGED <<code, waited, late, killed, box, ret>>

-----------------------------------------------------------------------------
(* The polling loop.                                                         *)

\* waitpid(c, &status, WNOHANG): the pid when c has ended since the last call,
\* 0 while it runs, -1 with ECHILD when it was reaped before.
WaitResult(c) ==
    CASE child[c] = "running" -> "zero"
      [] child[c] = "zombie"  -> "self"
      [] child[c] = "reaped"  -> "error"

WaitFor(c, here, next) ==
    /\ pc = here
    /\ waited' = [waited EXCEPT ![c] = WaitResult(c)]
    /\ child' = [child EXCEPT ![c] = IF @ = "zombie" THEN "reaped" ELSE @]
    /\ pc' = next
    /\ UNCHANGED <<code, late, killed, box, ret>>

WaitManager == WaitFor("manager", "waitManager", "waitContestant")
WaitContestant == WaitFor("contestant", "waitContestant", "decide")

BothDone == \A c \in Children : waited[c] = "self"
WaitError == \E c \in Children : waited[c] = "error"

\* Mutant of ExitStatus: only the contestant's status counts.
ContestantStatus == IF code["contestant"] = "ok" THEN 0 ELSE 1

\* Mutant of ExitStatus: the wait status is returned without WEXITSTATUS.
RawStatus == IF \A c \in Children : code[c] = "ok" THEN 0 ELSE 256

ExitStatus == IF \A c \in Children : code[c] = "ok" THEN 0 ELSE 1

Finish ==
    /\ pc = "decide"
    /\ BothDone
    /\ Return(ExitStatus)
    /\ UNCHANGED <<child, code, waited, late, killed>>

\* Mutant of GiveUp: it returns without killing and reaping the children.
GiveUpAndLeave(status) ==
    /\ Return(status)
    /\ UNCHANGED <<child, code, waited, late, killed>>

\* Kill both children and reap them, before the clean-up.
GiveUp(status) ==
    /\ killed' = Running
    /\ KillAndReap
    /\ Return(status)
    /\ UNCHANGED <<waited, late>>

\* A waitpid returned -1.
GiveUpOnError ==
    /\ pc = "decide"
    /\ ~BothDone
    /\ WaitError
    /\ GiveUp(2)

\* Mutant of Overdue: the time limit is never looked at.
NeverOverdue == FALSE

Overdue == late

GiveUpLate ==
    /\ pc = "decide"
    /\ ~BothDone
    /\ ~WaitError
    /\ Overdue
    /\ GiveUp(1)

\* usleep(10000) and the next iteration.
Sleep ==
    /\ pc = "decide"
    /\ ~BothDone
    /\ ~WaitError
    /\ ~Overdue
    /\ pc' = "waitManager"
    /\ UNCHANGED <<child, code, waited, late, killed, box, ret>>

-----------------------------------------------------------------------------
(* The environment.                                                          *)

\* A child ends: on its own, by a signal, or by isolate's own limits.
ChildEnds(c) ==
    /\ child[c] = "running"
    /\ child' = [child EXCEPT ![c] = "zombie"]
    /\ \E how \in {"ok", "bad"} : code' = [code EXCEPT ![c] = how]
    /\ UNCHANGED <<pc, waited, late, killed, box, ret>>

\* The time limit and the five seconds pass.
TimePasses ==
    /\ pc \in {"waitManager", "waitContestant", "decide"}
    /\ ~late
    /\ late' = TRUE
    /\ UNCHANGED <<pc, child, code, waited, killed, box, ret>>

Main ==
    \/ SetupFails \/ Setup
    \/ MakePipes \/ NoPipesOrManager
    \/ ForkManager \/ NoContestant \/ ForkContestant
    \/ WaitManager \/ WaitContestant
    \/ Finish \/ GiveUpOnError \/ GiveUpLate \/ Sleep
    \/ Teardown

Next == Main \/ TimePasses \/ \E c \in Children : ChildEnds(c)

Spec == Init /\ [][Next]_vars

\* main() is scheduled, isolate --init and --cleanup come back, and time
\* passes.  Nothing makes the children end.
FairSpec == Spec /\ WF_vars(Main) /\ WF_vars(TimePasses)

-----------------------------------------------------------------------------
Gone == \A c \in Children : child[c] \in {"none", "reaped"}

\* Whatever path main() leaves by, both children are reaped before the box is
\* cleaned, so that isolate --cleanup never meets a contestant that runs, and
\* none is left at the end.  No path goes round the clean-up of a box that was
\* set up; the box is there afterwards only because isolate itself, or the fork
\* for it, failed.
NothingLeftBehind ==
    /\ pc \in {"teardown", "done"} => Gone
    /\ box \in {"cleaned", "kept"} => pc = "done"
    /\ pc = "done" /\ box = "none" => ret = 2
    /\ pc = "done" => box # "initialised"

\* Exit status 0 is given only when both programs succeeded, and 1 only when
\* one failed or the time was over: what a judge script reads off the status.
\* Both programs are killed only when it is over; one may be before, when the
\* other has been reaped in an earlier poll.
StatusIsHonest ==
    /\ ret = 0 => \A c \in Children : code[c] = "ok"
    /\ ret = 1 => late \/ \E c \in Children : code[c] = "bad"
    /\ killed = Children => late

\* The helper always returns, even if neither program ever ends.
AlwaysReturns == <>(pc = "done")
=============================================================================
