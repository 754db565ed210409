------------------------------- MODULE Stages -------------------------------
(* The child processes that grade() starts and waits for, one after another: *)
(* the task's scripts, which it polls and kills after a while, and isolate,  *)
(* g++ and the jury, for which it waits as long as they take.                *)
EXTENDS Integers

CONSTANTS
    Scripts,     \* the script/ stages of the task
    Blocking,    \* those of isolate, g++ and jury that are used
    MaxPolls,    \* the 300 polls a script may take
    PipeSize,    \* what fits into the jury's pipe before it is read
    JuryOutput,  \* the most a jury prints
    MayHang      \* the children that may never end by themselves

ASSUME KindAssumption ==
    /\ Scripts \subseteq {"judge", "compile", "run", "check", "score"}
    /\ Blocking \subseteq {"isolate", "g++", "jury"}
    /\ MayHang \subseteq Scripts \cup Blocking
ASSUME NumberAssumption == {MaxPolls, PipeSize, JuryOutput} \subseteq Nat

\* The scripts that answer in a file: RESULT_FILE, or the executable.
Answering == Scripts \ {"run"}

VARIABLES
    stage,    \* the child that is waited for, "none" between two
    child,    \* "none", "running", or a zombie that "ended" well or "failed"
    hangs,    \* the child never ends by itself
    toPrint,  \* what the jury has still to print
    pipe,     \* what it has printed
    elapsed,  \* the polls so far
    file,     \* each script's answer: "none", "own" or "old", of another child
    returned, \* what the last stage returned
    used      \* the answer it was made of

stagesVars == <<stage, child, hangs, toPrint, pipe, elapsed, file, returned, used>>

StagesTypeOK ==
    /\ stage \in Scripts \cup Blocking \cup {"none"}
    /\ child \in {"none", "running", "ended", "failed"}
    /\ hangs \in BOOLEAN
    /\ toPrint \in 0 .. JuryOutput
    /\ pipe \in 0 .. PipeSize
    /\ elapsed \in 0 .. MaxPolls
    /\ file \in [Answering -> {"none", "own", "old"}]
    /\ returned \in {"none", "ok", "rejected", "error"}
    /\ used \in {"none", "own", "old"}

StagesInit ==
    /\ stage = "none"
    /\ child = "none"
    /\ hangs = FALSE
    /\ toPrint = 0 /\ pipe = 0
    /\ elapsed = 0
    /\ file = [s \in Answering |-> "none"]
    /\ returned = "none"
    /\ used = "none"

-----------------------------------------------------------------------------
\* What an earlier child has left in the box.
Aged(s) == [t \in Answering |-> IF file[t] = "own" THEN "old" ELSE file[t]]

\* Judge and compile are the first of a submission, in a box that isolate --init
\* has just made: nothing is left there, no executable either.  The later ones
\* remove the file of their own name.
FirstOfBox == {"judge", "compile"}
Unlinked(s) ==
    IF s \in FirstOfBox THEN [t \in Answering |-> "none"]
    ELSE [Aged(s) EXCEPT ![s] = "none"]

Fork(s) ==
    /\ stage = "none"
    /\ stage' = s
    /\ child' = "running"
    /\ hangs' \in IF s \in MayHang THEN BOOLEAN ELSE {FALSE}
    /\ toPrint' \in IF s = "jury" THEN 0 .. JuryOutput ELSE {0}
    /\ pipe' = 0
    /\ elapsed' = 0
    /\ file' = IF s \in Answering THEN Unlinked(s) ELSE Aged(s)
    /\ returned' = "none"
    /\ used' = "none"

\* fork fails: a script's stage is an error.  For the others the grader dies.
ForkFails(s) ==
    /\ stage = "none"
    /\ s \in Scripts
    /\ returned' = "error"
    /\ used' = "none"
    /\ UNCHANGED <<stage, child, hangs, toPrint, pipe, elapsed, file>>

(* The child.                                                                *)

Answer ==
    /\ child = "running"
    /\ stage \in Answering
    /\ file' = [file EXCEPT ![stage] = "own"]
    /\ UNCHANGED <<stage, child, hangs, toPrint, pipe, elapsed, returned, used>>

\* A write to a full pipe blocks.
PrintOut ==
    /\ child = "running"
    /\ toPrint > 0 /\ pipe < PipeSize
    /\ toPrint' = toPrint - 1
    /\ pipe' = pipe + 1
    /\ UNCHANGED <<stage, child, hangs, elapsed, file, returned, used>>

End ==
    /\ child = "running"
    /\ ~hangs /\ toPrint = 0
    /\ child' \in {"ended", "failed"}
    /\ UNCHANGED <<stage, hangs, toPrint, pipe, elapsed, file, returned, used>>

(* The grader.                                                               *)

\* What a stage may return when its child has been reaped and left what it did.
Done(end) == IF end = "ended" THEN {"ok"} ELSE {"error"}
CompileReturns(end) ==
    IF end = "ended" /\ file["compile"] # "none" THEN {"ok"} ELSE {"rejected"}
JudgeReturns(end) ==
    IF end = "ended" /\ file["judge"] # "none" THEN {"ok"} ELSE {"error"}
\* A result that has no "ok" or "wa", or no score, is an error.
CheckReturns(end) ==
    IF end = "ended" /\ file["check"] # "none"
    THEN {"ok", "rejected", "error"} ELSE {"error"}
ScoreReturns(end) ==
    IF end = "ended" /\ file["score"] # "none" THEN {"ok", "error"} ELSE {"error"}
Returned(s, end) ==
    CASE s = "compile" -> CompileReturns(end)
      [] s = "judge" -> JudgeReturns(end)
      [] s = "check" -> CheckReturns(end)
      [] s = "score" -> ScoreReturns(end)
      [] s \in {"run", "jury", "g++"} -> Done(end)
      [] OTHER -> {"ok"}

Reaped ==
    /\ stage' = "none"
    /\ child' = "none"
    /\ hangs' = FALSE
    /\ toPrint' = 0 /\ pipe' = 0
    /\ elapsed' = 0
    /\ UNCHANGED file

\* waitpid returns the child.
Reap ==
    /\ stage # "none"
    /\ child \in {"ended", "failed"}
    /\ returned' \in Returned(stage, child)
    /\ used' = IF stage \in Answering /\ returned' # "error" THEN file[stage] ELSE "none"
    /\ Reaped

\* One poll too many.
OverdueLate == elapsed > MaxPolls

\* elapsed++ >= 300
Overdue == elapsed >= MaxPolls

\* Polls that are not counted.
PollUncounted ==
    /\ stage \in Scripts
    /\ child = "running"
    /\ ~Overdue
    /\ UNCHANGED stagesVars

\* waitpid(WNOHANG) returns 0, and the grader sleeps.
Poll ==
    /\ stage \in Scripts
    /\ child = "running"
    /\ ~Overdue
    /\ elapsed' = elapsed + 1
    /\ UNCHANGED <<stage, child, hangs, toPrint, pipe, file, returned, used>>

\* The child is killed and reaped, whatever it has answered: it may have ended
\* since the last poll.
Kill ==
    /\ stage \in Scripts
    /\ Overdue
    /\ returned' = "error"
    /\ used' = "none"
    /\ Reaped

StagesNext ==
    \/ \E s \in Scripts \cup Blocking : Fork(s) \/ ForkFails(s)
    \/ Answer \/ PrintOut \/ End
    \/ Reap \/ Poll \/ Kill

StagesSpec == StagesInit /\ [][StagesNext]_stagesVars

\* The grader runs, and a child that does not hang ends.
StagesFairSpec ==
    /\ StagesSpec
    /\ WF_stagesVars(Reap) /\ WF_stagesVars(Poll) /\ WF_stagesVars(Kill)
    /\ WF_stagesVars(PrintOut) /\ WF_stagesVars(End)

-----------------------------------------------------------------------------
(* Properties.                                                               *)

\* A stage is never a success by the answer an earlier child has left.
AnswerIsOwn == used # "old"

\* The jury waits for the grader to read its pipe, which the grader does when the
\* jury has ended.
JuryBlocked == stage = "jury" /\ pipe = PipeSize /\ toPrint > 0

\* isolate is given a limit of CPU time and none of time.
Asleep == stage = "isolate" /\ hangs

\* A broken administrator script does not wedge the grading worker: whatever it
\* does, the grader stops waiting for it, as for all children that do end.  The
\* exceptions are a jury that prints more than its pipe holds and a program that
\* sleeps.
AlwaysReturns == stage # "none" ~> stage = "none" \/ JuryBlocked \/ Asleep
=============================================================================
