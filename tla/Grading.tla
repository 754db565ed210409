------------------------------- MODULE Grading -------------------------------
(* grade() of tle_grader: what becomes of one submission after another.  One *)
(* testcase is one action; what the contestant's program, isolate and the    *)
(* task's scripts do in it is nondeterministic.  The copies of the outputs   *)
(* under /tmp outlive a submission.                                          *)
EXTENDS Integers, Sequences, SequencesExt, FiniteSets, FiniteSetsExt

CONSTANTS
    NCase,           \* task.count_cases
    MaxScore,        \* task.max_score
    Layouts,         \* what fetch_subtask_groups may return for the task
    Checkers,        \* what may compare outputs: "compare", "jury", "script"
    Runs,            \* what may happen when a case is run, see RunOutcomes
    AnswersMissing   \* the cases without a tests/N.sol file

Cases == 1 .. NCase

\* A row of subtask_groups: its score, its first and its last case.  No row at
\* all means uniform scoring.
Group == [score : Nat, first : Nat, last : Nat]

\* end: how the run ended, in the order in which grade() looks for it
\*   ("failed" is a failing script/run, "other" a status that is none of those
\*   before it, "ok" no status at all);
\* slow, big: time and max-rss of the stat file are over the task's limits;
\* output: what is copied from the output file in the box, "none" where it or the
\*   copy cannot be opened: the program may remove its own output, a script/run
\*   may leave none, and /tmp may be full;
\* checks: the jury or script/check does its work, if it is asked.
RunOutcomes ==
    [end : {"failed", "nostat", "XX", "TO", "SG", "exit", "other", "ok"},
     slow : BOOLEAN, big : BOOLEAN, output : {"none", "right", "wrong"},
     checks : BOOLEAN]

ASSUME CaseAssumption == NCase \in Nat /\ AnswersMissing \subseteq Cases
ASSUME LayoutAssumption == Layouts \subseteq Seq(Group)
ASSUME RunAssumption == Runs \subseteq RunOutcomes
ASSUME CheckerAssumption == Checkers \subseteq {"compare", "jury", "script"}
\* Scores are doubles: a case's share of the points is not rounded.
ASSUME ScoreAssumption ==
    MaxScore \in Nat /\ \E share \in 0 .. MaxScore : MaxScore = NCase * share

\* The kinds of raw_results, "none" while it is NULL.  "error#" is an internal
\* error that names its case, "error" one that does not.
Results == {"none", "wa", "time", "memory", "runtime", "error#", "error", "compile"}

\* subtask_results is kept in one piece per case: its mark and the brackets before
\* and after it.
Mark == [r \in Results |->
    CASE r = "none" -> "A" [] r = "wa" -> "W" [] r = "time" -> "T"
      [] r = "memory" -> "M" [] r = "runtime" -> "R" [] OTHER -> "E"]
Pieces == [before : Seq({"["}), mark : {"A", "W", "T", "M", "R", "E"},
           after : Seq({"[", "]"})]

\* A judge script's score is not limited to the task's.
JudgeScores == {0, MaxScore, MaxScore + 1}

VARIABLES
    pc,        \* "main" outside grade(), "ready" when the box is, "cases" in the
               \* loop over the cases
    box,       \* whom isolate's box was made for: "none", this or an "old" one
    groups,    \* the rows fetched for this submission
    checker,   \* what compares this task's outputs
    case,      \* case_id
    overTime,  \* max_time > task.time_limit
    overMem,   \* max_mem > task.memory_limit
    marks,     \* subtask_results, in pieces
    failed,    \* failed_groups
    passed,    \* passed_cases
    first,     \* the kind of first_failure
    tmpOut,    \* what /tmp/N.out holds, for each case
    outcome,   \* what the last grade() handed to main()
    ran        \* history: the runs of this submission's cases so far

vars == <<pc, box, groups, checker, case, overTime, overMem, marks, failed, passed,
          first, tmpOut, outcome, ran>>

\* The points for the subtasks gs of rows.
GroupPoints(rows, gs) == MapThenSumSet(LAMBDA i : rows[i].score, gs)

Outcomes == [by : {"nothing", "early", "evaluator", "failed script", "score script"},
             result : Results, score : Int]
NoOutcome == [by |-> "nothing", result |-> "none", score |-> 0]

TypeOK ==
    /\ pc \in {"main", "ready", "cases"}
    /\ box \in {"none", "own", "old"}
    /\ groups \in Layouts
    /\ checker \in Checkers
    /\ case \in 1 .. NCase + 1
    /\ overTime \in BOOLEAN /\ overMem \in BOOLEAN
    /\ marks \in Seq(Pieces)
    /\ failed \subseteq DOMAIN groups
    /\ passed \in 0 .. NCase
    /\ first \in Results \ {"compile"}
    /\ tmpOut \in [Cases -> {"none", "right", "wrong"}]
    /\ outcome \in Outcomes
    /\ ran \in Seq(Runs) /\ Len(ran) = case - 1

Init ==
    /\ pc = "main"
    /\ box = "none"
    /\ groups \in Layouts
    /\ checker \in Checkers
    /\ case = 1
    /\ overTime = FALSE /\ overMem = FALSE
    /\ marks = <<>>
    /\ failed = {}
    /\ passed = 0
    /\ first = "none"
    /\ tmpOut = [c \in Cases |-> "none"]
    /\ outcome = NoOutcome
    /\ ran = <<>>

-----------------------------------------------------------------------------
(* Before the cases.                                                         *)

\* run_isolate_cleanup, whose failure is only warned about.
Cleanup(b) == {"none", b}

\* isolate_init_box, which makes the box anew if it is still there.  Where it
\* fails the old one may be left.
InitBox(b) == {[ok |-> TRUE, box |-> "own"], [ok |-> FALSE, box |-> b]}

\* copy_task_files: a task need not have files, but if there is one that is no
\* regular file, or cannot be copied, the rest is not copied either.
CopyTaskFiles(files) == files \in {"none", "regular"}

\* grade() returns before the cases.  A result of the grader itself, without a
\* verdict, comes from main() and has no score.
EarlyReturn(result, score) ==
    /\ pc' = "main"
    /\ outcome' = [by |-> "early", result |-> result, score |-> score]
Broken == EarlyReturn("error", 0)
ReturnVars == <<groups, checker, case, overTime, overMem, marks, failed, passed,
                first, tmpOut, ran>>

\* A submission is claimed and its box made ready.  The row of its task, its
\* directory or the artifacts' may be missing.
Prepare ==
    /\ pc = "main"
    /\ \E b \in Cleanup(IF box = "none" THEN "none" ELSE "old") :
          \/ box' = b /\ Broken
          \/ \E made \in InitBox(b), files \in {"none", "regular", "other"} :
                /\ box' = made.box
                /\ IF made.ok /\ CopyTaskFiles(files)
                   THEN pc' = "ready" /\ outcome' = NoOutcome
                   ELSE Broken
    /\ UNCHANGED ReturnVars

\* An output_only task compares its one file at once, and there a missing answer
\* is a wrong one.  With more cases than one it is broken, and the box is left.
OutputOnly ==
    /\ pc = "ready"
    /\ \/ /\ box' \in Cleanup(box)
          /\ EarlyReturn("none", MaxScore) \/ EarlyReturn("wa", 0)
       \/ Broken /\ UNCHANGED box
    /\ UNCHANGED ReturnVars

\* A judge script reports any result and score, or fails.
RunJudge ==
    /\ pc = "ready"
    /\ box' \in Cleanup(box)
    /\ \/ \E r \in Results, s \in JudgeScores : EarlyReturn(r, s)
       \/ Broken
    /\ UNCHANGED ReturnVars

\* run_task_compile_script and, where there is no script, compile(): -1 for an
\* error of the script, 0 when there is a program, 2 when the compiler refuses.
CompileStatus(script, compiles) == IF script = 1 /\ ~compiles THEN 2 ELSE script
CompileFails ==
    /\ pc = "ready"
    /\ \E script \in -1 .. 2, compiles \in BOOLEAN :
          LET status == CompileStatus(script, compiles)
          IN  \/ status < 0 /\ Broken
              \/ status = 2 /\ EarlyReturn("compile", 0)
    /\ UNCHANGED <<box, ReturnVars>>

\* has_subtask_groups and the loop each read the rows.
HasGroups(looked) == looked # <<>>
FetchedGroups(looked, fetched) == IF HasGroups(looked) THEN fetched ELSE <<>>

\* Begin with the failed_groups of the submission before.
BeginKeepsFailed ==
    /\ pc = "ready"
    /\ pc' = "cases"
    /\ \E looked, fetched \in Layouts : groups' = FetchedGroups(looked, fetched)
    /\ checker' \in Checkers
    /\ case' = 1
    /\ overTime' = FALSE /\ overMem' = FALSE
    /\ marks' = <<>>
    /\ passed' = 0
    /\ first' = "none"
    /\ ran' = <<>>
    /\ UNCHANGED <<box, failed, tmpOut, outcome>>

\* Begin with the max_time of the submission before.
BeginKeepsTime ==
    /\ pc = "ready"
    /\ pc' = "cases"
    /\ \E looked, fetched \in Layouts : groups' = FetchedGroups(looked, fetched)
    /\ checker' \in Checkers
    /\ case' = 1
    /\ overMem' = FALSE
    /\ marks' = <<>>
    /\ failed' = {}
    /\ passed' = 0
    /\ first' = "none"
    /\ ran' = <<>>
    /\ UNCHANGED <<box, overTime, tmpOut, outcome>>

\* The submission is compiled and goes to the cases, with fresh locals.  The
\* task's files and rows may have been replaced since the last submission.
Begin ==
    /\ pc = "ready"
    /\ pc' = "cases"
    /\ \E looked, fetched \in Layouts : groups' = FetchedGroups(looked, fetched)
    /\ checker' \in Checkers
    /\ case' = 1
    /\ overTime' = FALSE /\ overMem' = FALSE
    /\ marks' = <<>>
    /\ failed' = {}
    /\ passed' = 0
    /\ first' = "none"
    /\ ran' = <<>>
    /\ UNCHANGED <<box, tmpOut, outcome>>

-----------------------------------------------------------------------------
(* The cases.                                                                *)

\* The bracket in front of case c.  The first group always starts at case 1.
Opening(c) ==
    IF \/ groups = <<>> /\ c = 1
       \/ \E i \in DOMAIN groups : groups[i].first = c
    THEN <<"[">> ELSE <<>>

\* The brackets after case c.
Closing(c) ==
    IF \/ groups = <<>> /\ c = NCase
       \/ groups # <<>> /\ c = Last(groups).last
    THEN <<"]">>
    ELSE IF \E i \in DOMAIN groups : groups[i].last = c
         THEN <<"]", "[">> ELSE <<>>

\* A copy that does not replace an existing file.
CopiedOnce(c, run) ==
    IF run.end # "failed" /\ run.output # "none" /\ tmpOut[c] = "none"
    THEN [tmpOut EXCEPT ![c] = run.output] ELSE tmpOut

\* copy(), whose result nobody looks at: if a file cannot be opened it leaves what
\* is there, from whatever submission.
CopyOver(there, source) == IF source = "none" THEN there ELSE source

\* The output of the run is copied from the box.  A failing script/run skips the
\* copy.
Copied(c, run) ==
    IF run.end = "failed" THEN tmpOut
    ELSE [tmpOut EXCEPT ![c] = CopyOver(@, run.output)]

\* safe_tkcmp is -1 when a file cannot be opened, and only 0 is a mismatch.
Matches(c, output) == c \in AnswersMissing \/ output \in {"none", "right"}

\* What the comparison makes of an output.  A check script that fails names the
\* case, a jury that cannot be built, fails or answers nonsense does not.
Checked(c, run, output) ==
    CASE checker = "compare" -> IF Matches(c, output) THEN "none" ELSE "wa"
      [] checker = "jury" /\ ~run.checks -> "error"
      [] checker = "script" /\ ~run.checks -> "error#"
      [] OTHER -> IF output = "right" THEN "none" ELSE "wa"

\* The largest time and memory of all the cases so far against the limits.
StatRead(run) == run.end \notin {"failed", "nostat"}
OverTime(run) == overTime \/ (StatRead(run) /\ run.slow)
OverMem(run) == overMem \/ (StatRead(run) /\ run.big)

\* raw_results of case c: the first that applies, in the code's order.
Verdict(c, run, output) ==
    IF run.end = "failed" THEN "error#"
    ELSE IF run.end \in {"nostat", "XX"} THEN "error"
    ELSE IF run.end = "TO" \/ OverTime(run) THEN "time"
    ELSE IF run.end \in {"SG", "exit"} THEN "runtime"
    ELSE IF run.end = "other" /\ OverMem(run) THEN "memory"
    ELSE Checked(c, run, output)

\* Off by one: the last case of a group is case_start + case_count - 1.
GroupsOfShort(c) == {i \in DOMAIN groups : c \in groups[i].first .. groups[i].last - 1}

\* The groups a failure of case c fails: those c belongs to, or all of them if
\* the failure does not name its case.
GroupsOf(c) == {i \in DOMAIN groups : c \in groups[i].first .. groups[i].last}
Fails(c, result) ==
    CASE result = "none" -> {}
      [] result = "error" -> DOMAIN groups
      [] OTHER -> GroupsOf(c)

\* Without the guard on first_failure.
LastFailure(result) == IF result = "none" THEN first ELSE result

\* first_failure after a case.
FirstFailure(result) == IF first = "none" THEN result ELSE first

Case ==
    /\ pc = "cases"
    /\ case \in Cases
    /\ \E run \in Runs :
          LET result == Verdict(case, run, Copied(case, run)[case])
          IN  /\ tmpOut' = Copied(case, run)
              /\ overTime' = OverTime(run)
              /\ overMem' = OverMem(run)
              /\ marks' = Append(marks, [before |-> Opening(case),
                                         mark |-> Mark[result],
                                         after |-> Closing(case)])
              /\ failed' = failed \cup Fails(case, result)
              /\ passed' = passed + (IF result = "none" THEN 1 ELSE 0)
              /\ first' = FirstFailure(result)
              /\ ran' = Append(ran, run)
    /\ case' = case + 1
    /\ UNCHANGED <<pc, box, groups, checker, outcome>>

-----------------------------------------------------------------------------
(* After the cases.                                                          *)

\* total_score before the score script.
Score ==
    CASE first = "none" -> MaxScore
      [] first # "none" /\ groups = <<>> -> (MaxScore \div NCase) * passed
      [] OTHER -> GroupPoints(groups, DOMAIN groups \ failed)

\* There is no score script, or it fails, which replaces the result and keeps
\* the score, or it replaces the score.  It is run in the box, so that it fails
\* where the box has just been cleaned.
ScriptRuns(b) == b # "none"
Finish ==
    /\ pc = "cases"
    /\ case = NCase + 1
    /\ pc' = "main"
    /\ box' \in Cleanup(box)
    /\ \/ outcome' = [by |-> "evaluator", result |-> first, score |-> Score]
       \/ outcome' = [by |-> "failed script", result |-> "error", score |-> Score]
       \/ /\ ScriptRuns(box')
          /\ \E s \in 0 .. MaxScore :
                outcome' = [by |-> "score script", result |-> first, score |-> s]
    /\ UNCHANGED <<groups, checker, case, overTime, overMem, marks, failed,
                   passed, first, tmpOut, ran>>

Next ==
    \/ Prepare \/ OutputOnly \/ RunJudge \/ CompileFails
    \/ Begin \/ Case \/ Finish
Spec == Init /\ [][Next]_vars

-----------------------------------------------------------------------------
(* Properties.                                                               *)

\* The mark of every case graded so far, without the brackets.
Letters == [c \in DOMAIN marks |-> marks[c].mark]
Evaluated == pc = "main" /\ outcome.by = "evaluator" /\ case = NCase + 1
CasesOf(i) == (groups[i].first .. groups[i].last) \cap DOMAIN Letters
AllAccepted(i) == \A c \in CasesOf(i) : Letters[c] = "A"

\* A submission with nothing but A has the task's score, uniform scoring pays every
\* A its share, and a subtask is only paid if all its marks are A, and then always,
\* unless the judge itself failed.
PaidByMarks ==
    IF \A c \in DOMAIN Letters : Letters[c] = "A"
    THEN outcome.score = MaxScore
    ELSE IF groups = <<>>
    THEN NCase * outcome.score =
            MaxScore * Cardinality({c \in DOMAIN Letters : Letters[c] = "A"})
    ELSE LET accepted == {i \in DOMAIN groups : AllAccepted(i)}
         IN  \E paid \in SUBSET accepted :
                /\ outcome.score = GroupPoints(groups, paid)
                /\ (\A c \in DOMAIN Letters : Letters[c] # "E") => paid = accepted

\* The score agrees with the marks shown beside it, also when the score script has
\* failed, as it does wherever the box was cleaned before it: it decides only in a
\* box that outlived its clean-up.
ScoreMatchesMarks ==
    pc = "main" =>
        /\ outcome.by \in {"evaluator", "failed script"} => PaidByMarks
        /\ outcome.by = "score script" => box # "none"

\* The result names the fate of the first case that was not accepted, whatever
\* happens in the cases after it.
ResultIsFirstFailure ==
    Evaluated =>
        LET bad == {c \in DOMAIN Letters : Letters[c] # "A"}
        IN  Mark[outcome.result] = IF bad = {} THEN "A" ELSE Letters[Min(bad)]

\* What a run printed is never accepted unless it is right, whatever an earlier
\* submission has left under /tmp; the comparison with a missing answer accepts
\* anything.  Where a run left nothing to copy its A rests on no output of its
\* own: on the right one an earlier run of the case had left, or, in the
\* comparison, on there being none at all.
AcceptedMarkIsRight ==
    \A c \in DOMAIN Letters : Letters[c] = "A" =>
        \/ ran[c].output = "right"
        \/ checker = "compare" /\ c \in AnswersMissing
        \/ ran[c].output = "none" /\ tmpOut[c] = "right"
        \/ ran[c].output = "none" /\ tmpOut[c] = "none" /\ checker = "compare"

\* A mark names what happened in this submission.  As the limits are compared
\* with the largest time and memory so far, a T, and an M, may come from an
\* earlier case: one slow case costs all the later ones.
\* The program runs in a box that was made for it.
MarksHaveCauses ==
    /\ \A c \in DOMAIN Letters :
          /\ Letters[c] = "T" => ran[c].end = "TO" \/ \E d \in 1 .. c : ran[d].slow
          /\ Letters[c] = "M" => ran[c].end = "other" /\ \E d \in 1 .. c : ran[d].big
          /\ Letters[c] = "R" => ran[c].end \in {"SG", "exit"}
    /\ pc = "cases" => box = "own"
=============================================================================
