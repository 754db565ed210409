------------------------------ MODULE Listing ------------------------------
(* The queries of tle_web over submissions, tasks and bookmarks, and what    *)
(* changes these tables, in short: JobQueue has the whole of the queue,      *)
(* TaskSync that of the tasks.  Site has the pages that show the answers.    *)
EXTENDS Integers, Sequences, FiniteSets

CONSTANTS
    Users, Nobody,   \* who submits; Nobody is the NULL of an anonymous row
    Tasks, NoTask,
    NoVerdict,       \* SQL NULL in verdict and in result
    Old,             \* the submissions of a version that wrote only result
    MaxSubmissions,  \* bound on the submissions
    MaxToggles,      \* bound on the clicks on stars and on "hide"
    MaxRejudges      \* bound on the rejudge requests

Verdicts == {"accepted", "wrong_answer"}   \* two of the seven

ASSUME ListingAssumption ==
    /\ Nobody \notin Users /\ NoTask \notin Tasks /\ NoVerdict \notin Verdicts
    /\ {MaxSubmissions, MaxToggles, MaxRejudges} \subseteq Nat
    /\ Old \in Seq([user : Users, task : Tasks, public : BOOLEAN, result : Verdicts])
    /\ Len(Old) <= MaxSubmissions

VARIABLES
    subs,      \* submissions and grading_jobs, by submission_id; a job is open
               \* while it is queued or a grader has it
    hidden,    \* the tasks whose is_hidden is 1
    stars,     \* the rows of bookmarks
    toggles,   \* how many clicks there have been
    rejudge,   \* the submission whose verdict requeue_submission has yet to clear
    rejudged   \* history: the submissions sent to be judged again

tables == <<subs, hidden, stars, toggles, rejudge, rejudged>>

Ids == DOMAIN subs

TablesTypeOK ==
    /\ \A s \in Ids :
          /\ subs[s].user \in Users \cup {Nobody} /\ subs[s].task \in Tasks
          /\ {subs[s].verdict, subs[s].result} \subseteq Verdicts \cup {NoVerdict}
          /\ subs[s].job \in {"absent", "open", "finished"}
          /\ subs[s].result # NoVerdict => subs[s].verdict = NoVerdict
    /\ hidden \subseteq Tasks /\ stars \subseteq Users \X Tasks
    /\ toggles \in 0 .. MaxToggles
    /\ rejudge \in 0 .. Len(subs) /\ rejudged \subseteq Ids

Row(user, task, public, result, job) ==
    [user |-> user, task |-> task, public |-> public, result |-> result,
     verdict |-> NoVerdict, job |-> job]

TablesInit ==
    /\ subs = [i \in DOMAIN Old |->
                  Row(Old[i].user, Old[i].task, Old[i].public, Old[i].result, "absent")]
    /\ hidden = {} /\ stars = {} /\ toggles = 0
    /\ rejudge = 0 /\ rejudged = {}

-----------------------------------------------------------------------------
(* What changes the tables.  tle_web serves nothing else before the second   *)
(* statement of a rejudge; the graders do not wait for it.                   *)

Serving == rejudge = 0

\* A submission is accepted for a hidden task too.
Enqueue(user, task, public) ==
    /\ Serving
    /\ Len(subs) < MaxSubmissions
    /\ subs' = Append(subs, Row(user, task, public, NoVerdict, "open"))
    /\ UNCHANGED <<hidden, stars, toggles, rejudge, rejudged>>

\* A grader claims the job and finishes it.
Complete(s) ==
    /\ subs[s].job = "open"
    /\ \E verdict \in Verdicts :
          subs' = [subs EXCEPT ![s].job = "finished", ![s].verdict = verdict]
    /\ UNCHANGED <<hidden, stars, toggles, rejudge, rejudged>>

\* Of a submission that has no job, too.
RequeueAny(s) ==
    /\ Serving
    /\ Cardinality(rejudged) < MaxRejudges /\ s \notin rejudged
    /\ subs' = [subs EXCEPT ![s].job = "open"]
    /\ rejudge' = s
    /\ rejudged' = rejudged \cup {s}
    /\ UNCHANGED <<hidden, stars, toggles>>

\* Of a job that a grader has, or that is finished.
Requeue(s) ==
    /\ Serving
    /\ Cardinality(rejudged) < MaxRejudges /\ s \notin rejudged
    /\ subs[s].job \in {"open", "finished"}
    /\ subs' = [subs EXCEPT ![s].job = "open"]
    /\ rejudge' = s
    /\ rejudged' = rejudged \cup {s}
    /\ UNCHANGED <<hidden, stars, toggles>>

\* The second statement, which may fail or come never.
ClearVerdict ==
    /\ rejudge # 0
    /\ \/ subs' = [subs EXCEPT ![rejudge].verdict = NoVerdict]
       \/ UNCHANGED subs
    /\ rejudge' = 0
    /\ UNCHANGED <<hidden, stars, toggles, rejudged>>

\* task_toggle_visibility and toggle_bookmark turn round what they find.
Flip(set, x) == IF x \in set THEN set \ {x} ELSE set \cup {x}
ToggleVisibility(task) ==
    /\ Serving /\ toggles < MaxToggles
    /\ hidden' = Flip(hidden, task)
    /\ toggles' = toggles + 1
    /\ UNCHANGED <<subs, stars, rejudge, rejudged>>
ToggleBookmark(user, task) ==
    /\ Serving /\ toggles < MaxToggles
    /\ stars' = Flip(stars, <<user, task>>)
    /\ toggles' = toggles + 1
    /\ UNCHANGED <<subs, hidden, rejudge, rejudged>>

-----------------------------------------------------------------------------
(* The list of submissions.                                                  *)

\* A filter that is not given lets everything through.  That of the verdict
\* looks at the verdict alone, so none is found as "queued" or "grading".
Match(s, user, task, verdict) ==
    /\ user # Nobody => subs[s].user = user
    /\ task # NoTask => subs[s].task = task
    /\ verdict # NoVerdict => subs[s].verdict = verdict

\* The list begins below the id it is given.
Below(from, s) == s < from

\* fetch_submissions: the newest of those that match.
Newest(ids, count) == {s \in ids : Cardinality({r \in ids : r >= s}) <= count}
Fetch(from, count, user, task, verdict) ==
    Newest({s \in Ids : Below(from, s) /\ Match(s, user, task, verdict)}, count)

-----------------------------------------------------------------------------
(* The lists of tasks, the leaderboard and the counts.                       *)

Of(user, task) == {s \in Ids : subs[s].user = user /\ subs[s].task = task}
Tried(user, task) == Of(user, task) # {}
Solved(user, task) ==
    \E s \in Of(user, task) : "accepted" \in {subs[s].verdict, subs[s].result}

\* fetch_tasks_filtered.  For nobody in particular the id is -1, which no row
\* has: an anonymous row has NULL.
TaskList(user, showSolved, state) ==
    LET known == user # Nobody
    IN  {t \in Tasks \ hidden :
            /\ ~showSolved => ~(known /\ Solved(user, t))
            /\ state = "solved" => known /\ Solved(user, t)
            /\ state = "tried" => known /\ Tried(user, t) /\ ~Solved(user, t)
            /\ state = "bookmarked" => <<user, t>> \in stars}

\* The marks before a task.
Ticked(user) == {t \in TaskList(user, TRUE, "") : user # Nobody /\ Solved(user, t)}

\* Every accepted submission counts.
EachAccepted(user) ==
    {<<subs[s].task, s>> : s \in {s \in Ids : subs[s].user = user /\ subs[s].verdict = "accepted"}}

\* The task of the newest submission counts if that is accepted.
NewestAccepted(user) ==
    {t \in Tasks : \E s \in Of(user, t) :
        /\ subs[s].verdict = "accepted"
        /\ \A r \in Of(user, t) : r <= s}

\* fetch_leaderboard: a task counts once, by the verdict alone, hidden or not.
Accepted(user) == {t \in Tasks : \E s \in Of(user, t) : subs[s].verdict = "accepted"}
Leaderboard == [u \in Users |-> Cardinality(Accepted(u))]

\* fetch_task_by_pk: the numbers on the page of a task.
SubmissionCount(task) == Cardinality({s \in Ids : subs[s].task = task})
AcceptedCount(task) ==
    Cardinality({s \in Ids : subs[s].task = task /\ subs[s].verdict = "accepted"})

-----------------------------------------------------------------------------
TablesNext ==
    \/ \E u \in Users \cup {Nobody}, t \in Tasks, p \in BOOLEAN : Enqueue(u, t, p)
    \/ \E s \in Ids : Complete(s) \/ Requeue(s)
    \/ ClearVerdict
    \/ \E t \in Tasks : ToggleVisibility(t)
    \/ \E u \in Users, t \in Tasks : ToggleBookmark(u, t)

-----------------------------------------------------------------------------
(* Properties.                                                               *)

\* All the lines that the list of submissions has for a task and a verdict.
Listed(task, verdict) == Fetch(Len(subs) + 1, Len(subs), Nobody, task, verdict)

\* The pages agree.  A user's number on the leaderboard is that of the ticks in
\* the list of tasks, but for hidden tasks, which count and are not listed, and
\* for submissions only an older version accepted, which are ticked and do not
\* count.  The three states part the list.  Anonymous readers see no ticks.
\* The page of a task counts the lines that the list of submissions has for it, and
\* an accepted one for everybody who is credited with the task.
NumbersAgree ==
    /\ \A u \in Users :
          LET unlisted == Accepted(u) \cap hidden
              ancient == {t \in Ticked(u) : \A s \in Of(u, t) : subs[s].verdict # "accepted"}
          IN  /\ Leaderboard[u] =
                    Cardinality(Ticked(u)) + Cardinality(unlisted) - Cardinality(ancient)
              /\ \A t \in ancient : \E s \in Of(u, t) : s <= Len(Old)
              /\ TaskList(u, TRUE, "solved") = Ticked(u)
              /\ TaskList(u, FALSE, "") = TaskList(u, TRUE, "") \ Ticked(u)
              /\ TaskList(u, TRUE, "tried") = TaskList(u, FALSE, "tried")
    /\ Ticked(Nobody) = {}
    /\ \A t \in Tasks :
          /\ Cardinality(Listed(t, NoVerdict)) = SubmissionCount(t)
          /\ Cardinality(Listed(t, "accepted")) = AcceptedCount(t)
          /\ Cardinality({u \in Users : t \in Accepted(u)}) <= AcceptedCount(t)

\* A task is lost on the leaderboard only by a submission that was sent to be
\* judged again: not by another submission, and not when the task is hidden.
LostOnlyByRejudge ==
    [][\A u \in Users : \A t \in Accepted(u) \ Accepted(u)' :
          Of(u, t) \cap rejudged # {}]_tables
=============================================================================
