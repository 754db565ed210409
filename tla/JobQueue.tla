------------------------------ MODULE JobQueue ------------------------------
(* The durable grading queue of tle: the tables submissions and grading_jobs *)
(* that tle_web and tle_grader share through one SQLite database.            *)
(*                                                                           *)
(* A BEGIN IMMEDIATE ... COMMIT block is one action: SQLite admits a single  *)
(* writer, and a block that fails at any statement, or whose process dies    *)
(* inside it, is rolled back.  Statements outside such a block commit one by *)
(* one, so requeue_submission is two actions.                                *)
(*                                                                           *)
(* The payload of a verdict (score, times, compiler output, ...) is          *)
(* represented by its provenance: the number of the claim that produced it.  *)
EXTENDS Integers

CONSTANTS
    MaxSubmission,  \* bound: submission ids are 1..MaxSubmission
    Graders,        \* slots for grader processes, forked children included
    Services,       \* the slots that a supervisor or an operator starts
    Pids,           \* process ids
    NoPid,
    NoToken,        \* SQL NULL in claim_token
    JuryMissing,    \* submissions to "special" tasks whose jury cannot be built
    MaxAttempts,    \* bound on grading_jobs.attempts
    MaxRejudges,    \* bound on accepted rejudge requests
    MaxFaults       \* bound on crashes and database errors

Subs == 1..MaxSubmission
Tokens == Pids \X Nat

ASSUME BoundsAssumption ==
    /\ MaxSubmission \in Nat
    /\ MaxAttempts \in Nat
    /\ MaxRejudges \in Nat
    /\ MaxFaults \in Nat

ASSUME ProcessAssumption ==
    /\ Services \subseteq Graders
    /\ NoPid \notin Pids
    /\ NoToken \notin Tokens

VARIABLES
    status,      \* grading_jobs.status; "absent" while there is no row
    claimedAt,   \* grading_jobs.claimed_at: NULL, younger or older than 10 min
    claimToken,  \* grading_jobs.claim_token
    attempts,    \* grading_jobs.attempts
    result,      \* verdict .. compiler_output: claim that wrote them, 0 = NULL
    subtasks,    \* subtask_results: claim that wrote it, 0 = NULL
    pc,          \* a grader process: "down", "idle" or "grading"
    pid,         \* getpid()
    seq,         \* the static counter of claim_submission
    job,         \* the struct submission_job of main()
    rejudge,     \* the submission requeue_submission has yet to clear, or 0
    rejudges,    \* number of accepted rejudges so far (bounded)
    faults,      \* number of crashes and database errors so far (bounded)
    decidedBy    \* history: the claim that last finished the job, 0 = none

rowVars  == <<status, claimedAt, claimToken, attempts>>
procVars == <<pc, pid, seq, job>>
vars == <<status, claimedAt, claimToken, attempts, result, subtasks, pc, pid,
          seq, job, rejudge, rejudges, faults, decidedBy>>

\* struct submission_job job = { 0 }.  attempt is a history field: the value
\* of the attempts column when the job was claimed.
EmptyJob == [sub |-> 0, token |-> NoToken, attempt |-> 0]
Jobs == [sub : 0..MaxSubmission, token : Tokens \cup {NoToken}, attempt : Nat]

TypeOK ==
    /\ status \in [Subs -> {"absent", "queued", "grading", "finished"}]
    /\ claimedAt \in [Subs -> {"null", "recent", "old"}]
    /\ claimToken \in [Subs -> Tokens \cup {NoToken}]
    /\ attempts \in [Subs -> Nat]
    /\ result \in [Subs -> Nat]
    /\ subtasks \in [Subs -> Nat]
    /\ decidedBy \in [Subs -> Nat]
    /\ pc \in [Graders -> {"down", "idle", "grading"}]
    /\ pid \in [Graders -> Pids \cup {NoPid}]
    /\ seq \in [Graders -> Nat]
    /\ job \in [Graders -> Jobs]
    /\ rejudge \in 0..MaxSubmission
    /\ rejudges \in Nat
    /\ faults \in Nat

Init ==
    /\ status = [s \in Subs |-> "absent"]
    /\ claimedAt = [s \in Subs |-> "null"]
    /\ claimToken = [s \in Subs |-> NoToken]
    /\ attempts = [s \in Subs |-> 0]
    /\ result = [s \in Subs |-> 0]
    /\ subtasks = [s \in Subs |-> 0]
    /\ decidedBy = [s \in Subs |-> 0]
    /\ pc = [g \in Graders |-> "down"]
    /\ pid = [g \in Graders |-> NoPid]
    /\ seq = [g \in Graders |-> 0]
    /\ job = [g \in Graders |-> EmptyJob]
    /\ rejudge = 0
    /\ rejudges = 0
    /\ faults = 0

-----------------------------------------------------------------------------
(* tle_web.  One polling thread serves every request, under db_lock.         *)

\* enqueue_submission: the submission and its job row in one transaction; the
\* AUTOINCREMENT id is the next one.  attempts and the verdict columns of the
\* new rows have their defaults, which is what Init gives every id.
Enqueue(s) ==
    /\ rejudge = 0
    /\ status[s] = "absent"
    /\ \A r \in Subs : r < s => status[r] # "absent"
    /\ status' = [status EXCEPT ![s] = "queued"]
    /\ UNCHANGED <<claimedAt, claimToken, attempts, result, subtasks, decidedBy,
                   procVars, rejudge, rejudges, faults>>

\* Mutant of Requeue: the first statement leaves claim_token as it is.
RequeueKeepsToken(s) ==
    /\ rejudge = 0
    /\ rejudges < MaxRejudges
    /\ status[s] \in {"finished", "grading"}
    /\ status' = [status EXCEPT ![s] = "queued"]
    /\ claimedAt' = [claimedAt EXCEPT ![s] = "null"]
    /\ rejudge' = s
    /\ rejudges' = rejudges + 1
    /\ UNCHANGED <<claimToken, attempts, result, subtasks, decidedBy, procVars,
                   faults>>

\* requeue_submission, first statement.  Where no row matches it returns 0 and
\* nothing happens.
Requeue(s) ==
    /\ rejudge = 0
    /\ rejudges < MaxRejudges
    /\ status[s] \in {"finished", "grading"}
    /\ status' = [status EXCEPT ![s] = "queued"]
    /\ claimedAt' = [claimedAt EXCEPT ![s] = "null"]
    /\ claimToken' = [claimToken EXCEPT ![s] = NoToken]
    /\ rejudge' = s
    /\ rejudges' = rejudges + 1
    /\ UNCHANGED <<attempts, result, subtasks, decidedBy, procVars, faults>>

\* requeue_submission, second statement: it clears every verdict column but
\* subtask_results.
ClearVerdict ==
    /\ rejudge # 0
    /\ result' = [result EXCEPT ![rejudge] = 0]
    /\ rejudge' = 0
    /\ UNCHANGED <<rowVars, subtasks, decidedBy, procVars, rejudges, faults>>

\* The second statement fails, or tle_web dies between the two.
ClearLost ==
    /\ rejudge # 0
    /\ faults < MaxFaults
    /\ rejudge' = 0
    /\ faults' = faults + 1
    /\ UNCHANGED <<rowVars, result, subtasks, decidedBy, procVars, rejudges>>

-----------------------------------------------------------------------------
(* tle_grader.                                                               *)

Alive(g) == pc[g] # "down"

\* A new process gets a number no live process has.  Nor does the kernel hand
\* out the number of a session leader while members of the session live: a
\* forked grader keeps its parent's number taken, and with it the tokens that
\* start with that number.
FreshPid(p) ==
    \A h \in Graders : Alive(h) => pid[h] # p /\ job[h].token \notin {p} \X Nat

\* main() up to the loop: a new process, whose static sequence is zero.
Start(g) ==
    /\ g \in Services
    /\ pc[g] = "down"
    /\ \E p \in Pids :
          /\ FreshPid(p)
          /\ pid' = [pid EXCEPT ![g] = p]
    /\ pc' = [pc EXCEPT ![g] = "idle"]
    /\ seq' = [seq EXCEPT ![g] = 0]
    /\ UNCHANGED <<rowVars, result, subtasks, decidedBy, job, rejudge, rejudges,
                   faults>>

\* Mutant of Stale: the reset looks for expired leases of queued jobs.
StaleInQueue(s) == status[s] = "queued" /\ claimedAt[s] = "old"

\* The WHERE of the reset in claim_submission.
Stale(s) == status[s] = "grading" /\ claimedAt[s] = "old"

\* What the SELECT of claim_submission sees after the reset.
Claimable(s) == status[s] = "queued" \/ Stale(s)

\* claim_submission that returns 1: leases that have run out are reset, then
\* the lowest queued id is claimed.  The nanoseconds in the token are left out
\* (they only make a repeated token less likely) and so are the sequence
\* numbers of polls that claim nothing: those tokens are never stored.
Claim(g) ==
    /\ pc[g] = "idle"
    /\ \E s \in Subs :
          /\ Claimable(s)
          /\ \A r \in Subs : Claimable(r) => s <= r
          /\ attempts[s] < MaxAttempts
          /\ LET token == <<pid[g], seq[g]>>
             IN /\ status' = [r \in Subs |->
                      IF r = s THEN "grading" ELSE
                      IF Stale(r) THEN "queued" ELSE status[r]]
                /\ claimedAt' = [r \in Subs |->
                      IF r = s THEN "recent" ELSE
                      IF Stale(r) THEN "null" ELSE claimedAt[r]]
                /\ claimToken' = [r \in Subs |->
                      IF r = s THEN token ELSE
                      IF Stale(r) THEN NoToken ELSE claimToken[r]]
                /\ attempts' = [attempts EXCEPT ![s] = @ + 1]
                /\ job' = [job EXCEPT ![g] =
                      [sub |-> s, token |-> token, attempt |-> attempts[s] + 1]]
    /\ seq' = [seq EXCEPT ![g] = @ + 1]
    /\ pc' = [pc EXCEPT ![g] = "grading"]
    /\ UNCHANGED <<result, subtasks, decidedBy, pid, rejudge, rejudges, faults>>

\* grade() forks for the jury before it has looked whether there is one; when
\* the jury is missing or does not compile, parent and child both go on to the
\* next case, finish grade() and enter the loop of main().
ForkJury(g, h) ==
    /\ pc[g] = "grading"
    /\ job[g].sub \in JuryMissing
    /\ h \notin Services
    /\ pc[h] = "down"
    /\ \E p \in Pids :
          /\ FreshPid(p)
          /\ pid' = [pid EXCEPT ![h] = p]
    /\ pc' = [pc EXCEPT ![h] = "grading"]
    /\ seq' = [seq EXCEPT ![h] = seq[g]]
    /\ job' = [job EXCEPT ![h] = job[g]]
    /\ UNCHANGED <<rowVars, result, subtasks, decidedBy, rejudge, rejudges, faults>>

\* Mutant of Owns: the UPDATE does not compare claim_token.
OwnsAnyClaim(g) == status[job[g].sub] = "grading"

\* The test of complete_submission's first UPDATE.
Owns(g) ==
    /\ status[job[g].sub] = "grading"
    /\ claimToken[job[g].sub] = job[g].token

EndJob(g) ==
    /\ job' = [job EXCEPT ![g] = EmptyJob]
    /\ pc' = [pc EXCEPT ![g] = "idle"]

\* Mutant of SubtaskStrings: an empty string leaves the column as it was.
KeptSubtaskStrings(s, n) == {subtasks[s], n}

\* What claim n of s may store in subtask_results: its own string, or NULL when
\* grade() returned before it had one.
SubtaskStrings(s, n) == {0, n}

\* grade() and complete_submission that commits.
Complete(g) ==
    /\ pc[g] = "grading"
    /\ Owns(g)
    /\ LET s == job[g].sub
           n == job[g].attempt
       IN /\ status' = [status EXCEPT ![s] = "finished"]
          /\ claimedAt' = [claimedAt EXCEPT ![s] = "null"]
          /\ claimToken' = [claimToken EXCEPT ![s] = NoToken]
          /\ result' = [result EXCEPT ![s] = n]
          /\ \E string \in SubtaskStrings(s, n) : subtasks' = [subtasks EXCEPT ![s] = string]
          /\ decidedBy' = [decidedBy EXCEPT ![s] = n]
    /\ EndJob(g)
    /\ UNCHANGED <<attempts, pid, seq, rejudge, rejudges, faults>>

\* complete_submission finds that the claim is gone and rolls back.
CompleteRejected(g) ==
    /\ pc[g] = "grading"
    /\ ~Owns(g)
    /\ EndJob(g)
    /\ UNCHANGED <<rowVars, result, subtasks, decidedBy, pid, seq, rejudge,
                   rejudges, faults>>

\* complete_submission meets a database error; main() warns and goes on.
CompleteFails(g) ==
    /\ pc[g] = "grading"
    /\ faults < MaxFaults
    /\ EndJob(g)
    /\ faults' = faults + 1
    /\ UNCHANGED <<rowVars, result, subtasks, decidedBy, pid, seq, rejudge,
                   rejudges>>

\* The process ends: SIGTERM (cleanup), die(), expect() or a crash.  A job it
\* was grading stays claimed.
Crash(g) ==
    /\ Alive(g)
    /\ faults < MaxFaults
    /\ pc' = [pc EXCEPT ![g] = "down"]
    /\ pid' = [pid EXCEPT ![g] = NoPid]
    /\ seq' = [seq EXCEPT ![g] = 0]
    /\ job' = [job EXCEPT ![g] = EmptyJob]
    /\ faults' = faults + 1
    /\ UNCHANGED <<rowVars, result, subtasks, decidedBy, rejudge, rejudges>>

\* Ten minutes have passed on the wall clock since the claim.
LeaseExpires(s) ==
    /\ status[s] = "grading"
    /\ claimedAt[s] = "recent"
    /\ claimedAt' = [claimedAt EXCEPT ![s] = "old"]
    /\ UNCHANGED <<status, claimToken, attempts, result, subtasks, decidedBy,
                   procVars, rejudge, rejudges, faults>>

-----------------------------------------------------------------------------
Web ==
    \/ \E s \in Subs : Enqueue(s) \/ Requeue(s)
    \/ ClearVerdict
    \/ ClearLost

Grader(g) ==
    \/ Start(g)
    \/ Claim(g)
    \/ \E h \in Graders : ForkJury(g, h)
    \/ Complete(g)
    \/ CompleteRejected(g)
    \/ CompleteFails(g)
    \/ Crash(g)

Next ==
    \/ Web
    \/ \E g \in Graders : Grader(g)
    \/ \E s \in Subs : LeaseExpires(s)

Spec == Init /\ [][Next]_vars

(* The supervisor restarts the grader, its loop goes on polling, grade()     *)
(* ends, the clock advances and the web thread returns from the request it   *)
(* is serving.  Faults are bounded, so none of this can fail for ever.       *)
Fairness ==
    /\ \A g \in Services : WF_vars(Start(g))
    /\ \A g \in Graders :
          /\ WF_vars(Claim(g))
          /\ WF_vars(Complete(g) \/ CompleteRejected(g))
    /\ \A s \in Subs : WF_vars(LeaseExpires(s))
    /\ WF_vars(ClearVerdict)

FairSpec == Spec /\ Fairness

-----------------------------------------------------------------------------
(* Safety.                                                                   *)

\* The job row is consistent: exactly a job being graded has a token and a
\* claim time.  claim_submission's reset and requeue_submission rely on it.
RowConsistent ==
    \A s \in Subs :
        /\ status[s] = "grading" <=> claimToken[s] # NoToken
        /\ status[s] = "grading" <=> claimedAt[s] # "null"

\* Fencing: a process that complete_submission would let through holds the
\* latest claim of its submission, however often the submission was requeued,
\* stolen after its lease, or claimed by a process that reuses a number.
OwnerIsLatest ==
    \A g \in Graders :
        pc[g] = "grading" /\ Owns(g) => job[g].attempt = attempts[job[g].sub]

\* A finished job was finished by its latest claim, and its verdict columns
\* either come from that claim or are NULL.
FinishedByLatest ==
    \A s \in Subs : status[s] = "finished" =>
        /\ decidedBy[s] = attempts[s]
        /\ result[s] \in {0, attempts[s]}

\* A verdict is never shown next to the subtask string of another run of the
\* grader, although requeue_submission leaves the old string in place.
SubtasksMatchVerdict ==
    \A s \in Subs : result[s] # 0 => subtasks[s] \in {0, result[s]}

\* A claim decides at most once and claims decide in the order they were made:
\* neither a forked twin with the same token nor a slow grader whose lease was
\* stolen ever writes after a verdict of its own or of a later claim.
DecidedInOrder ==
    [][\A s \in Subs : result'[s] \notin {result[s], 0} =>
          result'[s] > decidedBy[s]]_vars

\* README.md: the grader "writes structured verdict fields" for a job it
\* finishes.  So a finished job has a verdict.
FinishedHasVerdict ==
    \A s \in Subs : status[s] = "finished" => result[s] # 0

-----------------------------------------------------------------------------
(* The queue implements JudgeLedger.  The right to decide a submission is    *)
(* the claim recorded in its row; its number is the attempts column.         *)

LedgerPhase ==
    [s \in Subs |-> CASE status[s] = "absent"   -> "absent"
                      [] status[s] = "finished" -> "decided"
                      [] OTHER                  -> "open"]
LedgerRight == [s \in Subs |-> IF status[s] = "grading" THEN attempts[s] ELSE 0]

Ledger == INSTANCE JudgeLedger WITH
    Entries <- Subs, phase <- LedgerPhase, right <- LedgerRight,
    granted <- attempts, decidedBy <- decidedBy

\* Every step of every process is a step of the ledger or leaves it alone: at
\* no point can two claims of one submission both finish it, and none made
\* before a rejudge finishes it afterwards.
ImplementsLedger == Ledger!Spec

-----------------------------------------------------------------------------
(* Liveness, under FairSpec.                                                 *)

\* No submission is lost: a queued submission, or one whose grader died while
\* it was grading, is eventually finished.
EverySubmissionFinishes ==
    \A s \in Subs : status[s] \in {"queued", "grading"} ~> status[s] = "finished"
=============================================================================
