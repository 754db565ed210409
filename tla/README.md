# A formal model of tle

tle is a programming-contest judge in C: a web server (`tle_web`) that takes
submissions, a grader (`tle_grader`) that compiles and runs them in `isolate`,
and a helper (`tle_communicate`) for interactive tasks. The two servers share
one SQLite database and nothing else. This directory holds TLA+ models of the
parts of tle in which order, failure or a long sequence of calls matters, the
configurations with which TLC checks them, and theorems about all of
them that TLAPS proves for every value of their constants.

`PROJECT.json` has the list of runs, the lines of source each definition stands
for, the hazards that the properties are aimed at, and for each checked property
a mutant of the code that breaks it.

## 1. The system

| Component | Source | State | Operations |
| --- | --- | --- | --- |
| Grading queue | `task.c` 285-312, 526-635; `grader.c` `main`; `web.c` 494-510 | tables `submissions`, `grading_jobs`; each grader's `struct submission_job` and token sequence | enqueue, rejudge, claim, complete, ten-minute lease |
| Built-in evaluator | `grader.c` `grade` | the locals of `grade()`, `/tmp/N.out`, `/tmp/N.stat` | compile, run and compare case by case; marks, subtasks, score, result |
| Task scripts and children | `grader.c` 50-378, 861-890, 992-1064 | one child process, its elapsed polls, its result file, the jury's pipe | fork, poll, kill, reap, read the result |
| Communication helper | `communicate.c` | two children, two pipes, box 0 of isolate | set up, fork two, poll, give up, clean up |
| Task synchronisation | `task.c` `read_tasks` ff., `task_toggle_visibility` | tables `tasks`, `subtask_groups`, a temporary table of seen keys | scan directories, upsert, replace groups, hide the rest |
| Schema migration | `db.c` `db_init` | `schema_version` and the columns of all tables | create, look for a column, add it, drop it, set the version |
| Form parsing | `web.c` `post_iterator` | the fields of `struct connection_info` | a piece of a field arrives |
| Accounts and sessions | `user.c` | tables `users`, `sessions` | register, log in (and upgrade an old hash), log out, look up a session, its CSRF token, a user |
| Request handler | `web.c` `ahc_echo` | connections of libmicrohttpd, one polling thread | authenticate, take a piece of a body, answer a GET or POST page |
| Anonymous rate limiter | `web.c` 121-174 | `anonymous_rates[256]` under a mutex | may this address submit now? |
| Listings, bookmarks, leaderboard | `task.c` 199-521, 637-722 | tables `submissions`, `tasks`, `bookmarks` | paged and filtered queries, counts, toggles of stars and visibility |
| Views and HTML | `views.c`, `html.c` | five flags while a statement is converted | the links of each page; Markdown to HTML |
| Utilities, vendored code | `utils.c`, `sds.c`, `cJSON.c`, `md5.c` | none of their own | logging, reading files, strings, JSON |
| Deployment | `run.sh`, `backup.sh`, `healthcheck.sh`, `deploy/` | - | supervision (`Restart=on-failure`), backups |

How they interact:

* `tle_web` and `tle_grader` meet only in the database. A `BEGIN IMMEDIATE` ...
  `COMMIT` block is atomic; every statement outside one commits by itself. Much
  of tle's risk sits in which statements are inside such a block:
  `claim_submission`, `complete_submission` and `enqueue_submission` are,
  `requeue_submission`, `db_init` and `read_tasks` are not.
* The grader is a loop: claim, grade, complete. `grade()` forks children and
  waits for them, scripts with a limit of 300 polls of 0.1 s, everything else
  without one.
* A judge script may call `tle_communicate`, which has two children of its own.
* `tle_web` serves all requests from one polling thread (with `db_lock`), so two
  calls of its handler do not interleave. But the body of a request arrives in
  pieces, each a call of its own that looks up the session or the password anew,
  and other requests are served between them. `read_tasks` runs at its start,
  while the grader reads the same rows.
* A page is made from one read of the database; what its links lead to is read
  when they are followed, after submissions came in, were judged or sent to be
  judged again, and tasks were hidden.

What is hard: the two servers die and restart at any point; a lease may expire
while its grader is still working; a rejudge may overtake a verdict; both
processes migrate one schema at the same time; children hang, fail, or end
between two polls; users log in and out, and tasks are hidden, between the pages
and the forms of others; and state is carried from one testcase, submission, form
piece or line of a statement to the next. What makes each part correct is the
list of properties in section 3.

## 2. Modules

| Module | Models | Kind |
| --- | --- | --- |
| `JudgeLedger` | what the queue promises | abstract specification |
| `JobQueue`, `MCJobQueue` | the queue, its callers and processes | detailed specification, implements `JudgeLedger` |
| `JobQueueProofs` | - | theorems about the queue and the ledger |
| `Grading`, `MCGrading` | the evaluator | specification |
| `Stages` | the grader's children | specification |
| `GradingProofs` | - | theorems about the evaluator and its children |
| `Communicate`, `CommunicateProofs` | `tle_communicate` | specification, theorems |
| `TaskSync`, `MCTaskSync`, `TaskSyncProofs` | `read_tasks` | specification, theorems |
| `SchemaInit`, `MCSchemaInit`, `SchemaInitProofs` | `db_init` | specification, theorems |
| `PostForm` | `post_iterator`: a form in pieces | part of `Posts` |
| `Accounts` | `user.c` and its tables | part of `Posts` |
| `Posts`, `MCPosts` | `ahc_echo` with the forms of all pages | specification, composes `PostForm` and `Accounts` |
| `PostsProofs` | - | theorems about forms, accounts and requests |
| `Listing` | the queries of `task.c` and what changes their tables | part of `Site` |
| `Site`, `MCSite` | the pages and the links between them | specification, composes `Listing` with a reader |
| `Markdown` | `html_markdown` | specification |
| `SiteProofs` | - | theorems about the pages and the converter |
| `RateLimit`, `RateLimitProofs` | the limiter | specification, theorems |

The `MC` modules only hold values of constants: layouts, manifests, forms,
databases, filters and symmetry sets. Modules also hold mutants of their own
definitions, which no specification uses: each is a plausible slip in the code,
breaks a property, and stands next to the definition it would replace. Where two
modules are extended by one, as parts of a model or by the theorems about both,
the names of `Init`, `TypeOK` and the like have a prefix in one of them.

### JobQueue

A row of `grading_jobs` is `status`, `claimedAt`, `claimToken` and `attempts`;
the verdict columns of `submissions` are represented by the number of the claim
that wrote them (`result`, `subtasks`, 0 for NULL), so a property can tell whose
verdict is shown. A grader process has `pc`, `pid`, its static `seq` and the
`job` it holds. `decidedBy` and the `attempt` field of a job are history.

`Enqueue`, `Claim` and `Complete`/`CompleteRejected` are the transactions of
`enqueue_submission`, `claim_submission` and `complete_submission`. A block that
fails (the COMMIT included) is rolled back: that is `CompleteFails`, and a claim
that fails is no step. `requeue_submission` is two actions, `Requeue` and
`ClearVerdict`, for its statements commit separately; `ClearLost` is a failure
or a death between them. `ForkJury` is the fork at `grader.c:999`: when the jury
cannot be built, parent and child both leave through `end_case` and both go on
as graders with one token. `LeaseExpires` is the wall clock.

`FreshPid` is the kernel (external): no two live processes have one number, and
a number that still leads a process session with living members is not reused.
The nanoseconds in the token are left out: they only make a repeated token less
likely, and the fencing is shown without them. The `code IS NOT NULL` in the
claim's SELECT always holds for rows that `enqueue_submission` made, and is left
out.

`JudgeLedger` knows entries, numbered rights, and decisions: the latest right
may decide, once; rights may be withdrawn; nothing else decides. The refinement
maps a job's claim to the right and `attempts` to its number.

### Grading

`Prepare` takes a submission from `main` to a box of its own and copies the
task's files; from there `OutputOnly`, `RunJudge`, `CompileFails` and `Begin` are
the ways on. Some early returns leave the box behind, so `box` says whom it was
made for. Then there is one action per testcase. What the run, isolate, the
scripts and the checker do in it is a record chosen from `Runs`; what the code
makes of it - the order of the tests, the largest time and memory so far, the
mark, the brackets, the groups failed, the first failure - is translated.
`tmpOut` survives from one submission to the next, as `/tmp/N.out` does, and
keeps what it holds where the copy cannot be made, because the program has
removed its output, a script has left none or `/tmp` cannot be written
(`CopyOver`). The score script runs in the box, which has just been cleaned: it
fails unless the clean-up has (`ScriptRuns`). Since
files and rows of the task may change between submissions, `Begin` chooses
layout and checker anew, and the layout twice, as `has_subtask_groups` and the
loop each read the rows. Scores are doubles in the code; the model takes
`MaxScore` divisible by `NCase`.

### Stages

One child at a time: `Fork`, what the child does (`Answer`, `PrintOut`, `End`,
or nothing, if it `hangs`), and what the grader does (`Poll`, `Kill`, `Reap`). A
result file is "own" if the present child wrote it and "old" if it was left by
an earlier one. Judge and compile scripts are the first of a submission, in a
new box (`FirstOfBox`); the others remove the file they will look for. A child
may end between the last poll and the `kill`, whose answer nobody looks at
(`Kill`). Processes that a script starts itself and leaves behind are not
modelled, and the `waitpid` error branch of the poll loop is left out, as the
child has not been reaped before. Scripts and
`isolate` may hang: isolate is given a limit of CPU time but none of wall-clock
time (`grader.c:869-882`), and the grader waits for it without a limit, so a
contestant's program that sleeps keeps the grader for as long as it likes. That
`g++` and the jury end by themselves is an assumption, not a result.

### Communicate

`main()` with one action per system call that matters. The two `waitpid` calls
of an iteration are two steps, because a child may end between them. waitpid is
external and modelled by its contract: the pid once, then an error. Every path
behind the set-up leads through `Teardown`, which may fail without a word: its
fork may, and the status of `isolate --cleanup` is not looked at.

### TaskSync

One action per statement of `read_tasks`, for `tle_web` and for `tle_web
--check-tasks`, which runs the same code on the same database. A manifest is a
kind (good, bad after its groups were begun, skipped, fatal), a key, a tag that
stands for all it says, and a number of subtasks. `Edit` is the task author,
`Toggle` the administrator. `DeleteFails` is the DELETE whose result the code
ignores; every other failing statement ends the process, which is `Crash`.

### SchemaInit

`Program` is the list of db_init's statements, one transaction each, and a
process has a program counter in it. A failing `ALTER TABLE` is `Die` (through
`exec_sql` and `die`). `Crash` is a kill or a statement that fails for a reason
of its own, such as a busy timeout; `ReadFails` is a version that
cannot be read, which the code takes for 0, and `LookFails` a look for a column
that fails, which `drop_column_if_exists` takes for a missing column (`missed` is
history). `Restart` is the supervisor. The pragmas at
the beginning, which change no schema, are left out. Rows of `schema_version`
are a set: only their maximum is read.

### PostForm

`Piece` hands the next piece of the form, of any length, to `post_iterator`;
`Take` and `Refuse` are its branches: texts that are placed at an offset, code
that grows, numbers, flags, of which the last two are read from each piece alone
(`LastPieces`). libmicrohttpd (external) cuts values anywhere, calls
the iterator once with no data for an empty value, and stops calling after
`MHD_NO`; `ahc_echo` ignores the result of `MHD_post_process`, so the page is
handled after a refusal too. Characters are digits, which is what matters of a
number.

### Accounts

Every function of `user.c` runs under `db_lock` and is one step: an operator
whose last argument is what it returns. `Fault` (external) is a call of SQLite,
`crypt_r` or `/dev/urandom` that fails, and is bounded. The `password` in a row
is history, kept beside the hash to say whom the row should let in. Tokens are
256 random bits and are taken to be fresh.

### Posts

A request is `Post` (headers and a form), a `TakePiece` for each piece,
`LastCall`, which authenticates, one of the five `Handle` actions, which are the
rest of that call, and `Close`. A request may carry a cookie, basic auth, both or
neither; a script is a browser without a cookie. The cookie is looked at first,
and a password that is too long fails the request in either case (`TooLong`).
Each call authenticates, one with a piece in vain, though it may replace an old
hash. Nothing comes between `LastCall` and
its `Handle`, since there is one polling thread; between calls other requests
are served: `Open` shows a page with the CSRF token of the session, `Logout`
ends it. An answer may be lost, and a cookie with it. `left` is history: the
sessions that a browser has asked to end, or has logged in over. One form is under way at a
time: the state of the iterator is per connection, so that another form matters
only by what it leaves in the tables, and forms that came before leave the same.
Three things go on in other modules: a submission from the row that
`enqueue_submission` makes (`JobQueue`), the answer of the limiter
(`RateLimit`), a bookmark or the visibility of a task (`Listing`, `TaskSync`).

### Listing and Site

`Listing` has the tables in short: a job is absent, open or finished, and a
rejudge is two statements as in `JobQueue`. Submissions of a version that wrote
only `result` are there from the start. The queries are operators: pages of
submissions under filters, the lists of tasks, the ticks, the leaderboard, the
counts of a task.

`Site` adds somebody who reads. `reader` holds the links of the page in front of
him and, on the list of submissions, where the page before begins. Each GET page
of `ahc_echo` is an action, taken by a link of the page, however old, or by
typing an address. That a task page is not found if the task's description has no
name or is a path (`web.c:812-817`) is left out, since `read_tasks` makes no such
row (`task.c:184`). `unseen` is history: what matched on the first page and has
not been shown.

### Markdown

`html_markdown` keeps five flags from line to line. `open` and `within` follow
the tags it writes: which elements are open, and inside which others. A line is
one of the eleven kinds that the code's tests tell apart, with or without a
carriage return, and the code looks one line ahead; so texts of any length have
a finite model. Inline markup, which the code closes on its line, is left out.

### RateLimit

One action per call of `anonymous_submission_allowed`, which holds a mutex; a
call that returns 0 changes nothing. The clock does not step backwards.

## 3. Runs

Deadlock is checked where the system never stops: in `task_sync` and `grading`.
In the others a behaviour may end: every process is ready, the helper has
returned, the statement is converted, a jury is blocked for ever, or the bounds
on rejudges, faults, toggles or the clock are used up.

| Run | Configuration | Shows |
| --- | --- | --- |
| `queue` | 2 submissions, 2 graders, 1 slot for a forked one, 3 pids, 3 claims a submission, 1 rejudge, 1 fault | `RowConsistent`, `OwnerIsLatest`, `FinishedByLatest`, `SubtasksMatchVerdict`, `DecidedInOrder`, and that the queue implements `JudgeLedger` |
| `queue_live` | 2 submissions, 1 grader, 2 rejudges, 2 faults | `EverySubmissionFinishes` under fairness |
| `queue_rejudge` (violation) | 1 submission, 1 grader, 1 rejudge | `FinishedHasVerdict` fails |
| `grading` | 3 cases, 8 kinds of run, 5 layouts, 3 checkers, case 2 without an answer file | score, result and marks agree, and come from this submission: `ScoreMatchesMarks`, `ResultIsFirstFailure`, `AcceptedMarkIsRight`, `MarksHaveCauses` |
| `stages` | 5 scripts, 3 blocking children, 3 polls, pipe of 2, jury printing up to 3 | `AnswerIsOwn`, `AlwaysReturns` but for a jury blocked on its pipe and a program asleep |
| `communicate` | all of `communicate.c` (no bounds) | `NothingLeftBehind`, `StatusIsHonest`, `AlwaysReturns` |
| `task_sync` | 2 directories, 2 tasks, 6 manifests, 2 processes, 1 edit, 1 crash | `GroupsArePrefix`, `SyncedWhenQuiet` |
| `schema` | 2 processes, 7 databases (none, unversioned, versions 2 to 6), 1 crash or failing read | `VersionImpliesSchema`, `EveryProcessStarts` |
| `posts` | 2 browsers, requests with basic auth on three pages, 1 old user, 2 users, 2 sessions, 1 fault, limits 1 and 2, forms of the five pages with empty, fitting and too long values | `FormIsWhole`, `RegistersWhatWasPosted`, `PasswordsStand`, `FiledUnderSender`, `PagesKeepWorking` |
| `site` | 2 users, 2 tasks, 1 old and 2 new submissions, pages of 1 and 2 lines, 3 filters, 1 toggle, 1 rejudge | `PagingShowsAll`, `LinksWork`, `NumbersAgree`, `LostOnlyByRejudge` |
| `markdown` | texts of any length (no bounds) | `WellNested` |
| `rate_limit` | 5 addresses, 3 entries, window 2, 8 ticks | `OneEntryPerAddress`, `Spacing`, `NobodyLockedOut` |

The runs also check the `TypeOK` of their modules (`StagesTypeOK` in `stages`), but for the queue, the limiter
and the converter, where it is proved (4).

Why the bounds are enough:

* `queue`: the interesting histories need two claims of one submission by two
  processes, one of which has been superseded by a lease, a rejudge or a forked
  twin; a third claim by a process with a reused pid; and a second submission,
  for the reset in `claim_submission` touches all rows. Processes and pids are
  symmetric, and no definition orders them. What holds for more is proved (4).
* `queue_live`: one fault or rejudge can interrupt each phase of a job; two allow
  an interrupted recovery. `MaxAttempts` is larger than the other bounds permit,
  so it never disables a claim.
* `grading`: three cases give a first, a middle and a last one; the layouts have
  groups that end before, at and after the last case, and the part of a layout
  that a grader may read while it is being stored. Two submissions in a row,
  which the specification repeats for ever, show what is carried over.
* `stages`: the polls are only counted, so 3 stands for 300; a pipe of 2 is
  filled and overfilled.
* `task_sync`: two tasks are needed for hiding, two manifests for one task with
  more and fewer groups for replacement, two directories for a conflict.
* `schema`: there are exactly two processes and these database versions.
* `posts`: values shorter than, equal to and longer than the limits, cut at every
  place; two browsers are needed for a logout elsewhere, a second session for a
  page that has outlived its cookie and a login in another tab, an old user for the upgrade of a hash, and
  one fault can hit each call. Browsers are symmetric.
* `site`: three submissions give two further pages of one line, a newer and an
  older submission of a task, and one that comes in while somebody reads; the old
  one has only a `result`. Links, paging and the leaderboard are proved for any
  number of everything (4), and so is that the numbers agree.
* `markdown`, `communicate`: all states there are.
* `rate_limit`: more addresses than entries, so the table overflows; the clock
  runs for more than three windows.

### Fairness

* `queue_live` (and the specification `JobQueue!FairSpec`): weak fairness of
  starting a service (`Restart=on-failure` in `deploy/tle-grader.service`), of
  claiming (the main loop polls), of finishing (`grade()` returns: see
  Stages for what keeps it from that), of the clock, and of the web thread's
  second statement. It runs the deployed configuration, one grader. With two graders and jobs that
  always take longer than ten minutes, each could take the job from the other
  for ever; that is not excluded. Crashes and database errors are bounded:
  `attempts` is counted but never limited, so a submission that kills its grader
  each time would never finish.
* `communicate`: `main()` runs and the clock advances. Nothing is assumed of the
  children.
* `stages`: the grader runs; a child that does not hang ends.
* `schema`: processes run and the supervisor restarts those that fail
  (`deploy/tle-web.service` 14-16).

### What disagrees with the documentation

One run ends in a counterexample, and is meant to: `queue_rejudge`. Between the
two statements of `requeue_submission` a grader can claim, grade and complete
the job; the second statement then erases the verdict, and the job stays
finished without one. The README says that verdict fields are written without
losing submissions.

The models show more that a reader of the documentation or of the pages would
not expect. The passing runs contain it, and their properties say where they make
an exception for it:

* `Grading`: the limit is compared with the largest time so far, so after one
  slow case all later ones are marked T, while `views.c:145` calls T the time
  limit of that case; the same goes for M (`MarksHaveCauses`). With two subtasks
  the marks read `[A][[A]`, since the end of a group and the start of the next
  both write a bracket. A case without an answer file accepts any output, since
  -1 passes for a match. A program that removes its output file and ends well
  is judged by what an earlier submission has left in `/tmp/N.out`, for the result
  of `copy` is ignored (`grader.c:900`), and if nothing is there the comparison
  accepts it too (`AcceptedMarkIsRight` says what an A rests on). The box is
  cleaned at `grader.c:1135` and the score script is to run in it at 1159: it
  fails wherever the clean-up works, which replaces the result by an internal
  error and leaves the score, so the `script/score` of the README does not
  work (`ScoreMatchesMarks`).
* `Communicate`: once one child has been reaped, the next `waitpid` for it is an
  error, upon which the other is killed and 2 returned, however much time is
  left. So a program that ends more than one poll after its partner is killed
  (`StatusIsHonest` speaks of both being killed). A clean-up that fails leaves the
  box, and the status does not say so (`NothingLeftBehind` is that it was tried,
  after both children were reaped).
* `Stages`: a jury that prints more than its pipe holds and the grader wait for
  each other for ever, and a program that sleeps in the sandbox keeps the grader
  (`AlwaysReturns`).
* `JobQueue`: the forked twin (`ForkJury`) is a second grader that no supervisor
  knows of. The queue is safe with it.
* `SchemaInit`: when `run.sh`, which restarts nothing, starts both servers on a
  new database, one can die of the column that the other has just added. Under
  the systemd units it comes back (`EveryProcessStarts`). A failing look leaves a
  column that the version says is gone (`VersionImpliesSchema`).
* `TaskSync`: `make task-check` is the sync itself, on the live database. Two
  syncs at once can make one another die, and while they overlap a grader may
  read groups with gaps (`GroupsArePrefix` is about `tle_web` alone).
* `Posts`: a password that is too long and arrives in two pieces is registered
  cut short (`RegistersWhatWasPosted`), and code that is too long and arrives in
  pieces is judged cut short. Of a number that arrives in two pieces the last is
  left, and an "on" in two pieces is off (`FormIsWhole`): so an anonymous
  submission may be filed under its user (`FiledUnderSender`). After a login in
  another tab the forms of the old pages get "csrf check failed"
  (`PagesKeepWorking` ends there). If the second look for the user's id fails, a
  submission is filed as anonymous (`FiledUnderSender`). The bookmark and admin
  pages want an `Origin` of their own host, but every page says
  `Referrer-Policy: no-referrer` (`web.c:1009`), under which browsers may send
  `Origin: null`: so `origin` is chosen, and `PagesKeepWorking` is about
  bookmarks with one.
* `Site`: "Previous page" drops the filters and the number of lines;
  `PagingShowsAll` is what remains true. A submission to a hidden task is
  accepted, while "Submit code" on its page leads to a 404, and so does the frame
  of a pdf that is gone (`LinksWork`). A filter for "queued" or "grading" finds
  nothing, since the query looks at verdicts. What only an old version accepted
  is ticked but does not count on the leaderboard, and hidden tasks count but are
  not listed (`NumbersAgree`).
* `Markdown`: carriage returns stay on their lines (`html.c:194` looks at the byte
  behind the last), so a text with them has no blank lines, and a formula that
  begins in a code block and is not ended breaks the nesting (`WellNested`).

## 4. Proofs

`JobQueueProofs` proves, for any number of submissions, processes, process ids,
rejudges and faults: `TypeOK`, `RowConsistent`, `OwnerIsLatest`,
`FinishedByLatest`, `SubtasksMatchVerdict`, `DecidedInOrder`, and
`ImplementsLedger`, the refinement. The assumptions are those of `JobQueue`: the
bounds are natural numbers, services are processes, and `NoPid` and `NoToken`
are no pid and no token.

The argument. `OwnerIsLatest` (who would pass the test of
`complete_submission` holds the latest claim) is not inductive: a claim token is
a pid and a sequence number, and pids are reused. It needs

* `PidsDistinct`: live processes have different numbers;
* `TokensUsed`: a held token that starts with a live process's number has a
  sequence number that this process has passed, so it will not draw it again.
  This is what a twin that `ForkJury` made could break, and why `FreshPid`
  matters;
* `RowConsistent`: exactly jobs being graded have tokens, so a token that is
  compared has not been forgotten in a row;
* `DecisionsBehind`: what has decided is not later than the latest claim, and a
  claim recorded in a row has not decided.

Their conjunction `IInv` is inductive. `DecidedInOrder` and the steps of the
refinement follow from it action by action: `Claim` is `Grant`, `Complete` is
`Decide`, `Requeue` is `Reopen`, `Enqueue` is `Submit`, and the rest stutters.

The same module proves of the ledger that no decision has been made under the
valid right or a later one (`Behind`), which is what rejudging relies on, and
concludes from the refinement that the queue inherits it (`QueueInherits`).

`RateLimitProofs` proves `OneEntryPerAddress`, `Spacing` and `NobodyLockedOut`
for any table size and window. The invariant says that an entry has the time its
address was last allowed, that an address without an entry has not been allowed
within the window (eviction only takes an entry whose window is over), and that
the unused entries are the first k of the table: the scan fills it from the end,
so as long as one is unused there is a last one for it to end with.

It also proves `TypeOK`, without which the times in the table could not be
compared.

`GradingProofs` proves `TypeOK`, `ScoreMatchesMarks`, `ResultIsFirstFailure`,
`AcceptedMarkIsRight` and `MarksHaveCauses` for any number of cases, any runs and
any subtasks. It assumes that a case's share of the points is a whole number
(`ScoreAssumption`), and that all runs, layouts and checkers are of
the kinds the code knows. The invariant ties the locals of the loop to the marks
so far: one piece of the marks per case (`OnePerCase`), the largest time and
memory are those of a case so far (`LargestAreReached`), `first_failure` is that
of the first mark that is no A (`FirstIsFirst`), `passed` counts the A's, a
subtask is marked as failed for one of its own marks or for an E, and never
forgotten (`FailedForAMark`), and what goes to `main` is made of these locals
(`OutcomeIsOfLocals`). That a box is the submission's own where a program runs is
part of it, since some early returns leave a box behind.

Its last part proves `StagesTypeOK` and `AnswerIsOwn` of the children that the
grader waits for, for any scripts, polls and sizes of the pipe. The invariant is
that, while a script runs, the file it is to answer in has no earlier answer
(`AnswerAwaited`): the `unlink` before each fork.

`SchemaInitProofs` proves `TypeOK` and `VersionImpliesSchema` for any number of
processes on any databases that earlier versions left (`DatabaseAssumption`). A
process at statement i has done what the statements before it do (`Done`), which
no other process undoes, since columns that are added stay and columns that are
dropped do not come back; what it found in its last look still holds so far as it
matters (`LookHolds`); a version, in the table or in the memory of a process, only
names finished work; and one that failed starts from the first statement.
A column that a failing look leaves behind is accounted for within a behaviour
(`missed`), but the assumption excludes a database on which that had happened
before. The attempt to prove this found an error in an earlier form of the model, where
the dropping of a column asked the table itself instead of what the process had
found before.

`TaskSyncProofs` proves `TypeOK`, `GroupsArePrefix` and `SyncedWhenQuiet` for
any directories, tasks, manifests, edits and crashes; its processes are the two
there are. While `tle_web` alone syncs, the groups of a task are the first ones of
one manifest, and those in front of the next INSERT are its own, unless the DELETE
has failed: then the first INSERT collides (`PrefixInv`). `SyncedWhenQuiet` is the
hard one, since two syncs of the same files may fail each other. Since the last
DELETE of a task's groups, two processes at a and b have inserted whatever both
have passed, and, from some c on, whatever the one in front has (`Shape`: a
process that was overtaken by a DELETE has inserted from c on). An INSERT that
finds its place taken ends its process; but then another process is `Clear`,
which means that nothing is in front of it, so that it will not collide and will
bring the work to its end. The invariant (`QuietInv`) says that the work is
`Complete` or a process is `Clear`, and that each running process has done what it
has behind it (`Behind`). It was found with TLC on the configuration of
`task_sync`.

`PostsProofs` proves `TypeOK`, `FormIsWhole`, `PasswordsStand`,
`RegistersWhatWasPosted`, `FiledUnderSender` and `PagesKeepWorking` for any
forms, any cuts, any limits of the buffers, any number of browsers, logins by
scripts, old users, sessions and faults. What has come of a text is a beginning of
what was posted, all that has come of it unless something was refused, and nothing
while a text before it is not whole (`TextsAreSoFar`), and so it is with the code
while one source of it has come (`CodeIsSoFar`); of a number or a flag, the last
piece is there (`NumbersAreSoFar`, `FlagsAreSoFar`), and a field is known to be cut
if it came in several (`CutsAreSoFar`). These
speak of fields that a form has once; `CurrentIsPart` says what holds of a
repeated one, whose second value is placed over the first. A user's row keeps
its name and password, and its hash is one of that password whichever kind it is
(`UsersInv`); a session that its browser has not left is alive and in its cookie,
since no two browsers hold the same one (`Kept`, `Apart`), and the token that came
with a form is that of the page it was on (`CsrfPosted`); and what the last call found out about the sender is what the
sender's cookie or login says, unless a call failed (`CallerInv`). The old users
are assumed to have different names, since their column is `UNIQUE`; the sender of
no form is not a browser (`NobodyAssumption`).

The sums of points in `GradingProofs`, and the value of digits in `PostsProofs`,
are folds of the community modules. That such a fold is a number cannot be proved
with the library's induction theorems, whose parameter is an operator; both modules
go by least counterexample instead (`Least`, from well-foundedness): were there a
set on which the recursion defines no function, there would be a smallest one.

`SiteProofs` proves `TypeOK`, `LinksWork`, `PagingShowsAll`, `NumbersAgree` and
`LostOnlyByRejudge` for any users, tasks, filters, numbers of lines and bounds.
The invariant has a part for the tables (`TInv`): rows are typed, a row with an
old `result` has never been judged since (`OldRows`), and a job that is open while
its row still has a verdict was sent to be judged again (`OpenAgain`), which is
why `Complete` cannot take a solved task away but from a rejudged submission.
Every step of the tables keeps ids, owners and `is_public` (`Grown`), so links
keep working; and new ids are larger than all there are, so what a page leaves
unseen stays below where the next one begins. That the newest rows are bounded
by the last id of their page needs a least and a greatest element of a set of
numbers (`Least`, `Greatest`, `NewestBound`), from well-foundedness. `NumbersAgree`
compares counts: the sets that two queries count are the same (`AllAreListed`), or one consists of
the other and what the property names as the rest (`Parts`), and all are finite,
since there are finitely many submissions (`TasksFinite`); that there are as many
accepted submissions of a task as users who are credited with it is a surjection of
the ones on the others (`EveryoneCounts`); that a tick without a
point is one of an older version rests on `OldRows`.

Its last part proves `MarkdownTypeOK` and `WellNested` of the converter, which
writes the statement on a task's page. The invariant: the flags are
exactly the open elements, at most one of them is open, but for a formula inside
a code block (`Shapes`), and nothing else is inside anything. Every branch then
closes all that is open, or a formula, or nothing.

`CommunicateProofs` proves `TypeOK`, `NothingLeftBehind` and `StatusIsHonest`.
The invariant says which children exist at each point of `main()` (`Started`),
that a child has a status exactly when it has ended (`CodesKnown`), that only a
reaped child was waited for with success or an error (`WaitedIsReaped`), so that
after an error not both are left to be killed, that both children are gone when the
clean-up begins, and that the status is settled there and not before (`Unfinished`).

With these, each invariant that a passing run checks, each action property and the
refinement is stated by a theorem. Not proved is liveness
(`EverySubmissionFinishes`, `AlwaysReturns` of the helper and of the grader's
children, `EveryProcessStarts`): it needs ENABLED and fairness, which are beyond
this prover, and stays with TLC and the bounds of section 3.

## 5. Not modelled

* Layout: the HTML around the links, the wording of messages, statistics.
* Searching tasks and submissions by name, and the order of the leaderboard.
* Logging, reading files, the signal handlers, which exit.
* Vendored code (`sds.c`, `cJSON.c`, `md5.c`), and memory that runs out.
* Backup and health check: shell scripts around `sqlite3` and `curl`.
* A second grader on the same host beside the evaluator: it would share box 0
  and `/tmp/N.out`. One is deployed; `Grading` has one.
* Processes that a task's script leaves behind, and the artifacts' files.
* The text of verdicts, reports and compiler output; numbers of failed cases.

## 6. Plan

Done, in order of importance: the queue with its abstract specification and
proofs, the helper, the limiter, the evaluator, the migration, the
synchronisation, the children, accounts and posted forms, the pages and their
queries, the converter, each with proofs.

Next:

1. The grader's read of subtask groups while `TaskSync` writes them, as a
   composition of `TaskSync` and `Grading` instead of a choice of layouts, and a
   theorem that relates `GroupsArePrefix` to what the evaluator may fetch.
2. An abstract specification of the migration and of a form, of which the detailed
   ones are refinements, in the way of `JudgeLedger`.
3. Safety halves of the liveness properties: which states a process can be in from
   which no step of its own is possible.
