-------------------------------- MODULE Site --------------------------------
(* The pages of tle_web and the links between them.  Each page is one read   *)
(* under db_lock, but a reader goes from page to page while submissions come *)
(* in, are graded and judged again, and tasks are hidden.                    *)
EXTENDS Listing

CONSTANTS
    Filters,         \* the filters that readers fill in
    Counts,          \* the numbers of lines on offer
    DefaultCount,    \* the number of lines a link without a count gets
    Pdf,             \* the tasks whose statement is a pdf
    Unreadable       \* the tasks whose statement file is gone

NoFilter == [user |-> Nobody, task |-> NoTask, verdict |-> NoVerdict]
Top == MaxSubmissions + 1                  \* UINT_MAX

ASSUME SiteAssumption ==
    /\ Counts \subseteq Nat \ {0} /\ DefaultCount \in Counts
    /\ Pdf \cup Unreadable \subseteq Tasks

VARIABLE
    reader     \* what somebody sees: the links of the page and, of the list of
               \* submissions, where the page before begins, and the rows that
               \* matched on the first page and have not been seen so far

vars == <<tables, reader>>

NoPage == [links |-> {}, from |-> 0, unseen |-> {}]
Link(page, args) == {<<page, x>> : x \in args}
Links == Link("submission", 1 .. MaxSubmissions) \cup Link("view_code", 1 .. MaxSubmissions)
            \cup ({"task", "submit", "desc_file"} \X Tasks)

TypeOK ==
    /\ TablesTypeOK
    /\ reader.links \subseteq Links
    /\ reader.from \in 0 .. Len(subs)
    /\ reader.unseen \subseteq Ids

Init == TablesInit /\ reader = NoPage

-----------------------------------------------------------------------------
(* The links that the pages hold, but for the menu, which is on all of them. *)

TaskLinks(tasks) == Link("task", tasks)

\* A row of the list is a link to its submission.
RowLinks(page) == Link("submission", page)

CodeLink(s) == Link("view_code", IF subs[s].public THEN {s} ELSE {})

\* "Submit code" is there whether the task is hidden or not; a pdf is shown in
\* a frame, a text on the page.
SubmitLink(t) == Link("submit", {t}) \cup Link("desc_file", {t} \cap Pdf)
FrameLink(t) == Link("desc_file", {t} \cap Pdf)

\* The list of the administrator has the hidden tasks, too.
AdminLinks == Link("task", Tasks)

\* The next page is to begin at the id before the last one.
LastButOne(page) ==
    IF page = {} THEN 0 ELSE (CHOOSE s \in page : \A r \in page : s <= r) - 1

\* The link to the previous page, 0 when there is none.
LastId(page) == IF page = {} THEN 0 ELSE CHOOSE s \in page : \A r \in page : s <= r

-----------------------------------------------------------------------------
(* What the handlers ask before they answer.                                 *)

SubmissionFound(s) == s \in Ids
CodeReadable(s) == s \in Ids /\ subs[s].public

\* Hidden tasks are listed nowhere.
VisibleFound(t) == t \in Tasks \ hidden

\* fetch_task_by_pk does not look at is_hidden.
TaskFound(t) == t \in Tasks

\* check_task_pk_validity does.
MaySubmit(t) == t \in Tasks \ hidden

-----------------------------------------------------------------------------
(* The handlers.  A page is asked for by its link, or its address is typed.  *)

AskedFor(page, arg) == Serving /\ (reader = NoPage \/ <<page, arg>> \in reader.links)
Menu == Serving /\ reader = NoPage
Page(links) == reader' = [NoPage EXCEPT !.links = links]

Answer(found, links) ==
    /\ IF found THEN Page(links) ELSE reader' = NoPage
    /\ UNCHANGED tables

FrontPage ==
    /\ Menu
    /\ \E user \in Users \cup {Nobody} : Answer(TRUE, TaskLinks(TaskList(user, TRUE, "")))

TasksPage ==
    /\ Menu
    /\ \E user \in Users \cup {Nobody}, showSolved \in BOOLEAN,
          state \in {"", "solved", "tried", "bookmarked"} :
          Answer(TRUE, TaskLinks(TaskList(user, showSolved, state)))

\* The list of submissions, with filters and a number of lines or without.
FirstPage(user, task, verdict) ==
    /\ Menu
    /\ \E count \in Counts :
          LET page == Fetch(Top, count, user, task, verdict)
          IN  reader' = [links |-> RowLinks(page), from |-> LastId(page),
                         unseen |-> {s \in Ids : Match(s, user, task, verdict)} \ page]
    /\ UNCHANGED tables

\* "Previous page" holds the last id and nothing else: neither the filters nor
\* the number of lines.
PreviousPage ==
    /\ Serving
    /\ reader.from # 0
    /\ LET page == Fetch(reader.from, DefaultCount, Nobody, NoTask, NoVerdict)
       IN  reader' = [links |-> RowLinks(page), from |-> LastId(page),
                      unseen |-> reader.unseen \ page]
    /\ UNCHANGED tables

SubmissionPage(s) ==
    /\ AskedFor("submission", s)
    /\ Answer(SubmissionFound(s), IF s \in Ids THEN CodeLink(s) ELSE {})

CodePage(s) ==
    /\ AskedFor("view_code", s)
    /\ Answer(CodeReadable(s), {})

\* A statement that cannot be read is "unavailable" on the page.  A task whose
\* desc is empty or a path would not be found, but read_tasks makes no such row.
TaskPage(t) ==
    /\ AskedFor("task", t)
    /\ Answer(TaskFound(t), SubmitLink(t))

DescPage(t) ==
    /\ AskedFor("desc", t)
    /\ Answer(TaskFound(t) /\ t \notin Unreadable, FrameLink(t))
DescFile(t) ==
    /\ AskedFor("desc_file", t)
    /\ Answer(TaskFound(t) /\ t \notin Unreadable, {})

SubmitPage(t) ==
    /\ AskedFor("submit", t)
    /\ Answer(MaySubmit(t) /\ TaskFound(t), {})

\* For who sends the password of the administrator.
AdminPage ==
    /\ Menu
    /\ Answer(TRUE, AdminLinks)

\* The menu is on every page and leads away from it: to one of the lists, and
\* to the leaderboard, the log-in and the registration, which hold no links.
MenuLink ==
    /\ Serving
    /\ reader # NoPage
    /\ Answer(TRUE, {})

-----------------------------------------------------------------------------
Next ==
    \/ TablesNext /\ UNCHANGED reader
    \/ FrontPage \/ TasksPage \/ AdminPage \/ MenuLink
    \/ \E f \in Filters : FirstPage(f.user, f.task, f.verdict)
    \/ PreviousPage
    \/ \E s \in 1 .. MaxSubmissions : SubmissionPage(s) \/ CodePage(s)
    \/ \E t \in Tasks \cup {NoTask} : TaskPage(t) \/ DescPage(t) \/ DescFile(t) \/ SubmitPage(t)

Spec == Init /\ [][Next]_vars

-----------------------------------------------------------------------------
(* Properties.                                                               *)

\* Who follows the links to their end sees each submission that matched on the
\* first page, although the next ones drop the filters, and none twice: the
\* unseen ones are below where the next page begins, the seen ones are not,
\* whatever came in or changed meanwhile.
PagingShowsAll ==
    /\ \A s \in reader.unseen : s < reader.from
    /\ reader.from # 0 => \A l \in reader.links : l[2] >= reader.from

\* A link that a page holds works whenever it is followed, whatever came in,
\* was judged or hidden since the page was made.  Two kinds do not: "Submit
\* code" on the page of a hidden task, and the frame of a pdf that is gone.
LinksWork ==
    \A l \in reader.links :
        \/ l[1] = "submission" /\ SubmissionFound(l[2])
        \/ l[1] = "view_code" /\ CodeReadable(l[2])
        \/ l[1] = "task" /\ TaskFound(l[2])
        \/ l[1] = "submit" /\ (MaySubmit(l[2]) \/ l[2] \in hidden) /\ TaskFound(l[2])
        \/ l[1] = "desc_file" /\ TaskFound(l[2])
=============================================================================
