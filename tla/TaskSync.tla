------------------------------ MODULE TaskSync ------------------------------
(* read_tasks(): a starting tle_web, or tle_web --check-tasks, brings the    *)
(* tables tasks and subtask_groups up to date with the task directories.     *)
(* Every statement is a transaction of its own.                              *)
EXTENDS Integers, FiniteSets

CONSTANTS
    Dirs,       \* task directories
    Pks,        \* primary keys of tasks
    Manifests,  \* what a manifest.json may say
    MaxGroups,  \* bounds the number of subtasks
    Procs,      \* "web" and "check", those that are run
    MaxEdits,   \* bounds Edit
    MaxCrashes  \* bounds Crash and DeleteFails

\* good: the manifest is read; half: its groups are followed by a bad one, of
\* which read_tasks dies; skipped: it is missing, unreadable or names a bad
\* description, and is passed over; fatal: read_tasks dies of it at once.
\* tag stands for all else it says, groups is how many subtasks it has.
Manifest == [kind : {"good", "half", "skipped", "fatal"}, pk : Pks, tag : Nat \ {0},
             groups : 0 .. MaxGroups]

ASSUME ManifestAssumption == Manifests \subseteq Manifest /\ Manifests # {}
ASSUME ProcsAssumption == Procs \subseteq {"web", "check"}
ASSUME BoundAssumption == {MaxGroups, MaxEdits, MaxCrashes} \subseteq Nat

VARIABLES
    files,   \* the manifest in each directory
    row,     \* the tag in each task's row, 0 if there is none
    hidden,  \* the tasks with is_hidden = 1
    groups,  \* the tag in each row of subtask_groups, 0 if there is none
    pc,      \* where each process is in read_tasks
    todo,    \* the directories readdir has not returned yet
    man,     \* the manifest in hand
    idx,     \* the group_idx to be inserted next
    seen,    \* temp.seen_task_pks of each connection
    calm,    \* history: only syncs have happened since one began alone
    edits, crashes

db == <<row, hidden, groups>>
local == <<todo, man, idx, seen>>
history == <<calm, edits, crashes>>
vars == <<files, row, hidden, groups, pc, todo, man, idx, seen, calm,
          edits, crashes>>

Running == {p \in Procs : pc[p] \notin {"off", "done", "died"}}
Tags == {m.tag : m \in Manifests}

TypeOK ==
    /\ files \in [Dirs -> Manifests]
    /\ row \in [Pks -> Tags \cup {0}]
    /\ hidden \subseteq {k \in Pks : row[k] # 0}
    /\ groups \in [Pks -> [1 .. MaxGroups -> Tags \cup {0}]]
    /\ pc \in [Procs -> {"off", "scan", "upsert", "delete", "insert", "done", "died"}]
    /\ todo \in [Procs -> SUBSET Dirs]
    /\ man \in [Procs -> Manifests]
    /\ idx \in [Procs -> 1 .. MaxGroups + 1]
    /\ seen \in [Procs -> SUBSET {k \in Pks : row[k] # 0}]
    /\ calm \in BOOLEAN
    /\ edits \in 0 .. MaxEdits /\ crashes \in 0 .. MaxCrashes

Init ==
    /\ files \in [Dirs -> Manifests]
    /\ row = [k \in Pks |-> 0]
    /\ hidden = {}
    /\ groups = [k \in Pks |-> [i \in 1 .. MaxGroups |-> 0]]
    /\ pc = [p \in Procs |-> "off"]
    /\ todo = [p \in Procs |-> {}]
    /\ man \in [Procs -> {CHOOSE m \in Manifests : TRUE}]
    /\ idx = [p \in Procs |-> 1]
    /\ seen = [p \in Procs |-> {}]
    /\ calm = FALSE
    /\ edits = 0 /\ crashes = 0

-----------------------------------------------------------------------------
GoTo(p, where) == pc' = [pc EXCEPT ![p] = where]

Start(p) ==
    /\ p \notin Running
    /\ GoTo(p, "scan")
    /\ todo' = [todo EXCEPT ![p] = Dirs]
    /\ seen' = [seen EXCEPT ![p] = {}]
    /\ calm' = (Running = {} \/ calm)
    /\ UNCHANGED <<files, db, man, idx, edits, crashes>>

\* Marking a task as seen before its manifest is known to be good.
ReadAndSee(p) ==
    /\ pc[p] = "scan"
    /\ \E d \in todo[p] :
          /\ todo' = [todo EXCEPT ![p] = @ \ {d}]
          /\ seen' = [seen EXCEPT ![p] = @ \cup {files[d].pk}]
          /\ CASE files[d].kind = "skipped" -> UNCHANGED <<pc, man>>
               [] files[d].kind = "fatal" -> GoTo(p, "died") /\ UNCHANGED man
               [] OTHER -> GoTo(p, "upsert") /\ man' = [man EXCEPT ![p] = files[d]]
    /\ UNCHANGED <<files, db, idx, history>>

\* readdir returns the directories in any order.
Read(p) ==
    /\ pc[p] = "scan"
    /\ \E d \in todo[p] :
          /\ todo' = [todo EXCEPT ![p] = @ \ {d}]
          /\ CASE files[d].kind = "skipped" -> UNCHANGED <<pc, man>>
               [] files[d].kind = "fatal" -> GoTo(p, "died") /\ UNCHANGED man
               [] OTHER -> GoTo(p, "upsert") /\ man' = [man EXCEPT ![p] = files[d]]
    /\ UNCHANGED <<files, db, idx, seen, history>>

\* consider_task leaves is_hidden alone, and the task is seen.
Upsert(p) ==
    /\ pc[p] = "upsert"
    /\ GoTo(p, "delete")
    /\ row' = [row EXCEPT ![man[p].pk] = man[p].tag]
    /\ seen' = [seen EXCEPT ![p] = @ \cup {man[p].pk}]
    /\ UNCHANGED <<files, hidden, groups, todo, man, idx, history>>

\* Without the delete, and with the delete of one row.
Kept(gs) == gs
DeletedFirst(gs) == [gs EXCEPT ![1] = 0]

\* DELETE FROM subtask_groups
Deleted(gs) == [i \in DOMAIN gs |-> 0]
DeleteGroups(p) ==
    /\ pc[p] = "delete"
    /\ GoTo(p, "insert")
    /\ groups' = [groups EXCEPT ![man[p].pk] = Deleted(@)]
    /\ idx' = [idx EXCEPT ![p] = 1]
    /\ UNCHANGED <<files, row, hidden, todo, man, seen, history>>

\* The result of the DELETE is not looked at.
DeleteFails(p) ==
    /\ pc[p] = "delete"
    /\ crashes < MaxCrashes
    /\ GoTo(p, "insert")
    /\ idx' = [idx EXCEPT ![p] = 1]
    /\ crashes' = crashes + 1
    /\ calm' = FALSE
    /\ UNCHANGED <<files, db, todo, man, seen, edits>>

\* An insert fails, and the process dies, if the primary key is taken.
InsertGroup(p) ==
    LET k == man[p].pk  i == idx[p]
    IN  /\ pc[p] = "insert"
        /\ i <= man[p].groups
        /\ IF groups[k][i] # 0
           THEN GoTo(p, "died") /\ UNCHANGED <<groups, idx>>
           ELSE /\ groups' = [groups EXCEPT ![k][i] = man[p].tag]
                /\ idx' = [idx EXCEPT ![p] = i + 1]
                /\ UNCHANGED pc
        /\ UNCHANGED <<files, row, hidden, todo, man, seen, history>>

GroupsStored(p) ==
    /\ pc[p] = "insert"
    /\ idx[p] > man[p].groups
    /\ GoTo(p, IF man[p].kind = "half" THEN "died" ELSE "scan")
    /\ UNCHANGED <<files, db, local, history>>

\* UPDATE tasks SET is_hidden=1 WHERE task_pk NOT IN seen_task_pks
HiddenBut(ks) == hidden \cup ({k \in Pks : row[k] # 0} \ ks)
Hide(p) ==
    /\ pc[p] = "scan"
    /\ todo[p] = {}
    /\ GoTo(p, "done")
    /\ hidden' = HiddenBut(seen[p])
    /\ UNCHANGED <<files, row, groups, local, history>>

Crash(p) ==
    /\ crashes < MaxCrashes
    /\ p \in Running
    /\ GoTo(p, "died")
    /\ crashes' = crashes + 1
    /\ calm' = FALSE
    /\ UNCHANGED <<files, db, local, edits>>

\* The author edits, adds or removes a task directory.
Edit ==
    /\ edits < MaxEdits
    /\ \E d \in Dirs, m \in Manifests : files' = [files EXCEPT ![d] = m]
    /\ edits' = edits + 1
    /\ calm' = FALSE
    /\ UNCHANGED <<db, pc, local, crashes>>

\* task_toggle_visibility, by the administrator through the running tle_web.
Toggle ==
    /\ edits < MaxEdits
    /\ "web" \in Procs /\ pc["web"] = "done"
    /\ \E k \in Pks :
          /\ row[k] # 0
          /\ hidden' = IF k \in hidden THEN hidden \ {k} ELSE hidden \cup {k}
    /\ edits' = edits + 1
    /\ calm' = FALSE
    /\ UNCHANGED <<files, row, groups, pc, local, crashes>>

Sync(p) ==
    \/ Start(p) \/ Read(p) \/ Upsert(p) \/ DeleteGroups(p) \/ InsertGroup(p)
    \/ GroupsStored(p) \/ Hide(p)

Next == (\E p \in Procs : Sync(p) \/ DeleteFails(p) \/ Crash(p)) \/ Edit \/ Toggle
Spec == Init /\ [][Next]_vars

-----------------------------------------------------------------------------
(* Properties.                                                               *)

\* The groups that manifest m has the database hold.
GroupsOf(m) == [i \in 1 .. MaxGroups |-> IF i <= m.groups THEN m.tag ELSE 0]
Good == {files[d] : d \in {d \in Dirs : files[d].kind = "good"}}
PksDistinct ==
    \A c, d \in Dirs : c # d => "skipped" \in {files[c].kind, files[d].kind}
                                \/ files[c].pk # files[d].pk

\* When syncs of unchanged files are over, the database says what the files
\* say, and the tasks that have no good manifest are hidden.  Two processes may
\* have synced at once, and one may have died of the other's inserts: the one
\* that is left has stored every group.
SyncedWhenQuiet ==
    (/\ calm /\ Running = {}
     /\ PksDistinct
     /\ \A d \in Dirs : files[d].kind \notin {"half", "fatal"})
    =>  /\ \A m \in Good : row[m.pk] = m.tag /\ groups[m.pk] = GroupsOf(m)
        /\ \A k \in Pks : row[k] # 0 /\ (\A m \in Good : m.pk # k) => k \in hidden

\* As long as only tle_web syncs, the rows a grader may read are the first groups
\* of one manifest, while they are stored and after a crash: a part of the
\* subtasks, never a mixture, and they start with the first.
GroupsArePrefix ==
    (\A p \in Procs \ {"web"} : pc[p] = "off") =>
    \A k \in Pks : \E n \in 0 .. MaxGroups : \E t \in Tags :
        groups[k] = [i \in 1 .. MaxGroups |-> IF i <= n THEN t ELSE 0]
=============================================================================
