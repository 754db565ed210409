----------------------------- MODULE SchemaInit -----------------------------
(* db_init(): tle_web and tle_grader both create and migrate the schema when *)
(* they start, statement by statement, each statement a transaction.         *)
EXTENDS Integers, Sequences, FiniteSets, FiniteSetsExt

CONSTANTS
    Procs,       \* the processes that open the database
    Supervised,  \* those that are started again after they fail
    Databases,   \* the databases they may find
    MaxCrashes   \* bounds Crash, ReadFails and LookFails

ASSUME ProcsAssumption == Procs # {} /\ Supervised \subseteq Procs
ASSUME CrashAssumption == MaxCrashes \in Nat

\* The columns migrations add and drop, named by their table's first letters
\* where two tables have to be told apart.
AddedColumns == {"compiler_output", "csrf_token", "subtask_results"}
DroppedColumns == {"difficulty", "tags", "source", "estimated_minutes"}
Columns == AddedColumns \cup DroppedColumns
Tables == {"schema_version", "tasks", "users", "submissions", "sessions",
           "bookmarks", "grading_jobs", "subtask_groups"}

\* A database of version v has the columns of that version and none that it dropped.
HasSchema(v, cs) ==
    /\ v >= 2 => "compiler_output" \in cs
    /\ v >= 3 => "csrf_token" \in cs
    /\ v >= 5 => cs \cap DroppedColumns = {}
    /\ v >= 6 => "subtask_results" \in cs

\* The databases are those that the versions of db_init have left.
ASSUME DatabaseAssumption ==
    \A d \in Databases :
        /\ d.versions \subseteq 0 .. 6 /\ d.tables \subseteq Tables
        /\ d.columns \subseteq Columns
        /\ \A v \in d.versions : HasSchema(v, d.columns)

-----------------------------------------------------------------------------
(* The statements of db_init.  A statement with below = v belongs to the     *)
(* migration to v, which runs if the version read at the start is below v.   *)

Always == 99
Stmt(op, arg, below) == [op |-> op, arg |-> arg, below |-> below]
Create(t) == <<Stmt("create", t, Always)>>
EnsureColumn(c, v) == <<Stmt("look", c, v), Stmt("add", c, v)>>
DropColumn(c, v) == <<Stmt("look", c, v), Stmt("drop", c, v)>>
SetVersion(v) == <<Stmt("delete", v, v), Stmt("insert", v, v)>>

\* Recording a version before the work is done.
MigrationVersionFirst(v, work) == SetVersion(v) \o work
Migration(v, work) == work \o SetVersion(v)

Program ==
    Create("schema_version") \o <<Stmt("seed", 0, Always), Stmt("read", 0, Always)>>
    \o Create("tasks") \o Create("users") \o Create("submissions")
    \o Migration(2, EnsureColumn("compiler_output", 2))
    \o Create("sessions")
    \o Migration(3, EnsureColumn("csrf_token", 3))
    \o Create("bookmarks")
    \o Migration(4, <<>>)
    \o Migration(5, DropColumn("difficulty", 5) \o DropColumn("tags", 5)
                    \o DropColumn("source", 5) \o DropColumn("estimated_minutes", 5))
    \o Migration(6, EnsureColumn("subtask_results", 6))
    \o Create("grading_jobs") \o Create("subtask_groups")

\* The columns of the list above that a new table is created with.
NewColumns(t) ==
    CASE t = "submissions" -> {"compiler_output"}
      [] t = "sessions" -> {"csrf_token"}
      [] OTHER -> {}

VARIABLES
    versions,  \* the versions in the rows of schema_version
    tables,    \* the tables there are
    columns,   \* which of Columns there are
    status,    \* "running", "ready", "died" (by die()) or "killed", of each process
    pc,        \* the next statement of each process
    version,   \* the local variable of each process
    found,     \* whether the column looked for is there
    crashes,   \* how many crashes and failing reads there have been
    missed     \* history: the columns that a failing look took for dropped

db == <<versions, tables, columns>>
local == <<status, pc, version, found>>
vars == <<versions, tables, columns, status, pc, version, found, crashes, missed>>

TypeOK ==
    /\ versions \in SUBSET (0 .. 6)
    /\ tables \in SUBSET Tables
    /\ columns \in SUBSET Columns
    /\ status \in [Procs -> {"running", "ready", "died", "killed"}]
    /\ pc \in [Procs -> 1 .. Len(Program) + 1]
    /\ version \in [Procs -> 0 .. 6]
    /\ found \in [Procs -> BOOLEAN]
    /\ crashes \in 0 .. MaxCrashes
    /\ missed \subseteq DroppedColumns

Init ==
    /\ \E d \in Databases :
          versions = d.versions /\ tables = d.tables /\ columns = d.columns
    /\ status = [p \in Procs |-> "running"]
    /\ pc = [p \in Procs |-> 1]
    /\ version = [p \in Procs |-> 0]
    /\ found = [p \in Procs |-> FALSE]
    /\ crashes = 0
    /\ missed = {}

-----------------------------------------------------------------------------
\* p is at a statement of one of these kinds, and its version has it run.
At(p, ops) ==
    /\ status[p] = "running"
    /\ pc[p] \in DOMAIN Program
    /\ Program[pc[p]].op \in ops
    /\ version[p] < Program[pc[p]].below
Arg(p) == Program[pc[p]].arg

Advance(p) ==
    /\ pc' = [pc EXCEPT ![p] = @ + 1]
    /\ UNCHANGED <<status, crashes, missed>>
Die(p) ==
    /\ status' = [status EXCEPT ![p] = "died"]
    /\ pc' = [pc EXCEPT ![p] = 1]
    /\ UNCHANGED <<crashes, missed>>

\* CREATE TABLE IF NOT EXISTS
CreateTable(p) ==
    /\ At(p, {"create"})
    /\ tables' = tables \cup {Arg(p)}
    /\ columns' = IF Arg(p) \in tables THEN columns ELSE columns \cup NewColumns(Arg(p))
    /\ Advance(p)
    /\ UNCHANGED <<versions, version, found>>

\* INSERT INTO schema_version SELECT 0 WHERE NOT EXISTS
Seed(p) ==
    /\ At(p, {"seed"})
    /\ versions' = IF versions = {} THEN {0} ELSE versions
    /\ Advance(p)
    /\ UNCHANGED <<tables, columns, version, found>>

\* COALESCE(MAX(version), 0)
Newest == Max(versions \cup {0})
ReadVersion(p) ==
    /\ At(p, {"read"})
    /\ version' = [version EXCEPT ![p] = Newest]
    /\ Advance(p)
    /\ UNCHANGED <<db, found>>

\* A version that cannot be read is taken for 0.
ReadFails(p) ==
    /\ At(p, {"read"})
    /\ crashes < MaxCrashes
    /\ version' = [version EXCEPT ![p] = 0]
    /\ pc' = [pc EXCEPT ![p] = @ + 1]
    /\ crashes' = crashes + 1
    /\ UNCHANGED <<db, status, found, missed>>

\* Adding a column without looking for it.
ExistsIfDropped(c) == c \in columns /\ c \in DroppedColumns

\* sqlite3_table_column_metadata
Exists(c) == c \in columns
Look(p) ==
    /\ At(p, {"look"})
    /\ found' = [found EXCEPT ![p] = Exists(Arg(p))]
    /\ Advance(p)
    /\ UNCHANGED <<db, version>>

\* drop_column_if_exists takes any failure of the look for a missing column.
\* ensure_column dies of all but that one, which is Crash.
LookFails(p) ==
    /\ At(p, {"look"})
    /\ Arg(p) \in DroppedColumns
    /\ crashes < MaxCrashes
    /\ crashes' = crashes + 1
    /\ missed' = missed \cup ({Arg(p)} \cap columns)
    /\ found' = [found EXCEPT ![p] = FALSE]
    /\ pc' = [pc EXCEPT ![p] = @ + 1]
    /\ UNCHANGED <<db, status, version>>

\* ALTER TABLE ADD COLUMN fails if the column has come to be since the look.
AddColumn(p) ==
    /\ At(p, {"add"})
    /\ IF ~found[p] /\ Arg(p) \in columns THEN Die(p) ELSE Advance(p)
    /\ columns' = IF found[p] THEN columns ELSE columns \cup {Arg(p)}
    /\ found' = [found EXCEPT ![p] = FALSE]
    /\ UNCHANGED <<versions, tables, version>>

\* ALTER TABLE DROP COLUMN fails if the column has gone since the look.
DropIfExists(p) ==
    /\ At(p, {"drop"})
    /\ IF found[p] /\ Arg(p) \notin columns THEN Die(p) ELSE Advance(p)
    /\ columns' = IF found[p] THEN columns \ {Arg(p)} ELSE columns
    /\ found' = [found EXCEPT ![p] = FALSE]
    /\ UNCHANGED <<versions, tables, version>>

\* set_schema_version, two transactions.
DeleteVersion(p) ==
    /\ At(p, {"delete"})
    /\ versions' = {}
    /\ Advance(p)
    /\ UNCHANGED <<tables, columns, version, found>>

\* Off by one: recording the version of the migration after this.
InsertNext(p) ==
    /\ At(p, {"insert"})
    /\ versions' = versions \cup {Arg(p) + 1}
    /\ Advance(p)
    /\ UNCHANGED <<tables, columns, version, found>>

InsertVersion(p) ==
    /\ At(p, {"insert"})
    /\ versions' = versions \cup {Arg(p)}
    /\ Advance(p)
    /\ UNCHANGED <<tables, columns, version, found>>

\* The migrations that the version makes unnecessary.
Skip(p) ==
    /\ status[p] = "running"
    /\ pc[p] \in DOMAIN Program
    /\ version[p] >= Program[pc[p]].below
    /\ pc' = [pc EXCEPT ![p] =
                Min({i \in DOMAIN Program : i > pc[p] /\ version[p] < Program[i].below})]
    /\ UNCHANGED <<db, status, version, found, crashes, missed>>

Finish(p) ==
    /\ status[p] = "running"
    /\ pc[p] = Len(Program) + 1
    /\ status' = [status EXCEPT ![p] = "ready"]
    /\ UNCHANGED <<db, pc, version, found, crashes, missed>>

\* A kill, or a statement that fails for a reason of its own.
Crash(p) ==
    /\ crashes < MaxCrashes
    /\ status[p] \in {"running", "ready"}
    /\ status' = [status EXCEPT ![p] = "killed"]
    /\ crashes' = crashes + 1
    /\ pc' = [pc EXCEPT ![p] = 1]
    /\ version' = [version EXCEPT ![p] = 0]
    /\ found' = [found EXCEPT ![p] = FALSE]
    /\ UNCHANGED <<db, missed>>

Restart(p) ==
    /\ p \in Supervised
    /\ status[p] \in {"died", "killed"}
    /\ status' = [status EXCEPT ![p] = "running"]
    /\ version' = [version EXCEPT ![p] = 0]
    /\ UNCHANGED <<db, pc, found, crashes, missed>>

Step(p) ==
    \/ CreateTable(p) \/ Seed(p) \/ ReadVersion(p) \/ Look(p) \/ AddColumn(p)
    \/ DropIfExists(p) \/ DeleteVersion(p) \/ InsertVersion(p) \/ Skip(p) \/ Finish(p)

Next == \E p \in Procs : Step(p) \/ ReadFails(p) \/ LookFails(p) \/ Crash(p) \/ Restart(p)
Spec == Init /\ [][Next]_vars

\* Processes run, and the supervisor starts what has failed.
FairSpec ==
    /\ Spec
    /\ \A p \in Procs : WF_vars(Step(p)) /\ WF_vars(Restart(p))

-----------------------------------------------------------------------------
(* Properties.                                                               *)

\* Whatever version the database claims to have, its schema is the one of that
\* version, at every instant and after any crash: a process that reads it may skip
\* the migrations up to it.  A column that a failing look has missed may stay.
VersionImpliesSchema == HasSchema(Newest, columns \ missed)

\* Under a supervisor every process gets through db_init in the end, although
\* they make each other die.
EveryProcessStarts == <>[](\A p \in Procs : status[p] = "ready")
=============================================================================
