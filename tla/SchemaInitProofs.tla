-------------------------- MODULE SchemaInitProofs --------------------------
(* Proofs about db_init(), for any number of processes that start, fail and  *)
(* start again on any database that an earlier version has left.             *)
EXTENDS SchemaInit, FiniteSetTheorems, WellFoundedInduction, TLAPS

\* The columns there are, but for those that a failing look has missed.
Schema == columns \ missed

\* What an executed or unnecessary statement has made of them.
Effect(s) ==
    /\ s.op = "add" => s.arg \in Schema
    /\ s.op = "drop" => s.arg \notin Schema

\* p has what the statements before its next one do.
Done(p) == \A i \in DOMAIN Program : i < pc[p] => Effect(Program[i])

\* What p has found, if it is about to change the table, still holds so far as
\* it matters: added columns stay and dropped ones do not come back.
LookHolds(p) ==
    pc[p] \in DOMAIN Program /\ version[p] < Program[pc[p]].below =>
        /\ Program[pc[p]].op = "add" /\ found[p] => Program[pc[p]].arg \in Schema
        /\ Program[pc[p]].op = "drop" /\ ~found[p] => Program[pc[p]].arg \notin Schema

\* A process that failed starts from the first statement.
Stopped(p) == status[p] \in {"died", "killed"} => pc[p] = 1

SchemaInv ==
    /\ TypeOK
    /\ \A v \in versions : HasSchema(v, Schema)
    /\ \A p \in Procs : HasSchema(version[p], Schema) /\ Done(p) /\ LookHolds(p)
    /\ \A p \in Procs : Stopped(p)

-----------------------------------------------------------------------------
(* The statements.                                                           *)

\* Where the columns are changed and the versions recorded.
Changes == {8, 13, 20, 22, 24, 26, 30}
Records == {10, 15, 18, 28, 32}

LEMMA Statements ==
    /\ DOMAIN Program = 1 .. 34 /\ Len(Program) = 34
    /\ \A i \in 1 .. 34 : Program[i].op \in {"add", "drop"} => i \in Changes
    /\ \A i \in 1 .. 34 : Program[i].op = "insert" => i \in Records
    /\ \A i \in 1 .. 34 : Program[i].op = "create" => Program[i].arg \in Tables
<1>1. DOMAIN Program = 1 .. 34 /\ Len(Program) = 34
  BY SMTT(30) DEF Program, Migration, EnsureColumn, SetVersion, DropColumn, Create, Stmt, Always
<1>2. \A i \in 1 .. 34 : Program[i].op \in {"add", "drop"} => i \in Changes
  BY SMTT(30) DEF Program, Migration, EnsureColumn, SetVersion, DropColumn, Create, Stmt, Always,
         Changes
<1>3. \A i \in 1 .. 34 : Program[i].op = "insert" => i \in Records
  BY SMTT(30) DEF Program, Migration, EnsureColumn, SetVersion, DropColumn, Create, Stmt, Always,
         Records
<1>4. \A i \in 1 .. 34 : Program[i].op = "create" => Program[i].arg \in Tables
  BY SMTT(30) DEF Program, Migration, EnsureColumn, SetVersion, DropColumn, Create, Stmt, Always,
         Tables
<1> QED BY <1>1, <1>2, <1>3, <1>4

LEMMA Versions ==
    /\ \A i \in 1 .. 34 : Program[i].below \in {2, 3, 4, 5, 6, 99}
    /\ Program[34].below = 99
BY SMTT(30) DEF Program, Migration, EnsureColumn, SetVersion, DropColumn, Create, Stmt, Always

LEMMA ChangeStatements ==
    /\ Program[8] = Stmt("add", "compiler_output", 2)
    /\ Program[13] = Stmt("add", "csrf_token", 3)
    /\ Program[20] = Stmt("drop", "difficulty", 5)
    /\ Program[22] = Stmt("drop", "tags", 5)
    /\ Program[24] = Stmt("drop", "source", 5)
    /\ Program[26] = Stmt("drop", "estimated_minutes", 5)
    /\ Program[30] = Stmt("add", "subtask_results", 6)
BY SMTT(30) DEF Program, Migration, EnsureColumn, SetVersion, DropColumn, Create

LEMMA RecordStatements ==
    /\ Program[10] = Stmt("insert", 2, 2) /\ Program[15] = Stmt("insert", 3, 3)
    /\ Program[18] = Stmt("insert", 4, 4) /\ Program[28] = Stmt("insert", 5, 5)
    /\ Program[32] = Stmt("insert", 6, 6)
BY SMTT(30) DEF Program, Migration, EnsureColumn, SetVersion, DropColumn, Create

\* A column is looked for by the statement before the one that adds or drops it.
LEMMA LookIsBefore ==
    ASSUME NEW i \in Changes
    PROVE  /\ i - 1 \in 1 .. 34 /\ Program[i - 1].op = "look"
           /\ Program[i - 1].arg = Program[i].arg /\ Program[i - 1].below = Program[i].below
<1>1. /\ Program[8 - 1] = Stmt("look", "compiler_output", 2)
      /\ Program[13 - 1] = Stmt("look", "csrf_token", 3)
      /\ Program[20 - 1] = Stmt("look", "difficulty", 5)
      /\ Program[22 - 1] = Stmt("look", "tags", 5)
      /\ Program[24 - 1] = Stmt("look", "source", 5)
      /\ Program[26 - 1] = Stmt("look", "estimated_minutes", 5)
      /\ Program[30 - 1] = Stmt("look", "subtask_results", 6)
  BY SMTT(30) DEF Program, Migration, EnsureColumn, SetVersion, DropColumn, Create
<1> QED BY <1>1, ChangeStatements DEF Changes, Stmt

\* A statement adds an added column or drops a dropped one.
LEMMA ChangeArgs ==
    ASSUME NEW i \in 1 .. 34
    PROVE  /\ Program[i].op = "add" => Program[i].arg \in AddedColumns
           /\ Program[i].op = "drop" => Program[i].arg \in DroppedColumns
BY Statements, ChangeStatements DEF Changes, Stmt, AddedColumns, DroppedColumns

\* A migration that a version makes unnecessary has nothing left to do.
LEMMA NothingToDo ==
    ASSUME NEW v \in 0 .. 6, HasSchema(v, Schema), NEW i \in 1 .. 34, v >= Program[i].below
    PROVE  Effect(Program[i])
<1>1. CASE i \in Changes
  BY <1>1, ChangeStatements DEF Changes, Stmt, HasSchema, DroppedColumns, Effect
<1>2. CASE i \notin Changes
  BY <1>2, Statements DEF Effect
<1> QED BY <1>1, <1>2

\* A version is recorded behind all the statements of its migration and of those
\* before it.
LEMMA WorkIsBefore ==
    ASSUME NEW i \in 1 .. 34, Program[i].op = "insert",
           \A j \in 1 .. 34 : j < i => Effect(Program[j])
    PROVE  Program[i].arg \in 0 .. 6 /\ HasSchema(Program[i].arg, Schema)
<1>1. i \in Records
  BY Statements
<1>2. \A j \in Changes : j \in 1 .. 34 /\ (j < i => Effect(Program[j]))
  BY DEF Changes
<1>3. /\ i > 8 => "compiler_output" \in Schema
      /\ i > 13 => "csrf_token" \in Schema
      /\ i > 26 => Schema \cap DroppedColumns = {}
      /\ i > 30 => "subtask_results" \in Schema
  BY <1>2, ChangeStatements DEF Changes, Stmt, Effect, DroppedColumns
<1> QED BY <1>1, <1>3, RecordStatements DEF Records, Stmt, HasSchema

-----------------------------------------------------------------------------
(* The version that is read, and the statement that comes next.              *)

\* A non-empty set of naturals has a least element.
LEMMA Least ==
    ASSUME NEW T \in SUBSET Nat, T # {}
    PROVE  \E m \in T : \A r \in T : m <= r
<1> DEFINE R == OpToRel(<, Nat)
<1>1. IsWellFoundedOn(R, Nat)
  BY NatLessThanWellFounded
<1>2. \A x, y \in Nat : <<x, y>> \in R <=> x < y
  BY DEF OpToRel
<1> HIDE DEF R
<1>3. PICK m \in T : \A r \in T : ~(<<r, m>> \in R)
  BY <1>1, WFMin
<1>4. m \in Nat /\ \A r \in T : r \in Nat /\ ~(r < m)
  BY <1>2, <1>3
<1> QED BY <1>4

\* schema_version(): one of the rows is read, or 0.
LEMMA NewestIsThere == ASSUME versions \subseteq 0 .. 6 PROVE Newest \in versions \cup {0}
<1> DEFINE rows == versions \cup {0}
           T == {6 - x : x \in rows}
<1>1. \A x \in rows : x \in 0 .. 6 /\ 6 - x \in Nat
  OBVIOUS
<1>2. T \in SUBSET Nat /\ T # {}
  BY <1>1
<1>3. PICK m \in T : \A r \in T : m <= r
  BY <1>2, Least
<1>4. PICK x \in rows : m = 6 - x
  BY <1>3
<1>5. \A y \in rows : x >= y
  <2> TAKE y \in rows
  <2>1. 6 - x <= 6 - y
    BY <1>3, <1>4
  <2> QED BY <1>1, <2>1
<1> QED BY <1>5 DEF Newest, Max

\* db_init(): the next statement after those that are skipped is not skipped.
LEMMA SkipFacts ==
    ASSUME NEW i \in 1 .. 34, NEW v \in 0 .. 6, v >= Program[i].below,
           NEW n, n = Min({j \in DOMAIN Program : j > i /\ v < Program[j].below})
    PROVE  /\ n \in 1 .. 34 /\ n > i /\ v < Program[n].below
           /\ \A j \in 1 .. 34 : i <= j /\ j < n => v >= Program[j].below
<1> DEFINE T == {j \in DOMAIN Program : j > i /\ v < Program[j].below}
<1>1. T = {j \in 1 .. 34 : j > i /\ v < Program[j].below}
  BY Statements
<1>2. 34 \in T
  BY <1>1, Versions
<1>3. T \in SUBSET Nat
  BY <1>1
<1>4. \E m \in T : \A r \in T : m <= r
  BY <1>2, <1>3, Least
<1>5. n \in T /\ \A r \in T : n <= r
  BY <1>4 DEF Min
<1> HIDE DEF T
<1>6. n \in 1 .. 34 /\ n > i /\ v < Program[n].below
  BY <1>1, <1>5
<1>7. ASSUME NEW j \in 1 .. 34, i <= j, j < n PROVE v >= Program[j].below
  <2>1. j \notin T
    BY <1>5, <1>6, <1>7
  <2>2. j > i => ~(v < Program[j].below)
    BY <1>1, <2>1
  <2>3. Program[j].below \in Nat
    <3>1. Program[j].below \in {2, 3, 4, 5, 6, 99}
      BY Versions, Zenon
    <3> QED BY <3>1
  <2> QED BY <1>7, <2>2, <2>3
<1> QED BY <1>6, <1>7

-----------------------------------------------------------------------------
(* Every step keeps the invariant.                                           *)

\* Added columns stay, and dropped ones do not come back.
Keeps ==
    /\ \A c \in AddedColumns : c \in Schema => c \in Schema'
    /\ \A c \in DroppedColumns : c \in Schema' => c \in Schema

LEMMA Stable ==
    ASSUME Keeps
    PROVE  /\ \A v \in 0 .. 6 : HasSchema(v, Schema) => HasSchema(v, Schema')
           /\ \A i \in 1 .. 34 : Effect(Program[i]) => Effect(Program[i])'
<1>1. ASSUME NEW v \in 0 .. 6, HasSchema(v, Schema) PROVE HasSchema(v, Schema')
  BY <1>1 DEF Keeps, HasSchema, AddedColumns
<1>2. ASSUME NEW i \in 1 .. 34, Effect(Program[i]) PROVE Effect(Program[i])'
  BY <1>2, ChangeArgs DEF Keeps, Effect
<1> QED BY <1>1, <1>2

\* The statement that p is at.
LEMMA AtFacts ==
    ASSUME TypeOK, NEW p \in Procs, NEW ops, At(p, ops)
    PROVE  /\ pc[p] \in 1 .. 34 /\ Program[pc[p]].op \in ops
           /\ version[p] < Program[pc[p]].below
           /\ pc[p] + 1 \in 1 .. Len(Program) + 1
BY Statements DEF At

LEMMA KeepsStep == TypeOK /\ [Next]_vars => Keeps
<1> SUFFICES ASSUME TypeOK, [Next]_vars PROVE Keeps
  OBVIOUS
<1>0. missed \subseteq DroppedColumns /\ AddedColumns \cap DroppedColumns = {}
  BY DEF TypeOK, AddedColumns, DroppedColumns
<1>1. UNCHANGED <<columns, missed>> => Keeps
  BY DEF Keeps, Schema
<1>2. ASSUME NEW p \in Procs, CreateTable(p) PROVE Keeps
  <2>1. NewColumns(Arg(p)) \cap DroppedColumns = {}
    BY DEF NewColumns, DroppedColumns
  <2> QED BY <1>0, <1>2, <2>1 DEF CreateTable, Advance, Keeps, Schema
<1>3. ASSUME NEW p \in Procs, AddColumn(p) PROVE Keeps
  <2>1. Arg(p) \in AddedColumns
    <3>1. At(p, {"add"})
      BY <1>3 DEF AddColumn
    <3>2. pc[p] \in 1 .. 34 /\ Program[pc[p]].op = "add"
      BY <3>1, AtFacts
    <3> QED BY <3>2, ChangeArgs DEF Arg
  <2>2. missed' = missed /\ (columns' = columns \/ columns' = columns \cup {Arg(p)})
    BY <1>3 DEF AddColumn, Die, Advance
  <2> QED BY <1>0, <2>1, <2>2 DEF Keeps, Schema
<1>4. ASSUME NEW p \in Procs, DropIfExists(p) PROVE Keeps
  <2>1. Arg(p) \in DroppedColumns
    <3>1. At(p, {"drop"})
      BY <1>4 DEF DropIfExists
    <3>2. pc[p] \in 1 .. 34 /\ Program[pc[p]].op = "drop"
      BY <3>1, AtFacts
    <3> QED BY <3>2, ChangeArgs DEF Arg
  <2>2. missed' = missed /\ (columns' = columns \/ columns' = columns \ {Arg(p)})
    BY <1>4 DEF DropIfExists, Die, Advance
  <2> QED BY <1>0, <2>1, <2>2 DEF Keeps, Schema
<1>5. ASSUME NEW p \in Procs, LookFails(p) PROVE Keeps
  BY <1>0, <1>5 DEF LookFails, db, Keeps, Schema
<1>6. ASSUME NEW p \in Procs,
             \/ Seed(p) \/ ReadVersion(p) \/ ReadFails(p) \/ Look(p) \/ DeleteVersion(p)
             \/ InsertVersion(p) \/ Skip(p) \/ Finish(p) \/ Crash(p) \/ Restart(p)
      PROVE  Keeps
  <2>1. UNCHANGED <<columns, missed>>
    BY <1>6 DEF Seed, ReadVersion, ReadFails, Look, DeleteVersion, InsertVersion, Skip,
                Finish, Crash, Restart, Advance, db
  <2> QED BY <1>1, <2>1
<1>7. CASE UNCHANGED vars
  BY <1>1, <1>7 DEF vars
<1> QED BY <1>2, <1>3, <1>4, <1>5, <1>6, <1>7 DEF Next, Step

LEMMA TypeStep == SchemaInv /\ [Next]_vars => TypeOK'
<1> SUFFICES ASSUME SchemaInv, [Next]_vars PROVE TypeOK'
  OBVIOUS
<1>0. TypeOK /\ Len(Program) + 1 \in Nat /\ 1 \in 1 .. Len(Program) + 1
  BY Statements DEF SchemaInv
<1>1. ASSUME NEW p \in Procs, NEW ops, At(p, ops), pc' = [pc EXCEPT ![p] = @ + 1]
      PROVE  pc' \in [Procs -> 1 .. Len(Program) + 1]
  <2>1. pc[p] + 1 \in 1 .. Len(Program) + 1
    BY <1>0, <1>1, AtFacts
  <2> QED BY <1>0, <1>1, <2>1 DEF TypeOK
<1>2. ASSUME NEW p \in Procs, CreateTable(p) PROVE TypeOK'
  <2>1. pc[p] \in 1 .. 34 /\ Program[pc[p]].op = "create" /\ At(p, {"create"})
    BY <1>0, <1>2, AtFacts DEF CreateTable
  <2>2. Arg(p) \in Tables
    BY <2>1, Statements DEF Arg
  <2>3. pc' \in [Procs -> 1 .. Len(Program) + 1]
    BY <1>1, <1>2, <2>1 DEF CreateTable, Advance
  <2>4. NewColumns(Arg(p)) \subseteq Columns
    BY DEF NewColumns, Columns, AddedColumns
  <2> QED BY <1>0, <1>2, <2>2, <2>3, <2>4 DEF CreateTable, Advance, TypeOK
<1>3. ASSUME NEW p \in Procs, Seed(p) PROVE TypeOK'
  <2>1. pc' \in [Procs -> 1 .. Len(Program) + 1]
    BY <1>1, <1>3 DEF Seed, Advance
  <2> QED BY <1>0, <1>3, <2>1 DEF Seed, Advance, TypeOK
<1>4. ASSUME NEW p \in Procs, ReadVersion(p) PROVE TypeOK'
  <2>1. pc' \in [Procs -> 1 .. Len(Program) + 1]
    BY <1>1, <1>4 DEF ReadVersion, Advance
  <2>2. Newest \in 0 .. 6
    <3>1. versions \subseteq 0 .. 6
      BY <1>0 DEF TypeOK
    <3>2. Newest \in versions \cup {0}
      BY <3>1, NewestIsThere
    <3> QED BY <3>1, <3>2
  <2> QED BY <1>0, <1>4, <2>1, <2>2 DEF ReadVersion, Advance, db, TypeOK
<1>5. ASSUME NEW p \in Procs, ReadFails(p) PROVE TypeOK'
  <2>1. pc' \in [Procs -> 1 .. Len(Program) + 1]
    BY <1>1, <1>5 DEF ReadFails
  <2> QED BY <1>0, <1>5, <2>1, CrashAssumption DEF ReadFails, db, TypeOK
<1>6. ASSUME NEW p \in Procs, Look(p) PROVE TypeOK'
  <2>1. pc' \in [Procs -> 1 .. Len(Program) + 1]
    BY <1>1, <1>6 DEF Look, Advance
  <2>2. Exists(Arg(p)) \in BOOLEAN
    BY DEF Exists
  <2> QED BY <1>0, <1>6, <2>1, <2>2 DEF Look, Advance, db, TypeOK
<1>7. ASSUME NEW p \in Procs, LookFails(p) PROVE TypeOK'
  <2>1. pc' \in [Procs -> 1 .. Len(Program) + 1]
    BY <1>1, <1>7 DEF LookFails
  <2> QED BY <1>0, <1>7, <2>1, CrashAssumption DEF LookFails, db, TypeOK
<1>8. ASSUME NEW p \in Procs, AddColumn(p) \/ DropIfExists(p) PROVE TypeOK'
  <2>1. \E ops : At(p, ops)
    BY <1>8 DEF AddColumn, DropIfExists
  <2>2. Die(p) \/ Advance(p)
    BY <1>8 DEF AddColumn, DropIfExists
  <2>3. pc' \in [Procs -> 1 .. Len(Program) + 1]
    <3>1. CASE Die(p)
      BY <1>0, <3>1 DEF Die, TypeOK
    <3>2. CASE Advance(p)
      BY <1>1, <2>1, <3>2 DEF Advance
    <3> QED BY <2>2, <3>1, <3>2
  <2>4. columns' \in SUBSET Columns
    <3>1. CASE AddColumn(p)
      <4>1. At(p, {"add"})
        BY <3>1 DEF AddColumn
      <4>2. pc[p] \in 1 .. 34 /\ Program[pc[p]].op = "add"
        BY <1>0, <4>1, AtFacts
      <4>3. Arg(p) \in Columns
        BY <4>2, ChangeArgs DEF Arg, Columns
      <4> QED BY <1>0, <3>1, <4>3 DEF AddColumn, TypeOK
    <3>2. CASE DropIfExists(p)
      BY <1>0, <3>2 DEF DropIfExists, TypeOK
    <3> QED BY <1>8, <3>1, <3>2
  <2>5. status' \in [Procs -> {"running", "ready", "died", "killed"}] /\ UNCHANGED <<crashes, missed>>
    BY <1>0, <2>2 DEF Die, Advance, TypeOK
  <2>6. found' \in [Procs -> BOOLEAN] /\ UNCHANGED <<versions, tables, version>>
    BY <1>0, <1>8 DEF AddColumn, DropIfExists, TypeOK
  <2> QED BY <1>0, <2>3, <2>4, <2>5, <2>6 DEF TypeOK
<1>9. ASSUME NEW p \in Procs, DeleteVersion(p) PROVE TypeOK'
  <2>1. pc' \in [Procs -> 1 .. Len(Program) + 1]
    BY <1>1, <1>9 DEF DeleteVersion, Advance
  <2> QED BY <1>0, <1>9, <2>1 DEF DeleteVersion, Advance, TypeOK
<1>10. ASSUME NEW p \in Procs, InsertVersion(p) PROVE TypeOK'
  <2>1. pc' \in [Procs -> 1 .. Len(Program) + 1]
    BY <1>1, <1>10 DEF InsertVersion, Advance
  <2>2. At(p, {"insert"})
    BY <1>10 DEF InsertVersion
  <2>3. pc[p] \in 1 .. 34 /\ Program[pc[p]].op = "insert"
    BY <1>0, <2>2, AtFacts
  <2>4. Arg(p) \in 0 .. 6
    BY <2>3, Statements, RecordStatements DEF Arg, Records, Stmt
  <2> QED BY <1>0, <1>10, <2>1, <2>4 DEF InsertVersion, Advance, TypeOK
<1>11. ASSUME NEW p \in Procs, Skip(p) PROVE TypeOK'
  <2>1. /\ pc[p] \in 1 .. 34 /\ version[p] \in 0 .. 6 /\ version[p] >= Program[pc[p]].below
        /\ pc' = [pc EXCEPT ![p] =
                     Min({j \in DOMAIN Program : j > pc[p] /\ version[p] < Program[j].below})]
    BY <1>0, <1>11, Statements DEF Skip, TypeOK
  <2> DEFINE n == Min({j \in DOMAIN Program : j > pc[p] /\ version[p] < Program[j].below})
  <2>2. n \in 1 .. 34
    BY <2>1, SkipFacts
  <2> HIDE DEF n
  <2>3. n \in 1 .. Len(Program) + 1
    BY <2>2, Statements
  <2> QED BY <1>0, <1>11, <2>3 DEF Skip, db, TypeOK, n
<1>12. ASSUME NEW p \in Procs, Finish(p) PROVE TypeOK'
  BY <1>0, <1>12 DEF Finish, db, TypeOK
<1>13. ASSUME NEW p \in Procs, Crash(p) PROVE TypeOK'
  BY <1>0, <1>13, CrashAssumption DEF Crash, db, TypeOK
<1>14. ASSUME NEW p \in Procs, Restart(p) PROVE TypeOK'
  BY <1>0, <1>14 DEF Restart, db, TypeOK
<1>15. CASE UNCHANGED vars
  BY <1>0, <1>15 DEF vars, TypeOK
<1> QED BY <1>2, <1>3, <1>4, <1>5, <1>6, <1>7, <1>8, <1>9, <1>10, <1>11, <1>12, <1>13, <1>14,
           <1>15 DEF Next, Step

\* A statement that changed the schema or nothing has been executed.
LEMMA Advanced ==
    ASSUME SchemaInv, Keeps, NEW p \in Procs, NEW i \in 1 .. 34, pc[p] = i,
           pc'[p] = i + 1, Effect(Program[i])'
    PROVE  Done(p)' /\ (Program[i].op # "look" => LookHolds(p)')
<1>1. Done(p)'
  <2>1. \A j \in 1 .. 34 : j < i => Effect(Program[j])
    BY Statements DEF SchemaInv, Done
  <2>2. ASSUME NEW j \in 1 .. 34, j < i + 1 PROVE Effect(Program[j])'
    <3>1. j < i \/ j = i
      BY <2>2
    <3> QED BY <2>1, <3>1, Stable
  <2> QED BY <2>2, Statements DEF Done
<1>2. ASSUME Program[i].op # "look" PROVE LookHolds(p)'
  <2>1. ASSUME i + 1 \in 1 .. 34 PROVE Program[i + 1].op \notin {"add", "drop"}
    <3> SUFFICES ASSUME Program[i + 1].op \in {"add", "drop"} PROVE FALSE
      OBVIOUS
    <3>1. i + 1 \in Changes
      BY <2>1, Statements
    <3>2. Program[(i + 1) - 1].op = "look"
      BY <3>1, LookIsBefore
    <3>3. (i + 1) - 1 = i
      OBVIOUS
    <3> QED BY <1>2, <3>2, <3>3
  <2> QED BY <2>1, Statements DEF LookHolds
<1> QED BY <1>1, <1>2

\* What p knows stays true while others run.
LEMMA Others ==
    ASSUME SchemaInv, Keeps, NEW p \in Procs,
           pc'[p] = pc[p], version'[p] = version[p], found'[p] = found[p]
    PROVE  HasSchema(version'[p], Schema') /\ Done(p)' /\ LookHolds(p)'
<1>1. version[p] \in 0 .. 6 /\ HasSchema(version[p], Schema) /\ Done(p) /\ LookHolds(p)
  BY DEF SchemaInv, TypeOK
<1>2. HasSchema(version'[p], Schema') /\ Done(p)'
  BY <1>1, Stable, Statements DEF Done
<1>3. LookHolds(p)'
  BY <1>1, ChangeArgs, Statements DEF LookHolds, Keeps
<1> QED BY <1>2, <1>3

\* What p knows when it begins.
LEMMA Beginning ==
    ASSUME NEW p \in Procs, pc'[p] = 1, version'[p] \in 0 .. 6, HasSchema(version'[p], Schema')
    PROVE  HasSchema(version'[p], Schema') /\ Done(p)' /\ LookHolds(p)'
<1>1. \A i \in 1 .. 34 : ~(i < 1)
  OBVIOUS
<1>2. 1 \notin Changes /\ 1 \in 1 .. 34
  BY DEF Changes
<1>3. Program[1].op \notin {"add", "drop"}
  BY <1>2, Statements
<1> QED BY <1>1, <1>3, Statements DEF Done, LookHolds

LEMMA OwnStep ==
    ASSUME SchemaInv, Keeps, NEW p \in Procs,
           Step(p) \/ ReadFails(p) \/ LookFails(p) \/ Crash(p) \/ Restart(p)
    PROVE  HasSchema(version'[p], Schema') /\ Done(p)' /\ LookHolds(p)'
<1>0. /\ TypeOK /\ version[p] \in 0 .. 6 /\ HasSchema(version[p], Schema)
      /\ Done(p) /\ LookHolds(p)
  BY DEF SchemaInv, TypeOK
<1>1. HasSchema(version[p], Schema')
  BY <1>0, Stable
<1>2. ASSUME NEW op, At(p, {op}), op \notin {"look", "add", "drop"},
             pc' = [pc EXCEPT ![p] = @ + 1], HasSchema(version'[p], Schema')
      PROVE  HasSchema(version'[p], Schema') /\ Done(p)' /\ LookHolds(p)'
  <2> DEFINE i == pc[p]
  <2>0. pc[p] \in 1 .. 34 /\ Program[pc[p]].op \in {op}
    BY <1>0, <1>2, AtFacts
  <2>1. i \in 1 .. 34 /\ Program[i].op = op /\ pc'[p] = i + 1
    BY <1>0, <1>2, <2>0 DEF TypeOK
  <2> HIDE DEF i
  <2>2. PICK j \in 1 .. 34 : j = i
    BY <2>1
  <2>3. Effect(Program[j])'
    BY <1>2, <2>1, <2>2 DEF Effect
  <2>4. Done(p)' /\ LookHolds(p)'
    BY <1>2, <2>1, <2>2, <2>3, Advanced DEF i
  <2> QED BY <1>2, <2>4
<1>3. CASE CreateTable(p)
  <2>1. version' = version /\ At(p, {"create"}) /\ pc' = [pc EXCEPT ![p] = @ + 1]
    BY <1>3 DEF CreateTable, Advance
  <2> QED BY <1>1, <1>2, <2>1
<1>4. CASE Seed(p)
  <2>1. version' = version /\ At(p, {"seed"}) /\ pc' = [pc EXCEPT ![p] = @ + 1]
    BY <1>4 DEF Seed, Advance
  <2> QED BY <1>1, <1>2, <2>1
<1>5. CASE ReadVersion(p)
  <2>1. At(p, {"read"}) /\ pc' = [pc EXCEPT ![p] = @ + 1] /\ version'[p] = Newest
        /\ Schema' = Schema
    BY <1>0, <1>5 DEF ReadVersion, Advance, db, Schema, TypeOK
  <2>2. versions \subseteq 0 .. 6
    BY <1>0 DEF TypeOK
  <2>3. Newest \in versions \cup {0}
    BY <2>2, NewestIsThere
  <2>4. HasSchema(0, Schema)
    BY DEF HasSchema
  <2>5. HasSchema(Newest, Schema)
    BY <2>3, <2>4 DEF SchemaInv
  <2> QED BY <1>2, <2>1, <2>5
<1>6. CASE ReadFails(p)
  <2>1. At(p, {"read"}) /\ pc' = [pc EXCEPT ![p] = @ + 1] /\ version'[p] = 0
    BY <1>0, <1>6 DEF ReadFails, TypeOK
  <2>2. HasSchema(version'[p], Schema')
    BY <2>1 DEF HasSchema
  <2> QED BY <1>2, <2>1, <2>2
<1>7. CASE DeleteVersion(p)
  <2>1. version' = version /\ At(p, {"delete"}) /\ pc' = [pc EXCEPT ![p] = @ + 1]
    BY <1>7 DEF DeleteVersion, Advance
  <2> QED BY <1>1, <1>2, <2>1
<1>8. CASE InsertVersion(p)
  <2>1. version' = version /\ At(p, {"insert"}) /\ pc' = [pc EXCEPT ![p] = @ + 1]
    BY <1>8 DEF InsertVersion, Advance
  <2> QED BY <1>1, <1>2, <2>1
<1>9. CASE Look(p) \/ LookFails(p)
  <2>1. At(p, {"look"}) /\ pc' = [pc EXCEPT ![p] = @ + 1] /\ version' = version
        /\ columns' = columns
    BY <1>9 DEF Look, LookFails, Advance, db
  <2>0. pc[p] \in 1 .. 34 /\ Program[pc[p]].op \in {"look"}
    BY <1>0, <2>1, AtFacts
  <2>2. PICK i \in 1 .. 34 : i = pc[p] /\ Program[i].op = "look" /\ pc'[p] = i + 1
    BY <1>0, <2>0, <2>1 DEF TypeOK
  <2>3. Effect(Program[i])'
    BY <2>2 DEF Effect
  <2>4. Done(p)'
    BY <2>2, <2>3, Advanced
  <2>5. /\ found'[p] => Program[i].arg \in columns
        /\ found'[p] => missed' = missed
        /\ ~found'[p] => Program[i].arg \notin columns \/ Program[i].arg \in missed'
    <3>1. CASE Look(p)
      BY <1>0, <2>2, <3>1 DEF Look, Advance, Exists, Arg, TypeOK
    <3>2. CASE LookFails(p)
      BY <1>0, <2>2, <3>2 DEF LookFails, Arg, TypeOK
    <3> QED BY <1>9, <3>1, <3>2
  <2>6. ASSUME i + 1 \in 1 .. 34, Program[i + 1].op \in {"add", "drop"}
        PROVE  /\ Program[i + 1].op = "add" /\ found'[p] => Program[i + 1].arg \in Schema'
               /\ Program[i + 1].op = "drop" /\ ~found'[p] => Program[i + 1].arg \notin Schema'
    <3>1. i + 1 \in Changes
      BY <2>6, Statements
    <3>2. Program[(i + 1) - 1].arg = Program[i + 1].arg
      BY <3>1, LookIsBefore
    <3>3. (i + 1) - 1 = i
      OBVIOUS
    <3>4. Program[i + 1].arg = Program[i].arg
      BY <3>2, <3>3
    <3>5. Program[i + 1].op = "add" => Program[i + 1].arg \notin missed'
      <4>1. missed' \subseteq DroppedColumns
        BY <1>0, <1>9, <2>2 DEF Look, LookFails, Advance, Arg, TypeOK
      <4>2. AddedColumns \cap DroppedColumns = {}
        BY DEF AddedColumns, DroppedColumns
      <4> QED BY <2>6, <4>1, <4>2, ChangeArgs
    <3> QED BY <2>1, <2>5, <3>4, <3>5 DEF Schema
  <2>7. LookHolds(p)'
    BY <2>2, <2>6, Statements DEF LookHolds
  <2> QED BY <1>1, <2>1, <2>4, <2>7
<1>10. CASE AddColumn(p) \/ DropIfExists(p)
  <2>1. version' = version /\ At(p, {"add", "drop"}) /\ (Die(p) \/ Advance(p))
    BY <1>10 DEF AddColumn, DropIfExists, At
  <2>2. CASE Die(p)
    <3>1. pc'[p] = 1
      BY <1>0, <2>2 DEF Die, TypeOK
    <3>2. version'[p] \in 0 .. 6 /\ HasSchema(version'[p], Schema')
      BY <1>0, <1>1, <2>1
    <3> QED BY <3>1, <3>2, Beginning
  <2>3. CASE Advance(p)
    <3>0. /\ pc[p] \in 1 .. 34 /\ Program[pc[p]].op \in {"add", "drop"}
          /\ version[p] < Program[pc[p]].below
      BY <1>0, <2>1, AtFacts
    <3>1. PICK i \in 1 .. 34 : i = pc[p] /\ Program[i].op \in {"add", "drop"} /\ pc'[p] = i + 1
      BY <1>0, <2>3, <3>0 DEF TypeOK, Advance
    <3>2. missed' = missed /\ missed \subseteq DroppedColumns
          /\ AddedColumns \cap DroppedColumns = {}
      BY <1>0, <2>3 DEF Advance, TypeOK, AddedColumns, DroppedColumns
    <3>3. version[p] < Program[i].below
      BY <3>0, <3>1
    <3>4. Effect(Program[i])'
      <4>1. CASE AddColumn(p)
        <5>1. Program[i].op = "add"
          BY <3>1, <4>1 DEF AddColumn, At
        <5>2. Program[i].arg \in AddedColumns
          BY <5>1, ChangeArgs
        <5>3. Program[i].arg \in columns'
          BY <1>0, <3>1, <3>3, <4>1, <5>1, Statements DEF AddColumn, Arg, LookHolds, Schema
        <5> QED BY <3>2, <5>1, <5>2, <5>3 DEF Effect, Schema
      <4>2. CASE DropIfExists(p)
        <5>1. Program[i].op = "drop"
          BY <3>1, <4>2 DEF DropIfExists, At
        <5>2. CASE found[p]
          BY <3>1, <4>2, <5>1, <5>2 DEF DropIfExists, Arg, Effect, Schema
        <5>3. CASE ~found[p]
          <6>1. Program[i].arg \notin Schema
            BY <1>0, <3>1, <3>3, <5>1, <5>3, Statements DEF LookHolds
          <6> QED BY <3>2, <4>2, <5>1, <5>3, <6>1 DEF DropIfExists, Effect, Schema
        <5> QED BY <5>2, <5>3
      <4> QED BY <1>10, <4>1, <4>2
    <3>5. Done(p)' /\ LookHolds(p)'
      BY <3>1, <3>4, Advanced
    <3> QED BY <1>1, <2>1, <3>5
  <2> QED BY <2>1, <2>2, <2>3
<1>11. CASE Skip(p)
  <2>1. /\ pc[p] \in 1 .. 34 /\ version[p] >= Program[pc[p]].below
        /\ pc'[p] = Min({j \in DOMAIN Program : j > pc[p] /\ version[p] < Program[j].below})
        /\ version' = version /\ columns' = columns /\ missed' = missed
    BY <1>0, <1>11, Statements DEF Skip, db, TypeOK
  <2>2. PICK i \in 1 .. 34, n \in 1 .. 34, v \in 0 .. 6 :
           /\ i = pc[p] /\ n = pc'[p] /\ v = version[p]
           /\ n > i /\ v < Program[n].below
           /\ \A j \in 1 .. 34 : i <= j /\ j < n => v >= Program[j].below
    <3> DEFINE a == pc[p]
               b == pc'[p]
               w == version[p]
    <3>1. /\ a \in 1 .. 34 /\ w \in 0 .. 6 /\ w >= Program[a].below
          /\ b = Min({j \in DOMAIN Program : j > a /\ w < Program[j].below})
      BY <1>0, <2>1
    <3> HIDE DEF a, b, w
    <3>2. /\ b \in 1 .. 34 /\ b > a /\ w < Program[b].below
          /\ \A j \in 1 .. 34 : a <= j /\ j < b => w >= Program[j].below
      BY <3>1, SkipFacts
    <3> QED BY <3>1, <3>2 DEF a, b, w
  <2>3. Done(p)'
    <3>1. ASSUME NEW j \in 1 .. 34, j < n PROVE Effect(Program[j])
      <4>1. CASE j < i
        BY <1>0, <2>2, <4>1, Statements DEF Done
      <4>2. CASE i <= j
        BY <1>0, <2>2, <3>1, <4>2, NothingToDo
      <4> QED BY <4>1, <4>2
    <3>2. \A j \in 1 .. 34 : j < n => Effect(Program[j])'
      BY <3>1, Stable
    <3> QED BY <2>2, <3>2, Statements DEF Done
  <2>4. Program[n].op \notin {"add", "drop"}
    <3> SUFFICES ASSUME Program[n].op \in {"add", "drop"} PROVE FALSE
      OBVIOUS
    <3>1. n \in Changes
      BY Statements
    <3>2. n - 1 \in 1 .. 34 /\ Program[n - 1].below = Program[n].below
      BY <3>1, LookIsBefore
    <3>3. v >= Program[n - 1].below
      BY <2>2, <3>2
    <3>4. Program[n].below \in Nat
      BY Versions
    <3> QED BY <2>2, <3>2, <3>3, <3>4
  <2>5. LookHolds(p)'
    BY <2>2, <2>4 DEF LookHolds
  <2> QED BY <1>1, <2>1, <2>3, <2>5
<1>12. CASE Finish(p)
  <2>1. pc'[p] = pc[p] /\ version'[p] = version[p] /\ found'[p] = found[p]
    BY <1>12 DEF Finish
  <2> QED BY <2>1, Others
<1>13. CASE Crash(p)
  <2>1. pc'[p] = 1 /\ version'[p] = 0
    BY <1>0, <1>13 DEF Crash, TypeOK
  <2>2. HasSchema(0, Schema')
    BY DEF HasSchema
  <2> QED BY <2>1, <2>2, Beginning
<1>14. CASE Restart(p)
  <2>1. pc'[p] = 1 /\ version'[p] = 0
    BY <1>0, <1>14 DEF Restart, TypeOK, SchemaInv, Stopped
  <2>2. HasSchema(0, Schema')
    BY DEF HasSchema
  <2> QED BY <2>1, <2>2, Beginning
<1> QED BY <1>3, <1>4, <1>5, <1>6, <1>7, <1>8, <1>9, <1>10, <1>11, <1>12, <1>13, <1>14 DEF Step

LEMMA StoppedStep == SchemaInv /\ [Next]_vars => \A q \in Procs : Stopped(q)'
<1> SUFFICES ASSUME SchemaInv, [Next]_vars, NEW q \in Procs PROVE Stopped(q)'
  OBVIOUS
<1>0. TypeOK /\ Stopped(q)
  BY DEF SchemaInv
<1>1. ASSUME NEW p \in Procs, status[p] = "running", UNCHANGED status, NEW n,
             pc' = [pc EXCEPT ![p] = n]
      PROVE  Stopped(q)'
  BY <1>0, <1>1 DEF Stopped, TypeOK
<1>2. ASSUME NEW p \in Procs, NEW s, status' = [status EXCEPT ![p] = s],
             pc' = [pc EXCEPT ![p] = 1]
      PROVE  Stopped(q)'
  BY <1>0, <1>2 DEF Stopped, TypeOK
<1>3. ASSUME NEW p \in Procs, Step(p) \/ ReadFails(p) \/ LookFails(p) PROVE Stopped(q)'
  <2>1. CASE Finish(p)
    BY <1>0, <2>1 DEF Finish, Stopped, TypeOK
  <2>2. CASE Skip(p)
    BY <1>1, <2>2 DEF Skip
  <2>3. CASE AddColumn(p) \/ DropIfExists(p)
    <3>1. status[p] = "running" /\ (Die(p) \/ Advance(p))
      BY <2>3 DEF AddColumn, DropIfExists, At
    <3>2. CASE Die(p)
      BY <1>2, <3>2 DEF Die
    <3>3. CASE Advance(p)
      BY <1>1, <3>1, <3>3 DEF Advance
    <3> QED BY <3>1, <3>2, <3>3
  <2>4. CASE \/ CreateTable(p) \/ Seed(p) \/ ReadVersion(p) \/ Look(p) \/ DeleteVersion(p)
             \/ InsertVersion(p) \/ ReadFails(p) \/ LookFails(p)
    <3>1. status[p] = "running" /\ UNCHANGED status /\ pc' = [pc EXCEPT ![p] = @ + 1]
      BY <2>4 DEF CreateTable, Seed, ReadVersion, Look, DeleteVersion, InsertVersion,
                  ReadFails, LookFails, At, Advance
    <3> QED BY <1>1, <3>1
  <2> QED BY <1>3, <2>1, <2>2, <2>3, <2>4 DEF Step
<1>4. ASSUME NEW p \in Procs, Crash(p) PROVE Stopped(q)'
  BY <1>2, <1>4 DEF Crash
<1>5. ASSUME NEW p \in Procs, Restart(p) PROVE Stopped(q)'
  BY <1>0, <1>5 DEF Restart, Stopped, TypeOK
<1>6. CASE UNCHANGED vars
  BY <1>0, <1>6 DEF vars, Stopped
<1> QED BY <1>3, <1>4, <1>5, <1>6 DEF Next

LEMMA ProcsStep ==
    SchemaInv /\ [Next]_vars =>
        \A q \in Procs : HasSchema(version'[q], Schema') /\ Done(q)' /\ LookHolds(q)'
<1> SUFFICES ASSUME SchemaInv, [Next]_vars, NEW q \in Procs
             PROVE  HasSchema(version'[q], Schema') /\ Done(q)' /\ LookHolds(q)'
  OBVIOUS
<1>0. TypeOK /\ Keeps
  BY KeepsStep DEF SchemaInv
<1>1. ASSUME NEW p \in Procs,
             Step(p) \/ ReadFails(p) \/ LookFails(p) \/ Crash(p) \/ Restart(p)
      PROVE  HasSchema(version'[q], Schema') /\ Done(q)' /\ LookHolds(q)'
  <2>1. CASE p = q
    BY <1>0, <1>1, <2>1, OwnStep
  <2>2. CASE p # q
    <3>1. \E n : pc' = [pc EXCEPT ![p] = n]
      <4>1. Die(p) \/ Advance(p) => \E n : pc' = [pc EXCEPT ![p] = n]
        BY DEF Die, Advance
      <4>2. UNCHANGED pc => \E n : pc' = [pc EXCEPT ![p] = n]
        BY <1>0 DEF TypeOK
      <4> QED BY <1>1, <4>1, <4>2 DEF Step, CreateTable, Seed, ReadVersion, ReadFails, Look,
                  LookFails, AddColumn, DropIfExists, DeleteVersion, InsertVersion, Skip,
                  Finish, Crash, Restart
    <3>2. \E n : version' = [version EXCEPT ![p] = n]
      <4>1. UNCHANGED version => \E n : version' = [version EXCEPT ![p] = n]
        BY <1>0 DEF TypeOK
      <4> QED BY <1>1, <4>1 DEF Step, CreateTable, Seed, ReadVersion, ReadFails, Look,
                  LookFails, AddColumn, DropIfExists, DeleteVersion, InsertVersion, Skip,
                  Finish, Crash, Restart
    <3>3. \E n : found' = [found EXCEPT ![p] = n]
      <4>1. UNCHANGED found => \E n : found' = [found EXCEPT ![p] = n]
        BY <1>0 DEF TypeOK
      <4> QED BY <1>1, <4>1 DEF Step, CreateTable, Seed, ReadVersion, ReadFails, Look,
                  LookFails, AddColumn, DropIfExists, DeleteVersion, InsertVersion, Skip,
                  Finish, Crash, Restart
    <3>4. pc'[q] = pc[q] /\ version'[q] = version[q] /\ found'[q] = found[q]
      BY <1>0, <2>2, <3>1, <3>2, <3>3 DEF TypeOK
    <3> QED BY <1>0, <3>4, Others
  <2> QED BY <2>1, <2>2
<1>2. CASE UNCHANGED vars
  <2>1. pc'[q] = pc[q] /\ version'[q] = version[q] /\ found'[q] = found[q]
    BY <1>2 DEF vars
  <2> QED BY <1>0, <2>1, Others
<1> QED BY <1>1, <1>2 DEF Next

\* set_schema_version: a version is recorded when its work is done.
LEMMA VersionsStep ==
    SchemaInv /\ [Next]_vars => \A v \in versions' : HasSchema(v, Schema')
<1> SUFFICES ASSUME SchemaInv, [Next]_vars, NEW v \in versions' PROVE HasSchema(v, Schema')
  OBVIOUS
<1>0. TypeOK /\ Keeps
  BY KeepsStep DEF SchemaInv
<1>1. v \in versions => HasSchema(v, Schema')
  BY <1>0, Stable DEF SchemaInv, TypeOK
<1>2. ASSUME NEW p \in Procs, InsertVersion(p) PROVE HasSchema(v, Schema')
  <2>1. At(p, {"insert"}) /\ versions' = versions \cup {Arg(p)}
    BY <1>2 DEF InsertVersion
  <2>2. pc[p] \in 1 .. 34 /\ Program[pc[p]].op \in {"insert"}
    BY <1>0, <2>1, AtFacts
  <2>3. \A j \in 1 .. 34 : j < pc[p] => Effect(Program[j])
    BY Statements DEF SchemaInv, Done
  <2>4. Arg(p) \in 0 .. 6 /\ HasSchema(Arg(p), Schema)
    BY <2>2, <2>3, WorkIsBefore DEF Arg
  <2>5. HasSchema(Arg(p), Schema')
    BY <1>0, <2>4, Stable
  <2> QED BY <1>1, <2>1, <2>5
<1>3. ASSUME NEW p \in Procs, Seed(p) PROVE HasSchema(v, Schema')
  <2>1. HasSchema(0, Schema')
    BY DEF HasSchema
  <2> QED BY <1>1, <1>3, <2>1 DEF Seed
<1>4. ASSUME NEW p \in Procs,
             \/ CreateTable(p) \/ ReadVersion(p) \/ ReadFails(p) \/ Look(p) \/ LookFails(p)
             \/ AddColumn(p) \/ DropIfExists(p) \/ DeleteVersion(p) \/ Skip(p) \/ Finish(p)
             \/ Crash(p) \/ Restart(p)
      PROVE  HasSchema(v, Schema')
  <2>1. versions' \subseteq versions
    BY <1>4 DEF CreateTable, ReadVersion, ReadFails, Look, LookFails, AddColumn, DropIfExists,
                DeleteVersion, Skip, Finish, Crash, Restart, db
  <2> QED BY <1>1, <2>1
<1>5. CASE UNCHANGED vars
  BY <1>1, <1>5 DEF vars
<1> QED BY <1>2, <1>3, <1>4, <1>5 DEF Next, Step

LEMMA InitSchema == Init => SchemaInv
<1> SUFFICES ASSUME Init PROVE SchemaInv
  OBVIOUS
<1>1. PICK d \in Databases : versions = d.versions /\ tables = d.tables /\ columns = d.columns
  BY DEF Init
<1>2. /\ d.versions \subseteq 0 .. 6 /\ d.tables \subseteq Tables /\ d.columns \subseteq Columns
      /\ \A v \in d.versions : HasSchema(v, d.columns)
  BY DatabaseAssumption
<1>3. Schema = columns /\ missed = {} /\ crashes = 0
  BY DEF Init, Schema
<1>4. 1 \in 1 .. Len(Program) + 1
  BY Statements
<1>5. TypeOK
  BY <1>1, <1>2, <1>4, CrashAssumption DEF Init, TypeOK
<1>6. ASSUME NEW p \in Procs
      PROVE  HasSchema(version[p], Schema) /\ Done(p) /\ LookHolds(p) /\ Stopped(p)
  <2>1. pc[p] = 1 /\ version[p] = 0
    BY DEF Init
  <2>2. HasSchema(0, Schema)
    BY DEF HasSchema
  <2>3. \A i \in 1 .. 34 : ~(i < 1)
    OBVIOUS
  <2>4. 1 \notin Changes /\ 1 \in 1 .. 34
    BY DEF Changes
  <2>5. Program[1].op \notin {"add", "drop"}
    BY <2>4, Statements
  <2> QED BY <2>1, <2>2, <2>3, <2>5, Statements DEF Done, LookHolds, Stopped
<1> QED BY <1>1, <1>2, <1>3, <1>5, <1>6 DEF SchemaInv

\* db_init(), run by any number of processes at once, keeps what each of them
\* relies on.
THEOREM SchemaCorrect == Spec => []SchemaInv
<1>1. SchemaInv /\ [Next]_vars => SchemaInv'
  BY TypeStep, VersionsStep, ProcsStep, StoppedStep DEF SchemaInv, Schema
<1> QED BY InitSchema, <1>1, PTL DEF Spec

\* Every variable keeps its type.
THEOREM SchemaTyped == Spec => []TypeOK
<1>1. SchemaInv => TypeOK
  BY DEF SchemaInv
<1> QED BY <1>1, SchemaCorrect, PTL

\* The schema is always that of the version the database claims to have, also in
\* the middle of a migration and behind a crash.
THEOREM VersionIsKept == Spec => []VersionImpliesSchema
<1>1. SchemaInv => VersionImpliesSchema
  <2> SUFFICES ASSUME SchemaInv PROVE VersionImpliesSchema
    OBVIOUS
  <2>1. versions \subseteq 0 .. 6
    BY DEF SchemaInv, TypeOK
  <2>2. Newest \in versions \cup {0}
    BY <2>1, NewestIsThere
  <2>3. HasSchema(0, columns \ missed)
    BY DEF HasSchema
  <2> QED BY <2>2, <2>3 DEF SchemaInv, VersionImpliesSchema, Schema
<1> QED BY <1>1, SchemaCorrect, PTL
=============================================================================
