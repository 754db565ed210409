--------------------------- MODULE MCSchemaInit ---------------------------
(* SchemaInit from no database, one from before schema versions, and one of  *)
(* each version since.                                                       *)
EXTENDS SchemaInit

Web == "tle_web"
Grader == "tle_grader"

\* What a database of version v holds.
Old(v) == [
    versions |-> {v},
    tables |-> Tables \ (IF v < 4 THEN {"bookmarks", "subtask_groups"} ELSE {}),
    columns |-> (IF v >= 2 THEN {"compiler_output"} ELSE {})
        \cup (IF v >= 3 THEN {"csrf_token"} ELSE {})
        \cup (IF v < 5 THEN DroppedColumns ELSE {})
        \cup (IF v >= 6 THEN {"subtask_results"} ELSE {})]

Fresh == [versions |-> {}, tables |-> {}, columns |-> {}]
Unversioned == [versions |-> {}, tables |-> {"tasks", "users", "submissions"},
                columns |-> DroppedColumns]
MCDatabases == {Fresh, Unversioned} \cup {Old(v) : v \in 2 .. 6}
=============================================================================
