------------------------------ MODULE MCPosts ------------------------------
(* Posts with short limits, an old user, and the forms that the pages have.  *)
EXTENDS Posts, TLC

CONSTANTS b1, b2

F(name, value) == [name |-> name, value |-> value]
Ann == <<1>>
Bob == <<2>>

MCLimit == [f \in {"username", "password", "csrf", "code"} |->
               IF f = "username" THEN 1 ELSE 2]
MCOldUsers == <<[name |-> Ann, password |-> <<3>>]>>

MCForms == [
    submit |-> {<<F("task_pk", <<4>>), F("csrf", <<>>), F("code", <<5, 6, 7>>)>>,
                <<F("csrf", <<>>), F("file", <<8>>), F("code", <<>>), F("is_anonymous", On)>>,
                <<F("code", <<5>>), F("file", <<8>>)>>},
    bookmark |-> {<<F("csrf", <<>>)>>},
    register |-> {<<F("username", Bob), F("password", <<4, 5, 4>>)>>},
    login |-> {<<F("username", Ann), F("password", <<3>>)>>,
               <<F("username", Bob), F("password", <<4, 5>>)>>},
    admin |-> {<<F("admin_id", <<7, 1>>)>>, <<F("admin_id", <<>>)>>, <<F("other", <<1>>)>>}]
MCLogins == [page \in Pages |->
    CASE page = "submit" -> {MCOldUsers[1], [name |-> Ann, password |-> <<3, 3, 3>>]}
      [] page \in {"admin", "login"} -> {MCOldUsers[1]}
      [] OTHER -> {}]
MCAdmin == <<3>>
Symmetry == Permutations({b1, b2})
=============================================================================
