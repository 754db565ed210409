------------------------------- MODULE Posts -------------------------------
(* ahc_echo(): browsers and scripts post forms to tle_web, each in pieces.   *)
(* Every piece and the end of the body are calls of their own, which look up *)
(* the session or the password anew; between them other requests are served, *)
(* but never within a call: there is one polling thread.                     *)
EXTENDS PostForm, Accounts

CONSTANTS
    Browsers,  \* who keeps a cookie
    Forms,     \* Forms[page]: the forms posted there, csrf to be filled in
    Logins,    \* Logins[page]: the [name, password] sent there with basic auth
    Admin      \* TLE_ADMIN_PASSWORD

Pages == {"submit", "bookmark", "register", "login", "admin"}
NoLogin == [name |-> <<>>, password |-> <<>>]
NoSender == [page |-> "submit", browser |-> "none", token |-> 0, opened |-> 0,
             login |-> NoLogin, origin |-> FALSE]
ASSUME NobodyAssumption == "none" \notin Browsers
ASSUME FormAssumption == Forms \in [Pages -> SUBSET Seq(Fields)]
ASSUME LoginAssumption == Logins \in [Pages -> SUBSET [name : Texts, password : Texts]]

VARIABLES
    jar,      \* jar[b]: the session token in b's cookie, or 0
    shown,    \* shown[b]: the session whose csrf token b's page holds, or 0
    left,     \* left[b]: the sessions that b has asked to end or logged in over
    sender,   \* the form's page and headers: token, basic auth, origin; for the
              \* properties, its browser and the session its page was opened in
    who,      \* the locals of the last call, NoCall outside it
    outcome   \* what the request came to

vars == <<formVars, accountVars, jar, shown, left, sender, who, outcome>>

NoCall == [user |-> 0, session |-> 0, fail |-> TRUE, called |-> FALSE, hit |-> FALSE]
Outcome(kind) == [kind |-> kind, user |-> 0, id |-> 0, hit |-> who.hit]
Kinds == {"none", "coming", "csrf", "both", "empty", "limited", "denied",
          "error", "submitted", "bookmarked", "registered", "taken", "invalid",
          "logged in", "login failed", "admin", "not found"}
Tokens == 0 .. MaxSessions

TypeOK ==
    /\ FormTypeOK /\ AccountsTypeOK
    /\ jar \in [Browsers -> Tokens]
    /\ shown \in [Browsers -> Tokens]
    /\ left \in [Browsers -> SUBSET Tokens]
    /\ who.user \in 0 .. Len(users) /\ who.session \in Tokens
    /\ outcome.kind \in Kinds /\ outcome.user \in 0 .. Len(users)

Init ==
    /\ FormInit /\ AccountsInit
    /\ jar = [b \in Browsers |-> 0]
    /\ shown = [b \in Browsers |-> 0]
    /\ left = [b \in Browsers |-> {}]
    /\ sender = NoSender
    /\ who = NoCall
    /\ outcome = Outcome("none")

-----------------------------------------------------------------------------
(* The requests that are served at once, between two calls for the form.     *)

\* No call runs, and no answer is on its way.
Between == ~who.called /\ outcome.kind \in {"none", "coming"}

\* A csrf token fills its 65 bytes.
CsrfText(token) ==
    IF token = 0 THEN <<>> ELSE [i \in 1 .. Limit["csrf"] |-> token]

\* A page with a form is opened.  It holds the csrf token of a live session.
Open(b) ==
    /\ Between
    /\ shown' = [shown EXCEPT ![b] = IF SessionLookup(jar[b]) THEN jar[b] ELSE 0]
    /\ UNCHANGED <<formVars, accountVars, jar, left, sender, who, outcome>>

\* The session of the cookie is destroyed and the cookie cleared, if the answer
\* reaches the browser.
Logout(b) ==
    /\ Between
    /\ jar[b] # 0
    /\ SessionDestroy(jar[b])
    /\ left' = [left EXCEPT ![b] = @ \cup {jar[b]}]
    /\ jar' \in {jar, [jar EXCEPT ![b] = 0]}
    /\ UNCHANGED <<formVars, users, shown, sender, who, outcome>>

-----------------------------------------------------------------------------
(* A form is posted: its headers, its pieces, its end.                       *)

Filled(form, csrf) ==
    [i \in DOMAIN form |->
        IF form[i].name = "csrf" THEN [form[i] EXCEPT !.value = csrf] ELSE form[i]]

Idle == outcome.kind = "none"

\* A browser sends its cookie and the csrf token of its page, and a name and a
\* password if it was asked for them before.  A script is one without cookie and
\* page.
PostFrom(page, b) ==
    /\ Between /\ Idle
    /\ \E form \in Forms[page] : NewForm(Filled(form, CsrfText(shown[b])))
    /\ \E login \in Logins[page] \cup {NoLogin} :
       \E origin \in IF page \in {"bookmark", "admin"} THEN BOOLEAN ELSE {TRUE} :
          sender' = [page |-> page, browser |-> b, token |-> jar[b], opened |-> shown[b],
                     login |-> login, origin |-> origin]
    /\ outcome' = Outcome("coming")
    /\ UNCHANGED <<accountVars, jar, shown, left, who>>

Post(page) == \E b \in Browsers : PostFrom(page, b)

\* cookie_value and same_origin_request, of the headers.
CookieValue == sender.token
SameOrigin == sender.origin

\* The password that goes with the request, which is dropped if it is too long.
TooLong == Len(sender.login.password) > Limit["password"]
Password == IF TooLong THEN <<>> ELSE sender.login.password

\* user_id, auth_fail and the rest after the session of the cookie or the basic
\* auth was looked up.
Caller(user, session, fail, hit) ==
    [user |-> user, session |-> session, fail |-> fail, called |-> TRUE, hit |-> hit]
BasicCaller(valid, hit) ==
    IF valid /\ ~TooLong THEN Caller(IdOf(sender.login.name), 0, FALSE, hit)
    ELSE Caller(0, 0, TRUE, hit)

\* The name and the password count only without a session.  A call that fails
\* leaves the request without a user, but if it is the last one, for the id,
\* authenticated all the same.
Authenticate ==
    LET name == sender.login.name
        password == sender.login.password
    IN  \/ /\ SessionLookup(CookieValue)
           /\ who' = Caller(UserOf(CookieValue), CookieValue, TooLong, FALSE)
           /\ UNCHANGED <<users, faults>>
        \/ /\ SessionLookup(CookieValue)
           /\ Fault
           /\ \E valid \in {Valid(name, password), FALSE} :
                 /\ who' = BasicCaller(valid, TRUE)
                 /\ IF valid THEN Upgrade(name, password) ELSE UNCHANGED users
        \/ /\ ~SessionLookup(CookieValue)
           /\ \E valid \in BOOLEAN :
                 /\ ValidAuth(name, password, valid)
                 /\ who' = BasicCaller(valid, faults' # faults)
        \/ /\ ~SessionLookup(CookieValue)
           /\ Valid(name, password) /\ Upgrade(name, password) /\ ~TooLong
           /\ Fault
           /\ who' = Caller(0, 0, FALSE, TRUE)

\* A call with a piece of the body: what it has looked up is not used, but it
\* may have replaced the hash.
TakePiece ==
    /\ Between /\ ~Idle
    /\ Piece
    /\ Upgrade(sender.login.name, sender.login.password)
    /\ UNCHANGED <<sessions, made, faults, jar, shown, left, sender, who, outcome>>

\* The last call begins.
LastCall ==
    /\ Between /\ ~Idle
    /\ Ended
    /\ Authenticate
    /\ UNCHANGED <<formVars, sessions, made, jar, shown, left, sender, outcome>>

\* The connection ends and what it held is gone: the answer is sent, or the
\* client goes away, is timed out after ten seconds, or tle_web restarts.
Close ==
    /\ ~who.called /\ ~Idle
    /\ NewForm(<<>>)
    /\ sender' = NoSender
    /\ outcome' = Outcome("none")
    /\ UNCHANGED <<accountVars, jar, shown, left, who>>

-----------------------------------------------------------------------------
(* The pages, in the rest of the last call.                                  *)

Handling(page) == who.called /\ sender.page = page

Answer(o) ==
    /\ outcome' = o
    /\ who' = NoCall
    /\ UNCHANGED <<formVars, sender>>
NoTable == UNCHANGED <<accountVars, jar, shown, left>>

\* Two empty texts are the same.
CsrfMatches == text["csrf"] = CsrfText(who.session)

\* csrf_valid, which compares two strings of 64 characters.
CsrfValid == who.session # 0 /\ text["csrf"] = CsrfText(who.session)

\* Whom the submission is filed under.
Owner == IF flag["is_anonymous"] THEN 0 ELSE who.user

\* Up to the row that enqueue_submission makes (JobQueue), and with the answer
\* of the limiter (RateLimit).  The insert fails if the task does not exist.
SubmitOutcome ==
    IF who.session # 0 /\ ~CsrfValid THEN {Outcome("csrf")}
    ELSE IF seen = Code THEN {Outcome("both")}
    ELSE IF text["code"] = <<>> THEN {Outcome("empty")}
    ELSE LET filed == [Outcome("submitted") EXCEPT !.user = Owner, !.id = number["task_pk"]]
         IN  IF flag["is_anonymous"]
             THEN {Outcome("limited"), filed, Outcome("error")}
             ELSE IF who.fail THEN {Outcome("denied")} ELSE {filed, Outcome("error")}
HandleSubmit ==
    /\ Handling("submit")
    /\ \E o \in SubmitOutcome : Answer(o)
    /\ NoTable

\* Up to the row that toggle_bookmark adds or removes (Listing).
HandleBookmark ==
    /\ Handling("bookmark")
    /\ \/ ~(CsrfValid /\ SameOrigin) /\ Answer(Outcome("denied"))
       \/ /\ CsrfValid /\ SameOrigin
          /\ \/ Answer([Outcome("bookmarked") EXCEPT !.user = who.user])
             \/ Answer(Outcome("error"))
    /\ NoTable

HandleRegister ==
    /\ Handling("register")
    /\ \E result \in {"registered", "taken", "invalid"} :
          /\ Register(text["username"], text["password"], result)
          /\ Answer(Outcome(result))
    /\ UNCHANGED <<sessions, made, jar, shown, left>>

\* The answer of a login brings the cookie, in the place of another that the
\* browser may have, unless it is lost.
NewCookie(token) ==
    \/ UNCHANGED <<jar, left>>
    \/ \E b \in {sender.browser} \cap Browsers :
          /\ jar' = [jar EXCEPT ![b] = token]
          /\ left' = [left EXCEPT ![b] = @ \cup ({jar[b]} \ {0})]

\* The password is looked up in one step and the session made in the next.
HandleLogin ==
    /\ Handling("login")
    /\ LET name == text["username"]
           password == text["password"]
       IN  \/ /\ Valid(name, password) /\ Upgrade(name, password)
              /\ \E token \in Tokens :
                    /\ SessionCreate(IdOf(name), token)
                    /\ IF token = 0
                       THEN /\ Answer([Outcome("login failed") EXCEPT !.hit = TRUE])
                            /\ UNCHANGED <<jar, left>>
                       ELSE /\ Answer([Outcome("logged in") EXCEPT !.user = IdOf(name)])
                            /\ NewCookie(token)
           \/ /\ ~Valid(name, password)
              /\ Answer(Outcome("login failed"))
              /\ UNCHANGED <<accountVars, jar, left>>
    /\ UNCHANGED shown

\* Rejudging is in JobQueue and the visibility of tasks in TaskSync and Listing.
\* admin_action is set by any piece of an id that was taken.
ActionSet ==
    \E i \in 1 .. Len(posted) - Len(rest) :
        posted[i].name = "admin_id" /\ posted[i].value # <<>>
HandleAdmin ==
    /\ Handling("admin")
    /\ IF Admin = <<>> \/ Password # Admin \/ ~SameOrigin THEN Answer(Outcome("denied"))
       ELSE IF ~ActionSet THEN Answer(Outcome("not found"))
       ELSE \/ Answer([Outcome("admin") EXCEPT !.id = number["admin_id"]])
            \/ Answer(Outcome("not found"))
            \/ Answer(Outcome("error"))
    /\ NoTable

Next ==
    \/ \E b \in Browsers : Open(b) \/ Logout(b)
    \/ \E page \in Pages : Post(page)
    \/ TakePiece \/ LastCall \/ Close
    \/ HandleSubmit \/ HandleBookmark \/ HandleRegister \/ HandleLogin \/ HandleAdmin

Spec == Init /\ [][Next]_vars

-----------------------------------------------------------------------------
(* Properties.                                                               *)

\* An account gets the name and the password that were posted.  Only after a
\* refusal, which nobody looks at, may it get the beginning of one of them, and
\* with the page's form, where the name comes first, only of the password.
RegistersWhatWasPosted ==
    outcome.kind = "registered" /\ Once("username") /\ Once("password") =>
        LET u == users[Len(users)]
        IN  /\ IsPrefix(u.name, Given("username"))
            /\ IsPrefix(u.password, Given("password"))
            /\ ~refused => u.name = Given("username") /\ u.password = Given("password")
            /\ Before("username", "password") => u.name = Given("username")
            /\ Before("password", "username") => u.password = Given("password")

\* What is filed under a user was sent with a session that user opened, or with
\* the user's name and password, and its form does not say that it is anonymous,
\* unless that was cut.  A submission is anonymous only if the last piece of that
\* field said so, or if the user was lost when a call of the database failed.
FiledUnderSender ==
    outcome.kind \in {"submitted", "bookmarked"} =>
        IF outcome.user # 0
        THEN /\ \/ sender.token # 0 /\ made[sender.token] = outcome.user
                \/ [name |-> users[outcome.user].name,
                    password |-> users[outcome.user].password] = sender.login
             /\ outcome.kind = "submitted" /\ Once("is_anonymous")
                /\ "is_anonymous" \in Arrived \ cut => Given("is_anonymous") # On
        ELSE outcome.kind = "submitted" /\ (flag["is_anonymous"] \/ outcome.hit)

\* A page that was opened in a session works until its own browser leaves that
\* session, by asking for a logout or by another login, which brings another
\* cookie.  Whatever other browsers do and whatever answers are lost, the judge
\* does not turn the form away, unless a call of the database fails, something
\* that is posted before the token is refused or a password that is too long for
\* tle_web goes with the form.
PagesKeepWorking ==
    /\ outcome.kind \in {"csrf", "denied"}
    /\ sender.page = "submit" \/ (sender.page = "bookmark" /\ sender.origin)
    /\ sender.opened # 0
    /\ "csrf" \in Arrived /\ Once("csrf")
    => outcome.hit \/ TooLong \/ sender.opened \in left[sender.browser]
=============================================================================
