------------------------------ MODULE Accounts ------------------------------
(* user.c: the tables users and sessions, which outlive the processes, and   *)
(* the functions on them.  Each runs under db_lock and is one step; what it  *)
(* may return is its last argument.  Posts says who calls them.              *)
EXTENDS Naturals, Sequences, FiniteSets

CONSTANTS
    OldUsers,     \* the users before this version: [name, password]
    MaxSessions,  \* bound on the sessions ever created
    MaxUsers,     \* bound on the users
    MaxFaults     \* bound on the calls of the database or of crypt that fail

ASSUME AccountBounds == {MaxSessions, MaxUsers, MaxFaults} \subseteq Nat

\* A name or a password, whose characters do not matter.
Texts == Seq(Nat)

\* The column username is UNIQUE since the first version.
ASSUME OldUserAssumption ==
    /\ OldUsers \in Seq([name : Texts, password : Texts]) /\ Len(OldUsers) <= MaxUsers
    /\ \A i, j \in DOMAIN OldUsers : OldUsers[i].name = OldUsers[j].name => i = j

VARIABLES
    users,     \* users[id]: name, hash, and the password given at registration
    sessions,  \* the tokens in the table sessions
    made,      \* made[token]: the user of each session ever created
    faults     \* how many calls have failed

accountVars == <<users, sessions, made, faults>>

\* Two passwords have one hash only if they are the same.
Md5(password) == [kind |-> "md5", of |-> password]
Sha512(password) == [kind |-> "$6$", of |-> password]
Row(u, hash) == [name |-> u.name, hash |-> hash, password |-> u.password]

UserRows == [name : Texts, hash : [kind : {"md5", "$6$"}, of : Texts], password : Texts]

AccountsTypeOK ==
    /\ users \in Seq(UserRows) /\ Len(users) <= MaxUsers
    /\ made \in Seq(DOMAIN users) /\ Len(made) <= MaxSessions
    /\ sessions \subseteq DOMAIN made
    /\ faults \in 0 .. MaxFaults

AccountsInit ==
    /\ users = [i \in DOMAIN OldUsers |-> Row(OldUsers[i], Md5(OldUsers[i].password))]
    /\ sessions = {}
    /\ made = <<>>
    /\ faults = 0

\* A call may fail, for want of memory, entropy, disk or a lock.
Fault == faults < MaxFaults /\ faults' = faults + 1

-----------------------------------------------------------------------------
\* user_fetch_id_by_username, -1 being 0 here.
IdOf(name) ==
    IF \E i \in DOMAIN users : users[i].name = name
    THEN CHOOSE i \in DOMAIN users : users[i].name = name ELSE 0

\* The stored hash decides how the password is hashed for the comparison.
Accepts(hash, password) ==
    \/ hash.kind = "$6$" /\ hash = Sha512(password)
    \/ hash.kind = "md5" /\ hash = Md5(password)
Valid(name, password) ==
    IdOf(name) # 0 /\ Accepts(users[IdOf(name)].hash, password)

\* Any password that is tried replaces an old hash.
UpgradeUntried(name, password) ==
    IF IdOf(name) # 0 /\ users[IdOf(name)].hash.kind = "md5"
    THEN users' = [users EXCEPT ![IdOf(name)].hash = Sha512(password)]
    ELSE UNCHANGED users

\* A password that is right replaces an old hash, and if that fails the old
\* hash stays.
Upgrade(name, password) ==
    \/ /\ Valid(name, password) /\ users[IdOf(name)].hash.kind = "md5"
       /\ users' = [users EXCEPT ![IdOf(name)].hash = Sha512(password)]
    \/ UNCHANGED users

\* user_valid_auth is 1.
ValidAuth(name, password, valid) ==
    \/ /\ valid = Valid(name, password)
       /\ Upgrade(name, password)
       /\ UNCHANGED faults
    \/ ~valid /\ Fault /\ UNCHANGED users

\* The insert, whose column is UNIQUE: a failed look for the name changes
\* nothing.
Insert(name, password) ==
    /\ IdOf(name) = 0
    /\ users' = Append(users, Row([name |-> name, password |-> password], Sha512(password)))

\* user_register.
Register(name, password, result) ==
    \/ /\ name = <<>> \/ password = <<>>
       /\ result = "invalid"
       /\ UNCHANGED <<users, faults>>
    \/ /\ name # <<>> /\ password # <<>>
       /\ \/ /\ Len(users) < MaxUsers /\ result = "registered"
             /\ Insert(name, password) /\ UNCHANGED faults
          \/ /\ IdOf(name) # 0 /\ result = "taken"
             /\ UNCHANGED <<users, faults>>
          \/ result = "invalid" /\ Fault /\ UNCHANGED users

\* random_hex: the token and the csrf token are 256 random bits each, so no
\* session has those of another.  The n-th has number n for both.
FreshToken == Len(made) + 1

\* session_lookup and user_fetch_username_by_id.
SessionLookup(token) == token \in sessions
UserOf(token) == made[token]

\* session_create.
SessionCreate(user, result) ==
    \/ /\ Len(made) < MaxSessions /\ result = FreshToken
       /\ made' = Append(made, user)
       /\ sessions' = sessions \cup {result}
       /\ UNCHANGED faults
    \/ result = 0 /\ Fault /\ UNCHANGED <<made, sessions>>

\* Every session of the user is deleted.
SessionDestroyAll(token) ==
    /\ sessions' = {t \in sessions : token \notin DOMAIN made \/ made[t] # made[token]}
    /\ UNCHANGED <<made, faults>>

\* session_destroy, which says nothing when it fails.
SessionDestroy(token) ==
    \/ sessions' = sessions \ {token} /\ UNCHANGED <<made, faults>>
    \/ Fault /\ UNCHANGED <<made, sessions>>

-----------------------------------------------------------------------------
\* Each user logs in with the password of the registration and with no other,
\* through failing registrations and upgrades of the hash, and has the name
\* alone.
PasswordsStand ==
    \A i \in DOMAIN users :
        /\ Accepts(users[i].hash, users[i].password)
        /\ \A j \in DOMAIN users : users[j].name = users[i].name => j = i
=============================================================================
