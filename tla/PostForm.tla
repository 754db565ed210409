------------------------------ MODULE PostForm ------------------------------
(* post_iterator(): libmicrohttpd hands a posted form to tle_web in pieces.  *)
(* A value may be cut at any place, by the buffers of the network and of the *)
(* parser.  Posts says who posts the form and what is made of it.            *)
EXTENDS Integers, Sequences, SequencesExt

CONSTANT
    Limit     \* the longest username, password, csrf token and code

\* Texts that replace what is there from an offset on, and texts that grow.
Placed == {"username", "password", "csrf"}
Code == {"code", "file"}
Numbers == {"task_pk", "admin_id"}
Flags == {"is_public", "is_anonymous"}
On == <<1, 1>>
\* Any other name is refused, but for "DONE".
Names == Placed \cup Code \cup Numbers \cup Flags \cup {"other"}

ASSUME LimitAssumption == Limit \in [Placed \cup {"code"} -> Nat]
\* A value is a sequence of characters, of which those of a number are digits, and
\* On is the "on" of a flag.  A form is a sequence of named values.
Fields == [name : Names, value : Seq(Nat)]

VARIABLES
    posted,   \* the form
    rest,     \* the fields that are still to come
    off,      \* how much of the first of them has come
    text,     \* conn->username, password, csrf and submission.code
    number,   \* conn->submission.task_pk and admin_id
    flag,     \* conn->submission.is_public and is_anonymous
    seen,     \* file_field_seen and code_field_seen
    refused,  \* the iterator has returned MHD_NO
    cut       \* the fields whose value came in several pieces

formVars == <<posted, rest, off, text, number, flag, seen, refused, cut>>

FormTypeOK ==
    /\ posted \in Seq(Fields)
    /\ \E k \in 0 .. Len(posted) : rest = SubSeq(posted, k + 1, Len(posted))
    /\ off \in 0 .. (IF rest = <<>> THEN 0 ELSE Len(rest[1].value))
    /\ text \in [Placed \cup {"code"} -> Seq(Nat)]
    /\ \A f \in Placed \cup {"code"} : Len(text[f]) <= Limit[f]
    /\ number \in [Numbers -> Nat]
    /\ flag \in [Flags -> BOOLEAN]
    /\ seen \subseteq Code
    /\ refused \in BOOLEAN
    /\ cut \subseteq Names

\* What calloc makes of the connection_info of a new connection.
NoText == [f \in Placed \cup {"code"} |-> <<>>]
NoNumber == [f \in Numbers |-> 0]
NoFlag == [f \in Flags |-> FALSE]

FormInit ==
    /\ posted = <<>> /\ rest = <<>> /\ off = 0
    /\ text = NoText /\ number = NoNumber /\ flag = NoFlag
    /\ seen = {} /\ refused = FALSE /\ cut = {}

\* A connection is accepted and its form begins to come.
NewForm(form) ==
    /\ posted' = form /\ rest' = form /\ off' = 0
    /\ text' = NoText /\ number' = NoNumber /\ flag' = NoFlag
    /\ seen' = {} /\ refused' = FALSE /\ cut' = {}

-----------------------------------------------------------------------------
\* strtol of a piece.
Value(digits) == FoldLeft(LAMBDA n, d : 10 * n + d, 0, digits)

\* A piece that would fit if it were the first.
FitsAlone(f, data) == Len(data) <= Limit[IF f \in Code THEN "code" ELSE f]

\* The buffers take what fits behind the offset, and the code what fits behind
\* what there is.
Fits(f, data) ==
    CASE f \in Placed -> off + Len(data) <= Limit[f]
      [] OTHER -> Len(text["code"]) + Len(data) <= Limit["code"]

\* A copy to the start of the buffer, and one behind the offset that ends the
\* string.
PutFirst(f, data) == data
Put(f, data) == SubSeq(text[f], 1, off) \o data

\* The code as the last piece, and as all of them.
GrowLast(data) == data
Grow(data) == text["code"] \o data

\* A number is what the piece says, whatever its offset.
Number(f, data) == Value(data)

\* A source of code has been seen when any of it has come.
Seen(f, data) == IF Len(data) > 0 THEN seen \cup {f} ELSE seen

\* The iterator gets a piece of field f and takes it.
Take(f, data) ==
    \/ /\ f \in Placed
       /\ Fits(f, data)
       /\ text' = [text EXCEPT ![f] = Put(f, data)]
       /\ UNCHANGED <<number, flag, seen>>
    \/ /\ f \in Code
       /\ Fits(f, data)
       /\ text' = [text EXCEPT !["code"] = Grow(data)]
       /\ seen' = Seen(f, data)
       /\ UNCHANGED <<number, flag>>
    \/ /\ f \in Numbers
       /\ f = "admin_id" => data # <<>>
       /\ number' = [number EXCEPT ![f] = Number(f, data)]
       /\ UNCHANGED <<text, flag, seen>>
    \/ /\ f \in Flags
       /\ flag' = [flag EXCEPT ![f] = (data = On)]
       /\ UNCHANGED <<text, number, seen>>

\* It refuses what does not fit, an empty id and a field it does not know.  A
\* source of code counts as seen even then.
Refuses(f, data) ==
    \/ f \in Placed \cup Code /\ ~Fits(f, data)
    \/ f = "admin_id" /\ data = <<>>
    \/ f = "other"
Refuse(f, data) ==
    /\ Refuses(f, data)
    /\ refused' = TRUE
    /\ seen' = IF f \in Code THEN Seen(f, data) ELSE seen
    /\ UNCHANGED <<text, number, flag>>

\* A piece arrives.  Only an empty value has an empty piece.
Piece ==
    /\ rest # <<>> /\ ~refused
    /\ LET name == rest[1].name
           value == rest[1].value
       IN  \E n \in 0 .. Len(value) - off :
              /\ n = 0 => value = <<>>
              /\ LET data == SubSeq(value, off + 1, off + n)
                 IN  \/ Take(name, data) /\ UNCHANGED refused
                     \/ Refuse(name, data)
              /\ IF off + n = Len(value)
                 THEN rest' = Tail(rest) /\ off' = 0
                 ELSE off' = off + n /\ UNCHANGED rest
              /\ cut' = IF n < Len(value) THEN cut \cup {name} ELSE cut
    /\ UNCHANGED posted

\* The body is over.  After a refusal the parser ignores what follows, and
\* tle_web does not look at what MHD_post_process returns.
Ended == rest = <<>> \/ refused

-----------------------------------------------------------------------------
(* Properties.                                                               *)

Posted == {posted[i].name : i \in DOMAIN posted}
Given(f) ==
    IF f \in Posted THEN posted[CHOOSE i \in DOMAIN posted : posted[i].name = f].value
    ELSE <<>>
Arrived == {posted[i].name : i \in 1 .. Len(posted) - Len(rest)}

\* The form has one field f, as those of the pages have.
Once(f) == \A i, j \in DOMAIN posted : posted[i].name = f /\ posted[j].name = f => i = j

\* One field f comes before one field g.
Before(f, g) ==
    \E i, j \in DOMAIN posted : posted[i].name = f /\ posted[j].name = g /\ i < j

\* What the last piece of field f can have been.
LastPieces(f) ==
    IF f \in cut THEN Suffixes(Given(f)) \ {Given(f)} ELSE {Given(f)}

\* A text that has come in whole is what was posted, wherever it was cut: the
\* name, the password, the csrf token, and the code or file if no other source of
\* code has come.  A number or a flag is what its last piece says, which is what
\* was posted only if it was not cut: an "on" in two pieces is off.
FormIsWhole ==
    ~refused =>
        /\ \A f \in Placed \cap Arrived : Once(f) => text[f] = Given(f)
        /\ \A f \in Code \cap Arrived :
              Once(f) /\ seen \subseteq {f} => text["code"] = Given(f)
        /\ \A f \in Numbers \cap Arrived :
              Once(f) => \E d \in LastPieces(f) : number[f] = Value(d)
        /\ \A f \in Flags \cap Arrived :
              Once(f) => \E d \in LastPieces(f) : flag[f] = (d = On)
=============================================================================
