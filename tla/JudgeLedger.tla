----------------------------- MODULE JudgeLedger -----------------------------
(* What the grading queue promises, with no processes, leases or tokens.     *)
(* The right to decide a submission is granted under ever larger numbers; at *)
(* most one number is valid at a time; a right may be withdrawn at any time; *)
(* and only the valid right decides, once.                                   *)
EXTENDS Integers

CONSTANT Entries

VARIABLES
    phase,      \* "absent", "open" or "decided"
    right,      \* the number that may decide the entry, 0 = nobody may
    granted,    \* how many rights to the entry have been granted
    decidedBy   \* the right that last decided the entry, 0 = none

vars == <<phase, right, granted, decidedBy>>

TypeOK ==
    /\ phase \in [Entries -> {"absent", "open", "decided"}]
    /\ right \in [Entries -> Nat]
    /\ granted \in [Entries -> Nat]
    /\ decidedBy \in [Entries -> Nat]

Init ==
    /\ phase = [e \in Entries |-> "absent"]
    /\ right = [e \in Entries |-> 0]
    /\ granted = [e \in Entries |-> 0]
    /\ decidedBy = [e \in Entries |-> 0]

Submit(e) ==
    /\ phase[e] = "absent"
    /\ phase' = [phase EXCEPT ![e] = "open"]
    /\ UNCHANGED <<right, granted, decidedBy>>

\* Grant a new right to e.  It replaces the one there was, and rights to the
\* entries W are withdrawn in the same step.
Grant(e, W) ==
    /\ phase[e] = "open"
    /\ right' = [f \in Entries |->
                    IF f = e THEN granted[e] + 1 ELSE
                    IF f \in W THEN 0 ELSE right[f]]
    /\ granted' = [granted EXCEPT ![e] = @ + 1]
    /\ UNCHANGED <<phase, decidedBy>>

Decide(e) ==
    /\ phase[e] = "open"
    /\ right[e] # 0
    /\ phase' = [phase EXCEPT ![e] = "decided"]
    /\ decidedBy' = [decidedBy EXCEPT ![e] = right[e]]
    /\ right' = [right EXCEPT ![e] = 0]
    /\ UNCHANGED granted

\* A new decision is asked for: from now on no right granted before decides.
Reopen(e) ==
    /\ phase[e] # "absent"
    /\ phase' = [phase EXCEPT ![e] = "open"]
    /\ right' = [right EXCEPT ![e] = 0]
    /\ UNCHANGED <<granted, decidedBy>>

Next ==
    \E e \in Entries :
        \/ Submit(e)
        \/ \E W \in SUBSET Entries : Grant(e, W)
        \/ Decide(e)
        \/ Reopen(e)

Spec == Init /\ [][Next]_vars

\* A decision is made under a right that was granted, and while a right is
\* valid nothing has been decided under it.
DecidedUnderAGrant ==
    \A e \in Entries :
        /\ decidedBy[e] <= granted[e]
        /\ right[e] # 0 => right[e] = granted[e] /\ decidedBy[e] < right[e]
=============================================================================
