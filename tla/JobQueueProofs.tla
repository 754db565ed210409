--------------------------- MODULE JobQueueProofs ---------------------------
(* Proofs about JobQueue for any number of submissions, processes, process   *)
(* ids, rejudges and faults.                                                 *)
EXTENDS JobQueue, TLAPS

-----------------------------------------------------------------------------
(* Type correctness.                                                         *)

\* A live process has a process id; a process that grades holds a job with a
\* token, any other holds none.
ProcessOK ==
    \A g \in Graders :
        /\ Alive(g) => pid[g] \in Pids
        /\ pc[g] = "grading" => job[g].sub \in Subs /\ job[g].token \in Tokens
        /\ pc[g] # "grading" => job[g] = EmptyJob

TypeInv == TypeOK /\ ProcessOK

\* The initial state is well typed.
LEMMA TypeInit == Init => TypeInv
<1>1. ASSUME Init PROVE TypeOK
  BY <1>1, BoundsAssumption, ProcessAssumption
     DEF Init, TypeOK, EmptyJob, Jobs, Subs
<1>2. ASSUME Init PROVE ProcessOK
  BY <1>2 DEF Init, ProcessOK, Alive
<1> QED BY <1>1, <1>2 DEF TypeInv

\* Every step of the system keeps the state well typed.
LEMMA TypeStep == TypeInv /\ [Next]_vars => TypeInv'
<1> SUFFICES ASSUME TypeInv, [Next]_vars PROVE TypeInv'
  OBVIOUS
<1> USE BoundsAssumption, ProcessAssumption
<1>1. ASSUME NEW s \in Subs, Enqueue(s) PROVE TypeInv'
  BY <1>1 DEF Enqueue, TypeInv, TypeOK, ProcessOK, Alive, procVars
<1>2. ASSUME NEW s \in Subs, Requeue(s) PROVE TypeInv'
  <2>1. TypeOK'
    BY <1>2, SMTT(30) DEF Requeue, TypeInv, TypeOK, procVars, Subs
  <2>2. ProcessOK'
    BY <1>2, SMTT(30) DEF Requeue, TypeInv, ProcessOK, Alive, procVars
  <2> QED BY <2>1, <2>2 DEF TypeInv
<1>3. CASE ClearVerdict
  <2>1. result' \in [Subs -> Nat]
    BY <1>3 DEF ClearVerdict, TypeInv, TypeOK
  <2>2. rejudge' \in 0..MaxSubmission
    BY <1>3 DEF ClearVerdict
  <2>3. TypeOK'
    BY <1>3, <2>1, <2>2 DEF ClearVerdict, TypeInv, TypeOK, procVars, rowVars
  <2>4. ProcessOK'
    BY <1>3 DEF ClearVerdict, TypeInv, ProcessOK, Alive, procVars
  <2> QED BY <2>3, <2>4 DEF TypeInv
<1>4. CASE ClearLost
  BY <1>4 DEF ClearLost, TypeInv, TypeOK, ProcessOK, Alive, procVars, rowVars
<1>5. ASSUME NEW g \in Graders, Start(g) PROVE TypeInv'
  BY <1>5 DEF Start, TypeInv, TypeOK, ProcessOK, Alive, rowVars
<1>6. ASSUME NEW g \in Graders, Claim(g) PROVE TypeInv'
  <2>1. PICK s \in Subs :
           /\ status' = [r \in Subs |->
                 IF r = s THEN "grading" ELSE
                 IF Stale(r) THEN "queued" ELSE status[r]]
           /\ claimedAt' = [r \in Subs |->
                 IF r = s THEN "recent" ELSE
                 IF Stale(r) THEN "null" ELSE claimedAt[r]]
           /\ claimToken' = [r \in Subs |->
                 IF r = s THEN <<pid[g], seq[g]>> ELSE
                 IF Stale(r) THEN NoToken ELSE claimToken[r]]
           /\ attempts' = [attempts EXCEPT ![s] = @ + 1]
           /\ job' = [job EXCEPT ![g] =
                 [sub |-> s, token |-> <<pid[g], seq[g]>>, attempt |-> attempts[s] + 1]]
    BY <1>6 DEF Claim
  <2>2. <<pid[g], seq[g]>> \in Tokens
    BY <1>6 DEF Claim, TypeInv, TypeOK, ProcessOK, Alive, Tokens
  <2>3. [sub |-> s, token |-> <<pid[g], seq[g]>>, attempt |-> attempts[s] + 1] \in Jobs
    BY <2>2 DEF TypeInv, TypeOK, Jobs, Subs
  <2>4. status' \in [Subs -> {"absent", "queued", "grading", "finished"}]
    BY <2>1 DEF TypeInv, TypeOK
  <2>5. claimedAt' \in [Subs -> {"null", "recent", "old"}]
    BY <2>1 DEF TypeInv, TypeOK
  <2>6. claimToken' \in [Subs -> Tokens \cup {NoToken}]
    BY <2>1, <2>2 DEF TypeInv, TypeOK
  <2>7. attempts' \in [Subs -> Nat] /\ job' \in [Graders -> Jobs]
    BY <2>1, <2>3 DEF TypeInv, TypeOK
  <2>8. TypeOK'
    BY <1>6, <2>4, <2>5, <2>6, <2>7 DEF Claim, TypeInv, TypeOK
  <2>9. ProcessOK'
    BY <1>6, <2>1, <2>2 DEF Claim, TypeInv, TypeOK, ProcessOK, Alive
  <2> QED BY <2>8, <2>9 DEF TypeInv
<1>7. ASSUME NEW g \in Graders, NEW h \in Graders, ForkJury(g, h) PROVE TypeInv'
  BY <1>7 DEF ForkJury, TypeInv, TypeOK, ProcessOK, Alive, rowVars
<1>8. ASSUME NEW g \in Graders, Complete(g) PROVE TypeInv'
  <2>1. EmptyJob \in Jobs
    BY DEF EmptyJob, Jobs
  <2>2. job[g].sub \in Subs /\ job[g].attempt \in Nat
    BY <1>8 DEF Complete, TypeInv, TypeOK, ProcessOK, Jobs
  <2>3. TypeOK'
    BY <1>8, <2>1, <2>2 DEF Complete, EndJob, SubtaskStrings, TypeInv, TypeOK
  <2>4. ProcessOK'
    BY <1>8 DEF Complete, EndJob, TypeInv, TypeOK, ProcessOK, Alive
  <2> QED BY <2>3, <2>4 DEF TypeInv
<1>9. ASSUME NEW g \in Graders, CompleteRejected(g) \/ CompleteFails(g) \/ Crash(g)
      PROVE TypeInv'
  <2>1. EmptyJob \in Jobs
    BY DEF EmptyJob, Jobs
  <2> QED BY <1>9, <2>1 DEF CompleteRejected, CompleteFails, Crash, EndJob, TypeInv,
          TypeOK, ProcessOK, Alive, rowVars
<1>10. ASSUME NEW s \in Subs, LeaseExpires(s) PROVE TypeInv'
  BY <1>10 DEF LeaseExpires, TypeInv, TypeOK, ProcessOK, Alive, procVars
<1>11. CASE UNCHANGED vars
  BY <1>11 DEF vars, TypeInv, TypeOK, ProcessOK, Alive
<1> QED BY <1>1, <1>2, <1>3, <1>4, <1>5, <1>6, <1>7, <1>8, <1>9, <1>10, <1>11
        DEF Next, Web, Grader

\* Every reachable state of the queue is well typed.
THEOREM TypeCorrect == Spec => []TypeOK
<1>1. TypeInv => TypeOK
  BY DEF TypeInv
<1> QED BY <1>1, TypeInit, TypeStep, PTL DEF Spec

-----------------------------------------------------------------------------
(* The inductive invariant.                                                  *)

\* Process ids are unique among live processes.
PidsDistinct ==
    \A g, h \in Graders :
        Alive(g) /\ Alive(h) /\ pid[g] = pid[h] => g = h

\* A token that any process still holds and that starts with the number of a
\* live process was drawn by that process earlier: it will not draw it again.
TokensUsed ==
    \A g, h \in Graders :
        /\ Alive(g)
        /\ pc[h] = "grading"
        /\ job[h].token[1] = pid[g]
        => job[h].token[2] < seq[g]

\* The claim that decided a submission is not later than its latest claim, and
\* a claim recorded in a row has not decided yet.
DecisionsBehind ==
    \A s \in Subs :
        /\ decidedBy[s] <= attempts[s]
        /\ status[s] = "grading" => decidedBy[s] < attempts[s]

IInv ==
    /\ TypeInv
    /\ PidsDistinct
    /\ TokensUsed
    /\ RowConsistent
    /\ OwnerIsLatest
    /\ DecisionsBehind
    /\ FinishedByLatest
    /\ SubtasksMatchVerdict

\* No claim, verdict or live process exists initially.
LEMMA InitIInv == Init => IInv
<1> SUFFICES ASSUME Init PROVE IInv
  OBVIOUS
<1>1. TypeInv
  BY TypeInit
<1>2. PidsDistinct /\ TokensUsed /\ OwnerIsLatest
  BY DEF Init, PidsDistinct, TokensUsed, OwnerIsLatest, Alive
<1>3. RowConsistent /\ DecisionsBehind /\ FinishedByLatest /\ SubtasksMatchVerdict
  BY DEF Init, RowConsistent, DecisionsBehind, FinishedByLatest, SubtasksMatchVerdict
<1> QED BY <1>1, <1>2, <1>3 DEF IInv

\* A new process does not share its number with a live one.
LEMMA PidsStep == IInv /\ [Next]_vars => PidsDistinct'
<1> SUFFICES ASSUME IInv, [Next]_vars PROVE PidsDistinct'
  OBVIOUS
<1> USE DEF PidsDistinct, Alive, IInv, TypeInv, TypeOK
<1>1. ASSUME NEW g \in Graders, Start(g) PROVE PidsDistinct'
  BY <1>1 DEF Start, FreshPid
<1>2. ASSUME NEW g \in Graders, NEW h \in Graders, ForkJury(g, h) PROVE PidsDistinct'
  BY <1>2 DEF ForkJury, FreshPid
<1>3. ASSUME NEW g \in Graders,
             Claim(g) \/ Complete(g) \/ CompleteRejected(g) \/ CompleteFails(g) \/ Crash(g)
      PROVE PidsDistinct'
  BY <1>3 DEF Claim, Complete, CompleteRejected, CompleteFails, Crash, EndJob
<1>4. CASE Web \/ UNCHANGED vars \/ \E s \in Subs : LeaseExpires(s)
  BY <1>4 DEF Web, Enqueue, Requeue, ClearVerdict, ClearLost, LeaseExpires, vars, procVars
<1> QED BY <1>1, <1>2, <1>3, <1>4 DEF Next, Grader

\* What a claim leaves behind.
LEMMA ClaimEffect ==
  ASSUME NEW g \in Graders, Claim(g), TypeInv
  PROVE  \E s \in Subs :
           /\ Claimable(s)
           /\ status' = [r \in Subs |->
                 IF r = s THEN "grading" ELSE
                 IF Stale(r) THEN "queued" ELSE status[r]]
           /\ claimedAt' = [r \in Subs |->
                 IF r = s THEN "recent" ELSE
                 IF Stale(r) THEN "null" ELSE claimedAt[r]]
           /\ claimToken' = [r \in Subs |->
                 IF r = s THEN <<pid[g], seq[g]>> ELSE
                 IF Stale(r) THEN NoToken ELSE claimToken[r]]
           /\ attempts' = [attempts EXCEPT ![s] = attempts[s] + 1]
           /\ job' = [job EXCEPT ![g] =
                 [sub |-> s, token |-> <<pid[g], seq[g]>>, attempt |-> attempts[s] + 1]]
           /\ <<pid[g], seq[g]>> \in Tokens
<1>1. <<pid[g], seq[g]>> \in Tokens
  BY DEF Claim, TypeInv, TypeOK, ProcessOK, Alive, Tokens
<1> QED BY <1>1 DEF Claim

\* A process draws each of its tokens once, and a process that starts draws
\* none that is still held.
LEMMA TokensStep == IInv /\ [Next]_vars => TokensUsed'
<1> SUFFICES ASSUME IInv, [Next]_vars PROVE TokensUsed'
  OBVIOUS
<1>0. /\ TypeInv /\ TypeOK /\ ProcessOK /\ TokensUsed /\ PidsDistinct
  BY DEF IInv, TypeInv
<1>1. ASSUME NEW g \in Graders, Start(g) PROVE TokensUsed'
  <2> SUFFICES ASSUME NEW k \in Graders, NEW h \in Graders, Alive(k)',
                      pc[h]' = "grading", job[h].token[1]' = pid[k]'
               PROVE  job[h].token[2]' < seq[k]'
    BY DEF TokensUsed
  <2>1. pc[h] = "grading" /\ Alive(h) /\ h # g /\ job[h].token \in Tokens
    BY <1>1, <1>0 DEF Start, TypeOK, ProcessOK, Alive
  <2>2. CASE k = g
    BY <1>1, <1>0, <2>1, <2>2 DEF Start, FreshPid, TypeOK, Tokens
  <2>3. CASE k # g
    BY <1>1, <1>0, <2>1, <2>3 DEF Start, TokensUsed, TypeOK, Alive
  <2> QED BY <2>2, <2>3
<1>2. ASSUME NEW g \in Graders, Claim(g) PROVE TokensUsed'
  <2> SUFFICES ASSUME NEW k \in Graders, NEW h \in Graders, Alive(k)',
                      pc[h]' = "grading", job[h].token[1]' = pid[k]'
               PROVE  job[h].token[2]' < seq[k]'
    BY DEF TokensUsed
  <2>1. Alive(k) /\ Alive(g) /\ pid' = pid /\ seq' = [seq EXCEPT ![g] = seq[g] + 1]
    BY <1>2, <1>0 DEF Claim, Alive, TypeOK
  <2>2. \A i \in Graders : seq[i] \in Nat /\ seq'[i] \in Nat /\ seq'[i] >= seq[i]
    BY <2>1, <1>0 DEF TypeOK
  <2>3. CASE h = g
    <3>1. job'[g].token = <<pid[g], seq[g]>>
      <4>1. PICK s \in Subs : job' = [job EXCEPT ![g] =
               [sub |-> s, token |-> <<pid[g], seq[g]>>, attempt |-> attempts[s] + 1]]
        BY <1>2, <1>0, ClaimEffect
      <4> QED BY <4>1, <1>0 DEF TypeOK
    <3>2. k = g
      BY <3>1, <2>1, <2>3, <1>0 DEF PidsDistinct
    <3> QED BY <3>1, <3>2, <2>1, <2>2, <2>3, <1>0 DEF TypeOK
  <2>4. CASE h # g
    <3>1. job'[h] = job[h] /\ pc[h] = "grading"
      BY <1>2, <1>0, <2>4 DEF Claim, TypeOK
    <3>2. job[h].token \in Tokens
      BY <3>1, <1>0 DEF ProcessOK
    <3>3. job[h].token[2] < seq[k] /\ job[h].token[2] \in Nat
      BY <3>1, <3>2, <2>1, <1>0 DEF TokensUsed, Tokens
    <3> QED BY <3>1, <3>3, <2>2
  <2> QED BY <2>3, <2>4
<1>3. ASSUME NEW g \in Graders, NEW c \in Graders, ForkJury(g, c) PROVE TokensUsed'
  <2> SUFFICES ASSUME NEW k \in Graders, NEW h \in Graders, Alive(k)',
                      pc[h]' = "grading", job[h].token[1]' = pid[k]'
               PROVE  job[h].token[2]' < seq[k]'
    BY DEF TokensUsed
  <2>1. PICK i \in Graders : pc[i] = "grading" /\ Alive(i) /\ i # c /\ job'[h] = job[i]
    BY <1>3, <1>0 DEF ForkJury, TypeOK, Alive
  <2>2. job[i].token \in Tokens
    BY <2>1, <1>0 DEF ProcessOK
  <2>3. CASE k = c
    BY <1>3, <1>0, <2>1, <2>2, <2>3 DEF ForkJury, FreshPid, TypeOK, Tokens
  <2>4. CASE k # c
    BY <1>3, <1>0, <2>1, <2>4 DEF ForkJury, TokensUsed, TypeOK, Alive
  <2> QED BY <2>3, <2>4
<1>4. ASSUME NEW g \in Graders,
             Complete(g) \/ CompleteRejected(g) \/ CompleteFails(g) \/ Crash(g)
      PROVE TokensUsed'
  <2>1. \A h \in Graders : pc'[h] = "grading" => pc[h] = "grading" /\ job'[h] = job[h]
    BY <1>4, <1>0 DEF Complete, CompleteRejected, CompleteFails, Crash, EndJob, TypeOK
  <2>2. \A k \in Graders : pc'[k] # "down" =>
            pc[k] # "down" /\ pid'[k] = pid[k] /\ seq'[k] = seq[k]
    BY <1>4, <1>0
       DEF Complete, CompleteRejected, CompleteFails, Crash, EndJob, TypeOK, Alive
  <2> QED BY <2>1, <2>2, <1>0 DEF TokensUsed, Alive
<1>5. CASE Web \/ UNCHANGED vars \/ \E s \in Subs : LeaseExpires(s)
  BY <1>5, <1>0 DEF Web, Enqueue, Requeue, ClearVerdict, ClearLost, LeaseExpires, vars,
     procVars, TokensUsed, Alive
<1> QED BY <1>1, <1>2, <1>3, <1>4, <1>5 DEF Next, Grader

\* The job rows stay consistent.
LEMMA RowStep == IInv /\ [Next]_vars => RowConsistent'
<1> SUFFICES ASSUME IInv, [Next]_vars PROVE RowConsistent'
  OBVIOUS
<1>0. TypeInv /\ TypeOK /\ RowConsistent
  BY DEF IInv, TypeInv
<1> USE ProcessAssumption
<1>1. ASSUME NEW s \in Subs, Enqueue(s) \/ Requeue(s) \/ LeaseExpires(s)
      PROVE RowConsistent'
  BY <1>1, <1>0 DEF Enqueue, Requeue, LeaseExpires, RowConsistent, TypeOK
<1>2. ASSUME NEW g \in Graders, Claim(g) PROVE RowConsistent'
  <2>1. PICK s \in Subs :
           /\ status' = [r \in Subs |->
                 IF r = s THEN "grading" ELSE
                 IF Stale(r) THEN "queued" ELSE status[r]]
           /\ claimedAt' = [r \in Subs |->
                 IF r = s THEN "recent" ELSE
                 IF Stale(r) THEN "null" ELSE claimedAt[r]]
           /\ claimToken' = [r \in Subs |->
                 IF r = s THEN <<pid[g], seq[g]>> ELSE
                 IF Stale(r) THEN NoToken ELSE claimToken[r]]
           /\ <<pid[g], seq[g]>> \in Tokens
    BY <1>2, <1>0, ClaimEffect
  <2>2. <<pid[g], seq[g]>> # NoToken
    BY <2>1
  <2> QED BY <2>1, <2>2, <1>0 DEF RowConsistent
<1>3. ASSUME NEW g \in Graders, Complete(g) PROVE RowConsistent'
  BY <1>3, <1>0 DEF Complete, RowConsistent, TypeOK
<1>4. CASE UNCHANGED rowVars
  BY <1>4, <1>0 DEF rowVars, RowConsistent
<1>5. UNCHANGED rowVars \/ (\E s \in Subs : Enqueue(s) \/ Requeue(s) \/ LeaseExpires(s))
        \/ (\E g \in Graders : Claim(g) \/ Complete(g))
  BY DEF Next, Web, Grader, ClearVerdict, ClearLost, Start, ForkJury, CompleteRejected,
     CompleteFails, Crash, vars, rowVars
<1> QED BY <1>1, <1>2, <1>3, <1>4, <1>5

\* Fencing is inductive: a claim makes a token nobody else holds, so whoever
\* held the old token of the row no longer owns it.
LEMMA OwnerStep == IInv /\ [Next]_vars => OwnerIsLatest'
<1> SUFFICES ASSUME IInv, [Next]_vars PROVE OwnerIsLatest'
  OBVIOUS
<1>0. TypeInv /\ TypeOK /\ ProcessOK /\ TokensUsed /\ RowConsistent /\ OwnerIsLatest
  BY DEF IInv, TypeInv
<1> USE ProcessAssumption
<1>1. ASSUME NEW r \in Subs, Enqueue(r) \/ Requeue(r) \/ LeaseExpires(r)
      PROVE OwnerIsLatest'
  <2>1. pc' = pc /\ job' = job /\ attempts' = attempts
    BY <1>1 DEF Enqueue, Requeue, LeaseExpires, procVars
  <2>2. \A s \in Subs : status'[s] = "grading" =>
            status[s] = "grading" /\ claimToken'[s] = claimToken[s]
    BY <1>1, <1>0 DEF Enqueue, Requeue, LeaseExpires, TypeOK
  <2> QED BY <2>1, <2>2, <1>0 DEF OwnerIsLatest, Owns, ProcessOK
<1>2. ASSUME NEW g \in Graders, Claim(g) PROVE OwnerIsLatest'
  <2>1. PICK s \in Subs :
           /\ status' = [r \in Subs |->
                 IF r = s THEN "grading" ELSE
                 IF Stale(r) THEN "queued" ELSE status[r]]
           /\ claimToken' = [r \in Subs |->
                 IF r = s THEN <<pid[g], seq[g]>> ELSE
                 IF Stale(r) THEN NoToken ELSE claimToken[r]]
           /\ attempts' = [attempts EXCEPT ![s] = attempts[s] + 1]
           /\ job' = [job EXCEPT ![g] =
                 [sub |-> s, token |-> <<pid[g], seq[g]>>, attempt |-> attempts[s] + 1]]
           /\ <<pid[g], seq[g]>> \in Tokens
    BY <1>2, <1>0, ClaimEffect
  <2> SUFFICES ASSUME NEW h \in Graders, pc'[h] = "grading", Owns(h)'
               PROVE  job'[h].attempt = attempts'[job'[h].sub]
    BY DEF OwnerIsLatest
  <2>2. CASE h = g
    BY <2>1, <2>2, <1>0 DEF TypeOK
  <2>3. CASE h # g
    <3>1. job'[h] = job[h] /\ pc[h] = "grading"
      BY <1>2, <2>1, <2>3, <1>0 DEF Claim, TypeOK
    <3>2. job[h].sub \in Subs /\ job[h].token \in Tokens
      BY <3>1, <1>0 DEF ProcessOK
    <3>3. job[h].token # <<pid[g], seq[g]>>
      <4>1. Alive(g) /\ seq[g] \in Nat
        BY <1>2, <1>0 DEF Claim, Alive, TypeOK
      <4>2. job[h].token[1] = pid[g] => job[h].token[2] < seq[g]
        BY <4>1, <3>1, <1>0 DEF TokensUsed
      <4> QED BY <4>1, <4>2, <3>2 DEF Tokens
    <3>4. job[h].sub # s
      BY <2>1, <3>1, <3>2, <3>3 DEF Owns
    <3>5. ~Stale(job[h].sub) /\ Owns(h)
      BY <2>1, <3>1, <3>2, <3>4 DEF Owns
    <3> QED BY <2>1, <3>1, <3>2, <3>4, <3>5, <1>0 DEF OwnerIsLatest, TypeOK
  <2> QED BY <2>2, <2>3
<1>3. ASSUME NEW g \in Graders, Complete(g) PROVE OwnerIsLatest'
  <2>1. attempts' = attempts
    BY <1>3 DEF Complete
  <2>2. \A h \in Graders : pc'[h] = "grading" => pc[h] = "grading" /\ job'[h] = job[h]
    BY <1>3, <1>0 DEF Complete, EndJob, TypeOK
  <2>3. \A s \in Subs : status'[s] = "grading" =>
            status[s] = "grading" /\ claimToken'[s] = claimToken[s]
    BY <1>3, <1>0 DEF Complete, TypeOK
  <2> QED BY <2>1, <2>2, <2>3, <1>0 DEF OwnerIsLatest, Owns, ProcessOK
<1>4. ASSUME NEW g \in Graders, NEW c \in Graders, ForkJury(g, c) PROVE OwnerIsLatest'
  <2>1. \A h \in Graders : pc'[h] = "grading" =>
            \E i \in Graders : pc[i] = "grading" /\ job'[h] = job[i]
    BY <1>4, <1>0 DEF ForkJury, TypeOK
  <2>2. UNCHANGED rowVars
    BY <1>4 DEF ForkJury
  <2> QED BY <2>1, <2>2, <1>0 DEF OwnerIsLatest, Owns, rowVars
<1>5. ASSUME NEW g \in Graders,
             Start(g) \/ CompleteRejected(g) \/ CompleteFails(g) \/ Crash(g)
      PROVE OwnerIsLatest'
  <2>1. \A h \in Graders : pc'[h] = "grading" => pc[h] = "grading" /\ job'[h] = job[h]
    BY <1>5, <1>0 DEF Start, CompleteRejected, CompleteFails, Crash, EndJob, TypeOK
  <2>2. UNCHANGED rowVars
    BY <1>5 DEF Start, CompleteRejected, CompleteFails, Crash
  <2> QED BY <2>1, <2>2, <1>0 DEF OwnerIsLatest, Owns, rowVars
<1>6. CASE ClearVerdict \/ ClearLost \/ UNCHANGED vars
  BY <1>6, <1>0
     DEF ClearVerdict, ClearLost, vars, rowVars, procVars, OwnerIsLatest, Owns
<1> QED BY <1>1, <1>2, <1>3, <1>4, <1>5, <1>6 DEF Next, Web, Grader

\* What a completion that commits writes: the number of the latest claim.
LEMMA CompleteEffect ==
  ASSUME NEW g \in Graders, Complete(g), IInv
  PROVE  LET s == job[g].sub
         IN /\ s \in Subs
            /\ status[s] = "grading"
            /\ attempts[s] \in Nat
            /\ decidedBy[s] < attempts[s]
            /\ status' = [status EXCEPT ![s] = "finished"]
            /\ result' = [result EXCEPT ![s] = attempts[s]]
            /\ decidedBy' = [decidedBy EXCEPT ![s] = attempts[s]]
            /\ \E string \in {0, attempts[s]} :
                  subtasks' = [subtasks EXCEPT ![s] = string]
<1>1. pc[g] = "grading" /\ Owns(g)
  BY DEF Complete
<1>2. job[g].sub \in Subs
  BY <1>1 DEF IInv, TypeInv, ProcessOK
<1>3. job[g].attempt = attempts[job[g].sub]
  BY <1>1 DEF IInv, OwnerIsLatest
<1>4. status[job[g].sub] = "grading"
  BY <1>1 DEF Owns
<1>5. decidedBy[job[g].sub] < attempts[job[g].sub] /\ attempts[job[g].sub] \in Nat
  BY <1>2, <1>4 DEF IInv, DecisionsBehind, TypeInv, TypeOK
<1>6. /\ status' = [status EXCEPT ![job[g].sub] = "finished"]
      /\ result' = [result EXCEPT ![job[g].sub] = job[g].attempt]
      /\ decidedBy' = [decidedBy EXCEPT ![job[g].sub] = job[g].attempt]
      /\ \E string \in {0, job[g].attempt} :
            subtasks' = [subtasks EXCEPT ![job[g].sub] = string]
  BY DEF Complete, SubtaskStrings
<1> QED BY <1>2, <1>3, <1>4, <1>5, <1>6

\* Decisions never overtake claims, and a finished job was finished by its
\* latest claim.
LEMMA DecisionStep ==
  IInv /\ [Next]_vars => DecisionsBehind' /\ FinishedByLatest' /\ SubtasksMatchVerdict'
<1> SUFFICES ASSUME IInv, [Next]_vars
             PROVE  DecisionsBehind' /\ FinishedByLatest' /\ SubtasksMatchVerdict'
  OBVIOUS
<1>0. /\ TypeInv /\ TypeOK
      /\ DecisionsBehind /\ FinishedByLatest /\ SubtasksMatchVerdict
  BY DEF IInv, TypeInv
<1> USE DEF DecisionsBehind, FinishedByLatest, SubtasksMatchVerdict
<1>1. ASSUME NEW r \in Subs, Enqueue(r) \/ Requeue(r) \/ LeaseExpires(r)
      PROVE DecisionsBehind' /\ FinishedByLatest' /\ SubtasksMatchVerdict'
  BY <1>1, <1>0 DEF Enqueue, Requeue, LeaseExpires, TypeOK
<1>2. ASSUME NEW g \in Graders, Claim(g)
      PROVE DecisionsBehind' /\ FinishedByLatest' /\ SubtasksMatchVerdict'
  <2>1. PICK s \in Subs :
           /\ Claimable(s)
           /\ status' = [r \in Subs |->
                 IF r = s THEN "grading" ELSE
                 IF Stale(r) THEN "queued" ELSE status[r]]
           /\ attempts' = [attempts EXCEPT ![s] = attempts[s] + 1]
    BY <1>2, <1>0, ClaimEffect
  <2>2. result' = result /\ subtasks' = subtasks /\ decidedBy' = decidedBy
    BY <1>2 DEF Claim
  <2>3. \A r \in Subs : r # s => attempts'[r] = attempts[r]
    BY <2>1, <1>0 DEF TypeOK
  <2>4. attempts'[s] = attempts[s] + 1 /\ attempts[s] \in Nat /\ decidedBy[s] \in Nat
    BY <2>1, <1>0 DEF TypeOK
  <2>5. \A r \in Subs : status'[r] \in {"grading", "finished"} /\ r # s => status[r] = status'[r]
    BY <2>1
  <2>6. status'[s] = "grading"
    BY <2>1
  <2> QED BY <2>2, <2>3, <2>4, <2>5, <2>6, <1>0
<1>3. ASSUME NEW g \in Graders, Complete(g)
      PROVE DecisionsBehind' /\ FinishedByLatest' /\ SubtasksMatchVerdict'
  <2>1. attempts' = attempts
    BY <1>3 DEF Complete
  <2> QED BY <1>3, <2>1, <1>0, CompleteEffect DEF TypeOK
<1>4. CASE ClearVerdict
  BY <1>4, <1>0 DEF ClearVerdict, rowVars, TypeOK
<1>5. CASE UNCHANGED <<rowVars, result, subtasks, decidedBy>>
  BY <1>5, <1>0 DEF rowVars
<1>6. \/ UNCHANGED <<rowVars, result, subtasks, decidedBy>>
      \/ ClearVerdict
      \/ \E s \in Subs : Enqueue(s) \/ Requeue(s) \/ LeaseExpires(s)
      \/ \E g \in Graders : Claim(g) \/ Complete(g)
  BY DEF Next, Web, Grader, ClearLost, Start, ForkJury, CompleteRejected,
     CompleteFails, Crash, vars, rowVars
<1> QED BY <1>1, <1>2, <1>3, <1>4, <1>5, <1>6

\* IInv holds in every reachable state.
THEOREM Invariance == Spec => []IInv
<1>1. IInv /\ [Next]_vars => IInv'
  <2>1. IInv /\ [Next]_vars => TypeInv'
    BY TypeStep DEF IInv
  <2> QED BY <2>1, PidsStep, TokensStep, RowStep, OwnerStep, DecisionStep DEF IInv
<1> QED BY <1>1, InitIInv, PTL DEF Spec

\* The job rows are consistent in every reachable state.
THEOREM RowsConsistent == Spec => []RowConsistent
<1>1. IInv => RowConsistent
  BY DEF IInv
<1> QED BY <1>1, Invariance, PTL

\* Only the process with the latest claim of a submission can finish it.
THEOREM Fencing == Spec => []OwnerIsLatest
<1>1. IInv => OwnerIsLatest
  BY DEF IInv
<1> QED BY <1>1, Invariance, PTL

\* A finished job was finished by its latest claim, and shows its verdict or none.
THEOREM FinishedFresh == Spec => []FinishedByLatest
<1>1. IInv => FinishedByLatest
  BY DEF IInv
<1> QED BY <1>1, Invariance, PTL

\* A verdict and the subtask string next to it come from one run of the grader.
THEOREM SubtasksFresh == Spec => []SubtasksMatchVerdict
<1>1. IInv => SubtasksMatchVerdict
  BY DEF IInv
<1> QED BY <1>1, Invariance, PTL

\* Claims decide in the order in which they were made, each at most once.
THEOREM OrderOfDecisions == Spec => DecidedInOrder
<1>1. IInv /\ [Next]_vars =>
        [\A s \in Subs : result'[s] \notin {result[s], 0} => result'[s] > decidedBy[s]]_vars
  <2> SUFFICES ASSUME IInv, [Next]_vars, NEW s \in Subs, result'[s] \notin {result[s], 0}
               PROVE  result'[s] > decidedBy[s]
    OBVIOUS
  <2>1. TypeOK
    BY DEF IInv, TypeInv
  <2>2. \/ UNCHANGED result
        \/ ClearVerdict
        \/ \E g \in Graders : Complete(g)
    BY DEF Next, Web, Grader, Enqueue, Requeue, LeaseExpires, ClearLost, Start, Claim,
       ForkJury, CompleteRejected, CompleteFails, Crash, vars
  <2>3. CASE ClearVerdict
    BY <2>1, <2>3 DEF ClearVerdict, TypeOK
  <2>4. ASSUME NEW g \in Graders, Complete(g) PROVE result'[s] > decidedBy[s]
    BY <2>1, <2>4, CompleteEffect DEF TypeOK
  <2> QED BY <2>2, <2>3, <2>4
<1> QED BY <1>1, Invariance, PTL DEF Spec, DecidedInOrder

-----------------------------------------------------------------------------
(* Refinement.                                                               *)

\* An empty queue is an empty ledger.
LEMMA LedgerInit == Init => Ledger!Init
  BY DEF Init, Ledger!Init, LedgerPhase, LedgerRight

\* A change of rows that keeps every status and count is no step of the ledger.
LEMMA LedgerStutter ==
  ASSUME status' = status, attempts' = attempts, decidedBy' = decidedBy
  PROVE  UNCHANGED Ledger!vars
  BY DEF Ledger!vars, LedgerPhase, LedgerRight

\* Every step of the queue is a step of the ledger or leaves it unchanged.
LEMMA LedgerStep == IInv /\ [Next]_vars => [Ledger!Next]_(Ledger!vars)
<1> SUFFICES ASSUME IInv, [Next]_vars PROVE [Ledger!Next]_(Ledger!vars)
  OBVIOUS
<1>0. TypeInv /\ TypeOK
  BY DEF IInv, TypeInv
<1>1. ASSUME NEW s \in Subs, Enqueue(s) PROVE Ledger!Submit(s)
  <2>1. LedgerPhase[s] = "absent" /\ LedgerPhase' = [LedgerPhase EXCEPT ![s] = "open"]
    BY <1>1, <1>0 DEF Enqueue, LedgerPhase, TypeOK
  <2>2. LedgerRight' = LedgerRight
    BY <1>1, <1>0 DEF Enqueue, LedgerRight, TypeOK
  <2> QED BY <1>1, <2>1, <2>2 DEF Enqueue, Ledger!Submit
<1>2. ASSUME NEW s \in Subs, Requeue(s) PROVE Ledger!Reopen(s)
  <2>1. LedgerPhase[s] # "absent" /\ LedgerPhase' = [LedgerPhase EXCEPT ![s] = "open"]
    BY <1>2, <1>0 DEF Requeue, LedgerPhase, TypeOK
  <2>2. LedgerRight' = [LedgerRight EXCEPT ![s] = 0]
    BY <1>2, <1>0 DEF Requeue, LedgerRight, TypeOK
  <2> QED BY <1>2, <2>1, <2>2 DEF Requeue, Ledger!Reopen
<1>3. ASSUME NEW g \in Graders, Claim(g)
      PROVE \E s \in Subs : \E W \in SUBSET Subs : Ledger!Grant(s, W)
  <2>1. PICK s \in Subs :
           /\ Claimable(s)
           /\ status' = [r \in Subs |->
                 IF r = s THEN "grading" ELSE
                 IF Stale(r) THEN "queued" ELSE status[r]]
           /\ attempts' = [attempts EXCEPT ![s] = attempts[s] + 1]
    BY <1>3, <1>0, ClaimEffect
  <2>2. decidedBy' = decidedBy
    BY <1>3 DEF Claim
  <2> DEFINE W == {r \in Subs : Stale(r)}
  <2>3. LedgerPhase[s] = "open" /\ LedgerPhase' = LedgerPhase
    BY <2>1, <1>0 DEF LedgerPhase, Claimable, Stale, TypeOK
  <2>4. LedgerRight' = [r \in Subs |->
                          IF r = s THEN attempts[s] + 1 ELSE
                          IF r \in W THEN 0 ELSE LedgerRight[r]]
    BY <2>1, <1>0 DEF LedgerRight, Stale, TypeOK
  <2>5. W \in SUBSET Subs
    OBVIOUS
  <2>6. Ledger!Grant(s, W)
    BY <2>1, <2>2, <2>3, <2>4 DEF Ledger!Grant
  <2> QED BY <2>5, <2>6
<1>4. ASSUME NEW g \in Graders, Complete(g) PROVE \E s \in Subs : Ledger!Decide(s)
  <2> DEFINE s == job[g].sub
  <2>1. /\ s \in Subs
        /\ status[s] = "grading"
        /\ attempts[s] \in Nat
        /\ decidedBy[s] < attempts[s]
        /\ status' = [status EXCEPT ![s] = "finished"]
        /\ decidedBy' = [decidedBy EXCEPT ![s] = attempts[s]]
    BY <1>4, CompleteEffect
  <2> HIDE DEF s
  <2>2. attempts[s] # 0 /\ attempts' = attempts
    BY <1>4, <2>1, <1>0 DEF Complete, TypeOK
  <2>3. LedgerPhase[s] = "open" /\ LedgerRight[s] = attempts[s]
    BY <2>1 DEF LedgerPhase, LedgerRight
  <2>4. \A r \in Subs : status'[r] = IF r = s THEN "finished" ELSE status[r]
    BY <2>1, <1>0 DEF TypeOK
  <2>5. LedgerPhase' = [r \in Subs |-> IF r = s THEN "decided" ELSE LedgerPhase[r]]
    BY <2>4 DEF LedgerPhase
  <2>6. LedgerPhase' = [LedgerPhase EXCEPT ![s] = "decided"]
    BY <2>5 DEF LedgerPhase
  <2>7. LedgerRight' = [r \in Subs |-> IF r = s THEN 0 ELSE LedgerRight[r]]
    BY <2>2, <2>4 DEF LedgerRight
  <2>8. LedgerRight' = [LedgerRight EXCEPT ![s] = 0]
    BY <2>7 DEF LedgerRight
  <2> QED BY <2>1, <2>2, <2>3, <2>6, <2>8 DEF Ledger!Decide
<1>5. CASE UNCHANGED <<status, attempts, decidedBy>>
  BY <1>5, LedgerStutter
<1>6. \/ UNCHANGED <<status, attempts, decidedBy>>
      \/ \E s \in Subs : Enqueue(s) \/ Requeue(s)
      \/ \E g \in Graders : Claim(g) \/ Complete(g)
  BY DEF Next, Web, Grader, LeaseExpires, ClearVerdict, ClearLost, Start, ForkJury,
     CompleteRejected, CompleteFails, Crash, vars, rowVars
<1> QED BY <1>1, <1>2, <1>3, <1>4, <1>5, <1>6 DEF Ledger!Next

\* The queue implements the ledger.
THEOREM Refinement == Spec => ImplementsLedger
<1> QED BY LedgerInit, LedgerStep, Invariance, PTL
        DEF Spec, ImplementsLedger, Ledger!Spec

-----------------------------------------------------------------------------
(* What the promise of the ledger amounts to, whatever the queue does.       *)

GrantInv == Ledger!TypeOK /\ Ledger!DecidedUnderAGrant

LEMMA LedgerGrant ==
    ASSUME GrantInv, NEW e \in Subs, NEW W \in SUBSET Subs, Ledger!Grant(e, W)
    PROVE  GrantInv'
<1>1. /\ LedgerRight' \in [Subs -> Nat]
      /\ attempts' \in [Subs -> Nat]
      /\ LedgerPhase' = LedgerPhase /\ decidedBy' = decidedBy
  BY DEF GrantInv, Ledger!TypeOK, Ledger!Grant
<1>2. ASSUME NEW f \in Subs
      PROVE  /\ decidedBy'[f] <= attempts'[f]
             /\ LedgerRight'[f] # 0 =>
                  LedgerRight'[f] = attempts'[f] /\ decidedBy'[f] < LedgerRight'[f]
  BY <1>1 DEF GrantInv, Ledger!TypeOK, Ledger!DecidedUnderAGrant, Ledger!Grant
<1>3. QED
  BY <1>1, <1>2 DEF GrantInv, Ledger!TypeOK, Ledger!DecidedUnderAGrant

LEMMA LedgerKeeps == GrantInv /\ [Ledger!Next]_Ledger!vars => GrantInv'
<1> SUFFICES ASSUME GrantInv, [Ledger!Next]_Ledger!vars PROVE GrantInv'
  OBVIOUS
<1>1. ASSUME NEW e \in Subs, Ledger!Submit(e) PROVE GrantInv'
  BY <1>1 DEF GrantInv, Ledger!TypeOK, Ledger!DecidedUnderAGrant, Ledger!Submit
<1>2. ASSUME NEW e \in Subs, NEW W \in SUBSET Subs, Ledger!Grant(e, W) PROVE GrantInv'
  BY <1>2, LedgerGrant
<1>3. ASSUME NEW e \in Subs, Ledger!Decide(e) PROVE GrantInv'
  BY <1>3 DEF GrantInv, Ledger!TypeOK, Ledger!DecidedUnderAGrant, Ledger!Decide
<1>4. ASSUME NEW e \in Subs, Ledger!Reopen(e) PROVE GrantInv'
  BY <1>4 DEF GrantInv, Ledger!TypeOK, Ledger!DecidedUnderAGrant, Ledger!Reopen
<1>5. CASE UNCHANGED Ledger!vars
  BY <1>5 DEF GrantInv, Ledger!TypeOK, Ledger!DecidedUnderAGrant, Ledger!vars
<1>6. QED
  BY <1>1, <1>2, <1>3, <1>4, <1>5 DEF Ledger!Next

\* In every behaviour of the ledger a decision was made under a right that had been
\* granted, and none has been made under the right that is valid now or under a
\* later one: what the queue of grading_jobs inherits from the ledger.
THEOREM Behind == Ledger!Spec => []Ledger!DecidedUnderAGrant
<1>1. Ledger!Init => GrantInv
  BY DEF Ledger!Init, GrantInv, Ledger!TypeOK, Ledger!DecidedUnderAGrant
<1>2. GrantInv => Ledger!DecidedUnderAGrant
  BY DEF GrantInv
<1>3. QED
  BY <1>1, <1>2, LedgerKeeps, PTL DEF Ledger!Spec

\* A submission is finished under a claim that was made, and while a claim is
\* in a row no verdict has been stored under it or a later one.
THEOREM QueueInherits == Spec => []Ledger!DecidedUnderAGrant
<1> QED BY Refinement, Behind, PTL DEF ImplementsLedger
=============================================================================
