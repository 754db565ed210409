-------------------------- MODULE CommunicateProofs --------------------------
(* Proofs about the communication helper, whose state is finite, so that TLC *)
(* has seen all of it and the proofs say why the properties hold; and about  *)
(* the stages of a grader, of which the script that uses the helper is one.  *)
EXTENDS Communicate, TLAPS

Polling == {"waitManager", "waitContestant", "decide"}

\* A child has a status once it has ended, and not before.
CodesKnown ==
    \A c \in Children : code[c] = "none" <=> child[c] \in {"none", "running"}

\* Which children there are, and that there is a box, while main() is on its way.
Started ==
    /\ pc \in {"setup", "pipes", "forkManager"} =>
          \A c \in Children : child[c] = "none"
    /\ pc = "forkContestant" =>
          child["manager"] # "none" /\ child["contestant"] = "none"
    /\ pc \in Polling => \A c \in Children : child[c] # "none"
    /\ pc = "setup" <=> box = "none" /\ pc # "done"

\* Only a child that has been reaped was waited for with success or an error.
WaitedIsReaped ==
    \A c \in Children : waited[c] # "zero" => child[c] = "reaped"

\* There is no exit status and no killed child before the end.
Unfinished == pc \notin {"teardown", "done"} => ret = 3 /\ killed = {}

IInv ==
    /\ TypeOK
    /\ CodesKnown
    /\ Started
    /\ WaitedIsReaped
    /\ Unfinished
    /\ NothingLeftBehind
    /\ StatusIsHonest

\* The process begins without children, box or status.
LEMMA InitIInv == Init => IInv
<1> SUFFICES ASSUME Init PROVE IInv
  OBVIOUS
<1>1. TypeOK
  <2>1. /\ child \in [Children -> {"none", "running", "zombie", "reaped"}]
        /\ code \in [Children -> {"none", "ok", "bad"}]
        /\ waited \in [Children -> {"zero", "self", "error"}]
    BY DEF Init
  <2>2. late \in BOOLEAN /\ killed \subseteq Children
    BY DEF Init
  <2>3. /\ pc \in {"setup", "pipes", "forkManager", "forkContestant", "waitManager",
                   "waitContestant", "decide", "teardown", "done"}
        /\ box \in {"none", "initialised", "cleaned", "kept"}
        /\ ret \in 0..3
    BY DEF Init
  <2> QED BY <2>1, <2>2, <2>3 DEF TypeOK
<1>2. CodesKnown /\ Started /\ WaitedIsReaped /\ Unfinished
  BY DEF Init, CodesKnown, Started, WaitedIsReaped, Unfinished, Polling, Children
<1>3. killed # Children
  BY DEF Init, Children
<1>4. NothingLeftBehind /\ StatusIsHonest
  BY <1>3 DEF Init, NothingLeftBehind, Gone, StatusIsHonest, Children
<1> QED BY <1>1, <1>2, <1>4 DEF IInv

-----------------------------------------------------------------------------
\* Before the second fork there is at most the manager, which is killed and
\* reaped when main() leaves.
LEMMA BeginningStep ==
    ASSUME IInv,
           \/ SetupFails \/ Setup \/ MakePipes \/ NoPipesOrManager
           \/ ForkManager \/ NoContestant \/ ForkContestant
    PROVE  IInv'
<1> USE DEF IInv, TypeOK, CodesKnown, Started, WaitedIsReaped, Unfinished,
            NothingLeftBehind, Gone, StatusIsHonest, Polling, Children
<1>1. CASE SetupFails
  BY <1>1 DEF SetupFails
<1>2. CASE Setup
  BY <1>2 DEF Setup
<1>3. CASE MakePipes
  BY <1>3 DEF MakePipes
<1>4. CASE NoPipesOrManager
  BY <1>4 DEF NoPipesOrManager, Return
<1>5. CASE ForkManager
  BY <1>5 DEF ForkManager
<1>6. CASE NoContestant
  BY <1>6 DEF NoContestant, Return, KillAndReap, Running
<1>7. CASE ForkContestant
  BY <1>7 DEF ForkContestant
<1> QED BY <1>1, <1>2, <1>3, <1>4, <1>5, <1>6, <1>7

\* A waitpid reaps a zombie and changes nothing else.
LEMMA WaitStep ==
    ASSUME IInv, WaitManager \/ WaitContestant
    PROVE  IInv'
<1>1. PICK c \in Children, here \in Polling, next \in Polling : WaitFor(c, here, next)
  BY DEF WaitManager, WaitContestant, Polling, Children
<1>2. child[c] \in {"running", "zombie", "reaped"}
  BY <1>1 DEF IInv, TypeOK, Started, WaitFor
<1>3. TypeOK'
  BY <1>1, <1>2 DEF IInv, TypeOK, WaitFor, WaitResult, Polling
<1>4. CodesKnown'
  BY <1>1, <1>2 DEF IInv, TypeOK, CodesKnown, WaitFor
<1>5. Started' /\ Unfinished'
  BY <1>1, <1>2 DEF IInv, TypeOK, Started, Unfinished, WaitFor, Polling, Children
<1>6. WaitedIsReaped'
  BY <1>1, <1>2 DEF IInv, TypeOK, WaitedIsReaped, WaitFor, WaitResult
<1>7. NothingLeftBehind' /\ StatusIsHonest'
  BY <1>1 DEF IInv, Started, Unfinished, NothingLeftBehind, Gone, StatusIsHonest, WaitFor, Polling, Children
<1> QED BY <1>3, <1>4, <1>5, <1>6, <1>7 DEF IInv

\* Both were reaped by a waitpid of their own, so their statuses are known.
LEMMA FinishStep == ASSUME IInv, Finish PROVE IInv'
<1>1. \A c \in Children : child[c] = "reaped" /\ code[c] \in {"ok", "bad"}
  BY DEF IInv, TypeOK, CodesKnown, WaitedIsReaped, Finish, BothDone
<1>2. TypeOK' /\ CodesKnown' /\ Started' /\ WaitedIsReaped' /\ Unfinished'
  BY DEF IInv, TypeOK, CodesKnown, Started, WaitedIsReaped, Unfinished, Finish, Return,
         ExitStatus, Polling
<1>3. NothingLeftBehind' /\ StatusIsHonest'
  BY <1>1 DEF IInv, Started, Unfinished, NothingLeftBehind, Gone, StatusIsHonest, Finish, Return,
              ExitStatus, Children
<1> QED BY <1>2, <1>3 DEF IInv

\* Both children are reaped.  After an error of a waitpid one of them had been
\* already, so not both were killed.
LEMMA GiveUpStep ==
    ASSUME IInv, GiveUpOnError \/ GiveUpLate
    PROVE  IInv'
<1>1. PICK status \in {1, 2} : GiveUp(status)
  BY DEF GiveUpOnError, GiveUpLate
<1>2. /\ pc = "decide"
      /\ status = 1 => late
      /\ ~late => WaitError
  BY <1>1 DEF GiveUpOnError, GiveUpLate, GiveUp, Return, Overdue
<1>3. killed' = Children => late
  BY <1>1, <1>2 DEF IInv, WaitedIsReaped, WaitError, GiveUp, Running, Children
<1>4. \A c \in Children : child'[c] = "reaped"
  BY <1>1, <1>2 DEF IInv, Started, GiveUp, KillAndReap, Polling
<1>5. TypeOK'
  BY <1>1, <1>4 DEF IInv, TypeOK, GiveUp, KillAndReap, Return, Running
<1>6. CodesKnown'
  BY <1>1, <1>2, <1>4 DEF IInv, TypeOK, CodesKnown, Started, GiveUp, KillAndReap, Running, Polling
<1>7. Started' /\ WaitedIsReaped' /\ Unfinished'
  BY <1>1, <1>2, <1>4 DEF IInv, GiveUp, Return, Started, WaitedIsReaped, Unfinished, Polling
<1>8. NothingLeftBehind' /\ StatusIsHonest'
  BY <1>1, <1>2, <1>3, <1>4 DEF IInv, Started, Polling, GiveUp, Return, NothingLeftBehind, Gone, StatusIsHonest
<1> QED BY <1>5, <1>6, <1>7, <1>8 DEF IInv

\* A child ends, the helper sleeps or cleans up, or time passes.
LEMMA OtherStep ==
    ASSUME IInv, Sleep \/ Teardown \/ TimePasses \/ \E c \in Children : ChildEnds(c)
    PROVE  IInv'
<1> USE DEF IInv, TypeOK, CodesKnown, Started, WaitedIsReaped, Unfinished,
            NothingLeftBehind, Gone, StatusIsHonest, Polling, Children
<1>1. CASE Sleep
  BY <1>1 DEF Sleep
<1>2. CASE TimePasses
  BY <1>2 DEF TimePasses
<1>3. CASE \E c \in Children : ChildEnds(c)
  BY <1>3 DEF ChildEnds
<1>4. CASE Teardown
  BY <1>4 DEF Teardown
<1> QED BY <1>1, <1>2, <1>3, <1>4

\* Every step keeps the invariant.
LEMMA StepIInv == IInv /\ [Next]_vars => IInv'
<1> SUFFICES ASSUME IInv, [Next]_vars PROVE IInv'
  OBVIOUS
<1>1. CASE Next
  BY <1>1, BeginningStep, WaitStep, FinishStep, GiveUpStep, OtherStep DEF Next, Main
<1>2. CASE UNCHANGED vars
  BY <1>2 DEF vars, IInv, TypeOK, CodesKnown, Started, WaitedIsReaped, Unfinished,
              NothingLeftBehind, Gone, StatusIsHonest
<1> QED BY <1>1, <1>2

\* The inductive invariant holds of every reachable state.
LEMMA Invariant == Spec => []IInv
BY InitIInv, StepIInv, PTL DEF Spec

-----------------------------------------------------------------------------
\* The locals of main() and the states of its children are well typed.
THEOREM TypeCorrect == Spec => []TypeOK
<1>1. IInv => TypeOK
  BY DEF IInv
<1> QED BY <1>1, Invariant, PTL

\* By whatever path main() returns, its children are reaped first and the box
\* is then cleaned, or was left by a clean-up that failed.
THEOREM LeavesNothing == Spec => []NothingLeftBehind
<1>1. IInv => NothingLeftBehind
  BY DEF IInv
<1> QED BY <1>1, Invariant, PTL

\* What a judge script reads off the exit status is so, and both programs are
\* killed only when their time is over.
THEOREM HonestStatus == Spec => []StatusIsHonest
<1>1. IInv => StatusIsHonest
  BY DEF IInv
<1> QED BY <1>1, Invariant, PTL
=============================================================================
