--------------------------- MODULE GradingProofs ---------------------------
(* Proofs about Grading, for any number of cases, runs and subtasks: the     *)
(* marks, the result and the score of a submission belong together, and a    *)
(* mark has its cause in the submission it is shown for.  The last part is   *)
(* about the children that a grader waits for.                               *)
EXTENDS Grading, Stages, FiniteSetTheorems, WellFoundedInduction, TLAPS

(* The inductive invariant.                                                  *)

Graded == 1 .. case - 1
Accepted == {c \in Graded : Letters[c] = "A"}

\* One piece of the marks and one run for each case so far.
OnePerCase ==
    /\ Len(marks) = case - 1
    /\ \A c \in Graded : Letters[c] \in {"A", "W", "T", "M", "R", "E"}

\* The largest time and memory so far are those of a case so far.
LargestAreReached ==
    /\ overTime => \E c \in Graded : ran[c].slow
    /\ overMem => \E c \in Graded : ran[c].big

\* first_failure is that of the first mark that is no A.
FirstIsFirst ==
    IF first = "none" THEN Accepted = Graded
    ELSE \E c \in Graded : /\ Letters[c] = Mark[first]
                           /\ Letters[c] # "A"
                           /\ \A d \in 1 .. c - 1 : Letters[d] = "A"

\* A subtask is marked as failed for one of its own marks or for an E, and never
\* forgotten.
FailedForAMark ==
    /\ \A i \in DOMAIN groups, c \in Graded :
          c \in groups[i].first .. groups[i].last /\ Letters[c] # "A" => i \in failed
    /\ \A i \in failed : \E c \in Graded :
          \/ Letters[c] = "E"
          \/ c \in groups[i].first .. groups[i].last /\ Letters[c] # "A"

\* What the evaluator hands to main() is made of the locals, which stay as they
\* are until the next submission is begun.
OutcomeIsOfLocals ==
    pc = "main" =>
        /\ outcome.by \in {"evaluator", "failed script"} =>
              case = NCase + 1 /\ outcome.score = Score
        /\ outcome.by = "evaluator" => outcome.result = first
        /\ outcome.by = "score script" => box # "none"

GradingInv ==
    /\ TypeOK
    /\ OnePerCase
    /\ LargestAreReached
    /\ FirstIsFirst
    /\ passed = Cardinality(Accepted)
    /\ FailedForAMark
    /\ OutcomeIsOfLocals
    /\ pc \in {"ready", "cases"} => box = "own"
    /\ AcceptedMarkIsRight
    /\ MarksHaveCauses

-----------------------------------------------------------------------------
(* The points of subtasks.                                                   *)

\* What MapThenSumSet adds next, and its recursion.
Pick(s) == CHOOSE x \in s : TRUE
Body(rows, g, s) == IF s = {} THEN 0 ELSE rows[Pick(s)].score + g[s \ {Pick(s)}]
\* The sets of at most n of the subtasks gs.
Small(gs, n) == {s \in SUBSET gs : Cardinality(s) <= n}

\* A non-empty set of naturals has a least element: the induction that is used
\* here.
LEMMA Least ==
    ASSUME NEW T \in SUBSET Nat, T # {}
    PROVE  \E m \in T : \A r \in T : m <= r
<1> DEFINE R == OpToRel(<, Nat)
<1>1. IsWellFoundedOn(R, Nat)
  BY NatLessThanWellFounded
<1>2. \A x, y \in Nat : <<x, y>> \in R <=> x < y
  BY DEF OpToRel
<1> HIDE DEF R
<1>3. PICK m \in T : \A r \in T : ~(<<r, m>> \in R)
  BY <1>1, WFMin
<1>4. m \in Nat /\ \A r \in T : r \in Nat /\ ~(r < m)
  BY <1>2, <1>3
<1> QED BY <1>4

\* The recursion goes to a smaller set.
LEMMA PickSmaller ==
    ASSUME NEW s, IsFiniteSet(s), s # {}
    PROVE  /\ Pick(s) \in s
           /\ IsFiniteSet(s \ {Pick(s)})
           /\ Cardinality(s \ {Pick(s)}) = Cardinality(s) - 1
           /\ Cardinality(s) \in Nat
<1>1. Pick(s) \in s BY DEF Pick
<1> QED BY <1>1, FS_RemoveElement, FS_CardinalityType

\* A function that sums the sets of at most n subtasks can be continued to those
\* of one more.
LEMMA SumStep ==
    ASSUME NEW rows, NEW gs, IsFiniteSet(gs), NEW n \in Nat,
           NEW g, g = [s \in Small(gs, n) |-> Body(rows, g, s)]
    PROVE  \E h : h = [s \in Small(gs, n + 1) |-> Body(rows, h, s)]
<1> DEFINE h == [s \in Small(gs, n + 1) |-> Body(rows, g, s)]
<1>1. ASSUME NEW s \in Small(gs, n + 1), s # {}
      PROVE  h[s \ {Pick(s)}] = g[s \ {Pick(s)}]
  <2>1. s \in SUBSET gs /\ IsFiniteSet(s) /\ Cardinality(s) <= n + 1
    BY FS_Subset DEF Small
  <2> DEFINE t == s \ {Pick(s)}
  <2>2. Cardinality(t) = Cardinality(s) - 1 /\ Cardinality(s) \in Nat
    BY <1>1, <2>1, PickSmaller
  <2>3. t \in Small(gs, n) /\ t \in Small(gs, n + 1)
    BY <2>1, <2>2 DEF Small
  <2> HIDE DEF t
  <2>4. h[t] = Body(rows, g, t) /\ g[t] = Body(rows, g, t)
    BY <2>3, Zenon
  <2> QED BY <2>4 DEF t
<1> HIDE DEF h
<1>2. \A s \in Small(gs, n + 1) : Body(rows, g, s) = Body(rows, h, s)
  BY <1>1, Zenon DEF Body
<1>3. h = [s \in Small(gs, n + 1) |-> Body(rows, h, s)]
  BY <1>2, Zenon DEF h
<1> QED BY <1>3

\* So there is one for all sets of subtasks: the recursion defines something.
LEMMA SumExists ==
    ASSUME NEW rows, NEW gs, IsFiniteSet(gs)
    PROVE  \E g : g = [s \in SUBSET gs |-> Body(rows, g, s)]
<1> DEFINE E(n) == \E g : g = [s \in Small(gs, n) |-> Body(rows, g, s)]
           Bad == {n \in Nat : ~E(n)}
<1>1. \A s \in SUBSET gs : Cardinality(s) \in Nat /\ Cardinality(s) <= Cardinality(gs)
  BY FS_Subset, FS_CardinalityType
<1>2. Cardinality(gs) \in Nat /\ Small(gs, Cardinality(gs)) = SUBSET gs
  BY <1>1 DEF Small
<1>3. E(0)
  <2> DEFINE g == [s \in Small(gs, 0) |-> 0]
  <2>1. \A s \in Small(gs, 0) : s = {}
    <3> SUFFICES ASSUME NEW s \in Small(gs, 0), s # {} PROVE FALSE
      OBVIOUS
    <3>1. IsFiniteSet(s) /\ Cardinality(s) <= 0
      BY FS_Subset DEF Small
    <3>2. Cardinality(s) = 0
      BY <3>1, FS_CardinalityType
    <3> QED BY <3>1, <3>2, FS_EmptySet
  <2> HIDE DEF g
  <2>2. \A s \in Small(gs, 0) : Body(rows, g, s) = 0
    BY <2>1 DEF Body
  <2>3. g = [s \in Small(gs, 0) |-> Body(rows, g, s)]
    BY <2>2, Zenon DEF g
  <2> QED BY <2>3
<1>4. \A n \in Nat : E(n) => E(n + 1)
  <2> SUFFICES ASSUME NEW n \in Nat, E(n) PROVE E(n + 1)
    OBVIOUS
  <2>1. PICK g : g = [s \in Small(gs, n) |-> Body(rows, g, s)]
    OBVIOUS
  <2> QED BY <2>1, SumStep, SMTT(30)
<1> HIDE DEF E
<1>5. Bad = {}
  <2> SUFFICES ASSUME Bad # {} PROVE FALSE
    OBVIOUS
  <2>1. PICK n \in Bad : \A m \in Bad : n <= m
    BY Least
  <2>2. n \in Nat /\ n # 0
    BY <1>3
  <2>3. n - 1 \in Nat /\ n - 1 \notin Bad
    BY <2>1, <2>2
  <2>4. E((n - 1) + 1)
    BY <1>4, <2>3
  <2>5. E(n)
    BY <2>4, <2>2
  <2> QED BY <2>5
<1>6. E(Cardinality(gs))
  BY <1>2, <1>5
<1> QED BY <1>2, <1>6 DEF E

\* The points for some subtasks are a natural number.
LEMMA PointsAreNat ==
    ASSUME NEW rows, NEW gs, IsFiniteSet(gs), \A i \in gs : rows[i].score \in Nat
    PROVE  GroupPoints(rows, gs) \in Nat
<1> DEFINE g == CHOOSE g : g = [s \in SUBSET gs |-> Body(rows, g, s)]
           Bad == {n \in Nat : \E s \in SUBSET gs : n = Cardinality(s) /\ g[s] \notin Nat}
<1>1. GroupPoints(rows, gs) = g[gs]
  BY DEF GroupPoints, MapThenSumSet, MapThenFoldSet, Body, Pick
<1>2. g = [s \in SUBSET gs |-> Body(rows, g, s)]
  BY SumExists, Zenon
<1> HIDE DEF g
<1>3. \A s \in SUBSET gs : g[s] = Body(rows, g, s)
  BY <1>2
<1>4. Bad = {}
  <2> SUFFICES ASSUME Bad # {} PROVE FALSE
    OBVIOUS
  <2>1. PICK n \in Bad : \A m \in Bad : n <= m
    BY Least
  <2>2. PICK s \in SUBSET gs : n = Cardinality(s) /\ g[s] \notin Nat
    BY <2>1
  <2>3. s # {}
    <3>1. s = {} => Body(rows, g, s) = 0
      BY DEF Body
    <3> QED BY <2>2, <1>3, <3>1
  <2>4. IsFiniteSet(s)
    BY FS_Subset
  <2> DEFINE t == s \ {Pick(s)}
  <2>5. Pick(s) \in s /\ Cardinality(t) = n - 1 /\ n - 1 \in Nat
    <3>1. Cardinality(t) = n - 1 /\ IsFiniteSet(t) /\ Pick(s) \in s
      BY <2>2, <2>3, <2>4, PickSmaller
    <3> QED BY <3>1, FS_CardinalityType
  <2>6. g[s] = rows[Pick(s)].score + g[t]
    BY <1>3, <2>3 DEF Body
  <2>7. g[t] \in Nat
    BY <2>1, <2>5
  <2> QED BY <2>2, <2>5, <2>6, <2>7
<1>5. Cardinality(gs) \in Nat
  BY FS_CardinalityType
<1> QED BY <1>1, <1>4, <1>5

-----------------------------------------------------------------------------
(* One case.                                                                 *)

\* Which results a mark stands for.
LEMMA MarkFacts ==
    ASSUME NEW r \in Results
    PROVE  /\ Mark[r] \in {"A", "W", "T", "M", "R", "E"}
           /\ Mark[r] = "A" <=> r = "none"
           /\ Mark[r] = "T" <=> r = "time"
           /\ Mark[r] = "M" <=> r = "memory"
           /\ Mark[r] = "R" <=> r = "runtime"
           /\ Mark[r] = "E" <=> r \in {"error", "error#", "compile"}
BY DEF Mark, Results

\* What a verdict says of the run, and of the output that was compared.
LEMMA VerdictFacts ==
    ASSUME NEW run \in RunOutcomes, NEW c, NEW output
    PROVE  LET r == Verdict(c, run, output)
           IN  /\ r \in Results \ {"compile"}
               /\ r = "none" =>
                     /\ run.end \in {"ok", "other"}
                     /\ \/ output = "right"
                        \/ checker = "compare" /\ (c \in AnswersMissing \/ output = "none")
               /\ r = "time" => run.end = "TO" \/ OverTime(run)
               /\ r = "memory" => run.end = "other" /\ OverMem(run)
               /\ r = "runtime" => run.end \in {"SG", "exit"}
<1>1. Checked(c, run, output) \in {"none", "wa", "error", "error#"}
  BY DEF Checked
<1>2. Checked(c, run, output) = "none" =>
         \/ output = "right"
         \/ checker = "compare" /\ (c \in AnswersMissing \/ output = "none")
  BY DEF Checked, Matches
<1> QED BY <1>1, <1>2 DEF Verdict, Results, RunOutcomes

\* What was copied is the output of this run, if it left one, and otherwise what
\* was there; the other cases keep theirs.
LEMMA CopiedIsOwn ==
    ASSUME TypeOK, NEW c \in Cases, NEW run
    PROVE  /\ run.end # "failed" /\ run.output # "none" => Copied(c, run)[c] = run.output
           /\ \A d \in Cases \ {c} : Copied(c, run)[d] = tmpOut[d]
BY DEF Copied, CopyOver, TypeOK

\* One more piece and one more run.
LEMMA CaseAppends ==
    ASSUME TypeOK, OnePerCase, case \in Cases, case' = case + 1,
           NEW run, run \in Runs, ran' = Append(ran, run),
           NEW piece, piece \in Pieces, marks' = Append(marks, piece)
    PROVE  /\ Graded' = Graded \cup {case}
           /\ case \in Nat /\ case \notin Graded
           /\ Len(marks') = case /\ DOMAIN Letters' = 1 .. case
           /\ \A c \in Graded : Letters'[c] = Letters[c] /\ ran'[c] = ran[c]
           /\ Letters'[case] = piece.mark /\ ran'[case] = run
           /\ DOMAIN Letters = Graded
<1>1. case \in Nat /\ case >= 1 /\ Len(marks) = case - 1 /\ Len(ran) = case - 1
  BY CaseAssumption DEF TypeOK, OnePerCase, Cases
<1>2. marks \in Seq(Pieces) /\ ran \in Seq(Runs)
  BY DEF TypeOK
<1>3. Graded' = Graded \cup {case} /\ case \notin Graded
  BY <1>1 DEF Graded
<1>4. Len(marks') = case /\ marks'[case] = piece
      /\ \A c \in Graded : marks'[c] = marks[c]
  BY <1>1, <1>2 DEF Graded
<1>5. ran'[case] = run /\ \A c \in Graded : ran'[c] = ran[c]
  BY <1>1, <1>2 DEF Graded
<1>6. DOMAIN marks = 1 .. case - 1 /\ DOMAIN marks' = 1 .. case
  BY <1>1, <1>2, <1>4
<1> QED BY <1>1, <1>3, <1>4, <1>5, <1>6 DEF Letters, Graded

-----------------------------------------------------------------------------
(* The invariant is inductive.                                               *)

LEMMA GradingInit == Init => GradingInv
<1> SUFFICES ASSUME Init PROVE GradingInv
  OBVIOUS
<1>1. Graded = {} /\ marks = <<>> /\ DOMAIN Letters = {}
  BY DEF Init, Graded, Letters
<1>2. Accepted = {} /\ Cardinality(Accepted) = 0
  BY <1>1, FS_EmptySet DEF Accepted
<1>3. TypeOK
  <2>1. tmpOut \in [Cases -> {"none", "right", "wrong"}]
    BY DEF Init
  <2>2. outcome \in Outcomes
    BY DEF Init, NoOutcome, Outcomes, Results
  <2>3. first \in Results \ {"compile"} /\ case \in 1 .. NCase + 1 /\ passed \in 0 .. NCase
    BY CaseAssumption DEF Init, Results
  <2>4. ran \in Seq(Runs) /\ Len(ran) = case - 1 /\ marks \in Seq(Pieces)
    BY DEF Init
  <2> QED BY <2>1, <2>2, <2>3, <2>4 DEF Init, TypeOK
<1> QED
  BY <1>1, <1>2, <1>3 DEF Init, NoOutcome, GradingInv, OnePerCase, LargestAreReached,
     FirstIsFirst, FailedForAMark, OutcomeIsOfLocals, AcceptedMarkIsRight, MarksHaveCauses

\* A step outside the loop that leaves the locals as they are.
LEMMA LocalsKept ==
    ASSUME GradingInv, UNCHANGED ReturnVars,
           pc' \in {"main", "ready", "cases"}, box' \in {"none", "own", "old"},
           pc' \in {"ready", "cases"} => box' = "own",
           outcome' \in Outcomes, OutcomeIsOfLocals'
    PROVE  GradingInv'
<1>1. Letters' = Letters /\ Graded' = Graded /\ Accepted' = Accepted
  BY DEF ReturnVars, Letters, Graded, Accepted
<1>2. TypeOK'
  BY DEF GradingInv, TypeOK, ReturnVars
<1>3. OnePerCase' /\ LargestAreReached' /\ FirstIsFirst' /\ FailedForAMark'
      /\ passed' = Cardinality(Accepted')
  BY <1>1 DEF GradingInv, ReturnVars, OnePerCase, LargestAreReached, FirstIsFirst,
     FailedForAMark
<1>4. AcceptedMarkIsRight' /\ MarksHaveCauses'
  BY <1>1 DEF GradingInv, ReturnVars, AcceptedMarkIsRight, MarksHaveCauses
<1> QED BY <1>2, <1>3, <1>4 DEF GradingInv

\* An early return, and the way to the loop, have a typed outcome that is not the
\* evaluator's.
LEMMA EarlyOutcome ==
    ASSUME NEW result \in Results, NEW score \in Int
    PROVE  EarlyReturn(result, score) =>
               pc' = "main" /\ outcome' \in Outcomes /\ OutcomeIsOfLocals'
BY DEF EarlyReturn, Outcomes, OutcomeIsOfLocals

LEMMA BrokenOutcome ==
    Broken => pc' = "main" /\ outcome' \in Outcomes /\ OutcomeIsOfLocals'
BY EarlyOutcome DEF Broken, Results

\* A case's share of the points is a whole one.
LEMMA Share ==
    ASSUME NCase # 0
    PROVE  /\ MaxScore \div NCase \in Nat
           /\ NCase * (MaxScore \div NCase) = MaxScore
<1>1. NCase \in Nat /\ NCase > 0
  BY CaseAssumption
<1>2. PICK share \in 0 .. MaxScore : MaxScore = NCase * share
  BY ScoreAssumption
<1>3. share \in Nat /\ (NCase * share) \div NCase = share
  BY <1>1, <1>2
<1> QED BY <1>2, <1>3

\* A failure comes from a case.
LEMMA FailureHasCase == GradingInv /\ first # "none" => NCase # 0
<1> SUFFICES ASSUME GradingInv, first # "none" PROVE NCase # 0
  OBVIOUS
<1>1. PICK c \in Graded : Letters[c] # "A"
  BY DEF GradingInv, FirstIsFirst
<1>2. case \in 1 .. NCase + 1 /\ NCase \in Nat
  BY CaseAssumption DEF GradingInv, TypeOK
<1> QED BY <1>1, <1>2 DEF Graded

\* total_score is a number.
LEMMA ScoreIsInt == GradingInv => Score \in Int
<1> SUFFICES ASSUME GradingInv PROVE Score \in Int
  OBVIOUS
<1>1. MaxScore \in Nat /\ passed \in Nat /\ NCase \in Nat
  BY ScoreAssumption, CaseAssumption DEF GradingInv, TypeOK
<1>2. /\ IsFiniteSet(DOMAIN groups)
      /\ \A i \in DOMAIN groups : groups[i].score \in Nat
  <2>1. groups \in Seq(Group)
    BY LayoutAssumption DEF GradingInv, TypeOK
  <2>2. DOMAIN groups = 1 .. Len(groups) /\ Len(groups) \in Nat
    BY <2>1
  <2>3. ASSUME NEW i \in DOMAIN groups PROVE groups[i].score \in Nat
    <3>1. groups[i] \in Group
      BY <2>1
    <3> QED BY <3>1 DEF Group
  <2> QED BY <2>2, <2>3, FS_Interval
<1>3. GroupPoints(groups, DOMAIN groups \ failed) \in Nat
  <2>1. IsFiniteSet(DOMAIN groups \ failed)
    BY <1>2, FS_Subset
  <2> QED BY <1>2, <2>1, PointsAreNat
<1>4. CASE first = "none"
  BY <1>1, <1>4 DEF Score
<1>5. CASE first # "none" /\ groups = <<>>
  <2>1. MaxScore \div NCase \in Nat
    BY <1>5, FailureHasCase, Share
  <2>2. Score = (MaxScore \div NCase) * passed
    BY <1>5 DEF Score
  <2> HIDE DEF Score
  <2> QED BY <1>1, <2>1, <2>2
<1>6. CASE first # "none" /\ groups # <<>>
  BY <1>3, <1>6 DEF Score
<1> QED BY <1>4, <1>5, <1>6

-----------------------------------------------------------------------------
(* One more case keeps each conjunct.                                        *)

LEMMA CaseKeeps == GradingInv /\ Case => GradingInv'
<1> SUFFICES ASSUME GradingInv, Case PROVE GradingInv'
  OBVIOUS
<1>1. PICK run \in Runs :
         LET result == Verdict(case, run, Copied(case, run)[case])
         IN  /\ tmpOut' = Copied(case, run)
             /\ overTime' = OverTime(run)
             /\ overMem' = OverMem(run)
             /\ marks' = Append(marks, [before |-> Opening(case),
                                        mark |-> Mark[result],
                                        after |-> Closing(case)])
             /\ failed' = failed \cup Fails(case, result)
             /\ passed' = passed + (IF result = "none" THEN 1 ELSE 0)
             /\ first' = FirstFailure(result)
             /\ ran' = Append(ran, run)
  BY DEF Case
<1>2. /\ pc = "cases" /\ case \in Cases /\ case' = case + 1
      /\ UNCHANGED <<pc, box, groups, checker, outcome>>
  BY DEF Case
<1> DEFINE output == Copied(case, run)[case]
           result == Verdict(case, run, output)
           piece == [before |-> Opening(case), mark |-> Mark[result], after |-> Closing(case)]
<1>3. TypeOK /\ OnePerCase /\ box = "own"
  BY <1>2 DEF GradingInv
<1>4. run \in RunOutcomes
  BY RunAssumption
<1>5. /\ result \in Results \ {"compile"}
      /\ result = "none" =>
            /\ run.end \in {"ok", "other"}
            /\ \/ output = "right"
               \/ checker = "compare" /\ (case \in AnswersMissing \/ output = "none")
      /\ result = "time" => run.end = "TO" \/ OverTime(run)
      /\ result = "memory" => run.end = "other" /\ OverMem(run)
      /\ result = "runtime" => run.end \in {"SG", "exit"}
  BY <1>4, VerdictFacts
<1>6. result = "none" /\ run.output # "none" => output = run.output
  BY <1>2, <1>3, <1>5, CopiedIsOwn
<1>6a. /\ tmpOut'[case] = output
       /\ \A d \in Cases \ {case} : tmpOut'[d] = tmpOut[d]
  BY <1>1, <1>2, <1>3, CopiedIsOwn
<1>7. piece \in Pieces
  <2>1. Opening(case) \in Seq({"["}) /\ Closing(case) \in Seq({"[", "]"})
    <3>1. <<>> \in Seq({"["}) /\ <<"[">> \in Seq({"["})
      OBVIOUS
    <3>2. <<>> \in Seq({"[", "]"}) /\ <<"]">> \in Seq({"[", "]"})
          /\ <<"]", "[">> \in Seq({"[", "]"})
      OBVIOUS
    <3>3. Opening(case) \in {<<>>, <<"[">>} /\ Closing(case) \in {<<>>, <<"]">>, <<"]", "[">>}
      BY Zenon DEF Opening, Closing
    <3> QED BY <3>1, <3>2, <3>3
  <2>2. Mark[result] \in {"A", "W", "T", "M", "R", "E"}
    BY <1>5, MarkFacts
  <2> QED BY <2>1, <2>2 DEF Pieces
<1> HIDE DEF output, result, piece
<1>8. /\ tmpOut' = Copied(case, run)
      /\ overTime' = OverTime(run) /\ overMem' = OverMem(run)
      /\ marks' = Append(marks, piece) /\ ran' = Append(ran, run)
      /\ failed' = failed \cup Fails(case, result)
      /\ passed' = passed + (IF result = "none" THEN 1 ELSE 0)
      /\ first' = FirstFailure(result)
      /\ piece.mark = Mark[result]
  BY <1>1 DEF output, result, piece
<1>9. /\ Graded' = Graded \cup {case}
      /\ case \in Nat /\ case \notin Graded
      /\ Len(marks') = case /\ DOMAIN Letters' = 1 .. case
      /\ \A c \in Graded : Letters'[c] = Letters[c] /\ ran'[c] = ran[c]
      /\ Letters'[case] = Mark[result] /\ ran'[case] = run
      /\ DOMAIN Letters = Graded
  BY <1>2, <1>3, <1>7, <1>8, CaseAppends
<1>10. /\ Mark[result] \in {"A", "W", "T", "M", "R", "E"}
       /\ Mark[result] = "A" <=> result = "none"
       /\ Mark[result] = "T" <=> result = "time"
       /\ Mark[result] = "M" <=> result = "memory"
       /\ Mark[result] = "R" <=> result = "runtime"
       /\ Mark[result] = "E" <=> result \in {"error", "error#", "compile"}
  BY <1>5, MarkFacts
<1>11. Graded = 1 .. case - 1 /\ Graded' = 1 .. case
  BY <1>2, <1>9 DEF Graded
<1>12. case + 1 \in 1 .. NCase + 1 /\ NCase \in Nat /\ case >= 1
  BY <1>2, CaseAssumption DEF Cases
<1>13. Accepted' = IF result = "none" THEN Accepted \cup {case} ELSE Accepted
  BY <1>9, <1>10, Zenon DEF Accepted
<1>14. passed' = Cardinality(Accepted') /\ passed' \in 0 .. NCase
  <2>1. IsFiniteSet(1 .. case) /\ Cardinality(1 .. case) = case
    BY <1>9, <1>12, FS_Interval
  <2>2. Accepted \subseteq 1 .. case /\ case \notin Accepted /\ Accepted' \subseteq 1 .. case
    BY <1>9, <1>11, <1>13 DEF Accepted
  <2>3. IsFiniteSet(Accepted) /\ IsFiniteSet(Accepted') /\ Cardinality(Accepted') <= case
    BY <2>1, <2>2, FS_Subset
  <2>4. Cardinality(Accepted') = Cardinality(Accepted) + (IF result = "none" THEN 1 ELSE 0)
    BY <1>13, <2>2, <2>3, FS_AddElement, FS_CardinalityType
  <2>5. passed = Cardinality(Accepted)
    BY DEF GradingInv
  <2>6. Cardinality(Accepted') \in Nat /\ case \in Nat /\ case <= NCase
    BY <2>3, <1>9, <1>12, FS_CardinalityType
  <2>7. passed' = Cardinality(Accepted')
    BY <1>8, <2>4, <2>5
  <2> QED BY <1>12, <2>3, <2>6, <2>7
<1>15. OnePerCase'
  <2>1. \A c \in Graded : Letters[c] \in {"A", "W", "T", "M", "R", "E"}
    BY <1>3 DEF OnePerCase
  <2> QED BY <1>2, <1>9, <1>10, <1>12, <2>1 DEF OnePerCase
<1>16. TypeOK'
  <2>1. tmpOut' \in [Cases -> {"none", "right", "wrong"}]
    BY <1>2, <1>3, <1>4, <1>8 DEF TypeOK, Copied, CopyOver, RunOutcomes
  <2>2. overTime' \in BOOLEAN /\ overMem' \in BOOLEAN
    BY <1>3, <1>4, <1>8 DEF TypeOK, OverTime, OverMem, StatRead, RunOutcomes
  <2>3. marks' \in Seq(Pieces) /\ ran' \in Seq(Runs) /\ Len(ran') = case' - 1
    <3>1. marks \in Seq(Pieces) /\ ran \in Seq(Runs) /\ Len(ran) = case - 1
      BY <1>3 DEF TypeOK
    <3> QED BY <1>2, <1>7, <1>8, <1>9, <3>1
  <2>4. failed' \subseteq DOMAIN groups'
    BY <1>2, <1>3, <1>8 DEF TypeOK, Fails, GroupsOf
  <2>5. first' \in Results \ {"compile"}
    BY <1>3, <1>5, <1>8 DEF TypeOK, FirstFailure
  <2> QED BY <1>2, <1>3, <1>12, <1>14, <2>1, <2>2, <2>3, <2>4, <2>5 DEF TypeOK
<1>17. LargestAreReached'
  <2>1. overTime' => \E c \in Graded' : ran'[c].slow
    <3>1. overTime' => overTime \/ run.slow
      BY <1>8 DEF OverTime
    <3>2. overTime => \E c \in Graded : ran[c].slow
      BY DEF GradingInv, LargestAreReached
    <3> QED BY <1>9, <3>1, <3>2
  <2>2. overMem' => \E c \in Graded' : ran'[c].big
    <3>1. overMem' => overMem \/ run.big
      BY <1>8 DEF OverMem
    <3>2. overMem => \E c \in Graded : ran[c].big
      BY DEF GradingInv, LargestAreReached
    <3> QED BY <1>9, <3>1, <3>2
  <2> QED BY <2>1, <2>2 DEF LargestAreReached
<1>18. FirstIsFirst'
  <2>1. CASE first # "none"
    <3>1. PICK c \in Graded : /\ Letters[c] = Mark[first]
                              /\ Letters[c] # "A"
                              /\ \A d \in 1 .. c - 1 : Letters[d] = "A"
      BY <2>1 DEF GradingInv, FirstIsFirst
    <3>2. first' = first
      BY <1>8, <2>1 DEF FirstFailure
    <3>3. \A d \in 1 .. c - 1 : d \in Graded
      BY <1>9, <1>11, <3>1
    <3> QED BY <1>9, <2>1, <3>1, <3>2, <3>3 DEF FirstIsFirst
  <2>2. CASE first = "none" /\ result = "none"
    BY <1>8, <1>9, <1>13, <2>2 DEF FirstFailure, FirstIsFirst, GradingInv
  <2>3. CASE first = "none" /\ result # "none"
    <3>1. first' = result /\ Letters'[case] = Mark[first'] /\ Letters'[case] # "A"
      BY <1>8, <1>9, <1>10, <2>3 DEF FirstFailure
    <3>2. \A d \in 1 .. case - 1 : Letters'[d] = "A"
      BY <1>9, <1>11, <2>3 DEF GradingInv, FirstIsFirst, Accepted
    <3> QED BY <1>9, <2>3, <3>1, <3>2 DEF FirstIsFirst
  <2> QED BY <2>1, <2>2, <2>3
<1>19. FailedForAMark'
  <2>1. ASSUME NEW i \in DOMAIN groups', NEW c \in Graded',
               c \in groups'[i].first .. groups'[i].last, Letters'[c] # "A"
        PROVE  i \in failed'
    <3>1. CASE c = case
      <4>1. result # "none" /\ i \in GroupsOf(case)
        BY <1>2, <1>9, <1>10, <2>1, <3>1 DEF GroupsOf
      <4>2. i \in Fails(case, result)
        BY <1>2, <2>1, <4>1 DEF Fails
      <4> QED BY <1>8, <4>2
    <3>2. CASE c \in Graded
      BY <1>2, <1>8, <1>9, <2>1, <3>2 DEF GradingInv, FailedForAMark
    <3> QED BY <1>9, <3>1, <3>2
  <2>2. ASSUME NEW i \in failed'
        PROVE  \E c \in Graded' :
                  \/ Letters'[c] = "E"
                  \/ c \in groups'[i].first .. groups'[i].last /\ Letters'[c] # "A"
    <3>1. CASE i \in failed
      <4>1. PICK c \in Graded :
               \/ Letters[c] = "E"
               \/ c \in groups[i].first .. groups[i].last /\ Letters[c] # "A"
        BY <3>1 DEF GradingInv, FailedForAMark
      <4> QED BY <1>2, <1>9, <4>1
    <3>2. CASE i \in Fails(case, result)
      <4>1. result # "none" /\ (result = "error" \/ i \in GroupsOf(case))
        BY <3>2 DEF Fails
      <4>2. Letters'[case] # "A" /\ (Letters'[case] = "E" \/ i \in GroupsOf(case))
        BY <1>9, <1>10, <4>1
      <4> QED BY <1>2, <1>9, <4>2 DEF GroupsOf
    <3> QED BY <1>8, <2>2, <3>1, <3>2
  <2> QED BY <2>1, <2>2 DEF FailedForAMark
<1>20. OutcomeIsOfLocals'
  BY <1>2 DEF OutcomeIsOfLocals
<1>21. AcceptedMarkIsRight'
  <2>1. ASSUME NEW c \in Graded', Letters'[c] = "A"
        PROVE  \/ ran'[c].output = "right"
               \/ checker' = "compare" /\ c \in AnswersMissing
               \/ ran'[c].output = "none" /\ tmpOut'[c] = "right"
               \/ ran'[c].output = "none" /\ tmpOut'[c] = "none" /\ checker' = "compare"
    <3>1. CASE c = case
      <4>1. result = "none" /\ ran'[c] = run /\ tmpOut'[c] = output
        BY <1>9, <1>10, <1>6a, <2>1, <3>1
      <4>2. CASE run.output = "none"
        BY <1>2, <1>5, <3>1, <4>1, <4>2
      <4>3. CASE run.output # "none"
        BY <1>2, <1>5, <1>6, <3>1, <4>1, <4>3
      <4> QED BY <4>2, <4>3
    <3>2. CASE c \in Graded
      <4>1. c \in Cases /\ c # case
        BY <1>2, <1>9, <1>11, <3>2, CaseAssumption DEF Cases
      <4>2. tmpOut'[c] = tmpOut[c]
        BY <1>6a, <4>1
      <4> QED BY <1>2, <1>9, <2>1, <3>2, <4>2 DEF GradingInv, AcceptedMarkIsRight
    <3> QED BY <1>9, <3>1, <3>2
  <2> QED BY <1>9, <1>11, <2>1 DEF AcceptedMarkIsRight
<1>22. MarksHaveCauses'
  <2>1. ASSUME NEW c \in Graded'
        PROVE  /\ Letters'[c] = "T" =>
                     ran'[c].end = "TO" \/ \E d \in 1 .. c : ran'[d].slow
               /\ Letters'[c] = "M" =>
                     ran'[c].end = "other" /\ \E d \in 1 .. c : ran'[d].big
               /\ Letters'[c] = "R" => ran'[c].end \in {"SG", "exit"}
    <3>1. CASE c = case
      BY <1>5, <1>8, <1>9, <1>10, <1>11, <1>17, <3>1 DEF LargestAreReached
    <3>2. CASE c \in Graded
      <4>1. \A d \in 1 .. c : d \in Graded
        BY <1>9, <1>11, <3>2
      <4> QED BY <1>9, <3>2, <4>1 DEF GradingInv, MarksHaveCauses
    <3> QED BY <1>9, <3>1, <3>2
  <2> QED BY <1>2, <1>3, <1>9, <1>11, <2>1 DEF MarksHaveCauses
<1> QED
  BY <1>2, <1>3, <1>14, <1>15, <1>16, <1>17, <1>18, <1>19, <1>20, <1>21, <1>22 DEF GradingInv

LEMMA BeginKeeps == GradingInv /\ Begin => GradingInv'
<1> SUFFICES ASSUME GradingInv, Begin PROVE GradingInv'
  OBVIOUS
<1>1. /\ pc = "ready" /\ pc' = "cases" /\ case' = 1
      /\ overTime' = FALSE /\ overMem' = FALSE /\ marks' = <<>> /\ failed' = {}
      /\ passed' = 0 /\ first' = "none" /\ ran' = <<>> /\ checker' \in Checkers
      /\ UNCHANGED <<box, tmpOut, outcome>>
  BY DEF Begin
<1>2. groups' \in Layouts
  BY DEF Begin, FetchedGroups, HasGroups
<1>3. TypeOK /\ box = "own"
  BY <1>1 DEF GradingInv
<1>4. Graded' = {} /\ DOMAIN Letters' = {} /\ Len(marks') = 0
  BY <1>1 DEF Graded, Letters
<1>5. Accepted' = {} /\ Cardinality(Accepted') = 0
  BY <1>4, FS_EmptySet DEF Accepted
<1>6. TypeOK'
  <2>1. first' \in Results \ {"compile"} /\ case' \in 1 .. NCase + 1 /\ passed' \in 0 .. NCase
    BY <1>1, CaseAssumption DEF Results
  <2>2. ran' \in Seq(Runs) /\ Len(ran') = case' - 1 /\ marks' \in Seq(Pieces)
    BY <1>1
  <2> QED BY <1>1, <1>2, <1>3, <2>1, <2>2 DEF TypeOK
<1> QED
  BY <1>1, <1>3, <1>4, <1>5, <1>6 DEF GradingInv, OnePerCase, LargestAreReached,
     FirstIsFirst, FailedForAMark, OutcomeIsOfLocals, AcceptedMarkIsRight, MarksHaveCauses

LEMMA FinishKeeps == GradingInv /\ Finish => GradingInv'
<1> SUFFICES ASSUME GradingInv, Finish PROVE GradingInv'
  OBVIOUS
<1>1. pc' = "main" /\ case = NCase + 1 /\ box' \in {"none", box} /\ UNCHANGED ReturnVars
  BY DEF Finish, Cleanup, ReturnVars
<1>2. Score' = Score /\ Score \in Int
  BY <1>1, ScoreIsInt DEF Score, ReturnVars
<1>3. first \in Results /\ 0 .. MaxScore \subseteq Int
  BY ScoreAssumption DEF GradingInv, TypeOK
<1>4. outcome' \in Outcomes /\ OutcomeIsOfLocals'
  <2>1. CASE outcome' = [by |-> "evaluator", result |-> first, score |-> Score]
    <3> HIDE DEF Score
    <3> QED BY <1>1, <1>2, <1>3, <2>1 DEF Outcomes, OutcomeIsOfLocals, ReturnVars
  <2>2. CASE outcome' = [by |-> "failed script", result |-> "error", score |-> Score]
    <3> HIDE DEF Score
    <3> QED BY <1>1, <1>2, <2>2 DEF Outcomes, Results, OutcomeIsOfLocals, ReturnVars
  <2>3. CASE /\ ScriptRuns(box')
             /\ \E s \in 0 .. MaxScore :
                   outcome' = [by |-> "score script", result |-> first, score |-> s]
    <3>1. PICK s \in Int : outcome' = [by |-> "score script", result |-> first, score |-> s]
      BY <1>3, <2>3
    <3>2. outcome' \in Outcomes /\ outcome'.by = "score script"
      BY <1>3, <3>1 DEF Outcomes
    <3> QED BY <2>3, <3>2 DEF OutcomeIsOfLocals, ScriptRuns
  <2> QED BY <2>1, <2>2, <2>3 DEF Finish
<1> QED BY <1>1, <1>4, LocalsKept DEF GradingInv, TypeOK

LEMMA GradingNext == GradingInv /\ [Next]_vars => GradingInv'
<1> SUFFICES ASSUME GradingInv, [Next]_vars PROVE GradingInv'
  OBVIOUS
<1>1. MaxScore \in Int /\ MaxScore + 1 \in Int /\ JudgeScores \subseteq Int
  BY ScoreAssumption DEF JudgeScores
<1>2. box \in {"none", "own", "old"} /\ (pc \in {"ready", "cases"} => box = "own")
  BY DEF GradingInv, TypeOK
<1>3. CASE Prepare
  <2>1. UNCHANGED ReturnVars
    BY <1>3 DEF Prepare
  <2>2. PICK b \in Cleanup(IF box = "none" THEN "none" ELSE "old") :
           \/ box' = b /\ Broken
           \/ \E made \in InitBox(b), files \in {"none", "regular", "other"} :
                 /\ box' = made.box
                 /\ IF made.ok /\ CopyTaskFiles(files)
                    THEN pc' = "ready" /\ outcome' = NoOutcome
                    ELSE Broken
    BY <1>3 DEF Prepare
  <2>3. b \in {"none", "old"}
    BY DEF Cleanup
  <2>4. CASE box' = b /\ Broken
    BY <2>1, <2>3, <2>4, BrokenOutcome, LocalsKept
  <2>5. CASE \E made \in InitBox(b), files \in {"none", "regular", "other"} :
                /\ box' = made.box
                /\ IF made.ok /\ CopyTaskFiles(files)
                   THEN pc' = "ready" /\ outcome' = NoOutcome
                   ELSE Broken
    <3>1. PICK made \in InitBox(b), files \in {"none", "regular", "other"} :
             /\ box' = made.box
             /\ IF made.ok /\ CopyTaskFiles(files)
                THEN pc' = "ready" /\ outcome' = NoOutcome
                ELSE Broken
      BY <2>5
    <3>2. made.box \in {"own", "none", "old"} /\ (made.ok => made.box = "own")
      BY <2>3 DEF InitBox
    <3>3. CASE made.ok /\ CopyTaskFiles(files)
      <4>1. outcome' \in Outcomes /\ OutcomeIsOfLocals'
        <5>1. pc' = "ready" /\ outcome' = NoOutcome
          BY <3>1, <3>3
        <5> QED BY <5>1 DEF Outcomes, NoOutcome, Results, OutcomeIsOfLocals
      <4> QED BY <2>1, <3>1, <3>2, <3>3, <4>1, LocalsKept
    <3>4. CASE ~(made.ok /\ CopyTaskFiles(files))
      BY <2>1, <3>1, <3>2, <3>4, BrokenOutcome, LocalsKept
    <3> QED BY <3>3, <3>4
  <2> QED BY <2>2, <2>4, <2>5
<1>4. CASE OutputOnly
  <2>1. UNCHANGED ReturnVars /\ box' \in {"none", "own", "old"}
    BY <1>2, <1>4 DEF OutputOnly, Cleanup
  <2>2. pc' = "main" /\ outcome' \in Outcomes /\ OutcomeIsOfLocals'
    <3>1. EarlyReturn("none", MaxScore) \/ EarlyReturn("wa", 0) \/ Broken
      BY <1>4 DEF OutputOnly
    <3> QED BY <1>1, <3>1, EarlyOutcome, BrokenOutcome DEF Results
  <2> QED BY <2>1, <2>2, LocalsKept
<1>5. CASE RunJudge
  <2>1. UNCHANGED ReturnVars /\ box' \in {"none", "own", "old"}
    BY <1>2, <1>5 DEF RunJudge, Cleanup
  <2>2. pc' = "main" /\ outcome' \in Outcomes /\ OutcomeIsOfLocals'
    BY <1>1, <1>5, EarlyOutcome, BrokenOutcome DEF RunJudge
  <2> QED BY <2>1, <2>2, LocalsKept
<1>6. CASE CompileFails
  <2>1. UNCHANGED ReturnVars /\ box' = box
    BY <1>6 DEF CompileFails
  <2>2. pc' = "main" /\ outcome' \in Outcomes /\ OutcomeIsOfLocals'
    <3>1. EarlyReturn("compile", 0) \/ Broken
      BY <1>6 DEF CompileFails
    <3> QED BY <3>1, EarlyOutcome, BrokenOutcome DEF Results
  <2> QED BY <1>2, <2>1, <2>2, LocalsKept
<1>7. CASE Begin
  BY <1>7, BeginKeeps
<1>8. CASE Case
  BY <1>8, CaseKeeps
<1>9. CASE Finish
  BY <1>9, FinishKeeps
<1>10. CASE UNCHANGED vars
  <2>1. UNCHANGED ReturnVars /\ UNCHANGED <<pc, box, outcome>>
    BY <1>10 DEF vars, ReturnVars
  <2>2. Score' = Score
    BY <2>1 DEF Score, ReturnVars
  <2>3. OutcomeIsOfLocals'
    <3> HIDE DEF Score
    <3> QED BY <2>1, <2>2 DEF GradingInv, OutcomeIsOfLocals, ReturnVars
  <2>4. outcome' \in Outcomes /\ pc' \in {"main", "ready", "cases"}
    BY <2>1 DEF GradingInv, TypeOK
  <2> QED BY <1>2, <2>1, <2>3, <2>4, LocalsKept
<1> QED
  BY <1>3, <1>4, <1>5, <1>6, <1>7, <1>8, <1>9, <1>10 DEF Next

THEOREM GradingCorrect == Spec => []GradingInv
BY GradingInit, GradingNext, PTL DEF Spec

-----------------------------------------------------------------------------
(* What follows from the invariant.                                          *)

\* Every variable keeps its type; a score is always a number.
THEOREM Typed == Spec => []TypeOK
<1>1. GradingInv => TypeOK
  BY DEF GradingInv
<1> QED BY <1>1, GradingCorrect, PTL

\* grader.c:609-631, :845-1074, :1198-1275: what a run printed gets an A only if
\* it is right or nothing is compared with it, whatever lies under /tmp; a run that
\* leaves no output gets one only by the right output of an earlier run of the
\* case, or for want of any.
THEOREM AcceptedIsRight == Spec => []AcceptedMarkIsRight
<1>1. GradingInv => AcceptedMarkIsRight
  BY DEF GradingInv
<1> QED BY <1>1, GradingCorrect, PTL

\* A T, M or R has its cause in a run of this submission, and programs run in a
\* box that was made for them.
THEOREM Causes == Spec => []MarksHaveCauses
<1>1. GradingInv => MarksHaveCauses
  BY DEF GradingInv
<1> QED BY <1>1, GradingCorrect, PTL

\* The least of the bad cases is the one whose failure was kept.
THEOREM FirstFailureIsShown == Spec => []ResultIsFirstFailure
<1>1. GradingInv => ResultIsFirstFailure
  <2> SUFFICES ASSUME GradingInv, Evaluated
               PROVE  LET bad == {c \in DOMAIN Letters : Letters[c] # "A"}
                      IN  Mark[outcome.result] = IF bad = {} THEN "A" ELSE Letters[Min(bad)]
    BY DEF ResultIsFirstFailure
  <2> DEFINE bad == {c \in DOMAIN Letters : Letters[c] # "A"}
  <2>1. DOMAIN Letters = Graded /\ case \in Nat
    <3>1. Len(marks) = case - 1 /\ marks \in Seq(Pieces) /\ case \in 1 .. NCase + 1
      BY DEF GradingInv, TypeOK, OnePerCase
    <3> QED BY <3>1, CaseAssumption DEF Letters, Graded
  <2>2. outcome.result = first
    BY DEF GradingInv, Evaluated, OutcomeIsOfLocals
  <2>3. CASE first = "none"
    <3>1. bad = {}
      BY <2>1, <2>3 DEF GradingInv, FirstIsFirst, Accepted
    <3>2. Mark["none"] = "A"
      BY MarkFacts DEF Results
    <3> QED BY <2>2, <2>3, <3>1, <3>2
  <2>4. CASE first # "none"
    <3>1. PICK c \in Graded : /\ Letters[c] = Mark[first]
                              /\ Letters[c] # "A"
                              /\ \A d \in 1 .. c - 1 : Letters[d] = "A"
      BY <2>4 DEF GradingInv, FirstIsFirst
    <3>2. c \in bad /\ bad \subseteq Nat /\ c \in Nat
      BY <2>1, <3>1 DEF Graded
    <3>3. \A d \in bad : c <= d
      <4> SUFFICES ASSUME NEW d \in bad, ~(c <= d) PROVE FALSE
        OBVIOUS
      <4>1. d \in 1 .. c - 1
        BY <2>1, <3>2 DEF Graded
      <4> QED BY <3>1, <4>1
    <3> HIDE DEF bad
    <3>4. Min(bad) = c
      <4>1. \E m \in bad : \A d \in bad : m =< d
        BY <3>2, <3>3
      <4>2. Min(bad) \in bad /\ \A d \in bad : Min(bad) =< d
        BY <4>1 DEF Min
      <4> DEFINE m == Min(bad)
      <4>3. m \in bad /\ m =< c
        BY <3>2, <4>2
      <4> HIDE DEF m
      <4>4. m = c
        BY <3>2, <3>3, <4>3
      <4> QED BY <4>4 DEF m
    <3> QED BY <2>2, <3>1, <3>2, <3>4 DEF bad
  <2> QED BY <2>3, <2>4
<1> QED BY <1>1, GradingCorrect, PTL

\* total_score is that of the marks, whatever the subtasks are.
LEMMA ScorePaid == GradingInv /\ outcome.score = Score => PaidByMarks
<1> SUFFICES ASSUME GradingInv, outcome.score = Score PROVE PaidByMarks
  OBVIOUS
<1>1. DOMAIN Letters = Graded /\ case \in Nat
  <2>1. Len(marks) = case - 1 /\ marks \in Seq(Pieces) /\ case \in 1 .. NCase + 1
    BY DEF GradingInv, TypeOK, OnePerCase
  <2> QED BY <2>1, CaseAssumption DEF Letters, Graded
<1>2. CASE first = "none"
  <2>1. outcome.score = MaxScore
    BY <1>2 DEF Score
  <2>2. \A c \in DOMAIN Letters : Letters[c] = "A"
    BY <1>1, <1>2 DEF GradingInv, FirstIsFirst, Accepted
  <2> QED BY <2>1, <2>2 DEF PaidByMarks
<1>3. first # "none" => \E c \in DOMAIN Letters : Letters[c] # "A"
  BY <1>1 DEF GradingInv, FirstIsFirst
<1>4. CASE first # "none" /\ groups = <<>>
  <2>1. outcome.score = (MaxScore \div NCase) * passed
    BY <1>4 DEF Score
  <2>2. passed = Cardinality({c \in DOMAIN Letters : Letters[c] = "A"})
    BY <1>1 DEF GradingInv, Accepted
  <2>3. NCase # 0 /\ NCase \in Nat /\ passed \in Nat /\ MaxScore \in Nat
    <3>1. NCase # 0
      BY <1>4, FailureHasCase
    <3>2. passed \in Nat
      BY DEF GradingInv, TypeOK
    <3> QED BY <3>1, <3>2, CaseAssumption, ScoreAssumption
  <2> DEFINE share == MaxScore \div NCase
  <2>4. share \in Nat /\ NCase * share = MaxScore
    BY <2>3, Share
  <2> HIDE DEF share
  <2>5. NCase * (share * passed) = MaxScore * passed
    <3>1. ASSUME NEW n \in Nat, NEW p \in Nat PROVE n * (share * p) = (n * share) * p
      BY <2>4, <3>1
    <3> QED BY <2>3, <2>4, <3>1
  <2> QED BY <1>3, <1>4, <2>1, <2>2, <2>5 DEF PaidByMarks, share
<1>5. CASE first # "none" /\ groups # <<>>
  <2> DEFINE accepted == {i \in DOMAIN groups : AllAccepted(i)}
             paid == DOMAIN groups \ failed
  <2>1. outcome.score = GroupPoints(groups, paid)
    BY <1>5 DEF Score
  <2>2. paid \in SUBSET accepted
    BY <1>1 DEF GradingInv, FailedForAMark, AllAccepted, CasesOf
  <2>3. (\A c \in DOMAIN Letters : Letters[c] # "E") => paid = accepted
    BY <1>1, <2>2 DEF GradingInv, FailedForAMark, AllAccepted, CasesOf
  <2> HIDE DEF paid
  <2> QED BY <1>3, <1>5, <2>1, <2>2, <2>3 DEF PaidByMarks
<1> QED BY <1>2, <1>4, <1>5

\* The score that goes with the marks is theirs, for any subtasks, also when the
\* score script failed; the script decides only in a box that was not cleaned.
THEOREM ScoreIsOfMarks == Spec => []ScoreMatchesMarks
<1>1. GradingInv => ScoreMatchesMarks
  BY ScorePaid DEF ScoreMatchesMarks, GradingInv, OutcomeIsOfLocals
<1> QED BY <1>1, GradingCorrect, PTL

-----------------------------------------------------------------------------
(* The stages of a grader, for any scripts, polls and sizes of a pipe.       *)

\* Nothing is left of a child that has been reaped.
LEMMA ReapedTyped ==
    ASSUME StagesTypeOK, Reaped,
           returned' \in {"none", "ok", "rejected", "error"},
           used' \in {"none", "own", "old"}
    PROVE  StagesTypeOK'
<1>1. 0 \in 0 .. MaxPolls /\ 0 \in 0 .. PipeSize /\ 0 \in 0 .. JuryOutput
  BY NumberAssumption
<1>2. file' \in [Answering -> {"none", "own", "old"}]
  BY DEF StagesTypeOK, Reaped
<1>3. toPrint' = 0 /\ pipe' = 0 /\ elapsed' = 0 /\ stage' = "none"
      /\ child' = "none" /\ hangs' = FALSE
  BY DEF Reaped
<1> HIDE DEF Reaped
<1> QED BY <1>1, <1>2, <1>3 DEF StagesTypeOK

\* A poll is counted only while there are polls left, the jury prints into what
\* is left of its pipe, and what it has to print does not grow.
LEMMA StageTypeStep ==
    ASSUME StagesTypeOK, [StagesNext]_stagesVars
    PROVE  StagesTypeOK'
<1> USE DEF StagesTypeOK
<1>0. MaxPolls \in Nat /\ PipeSize \in Nat /\ JuryOutput \in Nat
  BY NumberAssumption
<1>1. ASSUME NEW s \in Scripts \cup Blocking, Fork(s) PROVE StagesTypeOK'
  <2>1. Aged(s) \in [Answering -> {"none", "own", "old"}]
    BY DEF Aged
  <2>2. Unlinked(s) \in [Answering -> {"none", "own", "old"}]
    BY <2>1 DEF Unlinked
  <2>3. file' \in [Answering -> {"none", "own", "old"}]
    BY <1>1, <2>1, <2>2 DEF Fork
  <2>4. /\ stage' \in Scripts \cup Blocking
        /\ child' = "running" /\ hangs' \in BOOLEAN
        /\ returned' = "none" /\ used' = "none"
    BY <1>1 DEF Fork
  <2>5. toPrint' \in 0 .. JuryOutput /\ pipe' = 0 /\ elapsed' = 0
    BY <1>0, <1>1 DEF Fork
  <2> QED BY <1>0, <2>3, <2>4, <2>5
<1>2. ASSUME NEW s \in Scripts \cup Blocking, ForkFails(s) PROVE StagesTypeOK'
  BY <1>2 DEF ForkFails
<1>3. CASE Answer
  BY <1>3 DEF Answer
<1>4. CASE PrintOut
  <2>1. toPrint' \in 0 .. JuryOutput /\ pipe' \in 0 .. PipeSize
    BY <1>0, <1>4 DEF PrintOut
  <2> QED BY <1>4, <2>1 DEF PrintOut
<1>5. CASE End
  BY <1>5 DEF End
<1>6. CASE Poll
  <2>1. elapsed' \in 0 .. MaxPolls
    BY <1>0, <1>6 DEF Poll, Overdue
  <2> QED BY <1>6, <2>1 DEF Poll
<1>7. CASE Reap
  <2>1. returned' \in {"ok", "rejected", "error"}
    <3>1. Returned(stage, child) \subseteq {"ok", "rejected", "error"}
      BY <1>7 DEF Reap, Returned, Done, CompileReturns,
         JudgeReturns, CheckReturns, ScoreReturns
    <3> QED BY <1>7, <3>1 DEF Reap
  <2>2. used' \in {"none", "own", "old"}
    BY <1>7 DEF Reap
  <2>3. Reaped
    BY <1>7 DEF Reap
  <2> HIDE DEF StagesTypeOK
  <2> QED BY <2>1, <2>2, <2>3, ReapedTyped
<1>8. CASE Kill
  <2> HIDE DEF StagesTypeOK
  <2> QED BY <1>8, ReapedTyped DEF Kill
<1>9. CASE UNCHANGED stagesVars
  BY <1>9 DEF stagesVars
<1> QED BY <1>1, <1>2, <1>3, <1>4, <1>5, <1>6, <1>7, <1>8, <1>9 DEF StagesNext

\* While a script runs, the file it is to answer in has no earlier answer.
AnswerAwaited == stage \in Answering => file[stage] # "old"

StageInv == StagesTypeOK /\ AnswerAwaited /\ AnswerIsOwn

\* A fork makes every answer there is an earlier one, and removes the one in
\* the way; only the child that is waited for answers.
LEMMA StageStep ==
    ASSUME StageInv, [StagesNext]_stagesVars
    PROVE  AnswerAwaited' /\ AnswerIsOwn'
<1> USE DEF StageInv, AnswerAwaited, AnswerIsOwn
<1>0. /\ file \in [Answering -> {"none", "own", "old"}]
      /\ "none" \notin Answering
  BY KindAssumption DEF StagesTypeOK, Answering
<1>1. ASSUME NEW s \in Scripts \cup Blocking, Fork(s)
      PROVE  AnswerAwaited' /\ AnswerIsOwn'
  <2>1. CASE s \in Answering
    BY <1>1, <2>1 DEF Fork, Unlinked, Aged
  <2>2. CASE s \notin Answering
    BY <1>1, <2>2 DEF Fork
  <2> QED BY <2>1, <2>2
<1>2. ASSUME NEW s \in Scripts \cup Blocking, ForkFails(s)
      PROVE  AnswerAwaited' /\ AnswerIsOwn'
  BY <1>2 DEF ForkFails
<1>3. CASE Answer
  BY <1>0, <1>3 DEF Answer
<1>4. CASE PrintOut \/ End \/ Poll
  BY <1>4 DEF PrintOut, End, Poll
<1>5. CASE Reap
  BY <1>0, <1>5 DEF Reap, Reaped
<1>6. CASE Kill
  BY <1>0, <1>6 DEF Kill, Reaped
<1>7. CASE UNCHANGED stagesVars
  BY <1>7 DEF stagesVars
<1> QED BY <1>1, <1>2, <1>3, <1>4, <1>5, <1>6, <1>7 DEF StagesNext

\* A stage succeeds only by an answer of its own child.
THEOREM StagesCorrect == StagesSpec => []StageInv
<1>1. StagesInit => StageInv
  <2> SUFFICES ASSUME StagesInit PROVE StageInv
    OBVIOUS
  <2>1. "none" \notin Answering
    BY KindAssumption DEF Answering
  <2>2. 0 \in 0 .. MaxPolls /\ 0 \in 0 .. PipeSize /\ 0 \in 0 .. JuryOutput
    BY NumberAssumption
  <2>3. StagesTypeOK
    BY <2>2 DEF StagesTypeOK, StagesInit
  <2> QED BY <2>1, <2>3 DEF StageInv, AnswerAwaited, AnswerIsOwn, StagesInit
<1>2. StageInv /\ [StagesNext]_stagesVars => StageInv'
  BY StageTypeStep, StageStep DEF StageInv
<1> QED BY <1>1, <1>2, PTL DEF StagesSpec

\* grader.c:145-159: the grader's child, its pipe and the polls are well typed;
\* no script is polled more often than its limit.
THEOREM StagesTyped == StagesSpec => []StagesTypeOK
<1>1. StageInv => StagesTypeOK
  BY DEF StageInv
<1> QED BY <1>1, StagesCorrect, PTL

\* grader.c:204: no stage succeeds by the answer that an earlier child has left in
\* a file of the same name, since the file is unlinked before each fork.
THEOREM AnswersAreOwn == StagesSpec => []AnswerIsOwn
<1>1. StageInv => AnswerIsOwn
  BY DEF StageInv
<1> QED BY <1>1, StagesCorrect, PTL
=============================================================================
