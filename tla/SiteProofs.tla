----------------------------- MODULE SiteProofs -----------------------------
(* Proofs about Site, for any users, tasks and numbers of submissions:       *)
(* links work, paging shows all, and only a rejudge takes a solved task away.*)
(* The last part is about the statement that is shown on a task's page.      *)
EXTENDS Site, Markdown, SequenceTheorems, FiniteSetTheorems, WellFoundedInduction, TLAPS

Rows == [user : Users \cup {Nobody}, task : Tasks, public : BOOLEAN,
         result : Verdicts \cup {NoVerdict}, verdict : Verdicts \cup {NoVerdict},
         job : {"absent", "open", "finished"}]

TablesTyped ==
    /\ subs \in Seq(Rows) /\ Len(subs) <= MaxSubmissions
    /\ hidden \in SUBSET Tasks /\ stars \in SUBSET (Users \X Tasks)
    /\ toggles \in 0 .. MaxToggles
    /\ rejudge \in 0 .. Len(subs) /\ rejudged \in SUBSET Ids
    /\ rejudge # 0 => rejudge \in rejudged

\* The older version made no jobs, so its rows stay as they are, and first.
OldRows ==
    \A s \in Ids : subs[s].result # NoVerdict =>
                      /\ subs[s].job = "absent" /\ subs[s].verdict = NoVerdict
                      /\ s <= Len(Old)

\* Only a submission that was sent to be judged again has a verdict to lose.
OpenAgain ==
    \A s \in Ids : subs[s].job = "open" /\ subs[s].verdict # NoVerdict => s \in rejudged

ReaderTyped ==
    /\ reader = [links |-> reader.links, from |-> reader.from, unseen |-> reader.unseen]
    /\ reader.links \in SUBSET Links
    /\ reader.from \in 0 .. Len(subs)
    /\ reader.unseen \in SUBSET Ids

TInv == TablesTyped /\ OldRows /\ OpenAgain
IInv == TInv /\ ReaderTyped /\ LinksWork /\ PagingShowsAll

-----------------------------------------------------------------------------
(* Numbers: the least of a set, and the newest rows of a list.               *)

LEMMA Least ==
    ASSUME NEW T \in SUBSET Nat, T # {}
    PROVE  \E m \in T : \A r \in T : m <= r
<1> DEFINE R == OpToRel(<, Nat)
<1>1. IsWellFoundedOn(R, Nat)
  BY NatLessThanWellFounded
<1>2. \A x, y \in Nat : <<x, y>> \in R <=> x < y
  BY DEF OpToRel
<1> HIDE DEF R
<1>3. PICK m \in T : \A r \in T : ~(<<r, m>> \in R)
  BY <1>1, WFMin
<1>4. m \in Nat /\ \A r \in T : r \in Nat /\ ~(r < m)
  BY <1>2, <1>3
<1> QED BY <1>4

LEMMA Greatest ==
    ASSUME NEW n \in Nat, NEW T \in SUBSET (1 .. n), T # {}
    PROVE  \E m \in T : \A r \in T : r <= m
<1> DEFINE U == {n - t : t \in T}
<1>1. \A t \in T : t \in Int /\ t <= n
  OBVIOUS
<1>2. \A t \in T : n - t \in Nat
  BY <1>1
<1>3. U \in SUBSET Nat /\ U # {}
  BY <1>2
<1>4. PICK k \in U : \A r \in U : k <= r
  BY <1>3, Least
<1>5. PICK m \in T : k = n - m
  BY <1>4
<1>6. \A r \in T : n - m <= n - r
  BY <1>4, <1>5
<1>7. \A r \in T : r <= m
  BY <1>1, <1>6
<1> QED BY <1>7

\* What is not among the newest rows is below the last of them, and there is a
\* last of them unless no row is left.
LEMMA NewestBound ==
    ASSUME NEW n \in Nat, NEW T \in SUBSET (1 .. n), NEW count \in Nat \ {0}
    PROVE  /\ Newest(T, count) \in SUBSET T
           /\ LastId(Newest(T, count)) \in 0 .. n
           /\ \A s \in T \ Newest(T, count) : s < LastId(Newest(T, count))
           /\ \A s \in Newest(T, count) :
                 LastId(Newest(T, count)) # 0 => LastId(Newest(T, count)) <= s
<1> DEFINE Up(s) == {r \in T : r >= s}
           N == Newest(T, count)
<1>1. \A t \in T : t \in Nat /\ 1 <= t /\ t <= n
  OBVIOUS
<1>2. N \in SUBSET T
  BY DEF Newest
<1>3. \A s \in T : s \in N <=> Cardinality(Up(s)) <= count
  BY DEF Newest
<1> HIDE DEF N
<1>4. \A s \in N : s \in T /\ s \in Nat /\ 1 <= s /\ s <= n
  BY <1>1, <1>2
<1>5. IsFiniteSet(T)
  <2>1. IsFiniteSet(1 .. n)
    BY FS_Interval
  <2> QED BY <2>1, FS_Subset
<1>6. \A s \in T : IsFiniteSet(Up(s)) /\ Cardinality(Up(s)) \in Nat
  BY <1>5, FS_Subset, FS_CardinalityType
<1>7. \A s, r \in T : r <= s => Cardinality(Up(s)) <= Cardinality(Up(r))
  <2> SUFFICES ASSUME NEW s \in T, NEW r \in T, r <= s
               PROVE  Cardinality(Up(s)) <= Cardinality(Up(r))
    OBVIOUS
  <2>1. \A t \in T : t >= s => t >= r
    BY <1>1
  <2>2. Up(s) \in SUBSET Up(r)
    BY <2>1
  <2> QED BY <2>2, <1>6, FS_Subset
<1>8. CASE T = {}
  <2>1. N = {}
    BY <1>2, <1>8
  <2> QED BY <2>1, <1>8 DEF LastId, N
<1>9. CASE T # {}
  <2>1. PICK m \in T : \A r \in T : r <= m
    BY <1>9, Greatest
  <2>2. \A t \in T : t >= m => t = m
    BY <2>1, <1>1
  <2>3. \A t \in Up(m) : t = m
    BY <2>2
  <2>4. m \in Up(m)
    BY <1>1
  <2>5. Up(m) = {m}
    BY <2>3, <2>4
  <2>6. Cardinality(Up(m)) = 1
    BY <2>5, FS_Singleton
  <2>7. m \in N
    BY <2>6, <1>3
  <2>8. N \in SUBSET Nat
    BY <1>4
  <2>9. \E k \in N : \A r \in N : k <= r
    BY <2>7, <2>8, Least
  <2>10. LastId(N) \in N /\ \A r \in N : LastId(N) <= r
    BY <2>7, <2>9 DEF LastId
  <2>11. ASSUME NEW s \in T \ N PROVE s < LastId(N)
    <3> DEFINE k == LastId(N)
               c(t) == Cardinality(Up(t))
    <3>1. k \in T /\ k \in Nat /\ s \in Nat
      BY <2>10, <1>1, <1>4
    <3>2. c(k) <= count /\ ~(c(s) <= count) /\ c(k) \in Nat /\ c(s) \in Nat
      BY <2>10, <3>1, <1>3, <1>6
    <3>3. k <= s => c(s) <= c(k)
      BY <3>1, <1>7
    <3> HIDE DEF k, c
    <3>4. s < k
      BY <3>1, <3>2, <3>3
    <3> QED BY <3>4 DEF k
  <2>12. LastId(N) \in 0 .. n
    BY <2>10, <1>4
  <2> QED BY <1>2, <2>10, <2>11, <2>12 DEF N
<1> QED BY <1>8, <1>9

-----------------------------------------------------------------------------
(* The tables.                                                               *)

\* A submission stays what it is but for its job and its verdict.
Grown ==
    /\ Len(subs) <= Len(subs)'
    /\ \A s \in Ids :
          /\ s \in Ids'
          /\ subs'[s].user = subs[s].user /\ subs'[s].task = subs[s].task
          /\ subs'[s].public = subs[s].public

LEMMA InitTInv == Init => TInv
<1> SUFFICES ASSUME Init PROVE TInv
  OBVIOUS
<1> USE DEF Init, TablesInit
<1> DEFINE R(i) == Row(Old[i].user, Old[i].task, Old[i].public, Old[i].result, "absent")
           n == Len(Old)
<1>1. n \in Nat /\ DOMAIN Old = 1 .. n /\ n <= MaxSubmissions
  BY ListingAssumption, LenProperties
<1>2. \A i \in 1 .. n : Old[i] \in [user : Users, task : Tasks, public : BOOLEAN,
                                     result : Verdicts]
  BY <1>1, ListingAssumption, ElementOfSeq
<1>3. \A i \in 1 .. n : R(i) \in Rows /\ R(i).job = "absent" /\ R(i).verdict = NoVerdict
  BY <1>2 DEF Row, Rows
<1>4. subs = [i \in 1 .. n |-> R(i)]
  BY <1>1
<1> HIDE DEF R, n
<1>5. subs \in Seq(Rows)
  BY <1>1, <1>3, <1>4, IsASeq
<1>6. Len(subs) = n
  BY <1>1, <1>4, <1>5, LenProperties
<1>7. TablesTyped
  BY <1>1, <1>5, <1>6, ListingAssumption DEF TablesTyped, Ids
<1>8. \A s \in Ids : subs[s].job = "absent" /\ subs[s].verdict = NoVerdict
  BY <1>3, <1>4 DEF Ids
<1>9. \A s \in Ids : s <= Len(Old)
  BY <1>1, <1>4 DEF Ids, n
<1> QED BY <1>7, <1>8, <1>9 DEF TInv, OldRows, OpenAgain

\* One row changes.
LEMMA RowStep ==
    ASSUME TInv, NEW s \in Ids, NEW r \in Rows, subs' = [subs EXCEPT ![s] = r],
           r.user = subs[s].user, r.task = subs[s].task, r.public = subs[s].public
    PROVE  /\ subs' \in Seq(Rows) /\ Len(subs') = Len(subs) /\ Ids' = Ids
           /\ \A t \in Ids : subs'[t] = IF t = s THEN r ELSE subs[t]
           /\ Grown
<1>1. subs \in Seq(Rows) /\ Ids = 1 .. Len(subs) /\ Len(subs) \in Nat
  BY LenProperties DEF TInv, TablesTyped, Ids
<1>2. /\ subs' \in Seq(Rows) /\ Len(subs') = Len(subs)
      /\ \A t \in Ids : subs'[t] = IF t = s THEN r ELSE subs[t]
  BY <1>1, ExceptSeq
<1>3. Ids' = Ids
  BY <1>1, <1>2, LenProperties DEF Ids
<1> QED BY <1>1, <1>2, <1>3 DEF Grown

LEMMA TablesStep == TInv /\ TablesNext => TInv' /\ Grown
<1> SUFFICES ASSUME TInv, TablesNext PROVE TInv' /\ Grown
  OBVIOUS
<1>0. /\ subs \in Seq(Rows) /\ Ids = 1 .. Len(subs) /\ Len(subs) \in Nat
      /\ \A s \in Ids : subs[s] \in Rows
  BY LenProperties, ElementOfSeq DEF TInv, TablesTyped, Ids
<1>1. ASSUME NEW u \in Users \cup {Nobody}, NEW t \in Tasks, NEW p \in BOOLEAN, Enqueue(u, t, p)
      PROVE  TInv' /\ Grown
  <2> DEFINE r == Row(u, t, p, NoVerdict, "open")
  <2>1. r \in Rows
    BY DEF Row, Rows
  <2>2. r.verdict = NoVerdict /\ r.result = NoVerdict
    BY DEF Row
  <2>3. subs' = Append(subs, r)
    BY <1>1 DEF Enqueue
  <2> HIDE DEF r
  <2>4. subs' \in Seq(Rows) /\ Len(subs') = Len(subs) + 1
    BY <1>0, <2>1, <2>3, AppendProperties
  <2>5. /\ \A s \in Ids : subs'[s] = subs[s]
        /\ subs'[Len(subs) + 1] = r
    BY <1>0, <2>1, <2>3, AppendProperties
  <2>6. Ids' = Ids \cup {Len(subs) + 1}
    BY <1>0, <2>4, LenProperties DEF Ids
  <2>7. TablesTyped'
    BY <1>0, <1>1, <2>4, <2>6, ListingAssumption DEF TInv, TablesTyped, Enqueue
  <2>8. OldRows' /\ OpenAgain'
    BY <1>1, <2>2, <2>5, <2>6 DEF TInv, OldRows, OpenAgain, Enqueue
  <2>9. Grown
    BY <1>0, <2>4, <2>5, <2>6 DEF Grown
  <2> QED BY <2>7, <2>8, <2>9 DEF TInv
<1>2. ASSUME NEW s \in Ids, Complete(s) PROVE TInv' /\ Grown
  <2>1. PICK v \in Verdicts : subs' = [subs EXCEPT ![s].job = "finished", ![s].verdict = v]
    BY <1>2 DEF Complete
  <2> DEFINE r == [subs[s] EXCEPT !.job = "finished", !.verdict = v]
  <2>2. r \in Rows
    BY <1>0 DEF Rows
  <2>3. /\ r.user = subs[s].user /\ r.task = subs[s].task /\ r.public = subs[s].public
        /\ r.result = subs[s].result /\ r.job = "finished"
    BY <1>0 DEF Rows
  <2>4. subs' = [subs EXCEPT ![s] = r]
    BY <1>0, <2>1
  <2>5. subs[s].result = NoVerdict
    BY <1>2 DEF Complete, TInv, OldRows
  <2> HIDE DEF r
  <2>6. /\ subs' \in Seq(Rows) /\ Len(subs') = Len(subs) /\ Ids' = Ids
        /\ \A t \in Ids : subs'[t] = IF t = s THEN r ELSE subs[t]
        /\ Grown
    BY <2>2, <2>3, <2>4, RowStep
  <2>7. TInv'
    BY <1>2, <2>3, <2>5, <2>6 DEF TInv, TablesTyped, OldRows, OpenAgain, Complete
  <2> QED BY <2>6, <2>7
<1>3. ASSUME NEW s \in Ids, Requeue(s) PROVE TInv' /\ Grown
  <2> DEFINE r == [subs[s] EXCEPT !.job = "open"]
  <2>1. subs' = [subs EXCEPT ![s] = r] /\ subs[s].job # "absent"
    BY <1>0, <1>3 DEF Requeue
  <2>2. r \in Rows
    BY <1>0 DEF Rows
  <2>3. /\ r.user = subs[s].user /\ r.task = subs[s].task /\ r.public = subs[s].public
        /\ r.result = subs[s].result
    BY <1>0 DEF Rows
  <2>4. subs[s].result = NoVerdict
    BY <2>1 DEF TInv, OldRows
  <2> HIDE DEF r
  <2>5. /\ subs' \in Seq(Rows) /\ Len(subs') = Len(subs) /\ Ids' = Ids
        /\ \A t \in Ids : subs'[t] = IF t = s THEN r ELSE subs[t]
        /\ Grown
    BY <2>1, <2>2, <2>3, RowStep
  <2>6. TInv'
    BY <1>0, <1>3, <2>3, <2>4, <2>5 DEF TInv, TablesTyped, OldRows, OpenAgain, Requeue
  <2> QED BY <2>5, <2>6
<1>4. ASSUME ClearVerdict PROVE TInv' /\ Grown
  <2>0. rejudge \in Ids
    BY <1>0, <1>4 DEF ClearVerdict, TInv, TablesTyped
  <2>1. CASE UNCHANGED subs
    <3>1. Grown
      BY <1>0, <2>1 DEF Grown, Ids
    <3>2. TInv'
      BY <1>0, <1>4, <2>1 DEF TInv, TablesTyped, OldRows, OpenAgain, ClearVerdict, Ids
    <3> QED BY <3>1, <3>2
  <2>2. CASE subs' = [subs EXCEPT ![rejudge].verdict = NoVerdict]
    <3> DEFINE r == [subs[rejudge] EXCEPT !.verdict = NoVerdict]
    <3>1. subs' = [subs EXCEPT ![rejudge] = r]
      BY <1>0, <2>0, <2>2
    <3>2. r \in Rows
      BY <1>0, <2>0 DEF Rows
    <3>3. /\ r.user = subs[rejudge].user /\ r.task = subs[rejudge].task
          /\ r.public = subs[rejudge].public /\ r.result = subs[rejudge].result
          /\ r.job = subs[rejudge].job /\ r.verdict = NoVerdict
      BY <1>0, <2>0 DEF Rows
    <3> HIDE DEF r
    <3>4. /\ subs' \in Seq(Rows) /\ Len(subs') = Len(subs) /\ Ids' = Ids
          /\ \A t \in Ids : subs'[t] = IF t = rejudge THEN r ELSE subs[t]
          /\ Grown
      BY <2>0, <3>1, <3>2, <3>3, RowStep
    <3>5. TInv'
      BY <1>0, <1>4, <3>3, <3>4, SMTT(30) DEF TInv, TablesTyped, OldRows, OpenAgain, ClearVerdict
    <3> QED BY <3>4, <3>5
  <2> QED BY <1>4, <2>1, <2>2 DEF ClearVerdict
<1>5. ASSUME NEW t \in Tasks, ToggleVisibility(t) PROVE TInv' /\ Grown
  <2>1. UNCHANGED <<subs, stars, rejudge, rejudged>> /\ toggles' = toggles + 1
        /\ toggles < MaxToggles /\ hidden' \in SUBSET Tasks
    BY <1>5 DEF ToggleVisibility, Flip, TInv, TablesTyped
  <2> QED BY <1>0, <2>1, ListingAssumption DEF TInv, TablesTyped, OldRows, OpenAgain, Grown, Ids
<1>6. ASSUME NEW u \in Users, NEW t \in Tasks, ToggleBookmark(u, t) PROVE TInv' /\ Grown
  <2>1. UNCHANGED <<subs, hidden, rejudge, rejudged>> /\ toggles' = toggles + 1
        /\ toggles < MaxToggles /\ stars' \in SUBSET (Users \X Tasks)
    BY <1>6 DEF ToggleBookmark, Flip, TInv, TablesTyped
  <2> QED BY <1>0, <2>1, ListingAssumption DEF TInv, TablesTyped, OldRows, OpenAgain, Grown, Ids
<1> QED BY <1>1, <1>2, <1>3, <1>4, <1>5, <1>6 DEF TablesNext

-----------------------------------------------------------------------------
(* The pages.                                                                *)

\* What a page holds when it comes.
PageInv == ReaderTyped /\ LinksWork /\ PagingShowsAll

\* The page of somebody who does nothing stays good while the tables change.
LEMMA ReaderKeeps == IInv /\ TInv' /\ Grown /\ UNCHANGED reader => PageInv'
<1> SUFFICES ASSUME IInv, TInv', Grown, UNCHANGED reader PROVE PageInv'
  OBVIOUS
<1>1. /\ Len(subs) \in Nat /\ Len(subs)' \in Nat /\ Len(subs) <= Len(subs)'
      /\ \A s \in Ids : s \in Ids' /\ subs'[s].public = subs[s].public
  BY LenProperties DEF IInv, TInv, TablesTyped, Grown
<1>2. ReaderTyped'
  BY <1>1 DEF IInv, ReaderTyped
<1>3. LinksWork'
  <2> SUFFICES ASSUME NEW l \in reader.links
               PROVE  \/ l[1] = "submission" /\ SubmissionFound(l[2])'
                      \/ l[1] = "view_code" /\ CodeReadable(l[2])'
                      \/ l[1] = "task" /\ TaskFound(l[2])'
                      \/ l[1] = "submit" /\ (MaySubmit(l[2])' \/ l[2] \in hidden') /\ TaskFound(l[2])'
                      \/ l[1] = "desc_file" /\ TaskFound(l[2])'
    BY DEF LinksWork
  <2>1. \/ l[1] = "submission" /\ SubmissionFound(l[2])
        \/ l[1] = "view_code" /\ CodeReadable(l[2])
        \/ l[1] = "task" /\ TaskFound(l[2])
        \/ l[1] = "submit" /\ TaskFound(l[2])
        \/ l[1] = "desc_file" /\ TaskFound(l[2])
    BY DEF IInv, LinksWork
  <2> QED BY <1>1, <2>1 DEF SubmissionFound, CodeReadable, TaskFound, MaySubmit
<1>4. PagingShowsAll'
  BY DEF IInv, PagingShowsAll
<1> QED BY <1>2, <1>3, <1>4 DEF PageInv

\* The pages that hold links to tasks, submissions and files.
GoodLinks(links) ==
    \A l \in links :
        \/ l[1] = "view_code" /\ CodeReadable(l[2])
        \/ l[1] \in {"task", "submit", "desc_file"} /\ l[2] \in Tasks

LEMMA AnswerStep ==
    ASSUME TInv, NEW found, NEW links \in SUBSET Links,
           found => GoodLinks(links), Answer(found, links)
    PROVE  PageInv' /\ UNCHANGED tables
<1>1. UNCHANGED tables /\ Len(subs) \in Nat
  BY LenProperties DEF Answer, TInv, TablesTyped
<1>2. \/ reader' = [links |-> links, from |-> 0, unseen |-> {}] /\ found
      \/ reader' = [links |-> {}, from |-> 0, unseen |-> {}]
  BY DEF Answer, Page, NoPage
<1>3. ReaderTyped'
  BY <1>1, <1>2 DEF ReaderTyped, tables, Ids
<1>4. LinksWork'
  <2>1. CASE reader'.links = {}
    BY <2>1 DEF LinksWork
  <2>2. CASE reader'.links = links /\ GoodLinks(links)
    BY <1>1, <2>2 DEF LinksWork, GoodLinks, tables, CodeReadable, TaskFound, MaySubmit, Ids
  <2> QED BY <1>2, <2>1, <2>2
<1>5. PagingShowsAll'
  BY <1>2 DEF PagingShowsAll
<1> QED BY <1>1, <1>3, <1>4, <1>5 DEF PageInv

LEMMA ListStep ==
    ASSUME TInv, NEW T \in SUBSET Ids, NEW matching \in SUBSET T, NEW count \in Nat \ {0},
           UNCHANGED tables,
           reader' = [links |-> RowLinks(Newest(T, count)), from |-> LastId(Newest(T, count)),
                      unseen |-> matching \ Newest(T, count)]
    PROVE  PageInv'
<1> DEFINE N == Newest(T, count)
           k == LastId(N)
<1>1. Ids = 1 .. Len(subs) /\ Len(subs) \in 0 .. MaxSubmissions /\ Len(subs) \in Nat
  BY LenProperties DEF TInv, TablesTyped, Ids
<1>2. T \in SUBSET (1 .. Len(subs))
  BY <1>1
<1>3. /\ N \in SUBSET T /\ k \in 0 .. Len(subs)
      /\ \A s \in T \ N : s < k
      /\ \A s \in N : k # 0 => k <= s
  BY <1>1, <1>2, NewestBound
<1> HIDE DEF N, k
<1>4. reader' = [links |-> RowLinks(N), from |-> k, unseen |-> matching \ N]
  BY DEF N, k
<1>5. N \in SUBSET (1 .. MaxSubmissions)
  <2>1. \A s \in N : s \in 1 .. Len(subs)
    BY <1>2, <1>3
  <2> QED BY <1>1, <2>1, ListingAssumption
<1>6. RowLinks(N) \in SUBSET Links
  BY <1>5 DEF RowLinks, Link, Links
<1>7. ReaderTyped'
  BY <1>1, <1>3, <1>4, <1>6 DEF ReaderTyped, tables, Ids
<1>8. \A l \in RowLinks(N) : l[1] = "submission" /\ l[2] \in N
  BY DEF RowLinks, Link
<1>9. LinksWork'
  BY <1>3, <1>4, <1>8 DEF LinksWork, SubmissionFound, tables, Ids
<1>10. PagingShowsAll'
  <2>1. \A s \in matching \ N : s < k
    BY <1>3
  <2>2. k # 0 => \A l \in RowLinks(N) : l[2] >= k
    BY <1>2, <1>3, <1>8
  <2> QED BY <1>4, <2>1, <2>2 DEF PagingShowsAll
<1> QED BY <1>7, <1>9, <1>10 DEF PageInv

LEMMA InitIInv == Init => IInv
<1> SUFFICES ASSUME Init PROVE IInv
  OBVIOUS
<1>1. TInv
  BY InitTInv
<1>2. reader = [links |-> {}, from |-> 0, unseen |-> {}]
  BY DEF Init, NoPage
<1>3. Len(subs) \in Nat
  BY <1>1, LenProperties DEF TInv, TablesTyped
<1> QED BY <1>1, <1>2, <1>3 DEF IInv, ReaderTyped, LinksWork, PagingShowsAll

LEMMA SameTables == TInv /\ UNCHANGED tables => TInv'
BY DEF TInv, TablesTyped, OldRows, OpenAgain, tables, Ids

LEMMA TaskListTasks ==
    ASSUME NEW u, NEW showSolved, NEW state
    PROVE  TaskList(u, showSolved, state) \in SUBSET Tasks
BY DEF TaskList

\* Each handler leaves a good page and the tables as they are.
LEMMA PageStep ==
    ASSUME IInv,
           \/ FrontPage \/ TasksPage \/ AdminPage \/ MenuLink
           \/ \E f \in Filters : FirstPage(f.user, f.task, f.verdict)
           \/ PreviousPage
           \/ \E s \in 1 .. MaxSubmissions : SubmissionPage(s) \/ CodePage(s)
           \/ \E t \in Tasks \cup {NoTask} :
                 TaskPage(t) \/ DescPage(t) \/ DescFile(t) \/ SubmitPage(t)
    PROVE  PageInv' /\ UNCHANGED tables
<1> USE DEF Links, Link, GoodLinks
<1>0. TInv
  BY DEF IInv
<1>1. ASSUME NEW tasks \in SUBSET Tasks
      PROVE  TaskLinks(tasks) \in SUBSET Links /\ GoodLinks(TaskLinks(tasks))
  BY DEF TaskLinks
<1>2. ASSUME FrontPage PROVE PageInv' /\ UNCHANGED tables
  BY <1>0, <1>1, <1>2, TaskListTasks, AnswerStep DEF FrontPage
<1>3. ASSUME TasksPage PROVE PageInv' /\ UNCHANGED tables
  BY <1>0, <1>1, <1>3, TaskListTasks, AnswerStep DEF TasksPage
<1>4. ASSUME AdminPage PROVE PageInv' /\ UNCHANGED tables
  BY <1>0, <1>1, <1>4, AnswerStep DEF AdminPage, AdminLinks, TaskLinks
<1>5. ASSUME MenuLink PROVE PageInv' /\ UNCHANGED tables
  BY <1>0, <1>5, AnswerStep DEF MenuLink
<1>6. ASSUME NEW f \in Filters, FirstPage(f.user, f.task, f.verdict)
      PROVE  PageInv' /\ UNCHANGED tables
  <2> DEFINE T == {s \in Ids : Below(Top, s) /\ Match(s, f.user, f.task, f.verdict)}
             M == {s \in Ids : Match(s, f.user, f.task, f.verdict)}
  <2>1. PICK count \in Counts :
            reader' = [links |-> RowLinks(Newest(T, count)), from |-> LastId(Newest(T, count)),
                       unseen |-> M \ Newest(T, count)]
    BY <1>6 DEF FirstPage, Fetch
  <2>2. \A s \in Ids : Below(Top, s)
    BY <1>0, LenProperties, ListingAssumption DEF Below, Top, Ids, TInv, TablesTyped
  <2>3. T \in SUBSET Ids /\ M \in SUBSET T
    BY <2>2
  <2>4. UNCHANGED tables /\ count \in Nat \ {0}
    BY <1>6, SiteAssumption DEF FirstPage
  <2> HIDE DEF T, M
  <2> QED BY <1>0, <2>1, <2>3, <2>4, ListStep
<1>7. ASSUME PreviousPage PROVE PageInv' /\ UNCHANGED tables
  <2> DEFINE T == {s \in Ids : Below(reader.from, s) /\ Match(s, Nobody, NoTask, NoVerdict)}
  <2>1. reader' = [links |-> RowLinks(Newest(T, DefaultCount)),
                   from |-> LastId(Newest(T, DefaultCount)),
                   unseen |-> reader.unseen \ Newest(T, DefaultCount)]
    BY <1>7 DEF PreviousPage, Fetch
  <2>2. \A s \in reader.unseen : s \in Ids /\ s < reader.from
    BY DEF IInv, ReaderTyped, PagingShowsAll
  <2>3. T \in SUBSET Ids /\ reader.unseen \in SUBSET T
    BY <2>2 DEF Below, Match
  <2>4. UNCHANGED tables /\ DefaultCount \in Nat \ {0}
    BY <1>7, SiteAssumption DEF PreviousPage
  <2> HIDE DEF T
  <2> QED BY <1>0, <2>1, <2>3, <2>4, ListStep
<1>8. ASSUME NEW s \in 1 .. MaxSubmissions, SubmissionPage(s) \/ CodePage(s)
      PROVE  PageInv' /\ UNCHANGED tables
  <2>1. CASE SubmissionPage(s)
    <3> DEFINE L == IF s \in Ids THEN CodeLink(s) ELSE {}
    <3>1. L \in SUBSET Links /\ GoodLinks(L)
      BY DEF CodeLink, CodeReadable
    <3> QED BY <1>0, <2>1, <3>1, AnswerStep DEF SubmissionPage
  <2>2. CASE CodePage(s)
    BY <1>0, <2>2, AnswerStep DEF CodePage
  <2> QED BY <1>8, <2>1, <2>2
<1>9. ASSUME NEW t \in Tasks \cup {NoTask},
             TaskPage(t) \/ DescPage(t) \/ DescFile(t) \/ SubmitPage(t)
      PROVE  PageInv' /\ UNCHANGED tables
  <2>1. CASE TaskPage(t)
    <3>1. CASE t \in Tasks
      <4>1. SubmitLink(t) \in SUBSET Links /\ GoodLinks(SubmitLink(t))
        BY <3>1 DEF SubmitLink
      <4> QED BY <1>0, <2>1, <4>1, AnswerStep DEF TaskPage
    <3>2. CASE t \notin Tasks
      <4>1. Answer(FALSE, {})
        BY <2>1, <3>2 DEF TaskPage, TaskFound, Answer
      <4> QED BY <1>0, <4>1, AnswerStep
    <3> QED BY <3>1, <3>2
  <2>2. CASE DescPage(t)
    <3>1. CASE t \in Tasks
      <4>1. FrameLink(t) \in SUBSET Links /\ GoodLinks(FrameLink(t))
        BY <3>1 DEF FrameLink
      <4> QED BY <1>0, <2>2, <4>1, AnswerStep DEF DescPage
    <3>2. CASE t \notin Tasks
      <4>1. Answer(FALSE, {})
        BY <2>2, <3>2 DEF DescPage, TaskFound, Answer
      <4> QED BY <1>0, <4>1, AnswerStep
    <3> QED BY <3>1, <3>2
  <2>3. CASE DescFile(t)
    BY <1>0, <2>3, AnswerStep DEF DescFile
  <2>4. CASE SubmitPage(t)
    BY <1>0, <2>4, AnswerStep DEF SubmitPage
  <2> QED BY <1>9, <2>1, <2>2, <2>3, <2>4
<1> QED BY <1>2, <1>3, <1>4, <1>5, <1>6, <1>7, <1>8, <1>9

\* A page is good when it comes and stays good.
LEMMA StepIInv == IInv /\ [Next]_vars => IInv'
<1> SUFFICES ASSUME IInv, [Next]_vars PROVE IInv'
  OBVIOUS
<1>1. CASE TablesNext /\ UNCHANGED reader
  BY <1>1, TablesStep, ReaderKeeps DEF IInv, PageInv
<1>2. CASE UNCHANGED vars
  BY <1>2, SameTables DEF vars, IInv, ReaderTyped, LinksWork, PagingShowsAll, tables, Ids,
     SubmissionFound, CodeReadable, TaskFound, MaySubmit
<1>3. CASE Next /\ ~(TablesNext /\ UNCHANGED reader)
  <2>1. PageInv' /\ UNCHANGED tables
    BY <1>3, PageStep DEF Next
  <2> QED BY <2>1, SameTables DEF IInv, PageInv
<1> QED BY <1>1, <1>2, <1>3

\* The inductive invariant holds throughout.
THEOREM Invariance == Spec => []IInv
<1> QED BY InitIInv, StepIInv, PTL DEF Spec

\* Every reachable state is well typed.
THEOREM TypeCorrect == Spec => []TypeOK
<1>1. IInv => TypeOK
  <2> SUFFICES ASSUME IInv PROVE TypeOK
    OBVIOUS
  <2>1. \A s \in Ids : subs[s] \in Rows
    BY LenProperties, ElementOfSeq DEF IInv, TInv, TablesTyped, Ids
  <2>2. TablesTypeOK
    BY <2>1 DEF IInv, TInv, TablesTyped, OldRows, TablesTypeOK, Rows
  <2> QED BY <2>2 DEF IInv, ReaderTyped, TypeOK
<1> QED BY <1>1, Invariance, PTL

\* Every link of a page works when it is followed (the handlers of web.c, the
\* links of views.c).
THEOREM LinksAlwaysWork == Spec => []LinksWork
<1>1. IInv => LinksWork
  BY DEF IInv
<1> QED BY <1>1, Invariance, PTL

\* "Previous page", followed to its end, shows whatever matched.
THEOREM PagingIsComplete == Spec => []PagingShowsAll
<1>1. IInv => PagingShowsAll
  BY DEF IInv
<1> QED BY <1>1, Invariance, PTL

\* Only a rejudge takes a solved task off the leaderboard.
THEOREM SolvedStays == Spec => LostOnlyByRejudge
<1>1. IInv /\ [Next]_vars => [\A u \in Users : \A t \in Accepted(u) \ Accepted(u)' :
                                Of(u, t) \cap rejudged # {}]_tables
  <2> SUFFICES ASSUME IInv, [Next]_vars, ~UNCHANGED tables,
                      NEW u \in Users, NEW t \in Accepted(u) \ Accepted(u)'
               PROVE  Of(u, t) \cap rejudged # {}
    OBVIOUS
  <2>1. TInv /\ TablesNext
    BY PageStep DEF IInv, Next, vars
  <2>2. Grown
    BY <2>1, TablesStep
  <2>3. PICK s \in Ids : /\ subs[s].user = u /\ subs[s].task = t
                         /\ subs[s].verdict = "accepted"
    BY DEF Accepted, Of
  <2>4. /\ s \in Ids' /\ subs'[s].user = u /\ subs'[s].task = t
        /\ t \in Tasks
    BY <2>2, <2>3 DEF Grown, Accepted
  <2>5. subs'[s].verdict # "accepted"
    BY <2>4 DEF Accepted, Of
  <2>6. /\ subs \in Seq(Rows) /\ Ids = 1 .. Len(subs) /\ subs[s] \in Rows
        /\ "accepted" # NoVerdict
    BY <2>1, <2>3, LenProperties, ElementOfSeq, ListingAssumption
       DEF TInv, TablesTyped, Ids, Verdicts
  <2>7. ASSUME NEW v, NEW p, NEW r, subs' = Append(subs, Row(v, r, p, NoVerdict, "open")),
               Row(v, r, p, NoVerdict, "open") \in Rows
        PROVE  FALSE
    BY <2>3, <2>5, <2>6, <2>7, AppendProperties
  <2>8. ASSUME NEW r \in Ids, Complete(r) PROVE s \in rejudged
    <3>1. s = r
      BY <2>3, <2>5, <2>6, <2>8 DEF Complete
    <3> QED BY <2>1, <2>3, <2>6, <2>8, <3>1 DEF Complete, TInv, OpenAgain
  <2>9. ASSUME NEW r \in Ids, Requeue(r) PROVE FALSE
    BY <2>3, <2>5, <2>6, <2>9 DEF Requeue, Rows
  <2>10. ASSUME ClearVerdict PROVE s \in rejudged
    <3>1. s = rejudge
      BY <2>3, <2>5, <2>6, <2>10 DEF ClearVerdict
    <3> QED BY <2>1, <2>10, <3>1 DEF ClearVerdict, TInv, TablesTyped
  <2>11. ASSUME UNCHANGED subs PROVE FALSE
    BY <2>3, <2>5, <2>11
  <2>12. s \in rejudged
    <3>1. ASSUME NEW v \in Users \cup {Nobody}, NEW r \in Tasks, NEW p \in BOOLEAN,
                 Enqueue(v, r, p)
          PROVE  FALSE
      <4>1. Row(v, r, p, NoVerdict, "open") \in Rows
        BY DEF Row, Rows
      <4> QED BY <3>1, <4>1, <2>7 DEF Enqueue
    <3>2. ASSUME NEW r \in Tasks, ToggleVisibility(r) PROVE FALSE
      BY <3>2, <2>11 DEF ToggleVisibility
    <3>3. ASSUME NEW v \in Users, NEW r \in Tasks, ToggleBookmark(v, r) PROVE FALSE
      BY <3>3, <2>11 DEF ToggleBookmark
    <3> QED BY <2>1, <2>8, <2>9, <2>10, <3>1, <3>2, <3>3 DEF TablesNext
  <2> QED BY <2>3, <2>12 DEF Of
<1> QED BY <1>1, Invariance, PTL DEF Spec, LostOnlyByRejudge

-----------------------------------------------------------------------------
(* The numbers.                                                              *)

\* The tasks of finitely many submissions are finitely many.
LEMMA TasksFinite ==
    ASSUME TInv, NEW T, \A t \in T : \E s \in Ids : subs[s].task = t
    PROVE  IsFiniteSet(T)
<1> DEFINE S == {s \in Ids : subs[s].task \in T}
           taskOf == [s \in S |-> subs[s].task]
<1>1. Ids = 1 .. Len(subs) /\ Len(subs) \in Nat
  BY LenProperties DEF TInv, TablesTyped, Ids
<1>2. IsFiniteSet(S)
  <2>1. IsFiniteSet(1 .. Len(subs))
    BY <1>1, FS_Interval
  <2> QED BY <1>1, <2>1, FS_Subset
<1>3. taskOf \in Surjection(S, T)
  BY DEF Surjection
<1> HIDE DEF S, taskOf
<1> QED BY <1>2, <1>3, FS_Surjection

\* A number is that of a part and that of the rest.
LEMMA Parts ==
    ASSUME NEW S, NEW T, IsFiniteSet(S)
    PROVE  /\ IsFiniteSet(S \ T) /\ IsFiniteSet(S \cap T)
           /\ Cardinality(S) \in Nat /\ Cardinality(S \ T) \in Nat /\ Cardinality(S \cap T) \in Nat
           /\ Cardinality(S) = Cardinality(S \ T) + Cardinality(S \cap T)
<1>1. IsFiniteSet(S \ T) /\ IsFiniteSet(S \cap T)
  BY FS_Difference, FS_Intersection
<1>2. Cardinality(S \ T) = Cardinality(S) - Cardinality(S \cap T)
  BY FS_Difference
<1>3. Cardinality(S) \in Nat /\ Cardinality(S \ T) \in Nat /\ Cardinality(S \cap T) \in Nat
  BY <1>1, FS_CardinalityType
<1> QED BY <1>1, <1>2, <1>3

\* The list has a line for each submission that its filters match.
LEMMA AllAreListed ==
    ASSUME TInv, NEW t \in Tasks
    PROVE  /\ Cardinality(Listed(t, NoVerdict)) = SubmissionCount(t)
           /\ Cardinality(Listed(t, "accepted")) = AcceptedCount(t)
<1>1. Ids = 1 .. Len(subs) /\ Len(subs) \in Nat
  BY LenProperties DEF TInv, TablesTyped, Ids
<1>2. IsFiniteSet(Ids) /\ Cardinality(Ids) = Len(subs)
  <2> DEFINE n == Len(subs)
  <2>1. n \in Nat /\ Ids = 1 .. n
    BY <1>1
  <2> HIDE DEF n
  <2>2. IsFiniteSet(1 .. n) /\ Cardinality(1 .. n) = n
    BY <2>1, FS_Interval
  <2> QED BY <2>1, <2>2 DEF n
<1>3. ASSUME NEW ids \in SUBSET Ids PROVE Newest(ids, Len(subs)) = ids
  <2> SUFFICES ASSUME NEW s \in ids
               PROVE  Cardinality({r \in ids : r >= s}) <= Len(subs)
    BY DEF Newest
  <2>1. {r \in ids : r >= s} \in SUBSET Ids
    OBVIOUS
  <2> QED BY <1>2, <2>1, FS_Subset
<1>4. ASSUME NEW v
      PROVE  Listed(t, v) = {s \in Ids : Match(s, Nobody, t, v)}
  <2>1. \A s \in Ids : Below(Len(subs) + 1, s)
    BY <1>1 DEF Below
  <2> QED BY <1>3, <2>1 DEF Listed, Fetch
<1>5. \A s \in Ids : Match(s, Nobody, t, NoVerdict) <=> subs[s].task = t
  BY ListingAssumption DEF Match
<1>6. \A s \in Ids : Match(s, Nobody, t, "accepted")
                     <=> subs[s].task = t /\ subs[s].verdict = "accepted"
  BY ListingAssumption DEF Match, Verdicts
<1> QED BY <1>4, <1>5, <1>6 DEF SubmissionCount, AcceptedCount

\* Everybody who is credited with a task has an accepted submission of his own.
LEMMA EveryoneCounts ==
    ASSUME TInv, NEW t \in Tasks
    PROVE  Cardinality({u \in Users : t \in Accepted(u)}) <= AcceptedCount(t)
<1> DEFINE S == {s \in Ids : subs[s].task = t /\ subs[s].verdict = "accepted"}
           C == {u \in Users : t \in Accepted(u)}
           by == [s \in S |-> subs[s].user]
           T == {by[s] : s \in S}
<1>1. IsFiniteSet(S)
  <2>1. Ids = 1 .. Len(subs) /\ Len(subs) \in Nat
    BY LenProperties DEF TInv, TablesTyped, Ids
  <2>2. IsFiniteSet(1 .. Len(subs))
    BY <2>1, FS_Interval
  <2> QED BY <2>1, <2>2, FS_Subset
<1>2. C \in SUBSET T
  BY DEF Accepted, Of
<1>3. by \in Surjection(S, T)
  BY DEF Surjection
<1>4. AcceptedCount(t) = Cardinality(S)
  BY DEF AcceptedCount
<1> HIDE DEF S, C, by, T
<1>5. IsFiniteSet(T) /\ Cardinality(T) <= Cardinality(S)
  BY <1>1, <1>3, FS_Surjection
<1>6. IsFiniteSet(C) /\ Cardinality(C) <= Cardinality(T)
  BY <1>2, <1>5, FS_Subset
<1>7. Cardinality(C) \in Nat /\ Cardinality(T) \in Nat /\ Cardinality(S) \in Nat
  BY <1>1, <1>5, <1>6, FS_CardinalityType
<1>8. Cardinality(C) <= AcceptedCount(t)
  BY <1>4, <1>5, <1>6, <1>7
<1> QED BY <1>8 DEF C

\* The pages agree wherever the tables are sound: a task is ticked because it
\* counts, or for a verdict of the older version.
LEMMA Agreement == TInv => NumbersAgree
<1> SUFFICES ASSUME TInv PROVE NumbersAgree
  OBVIOUS
<1>1. /\ Ids = 1 .. Len(subs) /\ Len(subs) \in Nat
      /\ \A s \in Ids : subs[s] \in Rows
  BY LenProperties, ElementOfSeq DEF TInv, TablesTyped, Ids
<1>2. Nobody \notin Users /\ "accepted" # NoVerdict
  BY ListingAssumption DEF Verdicts
<1>3. Ticked(Nobody) = {}
  BY DEF Ticked
<1>4. ASSUME NEW u \in Users
      PROVE  LET unlisted == Accepted(u) \cap hidden
                 ancient == {t \in Ticked(u) : \A s \in Of(u, t) : subs[s].verdict # "accepted"}
             IN  /\ Leaderboard[u] =
                       Cardinality(Ticked(u)) + Cardinality(unlisted) - Cardinality(ancient)
                 /\ \A t \in ancient : \E s \in Of(u, t) : s <= Len(Old)
                 /\ TaskList(u, TRUE, "solved") = Ticked(u)
                 /\ TaskList(u, FALSE, "") = TaskList(u, TRUE, "") \ Ticked(u)
                 /\ TaskList(u, TRUE, "tried") = TaskList(u, FALSE, "tried")
  <2> DEFINE A == Accepted(u)
             K == Ticked(u)
             ancient == {t \in K : \A s \in Of(u, t) : subs[s].verdict # "accepted"}
  <2>1. u # Nobody
    BY <1>2
  <2>2. /\ A = {t \in Tasks : \E s \in Of(u, t) : subs[s].verdict = "accepted"}
        /\ K = {t \in Tasks \ hidden : Solved(u, t)}
    BY <2>1 DEF Accepted, Ticked, TaskList
  <2>3. /\ TaskList(u, TRUE, "solved") = K
        /\ TaskList(u, FALSE, "") = TaskList(u, TRUE, "") \ K
        /\ TaskList(u, TRUE, "tried") = TaskList(u, FALSE, "tried")
    BY <2>1 DEF Ticked, TaskList
  <2>4. \A t \in ancient : \E s \in Of(u, t) : s <= Len(Old)
    <3> SUFFICES ASSUME NEW t \in ancient PROVE \E s \in Of(u, t) : s <= Len(Old)
      OBVIOUS
    <3>1. PICK s \in Of(u, t) : "accepted" \in {subs[s].verdict, subs[s].result}
      BY <2>2 DEF Solved
    <3>2. s \in Ids /\ subs[s].result # NoVerdict
      BY <1>2, <3>1 DEF Of
    <3> QED BY <3>1, <3>2 DEF TInv, OldRows
  <2>5. IsFiniteSet(A) /\ IsFiniteSet(K)
    <3>1. \A t \in A \cup K : \E s \in Ids : subs[s].task = t
      BY <2>2 DEF Solved, Of
    <3>2. IsFiniteSet(A \cup K)
      BY <3>1, TasksFinite
    <3> HIDE DEF A, K
    <3> QED BY <3>2, FS_Subset
  <2>6. K \ ancient = A \ hidden /\ K \cap ancient = ancient
    BY <2>2 DEF Solved
  <2>7. Cardinality(A) = Cardinality(K) + Cardinality(A \cap hidden) - Cardinality(ancient)
    <3> HIDE DEF A, K, ancient
    <3>1. /\ Cardinality(K) = Cardinality(K \ ancient) + Cardinality(K \cap ancient)
          /\ Cardinality(K \ ancient) \in Nat /\ Cardinality(K \cap ancient) \in Nat
      BY <2>5, Parts
    <3>2. /\ Cardinality(A) = Cardinality(A \ hidden) + Cardinality(A \cap hidden)
          /\ Cardinality(A \ hidden) \in Nat /\ Cardinality(A \cap hidden) \in Nat
      BY <2>5, Parts
    <3>3. /\ Cardinality(K \ ancient) = Cardinality(A \ hidden)
          /\ Cardinality(K \cap ancient) = Cardinality(ancient)
      BY <2>6
    <3> DEFINE a == Cardinality(A)
               k == Cardinality(K)
               listed == Cardinality(A \ hidden)
               unlisted == Cardinality(A \cap hidden)
               old == Cardinality(ancient)
    <3>4. /\ k = listed + old /\ a = listed + unlisted
          /\ listed \in Nat /\ unlisted \in Nat /\ old \in Nat
      BY <3>1, <3>2, <3>3
    <3> HIDE DEF a, k, listed, unlisted, old
    <3>5. a = k + unlisted - old
      BY <3>4
    <3> QED BY <3>5 DEF a, k, unlisted, old
  <2>8. Leaderboard[u] = Cardinality(A)
    BY DEF Leaderboard
  <2> QED BY <2>3, <2>4, <2>7, <2>8
<1>5. ASSUME NEW t \in Tasks
      PROVE  /\ Cardinality(Listed(t, NoVerdict)) = SubmissionCount(t)
             /\ Cardinality(Listed(t, "accepted")) = AcceptedCount(t)
             /\ Cardinality({u \in Users : t \in Accepted(u)}) <= AcceptedCount(t)
  BY AllAreListed, EveryoneCounts
<1> QED BY <1>3, <1>4, <1>5 DEF NumbersAgree

\* The leaderboard, the ticks in the list of tasks and its filters agree, but for
\* what only an old version accepted and for hidden tasks, and the page of a task
\* counts the lines of the list of submissions and all who are credited with it (the
\* queries of fetch_leaderboard, fetch_tasks_filtered, fetch_task_by_pk and
\* fetch_submissions).
THEOREM PagesAgree == Spec => []NumbersAgree
<1>1. IInv => NumbersAgree
  BY Agreement DEF IInv
<1> QED BY <1>1, Invariance, PTL

-----------------------------------------------------------------------------
(* A statement of any length gives well nested tags.                         *)

\* What may be open at the end of a line.
Shapes == {{}, {"p"}, {"ul"}, {"table"}, {"code"}, {"math"}, {"code", "math"}}

\* The flags say what is open; only a formula is ever inside something else,
\* and that is a code block.
NestInv ==
    /\ MarkdownTypeOK
    /\ flags = open
    /\ open \in Shapes
    /\ \A e \in open \ {"math"} : within[e] = {}
    /\ "math" \in open => within["math"] = open \ {"math"}
    /\ done => open = {} /\ line = End
    /\ bad => done /\ within["math"] = {"code"}

LEMMA NestInit == MarkdownInit => NestInv
  BY DEF MarkdownInit, NestInv, MarkdownTypeOK, Shapes, Elements

\* What is left when a set is closed before the end: tags match if nothing else
\* is open, or if it is the formula that is closed.
LEMMA Matching ==
    ASSUME NestInv, NEW closed, closed \subseteq open,
           \/ closed = {}
           \/ closed = open /\ open # {"code", "math"}
           \/ closed = {"math"}
    PROVE  ~Mismatch(closed)
<1> SUFFICES ASSUME NEW e \in closed, NEW f \in open, e \in within[f]
             PROVE  FALSE
  BY DEF Mismatch
<1>1. f = "math" /\ "math" \in open /\ e \in open \ {"math"}
  BY DEF NestInv
<1>2. open = {"code", "math"} /\ e = "code"
  BY <1>1 DEF NestInv, Shapes
<1> QED BY <1>1, <1>2

\* A line keeps the invariant if it closes what matches and opens what belongs
\* there: a block when nothing is left open, or a formula, also inside code.
LEMMA TagsStep ==
    ASSUME NestInv, ~done, NEW closed, NEW opened,
           closed \subseteq open, opened \subseteq Elements,
           \/ closed = {}
           \/ closed = open /\ open # {"code", "math"}
           \/ closed = {"math"},
           \/ opened = {}
           \/ open \ closed = {} /\ \E e \in Elements : opened = {e}
           \/ open \ closed = {"code"} /\ opened = {"math"},
           Tags(closed, opened), Advance, line # End, UNCHANGED done
    PROVE  NestInv'
<1> DEFINE left == open \ closed
<1>1. ~bad'
  BY Matching DEF NestInv, Tags, Write
<1>2. open' = left \cup opened /\ flags' = open'
  BY DEF NestInv, Tags, Write
<1>3. /\ within' \in [Elements -> SUBSET Elements]
      /\ \A e \in Elements : within'[e] = IF e \in opened THEN left ELSE within[e]
  BY DEF NestInv, MarkdownTypeOK, Tags, Write
<1>4. MarkdownTypeOK'
  <2>1. bad' \in BOOLEAN /\ done' \in BOOLEAN
    BY DEF NestInv, MarkdownTypeOK, Tags, Write
  <2>2. line' \in Lines \cup {End} /\ next' \in Lines \cup {End}
    BY DEF NestInv, MarkdownTypeOK, Advance
  <2>3. open' \subseteq Elements /\ flags' \subseteq Elements
    BY <1>2 DEF NestInv, MarkdownTypeOK
  <2> QED BY <1>3, <2>1, <2>2, <2>3 DEF MarkdownTypeOK
<1>5. left \in Shapes
  BY DEF NestInv, Shapes
<1>6. open' \in Shapes
  BY <1>2, <1>5 DEF Shapes, Elements
<1>7. \A e \in open' \ {"math"} : within'[e] = {}
  <2> SUFFICES ASSUME NEW e \in open' \ {"math"} PROVE within'[e] = {}
    OBVIOUS
  <2>1. e \in Elements
    BY <1>6 DEF Shapes, Elements
  <2>2. CASE e \in opened
    BY <2>1, <2>2, <1>3
  <2>3. CASE e \notin opened
    BY <2>1, <2>3, <1>2, <1>3 DEF NestInv
  <2> QED BY <2>2, <2>3
<1>8. "math" \in open' => within'["math"] = open' \ {"math"}
  <2> SUFFICES ASSUME "math" \in open' PROVE within'["math"] = open' \ {"math"}
    OBVIOUS
  <2>1. "math" \in Elements
    BY DEF Elements
  <2>2. CASE "math" \in opened
    <3>1. opened = {"math"} /\ "math" \notin left
      BY <2>2
    <3> QED BY <2>1, <2>2, <3>1, <1>2, <1>3
  <2>3. CASE "math" \notin opened
    <3>1. "math" \in left /\ opened = {} /\ closed = {}
      BY <2>3, <1>2 DEF NestInv
    <3> QED BY <2>1, <2>3, <3>1, <1>2, <1>3 DEF NestInv
  <2> QED BY <2>2, <2>3
<1> QED BY <1>1, <1>2, <1>4, <1>6, <1>7, <1>8 DEF NestInv

\* Outside code and formulas one block is open at most.
LEMMA PlainShape ==
    ASSUME NestInv, Plain
    PROVE  open \in {{}, {"p"}, {"ul"}, {"table"}}
  BY DEF NestInv, Plain, Shapes

\* Every branch closes and opens as TagsStep requires.
LEMMA LineStep == NestInv /\ Line => NestInv'
<1> SUFFICES ASSUME NestInv, Line PROVE NestInv'
  OBVIOUS
<1>0. ~done /\ Advance /\ line # End /\ UNCHANGED done
  BY DEF Line, NestInv
<1>1. CASE MathLine
  <2>1. TableEnd = {}
    BY <1>1 DEF MathLine, TableEnd, NestInv, Shapes
  <2>2. Tags({"math"}, {}) \/ Tags({}, {})
    BY <1>1, <2>1 DEF MathLine
  <2> QED BY <1>0, <1>1, <2>2, TagsStep DEF MathLine, NestInv, Elements
<1>2. CASE MathStart
  <2>1. open \in {{}, {"p"}, {"ul"}, {"table"}, {"code"}}
    BY <1>2 DEF MathStart, NestInv, Shapes
  <2> DEFINE closed == TableEnd \cup Flow
  <2>2. Tags(closed, {"math"}) /\ {"math"} \subseteq Elements
    BY <1>2 DEF MathStart, Elements
  <2>3. CASE open = {"code"}
    <3>1. closed = {}
      BY <2>3 DEF NestInv, TableEnd, Flow
    <3> QED BY <1>0, <2>2, <2>3, <3>1, TagsStep
  <2>4. CASE open # {"code"}
    <3>1. closed = open
      BY <1>2, <2>1, <2>4 DEF MathStart, NestInv, TableEnd, Flow, IsRow
    <3>2. open # {"code", "math"} /\ \E e \in Elements : {"math"} = {e}
      BY <2>1 DEF Elements
    <3> QED BY <1>0, <2>2, <3>1, <3>2, TagsStep
  <2> QED BY <2>3, <2>4
<1>3. CASE Fence
  BY <1>0, <1>3, TagsStep DEF Fence, NestInv, Shapes, Elements,
     TableEnd, Flow, IsRow
<1>4. CASE CodeLine
  BY <1>0, <1>4, TagsStep DEF CodeLine, NestInv, Shapes, TableEnd
<1>5. CASE Blank
  BY <1>0, <1>5, TagsStep, PlainShape
     DEF Blank, NestInv, TableEnd, Flow, IsRow
<1>6. CASE TableStart
  BY <1>0, <1>6, TagsStep, PlainShape DEF TableStart, NestInv, Elements, Flow
<1>7. CASE TableRow
  BY <1>0, <1>7, TagsStep DEF TableRow
<1>8. CASE Heading
  BY <1>0, <1>8, TagsStep, PlainShape
     DEF Heading, NestInv, TableEnd, Flow, IsRow
<1>9. CASE Item
  <2>1. open \in {{}, {"p"}, {"ul"}, {"table"}}
    BY <1>9, PlainShape DEF Item
  <2> DEFINE closed == TableEnd \cup (flags \cap {"p"})
             opened == {"ul"} \ flags
  <2>2. Tags(closed, opened) /\ opened \subseteq Elements
    BY <1>9 DEF Item, Elements
  <2>3. CASE open = {"ul"}
    <3>1. closed = {} /\ opened = {}
      BY <2>3 DEF NestInv, TableEnd
    <3> QED BY <1>0, <2>2, <3>1, TagsStep
  <2>4. CASE open # {"ul"}
    <3>1. closed = open /\ opened = {"ul"}
      BY <1>9, <2>1, <2>4 DEF Item, NestInv, TableEnd, IsRow
    <3>2. open # {"code", "math"} /\ \E e \in Elements : opened = {e}
      BY <2>1, <3>1 DEF Elements
    <3> QED BY <1>0, <2>2, <3>1, <3>2, TagsStep
  <2> QED BY <2>3, <2>4
<1>10. CASE Text
  <2>1. open \in {{}, {"p"}, {"ul"}, {"table"}}
    BY <1>10, PlainShape DEF Text
  <2> DEFINE closed == TableEnd \cup (flags \cap {"ul"})
             opened == {"p"} \ flags
  <2>2. Tags(closed, opened) /\ opened \subseteq Elements
    BY <1>10 DEF Text, Elements
  <2>3. CASE open = {"p"}
    <3>1. closed = {} /\ opened = {}
      BY <2>3 DEF NestInv, TableEnd
    <3> QED BY <1>0, <2>2, <3>1, TagsStep
  <2>4. CASE open # {"p"}
    <3>1. closed = open /\ opened = {"p"}
      BY <1>10, <2>1, <2>4
         DEF Text, NestInv, TableEnd, IsRow
    <3>2. open # {"code", "math"} /\ \E e \in Elements : opened = {e}
      BY <2>1, <3>1 DEF Elements
    <3> QED BY <1>0, <2>2, <3>1, <3>2, TagsStep
  <2> QED BY <2>3, <2>4
<1> QED BY <1>1, <1>2, <1>3, <1>4, <1>5, <1>6, <1>7, <1>8, <1>9, <1>10 DEF Line

\* At the end everything is closed, in an order that is wrong for a formula in
\* a code block only.
LEMMA FinishStep == NestInv /\ Finish => NestInv'
<1> SUFFICES ASSUME NestInv, Finish PROVE NestInv'
  OBVIOUS
<1>1. open' = {} /\ flags' = {} /\ done' /\ within' = within /\ line' = End
  BY DEF NestInv, MarkdownTypeOK, Finish, Tags, Write
<1>2. bad' => within["math"] = {"code"}
  <2> SUFFICES ASSUME Mismatch(open) PROVE within["math"] = {"code"}
    BY DEF NestInv, Finish, Tags, Write
  <2>1. open = {"code", "math"}
    BY Matching DEF NestInv
  <2> QED BY <2>1 DEF NestInv
<1>3. MarkdownTypeOK'
  BY <1>1 DEF NestInv, MarkdownTypeOK, Finish, Tags, Write
<1> QED BY <1>1, <1>2, <1>3 DEF NestInv, Shapes

\* What the flags say is always what is open.
THEOREM NestsThroughout == MarkdownSpec => []NestInv
<1>1. NestInv /\ [MarkdownNext]_markdownVars => NestInv'
  <2> SUFFICES ASSUME NestInv, [MarkdownNext]_markdownVars PROVE NestInv'
    OBVIOUS
  <2>1. CASE Line
    BY <2>1, LineStep
  <2>2. CASE Finish
    BY <2>2, FinishStep
  <2>3. CASE UNCHANGED markdownVars
    BY <2>3 DEF markdownVars, NestInv, MarkdownTypeOK
  <2> QED BY <2>1, <2>2, <2>3 DEF MarkdownNext
<1> QED BY NestInit, <1>1, PTL DEF MarkdownSpec

\* Every reachable state of html_markdown is well typed.
THEOREM StatementTyped == MarkdownSpec => []MarkdownTypeOK
<1>1. NestInv => MarkdownTypeOK
  BY DEF NestInv
<1> QED BY <1>1, NestsThroughout, PTL

\* The tags nest, but for a formula begun in a code block that does not end.
THEOREM Nesting == MarkdownSpec => []WellNested
<1>1. NestInv => WellNested
  BY DEF NestInv, WellNested
<1> QED BY <1>1, NestsThroughout, PTL
=============================================================================
