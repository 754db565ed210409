--------------------------- MODULE TaskSyncProofs ---------------------------
(* Proofs about TaskSync for any directories, tasks, manifests and numbers   *)
(* of subtasks, edits and crashes.                                           *)
EXTENDS TaskSync, TLAPS

\* The first n groups of a manifest that says t.
Prefix(n, t) == [i \in 1 .. MaxGroups |-> IF i <= n THEN t ELSE 0]

\* A process that inserts is at most behind the last group.
InRange == \A p \in Procs : pc[p] = "insert" => idx[p] <= man[p].groups + 1

\* While only tle_web syncs, there is a prefix of a manifest for each task, and
\* where it inserts either its own groups or, if the DELETE has failed, groups
\* with the first of which it collides.
Alone == \A p \in Procs \ {"web"} : pc[p] = "off"
PrefixInv ==
    Alone =>
        /\ \A k \in Pks : \E n \in 0 .. MaxGroups, t \in Tags : groups[k] = Prefix(n, t)
        /\ \A p \in Procs : pc[p] = "insert" =>
              idx[p] = 1 \/ groups[man[p].pk] = Prefix(idx[p] - 1, man[p].tag)

-----------------------------------------------------------------------------
(* What holds while nothing but syncs of unchanged files happens.            *)

\* What SyncedWhenQuiet asks of the files.
Steady ==
    /\ PksDistinct
    /\ \A d \in Dirs : files[d].kind \notin {"half", "fatal"}

\* The next group of m that process p inserts; one that is elsewhere would come
\* behind the last.
Pos(p, m) ==
    IF p \in Procs /\ pc[p] = "insert" /\ man[p].pk = m.pk THEN idx[p] ELSE m.groups + 1

\* Since a DELETE, two processes at a and b have inserted what both have passed,
\* and, from c on, what the one that is ahead has.
Filled(i, a, b, c) == (i < a /\ i < b) \/ (c <= i /\ (i < a \/ i < b))
Shape(m) ==
    \E c \in Nat : \A i \in 1 .. MaxGroups :
        groups[m.pk][i] =
            IF Filled(i, Pos("web", m), Pos("check", m), c) THEN m.tag ELSE 0

\* A process that runs and finds no group where it is going to insert.
Clear(p) ==
    /\ p \in Running
    /\ pc[p] = "insert" => \A i \in idx[p] .. MaxGroups : groups[man[p].pk][i] = 0

GoodDirs == {d \in Dirs : files[d].kind = "good"}

\* The work that is left: none, or a process that will not collide is at it.
Complete ==
    /\ \A d \in GoodDirs : row[files[d].pk] = files[d].tag /\ Shape(files[d])
    /\ \A k \in Pks : row[k] # 0 /\ (\A d \in GoodDirs : files[d].pk # k) => k \in hidden

\* What process p has behind it since it was started.
Behind(p) ==
    /\ pc[p] # "scan" => \E d \in GoodDirs \ todo[p] : man[p] = files[d]
    /\ \A k \in seen[p] : \E d \in GoodDirs : files[d].pk = k
    /\ \A d \in GoodDirs \ todo[p] :
          /\ row[files[d].pk] = files[d].tag \/ (pc[p] = "upsert" /\ man[p] = files[d])
          /\ Shape(files[d]) \/ (pc[p] \in {"upsert", "delete"} /\ man[p] = files[d])

QuietInv ==
    calm /\ Steady =>
        /\ \A p \in Running : Behind(p)
        /\ Complete \/ \E p \in Procs : Clear(p)

SyncInv == TypeOK /\ InRange /\ PrefixInv /\ QuietInv

-----------------------------------------------------------------------------
(* Types.                                                                    *)

\* What is known of a manifest, and of the bounds.
LEMMA Manifested ==
    ASSUME NEW m \in Manifests
    PROVE  /\ m.pk \in Pks /\ m.tag \in Tags /\ m.tag \in Nat /\ m.tag # 0
           /\ m.groups \in 0 .. MaxGroups /\ m.groups \in Nat /\ m.groups <= MaxGroups
<1>1. m \in Manifest /\ m.tag \in Tags /\ MaxGroups \in Nat
  BY ManifestAssumption, BoundAssumption DEF Tags
<1>2. m.pk \in Pks /\ m.tag \in Nat \ {0} /\ m.groups \in 0 .. MaxGroups
  BY <1>1 DEF Manifest
<1> QED BY <1>1, <1>2

LEMMA TagsAreNumbers == \A t \in Tags : t \in Nat /\ t # 0
  BY Manifested DEF Tags

LEMMA InitTyped == Init => TypeOK
<1> SUFFICES ASSUME Init PROVE TypeOK
  OBVIOUS
<1>1. (CHOOSE m \in Manifests : TRUE) \in Manifests
  BY ManifestAssumption
<1>2. /\ MaxGroups \in Nat /\ MaxEdits \in Nat /\ MaxCrashes \in Nat
      /\ 1 \in 1 .. MaxGroups + 1 /\ 0 \in 0 .. MaxEdits /\ 0 \in 0 .. MaxCrashes
  BY BoundAssumption
<1>3. man \in [Procs -> Manifests]
  BY <1>1 DEF Init
<1> QED BY <1>2, <1>3 DEF Init, TypeOK

\* The manifest of a process, and the number it inserts next.
LEMMA AtHand ==
    ASSUME TypeOK, NEW p \in Procs
    PROVE  /\ man[p] \in Manifests
           /\ man[p].pk \in Pks /\ man[p].tag \in Tags /\ man[p].tag \in Nat /\ man[p].tag # 0
           /\ man[p].groups \in Nat /\ man[p].groups <= MaxGroups
           /\ idx[p] \in Nat /\ idx[p] >= 1
<1>1. man[p] \in Manifests /\ idx[p] \in 1 .. MaxGroups + 1
  BY DEF TypeOK
<1> QED BY <1>1, Manifested, BoundAssumption

\* Every step keeps the state well typed: a row, once written, stays.
LEMMA TypeStep == TypeOK /\ InRange /\ [Next]_vars => TypeOK' /\ InRange'
<1> SUFFICES ASSUME TypeOK, InRange, [Next]_vars PROVE TypeOK' /\ InRange'
  OBVIOUS
<1>0. MaxGroups \in Nat /\ MaxEdits \in Nat /\ MaxCrashes \in Nat
  BY BoundAssumption
<1>13. 1 \in 1 .. MaxGroups + 1
  BY <1>0
<1> USE DEF TypeOK, InRange, db, local, history, GoTo
<1>1. ASSUME NEW p \in Procs, Start(p) PROVE TypeOK' /\ InRange'
  BY <1>1 DEF Start
<1>2. ASSUME NEW p \in Procs, Read(p) PROVE TypeOK' /\ InRange'
  <2>1. PICK d \in todo[p] :
           /\ todo' = [todo EXCEPT ![p] = @ \ {d}]
           /\ \/ UNCHANGED <<pc, man>>
              \/ GoTo(p, "died") /\ UNCHANGED man
              \/ GoTo(p, "upsert") /\ man' = [man EXCEPT ![p] = files[d]]
    BY <1>2 DEF Read
  <2>2. d \in Dirs /\ files[d] \in Manifests
    BY <2>1
  <2>3. /\ todo' \in [Procs -> SUBSET Dirs]
        /\ man' \in [Procs -> Manifests]
        /\ pc' \in [Procs -> {"off", "scan", "upsert", "delete", "insert", "done", "died"}]
    BY <2>1, <2>2
  <2>4. InRange'
    BY <1>2, <2>1 DEF Read
  <2>5. UNCHANGED <<files, row, hidden, groups, idx, seen, calm, edits, crashes>>
    BY <1>2 DEF Read
  <2> QED BY <2>3, <2>4, <2>5
<1>3. ASSUME NEW p \in Procs, Upsert(p) PROVE TypeOK' /\ InRange'
  BY <1>3, AtHand DEF Upsert
<1>4. ASSUME NEW p \in Procs, DeleteGroups(p) PROVE TypeOK' /\ InRange'
  <2>1. man[p] \in Manifests /\ man[p].pk \in Pks /\ man[p].groups \in Nat
    BY AtHand
  <2>2. Deleted(groups[man[p].pk]) \in [1 .. MaxGroups -> Tags \cup {0}]
    BY <2>1 DEF Deleted
  <2>3. groups' \in [Pks -> [1 .. MaxGroups -> Tags \cup {0}]]
    BY <1>4, <2>1, <2>2 DEF DeleteGroups
  <2>4. idx' \in [Procs -> 1 .. MaxGroups + 1]
    BY <1>13, <1>4 DEF DeleteGroups
  <2>5. InRange'
    BY <1>4, <2>1, AtHand DEF DeleteGroups
  <2> QED BY <1>4, <2>3, <2>4, <2>5 DEF DeleteGroups
<1>5. ASSUME NEW p \in Procs, InsertGroup(p) PROVE TypeOK' /\ InRange'
  <2>1. /\ man[p].pk \in Pks /\ man[p].tag \in Tags
        /\ man[p].groups \in Nat /\ man[p].groups <= MaxGroups
        /\ idx[p] \in Nat /\ idx[p] >= 1 /\ idx[p] <= man[p].groups
    BY <1>5, AtHand DEF InsertGroup
  <2>2. CASE UNCHANGED <<groups, idx>> /\ GoTo(p, "died")
    BY <1>5, <2>2 DEF InsertGroup
  <2>3. CASE /\ groups' = [groups EXCEPT ![man[p].pk][idx[p]] = man[p].tag]
             /\ idx' = [idx EXCEPT ![p] = idx[p] + 1]
             /\ UNCHANGED pc
    <3>1. groups' \in [Pks -> [1 .. MaxGroups -> Tags \cup {0}]]
      BY <2>1, <2>3
    <3>2. idx[p] + 1 \in 1 .. MaxGroups + 1 /\ idx[p] + 1 <= man[p].groups + 1
      BY <1>0, <2>1
    <3>3. idx' \in [Procs -> 1 .. MaxGroups + 1]
      BY <2>3, <3>2
    <3>4. InRange'
      BY <1>5, <2>3, <3>2 DEF InsertGroup
    <3> QED BY <1>5, <2>3, <3>1, <3>3, <3>4 DEF InsertGroup
  <2> QED BY <1>5, <2>2, <2>3 DEF InsertGroup
<1>6. ASSUME NEW p \in Procs, GroupsStored(p) PROVE TypeOK' /\ InRange'
  BY <1>6 DEF GroupsStored
<1>7. ASSUME NEW p \in Procs, Hide(p) PROVE TypeOK' /\ InRange'
  BY <1>7 DEF Hide, HiddenBut
<1>8. ASSUME NEW p \in Procs, DeleteFails(p) PROVE TypeOK' /\ InRange'
  <2>1. crashes' \in 0 .. MaxCrashes
    BY <1>0, <1>8 DEF DeleteFails
  <2>2. idx' \in [Procs -> 1 .. MaxGroups + 1]
    BY <1>13, <1>8 DEF DeleteFails
  <2>3. InRange'
    BY <1>8, AtHand DEF DeleteFails
  <2> QED BY <1>8, <2>1, <2>2, <2>3 DEF DeleteFails
<1>9. ASSUME NEW p \in Procs, Crash(p) PROVE TypeOK' /\ InRange'
  <2>1. crashes' \in 0 .. MaxCrashes
    BY <1>0, <1>9 DEF Crash
  <2> QED BY <1>9, <2>1 DEF Crash
<1>10. CASE Edit
  <2>1. edits' \in 0 .. MaxEdits
    BY <1>0, <1>10 DEF Edit
  <2> QED BY <1>10, <2>1 DEF Edit
<1>11. CASE Toggle
  <2>1. edits' \in 0 .. MaxEdits
    BY <1>0, <1>11 DEF Toggle
  <2> QED BY <1>11, <2>1 DEF Toggle
<1>12. CASE UNCHANGED vars
  BY <1>12 DEF vars
<1> QED BY <1>1, <1>2, <1>3, <1>4, <1>5, <1>6, <1>7, <1>8, <1>9, <1>10, <1>11, <1>12
        DEF Next, Sync

-----------------------------------------------------------------------------
(* Prefixes.                                                                 *)

\* No groups at all are a prefix of every manifest.
LEMMA NoGroups ==
    ASSUME NEW gs, gs = [i \in 1 .. MaxGroups |-> 0], NEW t
    PROVE  gs = Prefix(0, t)
BY DEF Prefix

\* A prefix is continued by its next group, and what has none by the first.
LEMMA NextGroup ==
    ASSUME NEW t, NEW i \in 1 .. MaxGroups
    PROVE  [Prefix(i - 1, t) EXCEPT ![i] = t] = Prefix(i, t)
<1>1. \A j \in 1 .. MaxGroups : j <= i <=> (j = i \/ j <= i - 1)
  OBVIOUS
<1> QED BY <1>1 DEF Prefix

LEMMA PrefixStep == TypeOK /\ InRange /\ PrefixInv /\ [Next]_vars => PrefixInv'
<1> SUFFICES ASSUME TypeOK, InRange, PrefixInv, [Next]_vars, Alone' PROVE PrefixInv'
  BY DEF PrefixInv
<1>0. /\ MaxGroups \in Nat
      /\ pc \in [Procs -> {"off", "scan", "upsert", "delete", "insert", "done", "died"}]
  BY BoundAssumption DEF TypeOK
<1>1. Alone
  <2> SUFFICES ASSUME NEW p \in Procs \ {"web"} PROVE pc[p] = "off"
    BY DEF Alone
  <2>1. pc'[p] = "off"
    BY DEF Alone
  <2>2. ASSUME NEW q \in Procs, NEW where, where # "off", GoTo(q, where) PROVE pc[p] = "off"
    BY <1>0, <2>1, <2>2 DEF GoTo
  <2> QED BY <2>1, <2>2 DEF Next, Sync, vars, local, Start, Read, Upsert, DeleteGroups, DeleteFails,
     InsertGroup, GroupsStored, Hide, Crash, Edit, Toggle
<1>2. /\ \A k \in Pks : \E n \in 0 .. MaxGroups, t \in Tags : groups[k] = Prefix(n, t)
      /\ \A p \in Procs : pc[p] = "insert" =>
            idx[p] = 1 \/ groups[man[p].pk] = Prefix(idx[p] - 1, man[p].tag)
  BY <1>1 DEF PrefixInv
<1>3. ASSUME UNCHANGED groups,
             \A p \in Procs : pc'[p] = "insert" =>
                \/ idx'[p] = 1
                \/ pc[p] = "insert" /\ idx'[p] = idx[p] /\ man'[p] = man[p]
      PROVE  PrefixInv'
  BY <1>2, <1>3 DEF PrefixInv, Prefix
<1>4. ASSUME NEW p \in Procs, NEW where, where # "insert", GoTo(p, where),
             UNCHANGED <<groups, idx>>, \A q \in Procs \ {p} : man'[q] = man[q]
      PROVE  PrefixInv'
  BY <1>0, <1>3, <1>4 DEF GoTo
<1>5. ASSUME NEW p \in Procs, DeleteGroups(p) PROVE PrefixInv'
  <2>1. man[p].pk \in Pks /\ man[p].tag \in Tags
    BY AtHand
  <2>2. groups' = [groups EXCEPT ![man[p].pk] = Prefix(0, man[p].tag)]
    <3>1. Deleted(groups[man[p].pk]) = [i \in 1 .. MaxGroups |-> 0]
      BY <2>1 DEF TypeOK, Deleted
    <3> QED BY <1>5, <3>1, NoGroups DEF DeleteGroups
  <2>3. \A k \in Pks : \E n \in 0 .. MaxGroups, t \in Tags : groups'[k] = Prefix(n, t)
    <3> SUFFICES ASSUME NEW k \in Pks
                 PROVE  \E n \in 0 .. MaxGroups, t \in Tags : groups'[k] = Prefix(n, t)
      OBVIOUS
    <3>1. CASE k = man[p].pk
      <4>1. groups'[k] = Prefix(0, man[p].tag) /\ 0 \in 0 .. MaxGroups
        BY <1>0, <2>1, <2>2, <3>1 DEF TypeOK
      <4> QED BY <2>1, <4>1
    <3>2. CASE k # man[p].pk
      BY <1>2, <2>2, <3>2 DEF TypeOK
    <3> QED BY <3>1, <3>2
  <2>4. \A q \in Procs : pc'[q] = "insert" => q = p
    BY <1>0, <1>5 DEF DeleteGroups, GoTo, Alone
  <2>5. idx'[p] = 1
    BY <1>5 DEF DeleteGroups, TypeOK
  <2> QED BY <2>3, <2>4, <2>5 DEF PrefixInv, Prefix
<1>6. ASSUME NEW p \in Procs, InsertGroup(p) PROVE PrefixInv'
  <2> DEFINE k == man[p].pk
             i == idx[p]
             t == man[p].tag
  <2>1. /\ k \in Pks /\ t \in Tags /\ t # 0 /\ man[p] \in Manifests
        /\ i \in Nat /\ i >= 1 /\ i <= MaxGroups /\ i \in 1 .. MaxGroups
        /\ pc[p] = "insert"
    BY <1>0, <1>6, AtHand DEF InsertGroup
  <2>2. CASE groups[k][i] # 0
    BY <1>4, <1>6, <2>2 DEF InsertGroup
  <2>3. CASE groups[k][i] = 0
    <3>1. groups[k] = Prefix(i - 1, t)
      <4>1. CASE i = 1
        <5>1. PICK n \in 0 .. MaxGroups, s \in Tags : groups[k] = Prefix(n, s)
          BY <1>2, <2>1
        <5>2. groups[k][1] = IF 1 <= n THEN s ELSE 0
          BY <2>1, <4>1, <5>1 DEF Prefix
        <5>3. n = 0
          BY <2>3, <4>1, <5>2, TagsAreNumbers
        <5> QED BY <4>1, <5>1, <5>3 DEF Prefix
      <4> QED BY <1>2, <2>1, <4>1
    <3>2. /\ groups' = [groups EXCEPT ![k] = Prefix(i, t)]
          /\ idx' = [idx EXCEPT ![p] = i + 1]
          /\ UNCHANGED <<pc, man>>
      BY <1>6, <2>1, <2>3, <3>1, NextGroup DEF InsertGroup
    <3>3. \A l \in Pks : \E n \in 0 .. MaxGroups, s \in Tags : groups'[l] = Prefix(n, s)
      <4> SUFFICES ASSUME NEW l \in Pks
                   PROVE  \E n \in 0 .. MaxGroups, s \in Tags : groups'[l] = Prefix(n, s)
        OBVIOUS
      <4>1. CASE l = k
        <5>1. groups'[l] = Prefix(i, t) /\ i \in 0 .. MaxGroups
          BY <2>1, <3>2, <4>1 DEF TypeOK
        <5> QED BY <2>1, <5>1
      <4>2. CASE l # k
        BY <1>2, <3>2, <4>2 DEF TypeOK
      <4> QED BY <4>1, <4>2
    <3>4. \A q \in Procs : pc'[q] = "insert" => q = p
      BY <1>0, <2>1, <3>2 DEF Alone
    <3>5. groups'[man'[p].pk] = Prefix(idx'[p] - 1, man'[p].tag)
      <4>1. idx'[p] - 1 = i
        BY <2>1, <3>2 DEF TypeOK
      <4>2. groups'[k] = Prefix(i, t)
        BY <2>1, <3>2 DEF TypeOK
      <4> QED BY <3>2, <4>1, <4>2
    <3> QED BY <3>3, <3>4, <3>5 DEF PrefixInv, Prefix
  <2> QED BY <2>2, <2>3
<1>7. ASSUME NEW p \in Procs, Start(p) \/ Read(p) \/ Upsert(p) \/ GroupsStored(p) \/ Hide(p) \/ Crash(p)
      PROVE  PrefixInv'
  <2>1. UNCHANGED <<groups, idx>> /\ \A q \in Procs \ {p} : man'[q] = man[q]
    BY <1>7 DEF Start, Read, Upsert, GroupsStored, Hide, Crash, db, local, TypeOK
  <2>2. \A q \in Procs : pc'[q] = "insert" => q # p /\ pc[q] = "insert"
    BY <1>0, <1>7 DEF Start, Read, Upsert, GroupsStored, Hide, Crash, GoTo
  <2> QED BY <1>3, <2>1, <2>2
<1>8. ASSUME NEW p \in Procs, DeleteFails(p) PROVE PrefixInv'
  <2>1. \A q \in Procs : pc'[q] = "insert" => q = p
    BY <1>0, <1>8 DEF DeleteFails, GoTo, Alone
  <2> QED BY <1>3, <1>8, <2>1 DEF DeleteFails, db, TypeOK
<1>9. CASE Edit \/ Toggle \/ UNCHANGED vars
  BY <1>3, <1>9 DEF Edit, Toggle, vars, db, local
<1> QED BY <1>5, <1>6, <1>7, <1>8, <1>9 DEF Next, Sync

-----------------------------------------------------------------------------
(* What two processes have inserted.                                         *)

\* It does not matter which of the two is which.
LEMMA FilledSymmetric ==
    ASSUME NEW i, NEW a, NEW b, NEW c
    PROVE  Filled(i, a, b, c) = Filled(i, b, a, c)
BY DEF Filled

\* The process at a inserts the group that it has found missing.
LEMMA FilledInsert ==
    ASSUME NEW a \in Nat, NEW b \in Nat, NEW c \in Nat, ~Filled(a, a, b, c)
    PROVE  \E d \in Nat : \A i \in Nat :
              Filled(i, a + 1, b, d) <=> Filled(i, a, b, c) \/ i = a
<1>1. CASE a < b
  BY <1>1 DEF Filled
<1>2. CASE a >= b /\ c <= a
  <2>1. CASE a = b
    <3>1. \A i \in Nat : Filled(i, a + 1, b, a) <=> Filled(i, a, b, c) \/ i = a
      BY <2>1 DEF Filled
    <3> QED BY <3>1
  <2>2. CASE a > b
    <3>1. \A i \in Nat : Filled(i, a + 1, b, c) <=> Filled(i, a, b, c) \/ i = a
      BY <1>2, <2>2 DEF Filled
    <3> QED BY <3>1
  <2> QED BY <1>2, <2>1, <2>2
<1>3. CASE a >= b /\ c > a
  <2>1. \A i \in Nat : Filled(i, a + 1, b, a) <=> Filled(i, a, b, c) \/ i = a
    BY <1>3 DEF Filled
  <2> QED BY <2>1
<1> QED BY <1>1, <1>2, <1>3

\* It finds the group that the other has inserted, and dies.
LEMMA FilledDies ==
    ASSUME NEW n \in Nat, NEW a \in Nat, NEW b \in Nat, NEW c \in Nat,
           a <= n, b <= n + 1, Filled(a, a, b, c), NEW i \in Nat
    PROVE  Filled(i, n + 1, b, n + 1) <=> Filled(i, a, b, c)
BY DEF Filled

\* After a DELETE there is none.
LEMMA FilledNone ==
    ASSUME NEW b \in Nat, NEW i \in Nat, i >= 1
    PROVE  ~Filled(i, 1, b, b)
BY DEF Filled

\* When nobody inserts, all are there.
LEMMA FilledAll ==
    ASSUME NEW n \in Nat, NEW c \in Nat, NEW i \in Nat
    PROVE  Filled(i, n + 1, n + 1, c) <=> i <= n \/ (c <= i /\ i <= n)
BY DEF Filled

-----------------------------------------------------------------------------
(* The groups of a task.                                                     *)

Rival(p) == IF p = "web" THEN "check" ELSE "web"

\* The positions are numbers, at most one behind the last group.
LEMMA Positions ==
    ASSUME TypeOK, InRange, NEW m \in Manifests, NEW p,
           \A q \in Procs : pc[q] = "insert" /\ man[q].pk = m.pk => man[q] = m
    PROVE  Pos(p, m) \in Nat /\ Pos(p, m) >= 1 /\ Pos(p, m) <= m.groups + 1
<1>1. m.groups \in Nat
  BY Manifested
<1>2. CASE p \in Procs /\ pc[p] = "insert" /\ man[p].pk = m.pk
  <2>1. man[p] = m /\ idx[p] \in Nat /\ idx[p] >= 1 /\ idx[p] <= man[p].groups + 1
    BY <1>2, AtHand DEF InRange
  <2> QED BY <1>2, <2>1 DEF Pos
<1>3. CASE ~(p \in Procs /\ pc[p] = "insert" /\ man[p].pk = m.pk)
  BY <1>1, <1>3 DEF Pos
<1> QED BY <1>2, <1>3

\* The shape of a task's groups, seen from one process.
Seen(m, p) ==
    \E c \in Nat : \A i \in 1 .. MaxGroups :
        groups[m.pk][i] = IF Filled(i, Pos(p, m), Pos(Rival(p), m), c) THEN m.tag ELSE 0
LEMMA SeenFrom ==
    ASSUME NEW m, NEW p \in Procs
    PROVE  Shape(m) <=> Seen(m, p)
<1>1. CASE p = "web"
  BY <1>1 DEF Shape, Seen, Rival
<1>2. CASE p = "check"
  BY <1>2, FilledSymmetric DEF Shape, Seen, Rival
<1> QED BY <1>1, <1>2, ProcsAssumption

LEMMA SeenNext ==
    ASSUME NEW d, NEW p \in Procs, Seen(files[d], p)'
    PROVE  Shape(files[d])'
<1>1. CASE p = "web"
  BY <1>1 DEF Shape, Seen, Rival
<1>2. CASE p = "check"
  BY <1>2, FilledSymmetric DEF Shape, Seen, Rival
<1> QED BY <1>1, <1>2, ProcsAssumption

\* It changes only with the groups and the positions.
LEMMA ShapeSame ==
    ASSUME NEW m, groups'[m.pk] = groups[m.pk],
           Pos("web", m)' = Pos("web", m), Pos("check", m)' = Pos("check", m)
    PROVE  Shape(m) => Shape(m)'
BY DEF Shape
-----------------------------------------------------------------------------
(* What a step of one process leaves of the work of the other.               *)

RowsStay ==
    /\ \A d \in GoodDirs : row[files[d].pk] = files[d].tag => row'[files[d].pk] = files[d].tag
    /\ \A k \in Pks : row'[k] # 0 => row[k] # 0 \/ \E d \in GoodDirs : files[d].pk = k
ShapesStay == \A d \in GoodDirs : Shape(files[d]) => Shape(files[d])'
Elsewhere(q) ==
    pc'[q] = pc[q] /\ todo'[q] = todo[q] /\ man'[q] = man[q] /\ seen'[q] = seen[q]

\* Two good manifests are of different tasks.
LEMMA GoodDistinct ==
    ASSUME Steady, NEW d \in GoodDirs, NEW e \in GoodDirs, files[d].pk = files[e].pk
    PROVE  d = e
BY DEF Steady, PksDistinct, GoodDirs

LEMMA OthersKeep ==
    ASSUME UNCHANGED files, RowsStay, ShapesStay, NEW q \in Procs, Elsewhere(q), Behind(q)
    PROVE  Behind(q)'
<1>1. GoodDirs' = GoodDirs
  BY DEF GoodDirs
<1> QED BY <1>1 DEF Behind, RowsStay, ShapesStay, Elsewhere

LEMMA CompleteKeeps ==
    ASSUME UNCHANGED files, RowsStay, ShapesStay, hidden \subseteq hidden', Complete
    PROVE  Complete'
<1>1. GoodDirs' = GoodDirs
  BY DEF GoodDirs
<1> QED BY <1>1 DEF Complete, RowsStay, ShapesStay

\* A process is clear as long as there is no new group where it inserts.
LEMMA ClearKeeps ==
    ASSUME NEW q \in Procs, Clear(q), q \in Running', UNCHANGED groups,
           pc'[q] = "insert" =>
              pc[q] = "insert" /\ man'[q] = man[q] /\ idx'[q] = idx[q]
    PROVE  Clear(q)'
BY DEF Clear

\* The manifest a process has in hand is one of a good directory, and no other
\* has the task.
LEMMA OwnManifest ==
    ASSUME TypeOK, Steady, NEW p \in Procs, Behind(p), pc[p] # "scan"
    PROVE  \E d \in GoodDirs \ todo[p] :
              /\ man[p] = files[d] /\ files[d] \in Manifests
              /\ \A e \in GoodDirs : files[e].pk = man[p].pk => e = d
<1>1. PICK d \in GoodDirs \ todo[p] : man[p] = files[d]
  BY DEF Behind
<1>2. \A e \in GoodDirs : files[e].pk = files[d].pk => e = d
  BY GoodDistinct
<1>3. files[d] \in Manifests
  BY DEF GoodDirs, TypeOK
<1> QED BY <1>1, <1>2, <1>3

\* Those that insert the groups of a good manifest have it in hand.
LEMMA Inserting ==
    ASSUME TypeOK, Steady, \A q \in Running : Behind(q), NEW d \in GoodDirs, NEW q \in Procs,
           pc[q] = "insert", man[q].pk = files[d].pk
    PROVE  man[q] = files[d]
<1>1. Behind(q) /\ pc[q] # "scan"
  BY DEF Running
<1> QED BY <1>1, OwnManifest

Quiet ==
    /\ TypeOK /\ InRange /\ Steady
    /\ \A q \in Running : Behind(q)
    /\ Complete \/ \E q \in Procs : Clear(q)

LEMMA PositionsOf ==
    ASSUME Quiet, NEW d \in GoodDirs, NEW p
    PROVE  /\ files[d] \in Manifests /\ files[d].groups \in Nat /\ files[d].groups <= MaxGroups
           /\ Pos(p, files[d]) \in Nat
           /\ Pos(p, files[d]) >= 1 /\ Pos(p, files[d]) <= files[d].groups + 1
<1>1. files[d] \in Manifests
  BY DEF Quiet, TypeOK, GoodDirs
<1>2. \A q \in Procs : pc[q] = "insert" /\ man[q].pk = files[d].pk => man[q] = files[d]
  BY Inserting DEF Quiet
<1>3. files[d].groups \in Nat /\ files[d].groups <= MaxGroups
  BY <1>1, Manifested
<1> QED BY <1>1, <1>2, <1>3, Positions DEF Quiet

-----------------------------------------------------------------------------
(* The groups of every task keep their shape.                                *)

\* Nothing is inserted or deleted.
LEMMA ShapesAtRest ==
    ASSUME UNCHANGED <<files, groups, idx>>,
           \A q \in Procs : pc[q] = "insert" \/ pc'[q] = "insert" =>
                               pc'[q] = pc[q] /\ man'[q] = man[q]
    PROVE  ShapesStay
<1> SUFFICES ASSUME NEW d \in GoodDirs, Shape(files[d]) PROVE Shape(files[d])'
  BY DEF ShapesStay
<1>1. \A p : Pos(p, files[d])' = Pos(p, files[d])
  BY DEF Pos
<1> QED BY <1>1, ShapeSame

\* A process behind the last group leaves.
LEMMA ShapesStored == ASSUME Quiet, NEW p \in Procs, GroupsStored(p) PROVE ShapesStay
<1> SUFFICES ASSUME NEW d \in GoodDirs, Shape(files[d]) PROVE Shape(files[d])'
  BY DEF ShapesStay
<1>1. UNCHANGED <<files, groups, idx, man>>
  BY DEF GroupsStored, db, local
<1>2. \A q \in Procs \ {p} : pc'[q] = pc[q]
  BY DEF GroupsStored, GoTo, Quiet, TypeOK
<1>3. pc[p] = "insert" /\ pc'[p] # "insert"
  BY DEF GroupsStored, GoTo, Quiet, TypeOK
<1>4. ASSUME man[p].pk = files[d].pk PROVE idx[p] = files[d].groups + 1
  <2>1. man[p] = files[d]
    BY <1>3, <1>4, Inserting DEF Quiet
  <2>2. idx[p] > man[p].groups /\ idx[p] <= man[p].groups + 1
    BY <1>3 DEF GroupsStored, Quiet, InRange
  <2>3. idx[p] \in Nat /\ man[p].groups \in Nat
    BY AtHand DEF Quiet
  <2> QED BY <2>1, <2>2, <2>3
<1>5. \A q : Pos(q, files[d])' = Pos(q, files[d])
  <2> SUFFICES ASSUME NEW q PROVE Pos(q, files[d])' = Pos(q, files[d])
    OBVIOUS
  <2>1. CASE q = p
    BY <1>1, <1>3, <1>4, <2>1 DEF Pos
  <2>2. CASE q # p
    BY <1>1, <1>2, <2>2 DEF Pos
  <2> QED BY <2>1, <2>2
<1> QED BY <1>1, <1>5, ShapeSame

\* What a step of one process does to the other's position.
LEMMA RivalStays ==
    ASSUME NEW m, NEW p \in Procs, \A q \in Procs \ {p} : pc'[q] = pc[q],
           UNCHANGED man, \A q \in Procs \ {p} : idx'[q] = idx[q]
    PROVE  Pos(Rival(p), m)' = Pos(Rival(p), m)
<1>1. Rival(p) # p
  BY DEF Rival
<1> QED BY <1>1 DEF Pos

\* The groups of other tasks.
LEMMA OtherShapes ==
    ASSUME NEW p \in Procs, NEW m, m.pk # man[p].pk, groups'[m.pk] = groups[m.pk], UNCHANGED man,
           \A q \in Procs \ {p} : pc'[q] = pc[q] /\ idx'[q] = idx[q], Shape(m)
    PROVE  Shape(m)'
<1>1. \A q : Pos(q, m)' = Pos(q, m)
  BY DEF Pos
<1> QED BY <1>1, ShapeSame

\* A DELETE: what the other has inserted is gone, and it goes on from there.
LEMMA ShapesDeleted ==
    ASSUME Quiet, NEW p \in Procs, DeleteGroups(p), NEW d \in GoodDirs,
           man[p].pk = files[d].pk \/ Shape(files[d])
    PROVE  Shape(files[d])'
<1> DEFINE m == files[d]
<1>1. /\ UNCHANGED <<files, man>>
      /\ pc'[p] = "insert" /\ idx'[p] = 1
      /\ \A q \in Procs \ {p} : pc'[q] = pc[q] /\ idx'[q] = idx[q]
      /\ groups' = [groups EXCEPT ![man[p].pk] = Deleted(@)]
  BY DEF DeleteGroups, GoTo, Quiet, TypeOK
<1>2. man[p].pk \in Pks /\ m.pk \in Pks
  BY AtHand, PositionsOf, Manifested DEF Quiet
<1>3. CASE m.pk # man[p].pk
  <2>1. groups'[m.pk] = groups[m.pk]
    BY <1>1, <1>2, <1>3 DEF Quiet, TypeOK
  <2> QED BY <1>1, <1>3, <2>1, OtherShapes
<1>4. CASE m.pk = man[p].pk
  <2> DEFINE b == Pos(Rival(p), m)
  <2>1. Pos(p, m)' = 1 /\ Pos(Rival(p), m)' = b /\ b \in Nat
    BY <1>1, <1>4, RivalStays, PositionsOf DEF Pos
  <2>2. \A i \in 1 .. MaxGroups : groups'[m.pk][i] = 0
    BY <1>1, <1>2, <1>4 DEF Quiet, TypeOK, Deleted
  <2> HIDE DEF b
  <2>3. \A i \in 1 .. MaxGroups : ~Filled(i, 1, b, b)
    BY <2>1, FilledNone
  <2>4. \A i \in 1 .. MaxGroups :
            groups'[m.pk][i] = IF Filled(i, Pos(p, m)', Pos(Rival(p), m)', b) THEN m.tag ELSE 0
    BY <2>1, <2>2, <2>3
  <2>5. Seen(m, p)'
    BY <1>1, <2>1, <2>4 DEF Seen
  <2> QED BY <2>5, SeenNext
<1> QED BY <1>3, <1>4

\* An insert: it is the next group of the one, and the other may find it.
LEMMA ShapesInserted == ASSUME Quiet, NEW p \in Procs, InsertGroup(p) PROVE ShapesStay
<1> SUFFICES ASSUME NEW d \in GoodDirs, Shape(files[d]) PROVE Shape(files[d])'
  BY DEF ShapesStay
<1> DEFINE m == files[d]
           j == idx[p]
<1>1. /\ UNCHANGED <<files, man>>
      /\ pc[p] = "insert"
      /\ \A q \in Procs \ {p} : pc'[q] = pc[q] /\ idx'[q] = idx[q]
      /\ \A k \in Pks : k # man[p].pk => groups'[k] = groups[k]
  BY AtHand DEF InsertGroup, GoTo, Quiet, TypeOK
<1>2. man[p].pk \in Pks /\ m.pk \in Pks /\ m.tag # 0
  BY AtHand, PositionsOf, Manifested DEF Quiet
<1>3. CASE m.pk # man[p].pk
  <2>1. groups'[m.pk] = groups[m.pk]
    BY <1>1, <1>2, <1>3
  <2> QED BY <1>1, <1>3, <2>1, OtherShapes
<1>4. CASE m.pk = man[p].pk
  <2> DEFINE b == Pos(Rival(p), m)
             n == m.groups
  <2>1. man[p] = m /\ Pos(p, m) = j
    <3>1. man[p] = m
      BY <1>1, <1>4, Inserting DEF Quiet
    <3> QED BY <1>1, <3>1 DEF Pos
  <2>2. /\ j \in Nat /\ j >= 1 /\ n \in Nat /\ n <= MaxGroups /\ MaxGroups \in Nat
        /\ b \in Nat /\ b <= n + 1 /\ Pos(Rival(p), m)' = b
    BY <1>1, AtHand, PositionsOf, RivalStays, BoundAssumption DEF Quiet
  <2>3. j <= n
    BY <2>1 DEF InsertGroup
  <2>4. PICK c \in Nat : \A i \in 1 .. MaxGroups :
              groups[m.pk][i] = IF Filled(i, j, b, c) THEN m.tag ELSE 0
    BY <2>1, SeenFrom DEF Seen
  <2>5. groups[m.pk] \in [1 .. MaxGroups -> Tags \cup {0}] /\ j \in 1 .. MaxGroups
    BY <1>2, <2>2, <2>3 DEF Quiet, TypeOK
  <2> HIDE DEF b
  <2>7. CASE groups[m.pk][j] # 0
    <3>1. Filled(j, j, b, c)
      BY <2>4, <2>5, <2>7
    <3>2. UNCHANGED groups /\ pc'[p] = "died"
      BY <2>1, <2>7 DEF InsertGroup, GoTo, Quiet, TypeOK
    <3>3. Pos(p, m)' = n + 1
      BY <1>1, <3>2 DEF Pos
    <3>4. \A i \in 1 .. MaxGroups : Filled(i, n + 1, b, n + 1) <=> Filled(i, j, b, c)
      BY <2>2, <2>3, <3>1, FilledDies
    <3>5. \A i \in 1 .. MaxGroups :
            groups'[m.pk][i] = IF Filled(i, Pos(p, m)', Pos(Rival(p), m)', n + 1) THEN m.tag ELSE 0
      BY <2>2, <2>4, <3>2, <3>3, <3>4
    <3>6. Seen(m, p)'
      BY <1>1, <2>2, <3>5, SMTT(30) DEF Seen
    <3> QED BY <3>6, SeenNext
  <2>8. CASE groups[m.pk][j] = 0
    <3>1. ~Filled(j, j, b, c)
      BY <1>2, <2>4, <2>5, <2>8
    <3>2. PICK e \in Nat : \A i \in Nat : Filled(i, j + 1, b, e) <=> Filled(i, j, b, c) \/ i = j
      BY <2>2, <3>1, FilledInsert
    <3>3. /\ groups' = [groups EXCEPT ![m.pk][j] = m.tag]
          /\ idx' = [idx EXCEPT ![p] = j + 1]
          /\ UNCHANGED pc
      BY <2>1, <2>8 DEF InsertGroup
    <3>4. Pos(p, m)' = j + 1
      BY <1>1, <2>1, <3>3 DEF Pos, Quiet, TypeOK
    <3>5. \A i \in 1 .. MaxGroups : groups'[m.pk][i] = IF i = j THEN m.tag ELSE groups[m.pk][i]
      BY <1>2, <2>5, <3>3 DEF Quiet, TypeOK
    <3>6. \A i \in 1 .. MaxGroups : Filled(i, j + 1, b, e) <=> Filled(i, j, b, c) \/ i = j
      BY <3>2
    <3>7. \A i \in 1 .. MaxGroups :
            groups'[m.pk][i] = IF Filled(i, Pos(p, m)', Pos(Rival(p), m)', e) THEN m.tag ELSE 0
      BY <2>2, <2>4, <3>4, <3>5, <3>6
    <3>8. Seen(m, p)'
      BY <1>1, <3>7 DEF Seen
    <3> QED BY <3>8, SeenNext
  <2> QED BY <2>7, <2>8
<1> QED BY <1>3, <1>4

-----------------------------------------------------------------------------
(* While nothing else happens, the syncs come to an end with the work done.  *)

Progress ==
    /\ \A q \in Running : Behind(q)
    /\ Complete \/ \E q \in Procs : Clear(q)

\* What is enough for a step of process p, which stays running or not.
LEMMA Onwards ==
    ASSUME Quiet, NEW p \in Procs, UNCHANGED files, \A q \in Procs \ {p} : Elsewhere(q),
           RowsStay, ShapesStay, hidden \subseteq hidden',
           p \in Running' => Behind(p)',
           \/ Complete'
           \/ \A q \in Procs : Clear(q) => \E r \in Procs : Clear(r)'
    PROVE  Progress'
<1>1. \A q \in Running' : Behind(q)'
  <2> SUFFICES ASSUME NEW q \in Running', q # p PROVE Behind(q)'
    OBVIOUS
  <2>1. q \in Procs /\ q \in Running /\ Elsewhere(q)
    BY DEF Running, Elsewhere
  <2> QED BY <2>1, OthersKeep DEF Quiet
<1>2. Complete => Complete'
  BY CompleteKeeps
<1> QED BY <1>1, <1>2 DEF Progress, Quiet

\* A process that is started alone has all before it.
LEMMA StartQuiet ==
    ASSUME TypeOK, Steady, NEW p \in Procs, Start(p), Running = {} \/ Progress
    PROVE  Progress'
<1>1. /\ pc'[p] = "scan" /\ todo'[p] = Dirs /\ seen'[p] = {}
      /\ \A q \in Procs \ {p} : Elsewhere(q)
      /\ UNCHANGED <<files, groups, row, idx, man>>
      /\ pc[p] # "insert"
  BY DEF Start, GoTo, TypeOK, Elsewhere, db, Running
<1>2. Behind(p)' /\ Clear(p)'
  BY <1>1 DEF Behind, Clear, Running, GoodDirs
<1>3. ShapesStay /\ RowsStay
  <2>1. ShapesStay
    BY <1>1, ShapesAtRest DEF Elsewhere
  <2> QED BY <1>1, <2>1 DEF RowsStay
<1>4. \A q \in Running' : Behind(q)'
  <2> SUFFICES ASSUME NEW q \in Running', q # p PROVE Behind(q)'
    BY <1>2
  <2>1. q \in Procs /\ q \in Running /\ Elsewhere(q)
    BY <1>1 DEF Running, Elsewhere
  <2> QED BY <1>1, <1>3, <2>1, OthersKeep DEF Progress
<1> QED BY <1>2, <1>4 DEF Progress

LEMMA ReadQuiet == ASSUME Quiet, NEW p \in Procs, Read(p) PROVE Progress'
<1>1. PICK d \in todo[p] :
         /\ todo' = [todo EXCEPT ![p] = @ \ {d}]
         /\ CASE files[d].kind = "skipped" -> UNCHANGED <<pc, man>>
              [] files[d].kind = "fatal" -> GoTo(p, "died") /\ UNCHANGED man
              [] OTHER -> GoTo(p, "upsert") /\ man' = [man EXCEPT ![p] = files[d]]
  BY DEF Read
<1>2. d \in Dirs /\ files[d] \in Manifest /\ pc[p] = "scan" /\ p \in Running
  BY <1>1, ManifestAssumption DEF Read, Quiet, TypeOK, Running
<1>3. \/ files[d].kind = "skipped" /\ UNCHANGED <<pc, man>>
      \/ d \in GoodDirs /\ GoTo(p, "upsert") /\ man' = [man EXCEPT ![p] = files[d]]
  BY <1>1, <1>2 DEF Quiet, Steady, Manifest, GoodDirs
<1>4. /\ UNCHANGED <<files, row, hidden, groups, idx, seen>>
      /\ \A q \in Procs \ {p} : Elsewhere(q)
      /\ todo'[p] = todo[p] \ {d}
      /\ \/ d \notin GoodDirs /\ pc'[p] = "scan"
         \/ d \in GoodDirs /\ pc'[p] = "upsert" /\ man'[p] = files[d]
      /\ pc'[p] # "insert" /\ p \in Running'
  <2>1. UNCHANGED <<files, row, hidden, groups, idx, seen>>
    BY DEF Read, db
  <2>2. todo'[p] = todo[p] \ {d} /\ \A q \in Procs \ {p} : Elsewhere(q)
    BY <1>1, <1>3, <2>1 DEF Quiet, TypeOK, Elsewhere, GoTo
  <2>3. \/ d \notin GoodDirs /\ pc'[p] = "scan"
        \/ d \in GoodDirs /\ pc'[p] = "upsert" /\ man'[p] = files[d]
    BY <1>2, <1>3 DEF Quiet, TypeOK, GoTo, GoodDirs
  <2> QED BY <2>1, <2>2, <2>3 DEF Running
<1>5. ShapesStay /\ RowsStay
  <2>1. ShapesStay
    BY <1>2, <1>4, ShapesAtRest DEF Elsewhere
  <2> QED BY <1>4, <2>1 DEF RowsStay
<1>6. Behind(p)'
  <2>1. Behind(p) /\ GoodDirs' = GoodDirs
    BY <1>2, <1>4 DEF Quiet, GoodDirs
  <2>2. \A e \in GoodDirs \ todo'[p] : e # d =>
           row'[files[e].pk] = files[e].tag /\ Shape(files[e])'
    BY <1>2, <1>4, <1>5, <2>1 DEF Behind, RowsStay, ShapesStay
  <2>3. pc'[p] # "scan" => \E e \in GoodDirs \ todo'[p] : man'[p] = files[e]
    BY <1>4
  <2>4. \A k \in seen'[p] : \E e \in GoodDirs : files[e].pk = k
    BY <1>4, <2>1 DEF Behind
  <2> QED BY <1>4, <2>1, <2>2, <2>3, <2>4 DEF Behind
<1>7. \A q \in Procs : Clear(q) => Clear(q)'
  BY <1>2, <1>4, ClearKeeps DEF Elsewhere, Running, Clear
<1> QED BY <1>4, <1>5, <1>6, <1>7, Onwards

\* A process that has a manifest in hand runs.
LEMMA InHand ==
    ASSUME Quiet, NEW p \in Procs, pc[p] \in {"upsert", "delete", "insert"}
    PROVE  /\ p \in Running /\ Behind(p)
           /\ man[p].pk \in Pks /\ man[p].tag # 0
           /\ \E d \in GoodDirs \ todo[p] :
                 /\ man[p] = files[d] /\ files[d] \in Manifests
                 /\ \A e \in GoodDirs : files[e].pk = man[p].pk => e = d
<1>1. p \in Running /\ Behind(p)
  BY DEF Quiet, Running
<1> QED BY <1>1, OwnManifest, AtHand DEF Quiet

LEMMA UpsertQuiet == ASSUME Quiet, NEW p \in Procs, Upsert(p) PROVE Progress'
<1>1. /\ pc[p] = "upsert" /\ pc'[p] = "delete" /\ p \in Running'
      /\ UNCHANGED <<files, hidden, groups, todo, man, idx>>
      /\ \A q \in Procs \ {p} : Elsewhere(q)
      /\ row' = [row EXCEPT ![man[p].pk] = man[p].tag]
      /\ seen'[p] = seen[p] \cup {man[p].pk}
  BY DEF Upsert, GoTo, Quiet, TypeOK, Elsewhere, Running
<1>2. PICK d \in GoodDirs \ todo[p] :
         /\ man[p] = files[d] /\ files[d] \in Manifests
         /\ \A e \in GoodDirs : files[e].pk = man[p].pk => e = d
  BY <1>1, InHand
<1>3. p \in Running /\ Behind(p) /\ man[p].pk \in Pks
  BY <1>1, InHand
<1>4. RowsStay /\ row'[files[d].pk] = files[d].tag
  <2>1. row'[files[d].pk] = files[d].tag
    BY <1>1, <1>2, <1>3 DEF Quiet, TypeOK
  <2>2. \A k \in Pks : k # files[d].pk => row'[k] = row[k]
    BY <1>1, <1>2 DEF Quiet, TypeOK
  <2>3. \A e \in GoodDirs : files[e].pk \in Pks
    BY PositionsOf, Manifested
  <2>4. \A e \in GoodDirs : row[files[e].pk] = files[e].tag => row'[files[e].pk] = files[e].tag
    BY <1>2, <2>1, <2>2, <2>3
  <2> QED BY <1>2, <2>1, <2>2, <2>4 DEF RowsStay
<1>5. ShapesStay
  BY <1>1, ShapesAtRest DEF Elsewhere
<1>6. Behind(p)'
  <2>1. GoodDirs' = GoodDirs
    BY <1>1 DEF GoodDirs
  <2>2. \A e \in GoodDirs \ todo'[p] :
           /\ row'[files[e].pk] = files[e].tag
           /\ Shape(files[e])' \/ man'[p] = files[e]
    BY <1>1, <1>2, <1>3, <1>4, <1>5 DEF Behind, RowsStay, ShapesStay
  <2>3. \A k \in seen'[p] : \E e \in GoodDirs : files[e].pk = k
    BY <1>1, <1>2, <1>3 DEF Behind
  <2> QED BY <1>1, <1>2, <2>1, <2>2, <2>3 DEF Behind
<1>7. \A q \in Procs : Clear(q) => Clear(q)'
  BY <1>1, ClearKeeps DEF Elsewhere, Running, Clear
<1> QED BY <1>1, <1>4, <1>5, <1>6, <1>7, Onwards

LEMMA DeleteQuiet == ASSUME Quiet, NEW p \in Procs, DeleteGroups(p) PROVE Progress'
<1>1. /\ pc[p] = "delete" /\ pc'[p] = "insert" /\ p \in Running'
      /\ UNCHANGED <<files, row, hidden, todo, man, seen>>
      /\ \A q \in Procs \ {p} : Elsewhere(q) /\ idx'[q] = idx[q]
      /\ groups' = [groups EXCEPT ![man[p].pk] = Deleted(@)]
      /\ idx'[p] = 1
  BY DEF DeleteGroups, GoTo, Quiet, TypeOK, Elsewhere, Running
<1>2. PICK d \in GoodDirs \ todo[p] :
         /\ man[p] = files[d] /\ files[d] \in Manifests
         /\ \A e \in GoodDirs : files[e].pk = man[p].pk => e = d
  BY <1>1, InHand
<1>3. p \in Running /\ Behind(p) /\ man[p].pk \in Pks
  BY <1>1, InHand
<1>4. ShapesStay /\ Shape(files[d])' /\ RowsStay
  BY <1>1, <1>2, ShapesDeleted DEF ShapesStay, RowsStay
<1>5. Behind(p)'
  <2>1. GoodDirs' = GoodDirs
    BY <1>1 DEF GoodDirs
  <2>2. \A e \in GoodDirs \ todo'[p] : row'[files[e].pk] = files[e].tag /\ Shape(files[e])'
    BY <1>1, <1>2, <1>3, <1>4 DEF Behind, ShapesStay
  <2> QED BY <1>1, <1>2, <1>3, <2>1, <2>2 DEF Behind
<1>6. Clear(p)'
  <2>1. \A i \in 1 .. MaxGroups : groups'[man[p].pk][i] = 0
    BY <1>1, <1>3 DEF Quiet, TypeOK, Deleted
  <2> QED BY <1>1, <2>1 DEF Clear
<1> QED BY <1>1, <1>4, <1>5, <1>6, Onwards

\* The process that collides was not clear, so the clear one goes on; one that
\* inserts where the other is clear is clear itself if it is not behind it.
LEMMA InsertQuiet == ASSUME Quiet, NEW p \in Procs, InsertGroup(p) PROVE Progress'
<1> DEFINE j == idx[p]
           k == man[p].pk
<1>1. /\ pc[p] = "insert"
      /\ UNCHANGED <<files, row, hidden, todo, man, seen>>
      /\ \A q \in Procs \ {p} : Elsewhere(q) /\ idx'[q] = idx[q]
  BY DEF InsertGroup, GoTo, Quiet, TypeOK, Elsewhere
<1>2. p \in Running /\ Behind(p) /\ k \in Pks
  BY <1>1, InHand
<1>3. ShapesStay /\ RowsStay
  BY <1>1, ShapesInserted DEF RowsStay
<1>4. /\ j \in Nat /\ j >= 1 /\ j <= MaxGroups /\ MaxGroups \in Nat /\ man[p].tag # 0
      /\ \A q \in Procs : idx[q] \in Nat
  <2>1. man[p].groups \in Nat /\ man[p].groups <= MaxGroups /\ j <= man[p].groups
    BY AtHand DEF Quiet, InsertGroup
  <2> QED BY <2>1, AtHand, BoundAssumption DEF Quiet
<1>5. CASE groups[k][j] # 0
  <2>1. UNCHANGED groups /\ pc'[p] = "died"
    BY <1>5 DEF InsertGroup, GoTo, Quiet, TypeOK
  <2>2. ~Clear(p)
    <3>1. j \in j .. MaxGroups
      BY <1>4
    <3> QED BY <1>1, <1>5, <3>1 DEF Clear
  <2>3. \A q \in Procs : Clear(q) => Clear(q)'
    BY <1>1, <2>1, <2>2, ClearKeeps DEF Elsewhere, Running, Clear
  <2>4. p \notin Running'
    BY <2>1 DEF Running
  <2> QED BY <1>1, <1>3, <2>3, <2>4, Onwards
<1>6. CASE groups[k][j] = 0
  <2>1. /\ groups' = [groups EXCEPT ![k][j] = man[p].tag]
        /\ idx'[p] = j + 1
        /\ UNCHANGED pc
    BY <1>6 DEF InsertGroup, Quiet, TypeOK
  <2>2. /\ \A l \in Pks : \A i \in 1 .. MaxGroups :
              l # k \/ i # j => groups'[l][i] = groups[l][i]
        /\ Running' = Running
    BY <1>2, <2>1 DEF Quiet, TypeOK, Running
  <2>3. Behind(p)'
    <3>1. GoodDirs' = GoodDirs
      BY <1>1 DEF GoodDirs
    <3>2. \A e \in GoodDirs \ todo'[p] : row'[files[e].pk] = files[e].tag /\ Shape(files[e])'
      BY <1>1, <1>2, <1>3 DEF Behind, ShapesStay
    <3> QED BY <1>1, <1>2, <2>1, <3>1, <3>2 DEF Behind
  <2>4. ASSUME NEW q \in Procs, Clear(q) PROVE \E r \in Procs : Clear(r)'
    <3>1. CASE pc[q] = "insert" /\ man[q].pk = k /\ idx[q] <= j
      <4>1. \A i \in idx[q] .. MaxGroups : groups[k][i] = 0
        BY <2>4, <3>1 DEF Clear
      <4>2. \A i \in j + 1 .. MaxGroups : i \in idx[q] .. MaxGroups /\ i \in 1 .. MaxGroups /\ i # j
        BY <1>4, <3>1
      <4>3. \A i \in j + 1 .. MaxGroups : groups'[k][i] = 0
        BY <1>2, <2>2, <4>1, <4>2
      <4>4. Clear(p)'
        BY <1>1, <1>2, <2>1, <2>2, <4>3 DEF Clear
      <4> QED BY <4>4
    <3>2. CASE ~(pc[q] = "insert" /\ man[q].pk = k /\ idx[q] <= j)
      <4>1. q # p
        BY <1>1, <1>4, <3>2
      <4>2. pc'[q] = pc[q] /\ man'[q] = man[q] /\ idx'[q] = idx[q] /\ man[q].pk \in Pks
        BY <1>1, <2>1, <4>1, AtHand DEF Quiet
      <4>3. ASSUME pc[q] = "insert", NEW i \in idx[q] .. MaxGroups
            PROVE  groups'[man[q].pk][i] = 0
        <5>1. groups[man[q].pk][i] = 0
          BY <2>4, <4>3 DEF Clear
        <5>2. i \in 1 .. MaxGroups /\ (man[q].pk # k \/ i # j)
          <6>1. idx[q] >= 1
            BY AtHand DEF Quiet
          <6> QED BY <1>4, <3>2, <4>3, <6>1
        <5> QED BY <2>2, <4>2, <5>1, <5>2
      <4>4. Clear(q)'
        BY <2>2, <2>4, <4>2, <4>3 DEF Clear
      <4> QED BY <4>4
    <3> QED BY <3>1, <3>2
  <2> QED BY <1>1, <1>3, <2>3, <2>4, Onwards
<1> QED BY <1>5, <1>6

LEMMA StoredQuiet == ASSUME Quiet, NEW p \in Procs, GroupsStored(p) PROVE Progress'
<1>1. /\ pc[p] = "insert"
      /\ UNCHANGED <<files, row, hidden, groups, todo, man, seen, idx>>
      /\ \A q \in Procs \ {p} : Elsewhere(q)
      /\ pc'[p] = IF man[p].kind = "half" THEN "died" ELSE "scan"
  BY DEF GroupsStored, GoTo, Quiet, TypeOK, Elsewhere, db, local
<1>2. PICK d \in GoodDirs \ todo[p] : man[p] = files[d]
  BY <1>1, InHand
<1>3. pc'[p] = "scan" /\ p \in Running'
  BY <1>1, <1>2 DEF GoodDirs, Running
<1>4. ShapesStay /\ RowsStay
  BY <1>1, ShapesStored DEF RowsStay
<1>5. Behind(p)'
  <2>1. GoodDirs' = GoodDirs /\ Behind(p)
    BY <1>1, InHand DEF GoodDirs
  <2> QED BY <1>1, <1>3, <1>4, <2>1 DEF Behind, ShapesStay
<1>6. \A q \in Procs : Clear(q) => Clear(q)'
  BY <1>1, <1>3, ClearKeeps DEF Elsewhere, Running, Clear
<1> QED BY <1>1, <1>4, <1>5, <1>6, Onwards

\* The process that comes to the end of its directories has done the work.
LEMMA HideQuiet == ASSUME Quiet, NEW p \in Procs, Hide(p) PROVE Progress'
<1>1. /\ pc[p] = "scan" /\ todo[p] = {} /\ p \in Running
      /\ UNCHANGED <<files, row, groups, todo, man, seen, idx>>
      /\ \A q \in Procs \ {p} : Elsewhere(q)
      /\ pc'[p] = "done" /\ p \notin Running'
      /\ hidden' = hidden \cup ({k \in Pks : row[k] # 0} \ seen[p])
  BY DEF Hide, HiddenBut, GoTo, Quiet, TypeOK, Elsewhere, local, Running
<1>2. Behind(p) /\ GoodDirs' = GoodDirs
  BY <1>1 DEF Quiet, GoodDirs
<1>3. ShapesStay /\ RowsStay
  <2>1. ShapesStay
    BY <1>1, ShapesAtRest DEF Elsewhere
  <2> QED BY <1>1, <2>1 DEF RowsStay
<1>4. Complete'
  BY <1>1, <1>2, <1>3 DEF Complete, Behind, ShapesStay
<1> QED BY <1>1, <1>3, <1>4, Onwards

-----------------------------------------------------------------------------
LEMMA InitSync == Init => SyncInv
<1> SUFFICES ASSUME Init PROVE SyncInv
  OBVIOUS
<1>1. TypeOK
  BY InitTyped
<1>2. InRange /\ QuietInv
  BY DEF Init, InRange, QuietInv
<1>3. PrefixInv
  <2>1. ASSUME NEW k \in Pks
        PROVE  \E n \in 0 .. MaxGroups, t \in Tags : groups[k] = Prefix(n, t)
    <3>1. PICK m \in Manifests : m.tag \in Tags
      BY ManifestAssumption, Manifested
    <3>2. groups[k] = Prefix(0, m.tag)
      BY NoGroups DEF Init
    <3>3. 0 \in 0 .. MaxGroups
      BY BoundAssumption
    <3> QED BY <3>1, <3>2, <3>3
  <2> QED BY <2>1 DEF PrefixInv, Init, Prefix
<1> QED BY <1>1, <1>2, <1>3 DEF SyncInv

\* An edit, a failure or a crash ends the quiet; any other step goes on with it.
LEMMA QuietStep == TypeOK /\ InRange /\ QuietInv /\ [Next]_vars => QuietInv'
<1> SUFFICES ASSUME TypeOK, InRange, QuietInv, [Next]_vars, calm', Steady' PROVE Progress'
  BY DEF QuietInv, Progress
<1>1. ASSUME Steady, calm PROVE Quiet /\ Progress
  BY <1>1 DEF QuietInv, Quiet, Progress
<1>2. ASSUME NEW p \in Procs, Start(p) PROVE Progress'
  <2>1. Steady /\ (Running = {} \/ calm)
    BY <1>2 DEF Start, Steady, PksDistinct
  <2> QED BY <1>1, <1>2, <2>1, StartQuiet
<1>3. ASSUME NEW p \in Procs, Sync(p), ~Start(p) PROVE Progress'
  <2>1. calm /\ Steady
    BY <1>3 DEF Sync, Read, Upsert, DeleteGroups, InsertGroup, GroupsStored, Hide, history,
       Steady, PksDistinct
  <2> QED BY <1>1, <1>3, <2>1, ReadQuiet, UpsertQuiet, DeleteQuiet, InsertQuiet, StoredQuiet,
          HideQuiet DEF Sync
<1>4. ASSUME NEW p \in Procs, DeleteFails(p) \/ Crash(p) PROVE FALSE
  BY <1>4 DEF DeleteFails, Crash
<1>5. CASE Edit \/ Toggle
  BY <1>5 DEF Edit, Toggle
<1>6. CASE UNCHANGED vars
  <2>1. calm /\ Steady
    BY <1>6 DEF vars, Steady, PksDistinct
  <2>2. /\ Running' = Running /\ GoodDirs' = GoodDirs
        /\ UNCHANGED <<pc, todo, man, idx, seen, row, hidden, groups, files>>
    BY <1>6 DEF vars, Running, GoodDirs
  <2>3. ShapesStay /\ RowsStay /\ \A q \in Procs : Elsewhere(q)
    BY <2>2, ShapesAtRest DEF RowsStay, Elsewhere
  <2>4. \A q \in Running' : Behind(q)'
    BY <1>1, <2>1, <2>2, <2>3, OthersKeep DEF Progress, Running
  <2>5. Complete => Complete'
    BY <2>2, <2>3, CompleteKeeps
  <2>6. \A q \in Procs : Clear(q) => Clear(q)'
    BY <2>2 DEF Clear
  <2> QED BY <1>1, <2>1, <2>4, <2>5, <2>6 DEF Progress
<1> QED BY <1>2, <1>3, <1>4, <1>5, <1>6 DEF Next

\* The inductive invariant holds throughout.
THEOREM SyncCorrect == Spec => []SyncInv
<1>1. SyncInv /\ [Next]_vars => SyncInv'
  BY TypeStep, PrefixStep, QuietStep DEF SyncInv
<1> QED BY <1>1, InitSync, PTL DEF Spec

\* The tables, and what each process has in hand, are well typed; no task that
\* is hidden or seen is without a row.
THEOREM SyncTyped == Spec => []TypeOK
<1>1. SyncInv => TypeOK
  BY DEF SyncInv
<1> QED BY <1>1, SyncCorrect, PTL

\* While tle_web alone reads the manifests (read_tasks), a grader never finds
\* subtasks of two manifests, or a later one without the first.
THEOREM GroupsStayPrefixes == Spec => []GroupsArePrefix
<1>1. SyncInv => GroupsArePrefix
  BY DEF SyncInv, PrefixInv, Alone, GroupsArePrefix, Prefix
<1> QED BY <1>1, SyncCorrect, PTL

\* When syncs of unchanged files are over, the tables say what the files say,
\* though two processes have synced at once and some have died of a collision
\* in subtask_groups.
THEOREM QuietIsSynced == Spec => []SyncedWhenQuiet
<1>1. SyncInv => SyncedWhenQuiet
  <2> SUFFICES ASSUME SyncInv, calm, Running = {}, Steady
               PROVE  /\ \A m \in Good : row[m.pk] = m.tag /\ groups[m.pk] = GroupsOf(m)
                      /\ \A k \in Pks : row[k] # 0 /\ (\A m \in Good : m.pk # k) => k \in hidden
    BY DEF SyncedWhenQuiet, Steady
  <2>1. Complete /\ Quiet
    BY DEF SyncInv, QuietInv, Clear, Quiet
  <2>2. \A m \in Good : \E d \in GoodDirs : m = files[d]
    BY DEF Good, GoodDirs
  <2>3. \A d \in GoodDirs : files[d] \in Good
    BY DEF Good, GoodDirs
  <2>4. ASSUME NEW d \in GoodDirs PROVE groups[files[d].pk] = GroupsOf(files[d])
    <3> DEFINE m == files[d]
    <3>1. m \in Manifests /\ m.pk \in Pks /\ m.groups \in Nat
      BY <2>1, <2>4, PositionsOf, Manifested
    <3>2. PICK c \in Nat : \A i \in 1 .. MaxGroups :
             groups[m.pk][i] = IF Filled(i, Pos("web", m), Pos("check", m), c) THEN m.tag ELSE 0
      BY <2>1, <2>4 DEF Complete, Shape
    <3>3. Pos("web", m) = m.groups + 1 /\ Pos("check", m) = m.groups + 1
      BY DEF Pos, Running
    <3>4. \A i \in 1 .. MaxGroups : Filled(i, m.groups + 1, m.groups + 1, c) <=> i <= m.groups
      BY <3>1, FilledAll
    <3>5. groups[m.pk] \in [1 .. MaxGroups -> Tags \cup {0}]
      BY <3>1 DEF SyncInv, TypeOK
    <3>6. \A i \in 1 .. MaxGroups : groups[m.pk][i] = IF i <= m.groups THEN m.tag ELSE 0
      BY <3>2, <3>3, <3>4
    <3> QED BY <3>5, <3>6 DEF GroupsOf
  <2> QED BY <2>1, <2>2, <2>3, <2>4 DEF Complete
<1> QED BY <1>1, SyncCorrect, PTL
=============================================================================
