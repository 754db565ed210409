---------------------------- MODULE PostsProofs ----------------------------
(* Proofs about Posts, for any forms, cuts, browsers, users and faults: what *)
(* arrives of a form is what was posted, and what is done with it is done    *)
(* for the one who posted it.                                                *)
EXTENDS Posts, FiniteSetsExt, SequenceTheorems, FiniteSetTheorems, WellFoundedInduction, TLAPS

-----------------------------------------------------------------------------
(* strtol of a piece is a number: Value is a fold over the places of the     *)
(* piece, the last one first.                                                *)

Largest(s) == CHOOSE x \in s : \A y \in s : x >= y
Body(digits, g, s) ==
    IF s = {} THEN 0 ELSE 10 * g[s \ {Largest(s)}] + digits[Largest(s)]
\* The sets of at most n of the places of digits.
Places(digits, n) == {s \in SUBSET DOMAIN digits : Cardinality(s) <= n}

\* A non-empty set of naturals has a least element.
LEMMA Least ==
    ASSUME NEW T \in SUBSET Nat, T # {}
    PROVE  \E m \in T : \A r \in T : m <= r
<1> DEFINE R == OpToRel(<, Nat)
<1>1. IsWellFoundedOn(R, Nat)
  BY NatLessThanWellFounded
<1>2. \A x, y \in Nat : <<x, y>> \in R <=> x < y
  BY DEF OpToRel
<1> HIDE DEF R
<1>3. PICK m \in T : \A r \in T : ~(<<r, m>> \in R)
  BY <1>1, WFMin
<1>4. m \in Nat /\ \A r \in T : r \in Nat /\ ~(r < m)
  BY <1>2, <1>3
<1> QED BY <1>4

\* A set of places has a last one, without which it is smaller.
LEMMA LargestFacts ==
    ASSUME NEW n \in Nat, NEW s \in SUBSET (1 .. n), s # {}
    PROVE  /\ Largest(s) \in s
           /\ Cardinality(s \ {Largest(s)}) = Cardinality(s) - 1
           /\ Cardinality(s) \in Nat /\ Cardinality(s) # 0
<1> DEFINE T == {n - x : x \in s}
<1>1. T \in SUBSET Nat /\ T # {}
  <2>1. \A x \in s : x \in 1 .. n
    OBVIOUS
  <2>2. \A x \in 1 .. n : n - x \in Nat
    OBVIOUS
  <2> QED BY <2>1, <2>2
<1>2. PICK m \in T : \A r \in T : m <= r
  BY <1>1, Least
<1>3. PICK x \in s : m = n - x
  BY <1>2
<1>4. \A y \in s : x >= y
  <2> TAKE y \in s
  <2>1. n - x <= n - y
    BY <1>2, <1>3
  <2> QED BY <2>1
<1>5. Largest(s) \in s
  BY <1>4 DEF Largest
<1>6. IsFiniteSet(s)
  <2>1. IsFiniteSet(1 .. n)
    BY FS_Interval
  <2> QED BY <2>1, FS_Subset
<1> QED BY <1>5, <1>6, FS_RemoveElement, FS_CardinalityType, FS_EmptySet

LEMMA ValueStep ==
    ASSUME NEW digits \in Seq(Nat), NEW n \in Nat,
           NEW g, g = [s \in Places(digits, n) |-> Body(digits, g, s)]
    PROVE  \E h : h = [s \in Places(digits, n + 1) |-> Body(digits, h, s)]
<1> DEFINE h == [s \in Places(digits, n + 1) |-> Body(digits, g, s)]
<1>1. ASSUME NEW s \in Places(digits, n + 1), s # {}
      PROVE  h[s \ {Largest(s)}] = g[s \ {Largest(s)}]
  <2>1. s \in SUBSET (1 .. Len(digits)) /\ Len(digits) \in Nat /\ Cardinality(s) <= n + 1
    BY DEF Places
  <2> DEFINE t == s \ {Largest(s)}
  <2>2. Cardinality(t) = Cardinality(s) - 1 /\ Cardinality(s) \in Nat
    BY <1>1, <2>1, LargestFacts
  <2>3. t \in Places(digits, n) /\ t \in Places(digits, n + 1)
    BY <2>1, <2>2 DEF Places
  <2> HIDE DEF t
  <2>4. h[t] = Body(digits, g, t) /\ g[t] = Body(digits, g, t)
    BY <2>3, Zenon
  <2> QED BY <2>4 DEF t
<1> HIDE DEF h
<1>2. \A s \in Places(digits, n + 1) : Body(digits, g, s) = Body(digits, h, s)
  BY <1>1, Zenon DEF Body
<1>3. h = [s \in Places(digits, n + 1) |-> Body(digits, h, s)]
  BY <1>2, Zenon DEF h
<1> QED BY <1>3

\* The recursion of the fold defines a function.
LEMMA ValueExists ==
    ASSUME NEW digits \in Seq(Nat)
    PROVE  \E g : g = [s \in SUBSET DOMAIN digits |-> Body(digits, g, s)]
<1> DEFINE E(n) == \E g : g = [s \in Places(digits, n) |-> Body(digits, g, s)]
           Bad == {n \in Nat : ~E(n)}
           all == Cardinality(DOMAIN digits)
<1>1. IsFiniteSet(DOMAIN digits) /\ DOMAIN digits = 1 .. Len(digits) /\ Len(digits) \in Nat
  BY FS_Interval
<1>2. all \in Nat /\ \A s \in SUBSET DOMAIN digits : Cardinality(s) <= all
  BY <1>1, FS_Subset, FS_CardinalityType
<1>3. Places(digits, all) = SUBSET DOMAIN digits
  BY <1>2 DEF Places
<1>4. E(0)
  <2> DEFINE g == [s \in Places(digits, 0) |-> 0]
  <2>1. \A s \in Places(digits, 0) : s = {}
    <3> SUFFICES ASSUME NEW s \in Places(digits, 0), s # {} PROVE FALSE
      OBVIOUS
    <3>1. s \in SUBSET (1 .. Len(digits)) /\ Cardinality(s) <= 0
      BY <1>1 DEF Places
    <3>2. Cardinality(s) \in Nat /\ Cardinality(s) # 0
      BY <1>1, <3>1, LargestFacts
    <3> QED BY <3>1, <3>2
  <2> HIDE DEF g
  <2>2. \A s \in Places(digits, 0) : Body(digits, g, s) = 0
    BY <2>1 DEF Body
  <2>3. g = [s \in Places(digits, 0) |-> Body(digits, g, s)]
    BY <2>2, Zenon DEF g
  <2> QED BY <2>3
<1>5. ASSUME NEW n \in Nat, E(n) PROVE E(n + 1)
  <2>1. PICK g : g = [s \in Places(digits, n) |-> Body(digits, g, s)]
    BY <1>5
  <2> QED BY <2>1, ValueStep
<1> HIDE DEF E, all
<1>6. Bad = {}
  <2> SUFFICES ASSUME Bad # {} PROVE FALSE
    OBVIOUS
  <2>1. PICK n \in Bad : \A m \in Bad : n <= m
    BY Least
  <2>2. n \in Nat /\ n # 0
    BY <1>4
  <2>3. n - 1 \in Nat /\ n - 1 \notin Bad
    BY <2>1, <2>2
  <2>4. E((n - 1) + 1)
    BY <1>5, <2>3
  <2> QED BY <2>2, <2>4
<1>7. E(all)
  BY <1>2, <1>6
<1> QED BY <1>3, <1>7 DEF E

\* post_iterator(): task_pk and admin_id are always numbers.
LEMMA ValueIsNat == ASSUME NEW digits \in Seq(Nat) PROVE Value(digits) \in Nat
<1> DEFINE g == CHOOSE g : g = [s \in SUBSET DOMAIN digits |-> Body(digits, g, s)]
           Bad == {n \in Nat : \E s \in SUBSET DOMAIN digits :
                                  n = Cardinality(s) /\ g[s] \notin Nat}
<1>1. Value(digits) = g[DOMAIN digits]
  BY DEF Value, FoldLeft, MapThenFoldSet, Max, Body, Largest
<1>2. g = [s \in SUBSET DOMAIN digits |-> Body(digits, g, s)]
  BY ValueExists, Zenon
<1> HIDE DEF g
<1>3. \A s \in SUBSET DOMAIN digits : g[s] = Body(digits, g, s)
  BY <1>2
<1>4. DOMAIN digits = 1 .. Len(digits) /\ Len(digits) \in Nat
  OBVIOUS
<1>5. Bad = {}
  <2> SUFFICES ASSUME Bad # {} PROVE FALSE
    OBVIOUS
  <2>1. PICK n \in Bad : \A m \in Bad : n <= m
    BY Least
  <2>2. PICK s \in SUBSET DOMAIN digits : n = Cardinality(s) /\ g[s] \notin Nat
    BY <2>1
  <2>3. s # {}
    <3>1. s = {} => Body(digits, g, s) = 0
      BY DEF Body
    <3> QED BY <1>3, <2>2, <3>1
  <2> DEFINE t == s \ {Largest(s)}
  <2>4. /\ Largest(s) \in s /\ Cardinality(t) = n - 1
        /\ n \in Nat /\ n # 0
    BY <1>4, <2>2, <2>3, LargestFacts
  <2>5. g[s] = 10 * g[t] + digits[Largest(s)]
    BY <1>3, <2>3 DEF Body
  <2>6. g[t] \in Nat
    BY <2>1, <2>4
  <2>7. digits[Largest(s)] \in Nat
    BY <2>4
  <2> QED BY <2>2, <2>5, <2>6, <2>7
<1>6. Cardinality(DOMAIN digits) \in Nat
  BY <1>4, FS_Interval, FS_CardinalityType
<1> QED BY <1>1, <1>5, <1>6

-----------------------------------------------------------------------------
(* The form.                                                                 *)

\* The fields that have come, the one that is coming, and what has come of each.
Come == Len(posted) - Len(rest)
SoFar(i) ==
    IF i <= Come THEN posted[i].value
    ELSE IF i = Come + 1 THEN SubSeq(posted[i].value, 1, off) ELSE <<>>
Fitting(i) == Len(posted[i].value) <= Limit[posted[i].name]

\* Of a posted text a beginning is there, what has come of it unless it was
\* refused, and nothing of it before all that is posted before it.
TextsAreSoFar ==
    \A i \in DOMAIN posted : posted[i].name \in Placed /\ Once(posted[i].name) =>
        LET f == posted[i].name
        IN  /\ IsPrefix(text[f], posted[i].value)
            /\ ~refused \/ Fitting(i) => text[f] = SoFar(i)
            /\ text[f] # <<>> =>
                  \A j \in 1 .. i - 1 : posted[j].name \in Placed /\ Once(posted[j].name)
                                       => text[posted[j].name] = posted[j].value
Unposted == \A f \in Placed \ Posted : text[f] = <<>>

\* A field is cut once a piece has come that is not all of it.
CutsAreSoFar ==
    \A i \in DOMAIN posted : Once(posted[i].name) =>
        /\ i > Come + 1 => posted[i].name \notin cut
        /\ i = Come + 1 => (posted[i].name \in cut <=> off > 0)

\* A number and a flag are those of the last piece.
LastPiecesOf(i) ==
    IF posted[i].name \in cut THEN Suffixes(posted[i].value) \ {posted[i].value}
    ELSE {posted[i].value}
NumbersAreSoFar ==
    ~refused =>
    \A i \in DOMAIN posted : posted[i].name \in Numbers /\ Once(posted[i].name) /\ i <= Come =>
        \E d \in LastPiecesOf(i) : number[posted[i].name] = Value(d)
FlagsAreSoFar ==
    \A i \in DOMAIN posted : posted[i].name \in Flags /\ Once(posted[i].name) /\ i <= Come =>
        \E d \in LastPiecesOf(i) : flag[posted[i].name] = (d = On)

\* The code is what has come of its only source.
CodeIsSoFar ==
    ~refused =>
    \A i \in DOMAIN posted :
        posted[i].name \in Code /\ Once(posted[i].name) /\ seen \subseteq {posted[i].name}
        => text["code"] = SoFar(i)

\* Also of a field that comes a second time the part that has come is there.
CurrentIsPart ==
    ~refused /\ rest # <<>> /\ rest[1].name \in Placed /\ off > 0 =>
        text[rest[1].name] = SubSeq(rest[1].value, 1, off)

FormInv ==
    /\ FormTypeOK /\ TextsAreSoFar /\ Unposted /\ CurrentIsPart
    /\ CutsAreSoFar /\ NumbersAreSoFar /\ FlagsAreSoFar /\ CodeIsSoFar

\* A piece of a sequence.
LEMMA PieceFacts ==
    ASSUME NEW S, NEW v \in Seq(S), NEW m \in Nat, NEW n \in Nat, m <= n, n <= Len(v)
    PROVE  /\ SubSeq(v, m + 1, n) \in Seq(S)
           /\ Len(SubSeq(v, m + 1, n)) = n - m
           /\ \A i \in 1 .. n - m : SubSeq(v, m + 1, n)[i] = v[m + i]
OBVIOUS

LEMMA EmptyFacts ==
    ASSUME NEW S, NEW v \in Seq(S)
    PROVE  Len(v) \in Nat /\ (v = <<>> <=> Len(v) = 0) /\ DOMAIN v = 1 .. Len(v)
OBVIOUS

\* rest is what is left of posted.
LEMMA RestFacts ==
    ASSUME NEW form \in Seq(Fields), NEW k \in Nat, k <= Len(form), NEW r
    PROVE  r = SubSeq(form, k + 1, Len(form)) =>
           /\ r \in Seq(Fields) /\ Len(form) \in Nat /\ DOMAIN form = 1 .. Len(form)
           /\ Len(r) = Len(form) - k /\ k = Len(form) - Len(r)
           /\ r = <<>> <=> k = Len(form)
           /\ r # <<>> =>
                 /\ k + 1 \in 1 .. Len(form)
                 /\ r[1] = form[k + 1]
                 /\ Tail(r) = SubSeq(form, (k + 1) + 1, Len(form))
<1>1. Len(form) \in Nat
  BY LenProperties
<1>2. DOMAIN form = 1 .. Len(form)
  BY LenProperties
<1>3. SUFFICES ASSUME r = SubSeq(form, k + 1, Len(form))
      PROVE  /\ r \in Seq(Fields)
             /\ Len(r) = Len(form) - k /\ k = Len(form) - Len(r)
             /\ r = <<>> <=> k = Len(form)
             /\ r # <<>> =>
                   /\ k + 1 \in 1 .. Len(form)
                   /\ r[1] = form[k + 1]
                   /\ Tail(r) = SubSeq(form, (k + 1) + 1, Len(form))
  BY <1>1, <1>2
<1>4. /\ SubSeq(form, k + 1, Len(form)) \in Seq(Fields)
      /\ Len(SubSeq(form, k + 1, Len(form))) = Len(form) - k
      /\ \A i \in 1 .. Len(form) - k : SubSeq(form, k + 1, Len(form))[i] = form[k + i]
  BY <1>1, PieceFacts
<1>5. r \in Seq(Fields) /\ Len(r) = Len(form) - k
  BY <1>3, <1>4
<1>6. r = <<>> <=> Len(r) = 0
  BY <1>5, EmptyFacts
<1>7. k = Len(form) - Len(r) /\ (r = <<>> <=> k = Len(form))
  BY <1>1, <1>5, <1>6
<1>8. ASSUME r # <<>>
      PROVE  /\ k + 1 \in 1 .. Len(form) /\ r[1] = form[k + 1]
             /\ Tail(r) = SubSeq(form, (k + 1) + 1, Len(form))
  <2>1. k + 1 \in 1 .. Len(form) /\ Len(form) \in k + 1 .. Len(form)
    BY <1>1, <1>7, <1>8
  <2>2. 1 \in 1 .. Len(form) - k
    BY <1>1, <2>1
  <2>3. r[1] = form[k + 1]
    BY <1>3, <1>4, <2>2
  <2> QED BY <1>3, <2>1, <2>3, HeadTailOfSubSeq
<1> QED BY <1>5, <1>7, <1>8

\* Cutting a sequence in two places.
LEMMA SubSeqFacts ==
    ASSUME NEW v \in Seq(Nat), NEW m \in Nat, NEW n \in Nat, m + n <= Len(v)
    PROVE  /\ SubSeq(v, m + 1, m + n) \in Seq(Nat) /\ Len(SubSeq(v, m + 1, m + n)) = n
           /\ SubSeq(v, 1, m) \in Seq(Nat) /\ Len(SubSeq(v, 1, m)) = m
           /\ SubSeq(v, 1, m) \o SubSeq(v, m + 1, m + n) = SubSeq(v, 1, m + n)
           /\ SubSeq(v, 1, Len(v)) = v
           /\ SubSeq(v, 1, 0) = <<>>
           /\ SubSeq(SubSeq(v, 1, m), 1, m) = SubSeq(v, 1, m)
           /\ IsPrefix(SubSeq(v, 1, m), v)
<1>1. /\ SubSeq(v, m + 1, m + n) \in Seq(Nat) /\ Len(SubSeq(v, m + 1, m + n)) = n
      /\ \A i \in 1 .. n : SubSeq(v, m + 1, m + n)[i] = v[m + i]
  BY SubSeqProperties
<1>2. /\ SubSeq(v, 1, m) \in Seq(Nat) /\ Len(SubSeq(v, 1, m)) = m
      /\ \A i \in 1 .. m : SubSeq(v, 1, m)[i] = v[i]
  BY SubSeqProperties
<1>3. /\ SubSeq(v, 1, m + n) \in Seq(Nat) /\ Len(SubSeq(v, 1, m + n)) = m + n
      /\ \A i \in 1 .. m + n : SubSeq(v, 1, m + n)[i] = v[i]
  BY SubSeqProperties
<1>4. SubSeq(v, 1, m) \o SubSeq(v, m + 1, m + n) = SubSeq(v, 1, m + n)
  <2> DEFINE a == SubSeq(v, 1, m)
             b == SubSeq(v, m + 1, m + n)
             c == SubSeq(v, 1, m + n)
  <2>1. /\ a \in Seq(Nat) /\ b \in Seq(Nat) /\ c \in Seq(Nat)
        /\ Len(a) = m /\ Len(b) = n /\ Len(c) = m + n
        /\ \A i \in 1 .. n : b[i] = v[m + i]
        /\ \A i \in 1 .. m : a[i] = v[i]
        /\ \A i \in 1 .. m + n : c[i] = v[i]
    BY <1>1, <1>2, <1>3
  <2> HIDE DEF a, b, c
  <2>2. /\ a \o b \in Seq(Nat) /\ Len(a \o b) = m + n
        /\ \A i \in 1 .. m + n : (a \o b)[i] = IF i <= m THEN a[i] ELSE b[i - m]
    <3>0. a \in Seq(Nat) /\ b \in Seq(Nat)
      BY <2>1
    <3>1. /\ a \o b \in Seq(Nat) /\ Len(a \o b) = Len(a) + Len(b)
          /\ \A i \in 1 .. Len(a) + Len(b) :
                (a \o b)[i] = IF i <= Len(a) THEN a[i] ELSE b[i - Len(a)]
      BY <3>0, ConcatProperties
    <3> QED BY <2>1, <3>1
  <2>3. ASSUME NEW i \in 1 .. m + n PROVE (a \o b)[i] = c[i]
    <3>1. CASE i <= m
      <4>1. i \in 1 .. m
        BY <3>1
      <4> QED BY <2>1, <2>2, <3>1, <4>1
    <3>2. CASE ~(i <= m)
      <4>1. i - m \in 1 .. n /\ m + (i - m) = i
        BY <3>2
      <4> QED BY <2>1, <2>2, <3>2, <4>1
    <3> QED BY <3>1, <3>2
  <2>4. a \o b = c
    BY <2>1, <2>2, <2>3, SeqEqual
  <2> QED BY <2>4 DEF a, b, c
<1>5. SubSeq(v, 1, Len(v)) = v
  OBVIOUS
<1>6. SubSeq(SubSeq(v, 1, m), 1, m) = SubSeq(v, 1, m)
  <2> DEFINE a == SubSeq(v, 1, m)
  <2>1. a \in Seq(Nat) /\ Len(a) = m
    BY <1>2
  <2> HIDE DEF a
  <2>2. SubSeq(a, 1, m) = a
    BY <2>1
  <2> QED BY <2>2 DEF a
<1>7. IsPrefix(SubSeq(v, 1, m), v)
  BY <1>2, <1>6 DEF IsPrefix
<1> QED BY <1>1, <1>2, <1>4, <1>5, <1>6, <1>7

\* What a form's only field f holds.
LEMMA GivenFacts ==
    ASSUME NEW i \in DOMAIN posted, Once(posted[i].name)
    PROVE  posted[i].name \in Posted /\ Given(posted[i].name) = posted[i].value
<1>1. \E j \in DOMAIN posted : posted[j].name = posted[i].name
  OBVIOUS
<1> DEFINE c == CHOOSE j \in DOMAIN posted : posted[j].name = posted[i].name
<1>2. c \in DOMAIN posted /\ posted[c].name = posted[i].name
  BY <1>1
<1>3. c = i
  BY <1>2 DEF Once
<1>4. posted[i].name \in Posted
  BY DEF Posted
<1> QED BY <1>3, <1>4 DEF Given

LEMMA NewFormInv == ASSUME NEW form \in Seq(Fields), NewForm(form) PROVE FormInv'
<1>1. /\ posted' = form /\ rest' = form /\ off' = 0
      /\ text' = NoText /\ number' = NoNumber /\ flag' = NoFlag
      /\ seen' = {} /\ refused' = FALSE /\ cut' = {}
  BY DEF NewForm
<1>2. Len(form) \in Nat /\ SubSeq(form, 1, Len(form)) = form
  BY LenProperties, SubSeqFull
<1>3. Come' = 0 /\ DOMAIN form = 1 .. Len(form)
  BY <1>1, <1>2, LenProperties DEF Come
<1>4. \A f \in Placed : text'[f] = <<>>
  BY <1>1 DEF NoText
<1>5. FormTypeOK'
  <2>1. \E k \in 0 .. Len(posted') : rest' = SubSeq(posted', k + 1, Len(posted'))
    <3>1. 0 \in 0 .. Len(form) /\ form = SubSeq(form, 0 + 1, Len(form))
      BY <1>2
    <3> QED BY <1>1, <3>1
  <2>2. off' \in 0 .. (IF rest' = <<>> THEN 0 ELSE Len(rest'[1].value))
    <3>1. ASSUME form # <<>> PROVE Len(form[1].value) \in Nat
      <4>1. form[1] \in Fields
        BY <1>2, <3>1, EmptySeq, ElementOfSeq
      <4> QED BY <4>1, LenProperties DEF Fields
    <3> QED BY <1>1, <3>1
  <2>3. text' \in [Placed \cup {"code"} -> Seq(Nat)]
    BY <1>1, EmptySeq DEF NoText
  <2>4. \A f \in Placed \cup {"code"} : Len(text'[f]) <= Limit[f]
    BY <1>1, LimitAssumption DEF NoText
  <2>5. number' \in [Numbers -> Nat] /\ flag' \in [Flags -> BOOLEAN]
    BY <1>1 DEF NoNumber, NoFlag
  <2> QED BY <1>1, <2>1, <2>2, <2>3, <2>4, <2>5 DEF FormTypeOK
<1>6. TextsAreSoFar'
  <2> SUFFICES ASSUME NEW i \in DOMAIN form, form[i].name \in Placed
               PROVE  /\ IsPrefix(<<>>, form[i].value)
                      /\ SoFar(i)' = <<>>
    BY <1>1, <1>4 DEF TextsAreSoFar
  <2>1. form[i].value \in Seq(Nat)
    <3>1. form[i] \in Fields
      BY <1>3, ElementOfSeq
    <3> QED BY <3>1 DEF Fields
  <2>2. SubSeq(form[i].value, 1, 0) = <<>> /\ IsPrefix(<<>>, form[i].value)
    <3> DEFINE v == form[i].value
    <3>1. 0 \in Nat /\ 0 + 0 <= Len(v) /\ v \in Seq(Nat)
      BY <2>1, LenProperties
    <3> HIDE DEF v
    <3>2. SubSeq(v, 1, 0) = <<>> /\ IsPrefix(SubSeq(v, 1, 0), v)
      BY <3>1, SubSeqFacts
    <3> QED BY <3>2 DEF v
  <2>3. i \in Nat /\ ~(i <= 0)
    BY <1>2, <1>3
  <2> QED BY <1>1, <1>3, <2>2, <2>3 DEF SoFar
<1>7. Unposted'
  BY <1>4 DEF Unposted
<1>8. \A i \in DOMAIN form : i \in Nat /\ ~(i <= 0)
  BY <1>2, <1>3
<1>9. CurrentIsPart' /\ CutsAreSoFar' /\ NumbersAreSoFar' /\ FlagsAreSoFar'
  BY <1>1, <1>3, <1>8 DEF CurrentIsPart, CutsAreSoFar, NumbersAreSoFar, FlagsAreSoFar
<1>10. CodeIsSoFar'
  <2> SUFFICES ASSUME NEW i \in DOMAIN form PROVE text'["code"] = SoFar(i)'
    BY <1>1 DEF CodeIsSoFar
  <2>1. SubSeq(form[i].value, 1, 0) = <<>> /\ text'["code"] = <<>>
    BY <1>1, SubSeqEmpty DEF NoText
  <2> QED BY <1>1, <1>3, <1>8, <2>1 DEF SoFar
<1> QED BY <1>5, <1>6, <1>7, <1>9, <1>10 DEF FormInv

\* A piece of field k + 1 arrives: what can change, named once for all the
\* conjuncts.
LEMMA PieceKeeps == FormInv /\ Piece => FormInv'
<1> SUFFICES ASSUME FormInv, Piece PROVE FormInv'
  OBVIOUS
<1>1. FormTypeOK /\ rest # <<>> /\ ~refused /\ posted' = posted
  BY DEF FormInv, Piece
<1>2. posted \in Seq(Fields)
  BY <1>1 DEF FormTypeOK
<1>3. PICK k \in 0 .. Len(posted) : rest = SubSeq(posted, k + 1, Len(posted))
  BY <1>1 DEF FormTypeOK
<1>4. Len(posted) \in Nat /\ k \in Nat /\ k <= Len(posted)
  BY <1>2, LenProperties
<1>5. /\ DOMAIN posted = 1 .. Len(posted)
      /\ Come = k
      /\ k + 1 \in 1 .. Len(posted)
      /\ rest[1] = posted[k + 1]
      /\ Tail(rest) = SubSeq(posted, (k + 1) + 1, Len(posted))
  BY <1>1, <1>2, <1>3, <1>4, RestFacts DEF Come
<1> DEFINE name == posted[k + 1].name
           value == posted[k + 1].value
<1>6. name \in Names /\ value \in Seq(Nat) /\ Len(value) \in Nat
  <2>1. posted[k + 1] \in Fields
    BY <1>2, <1>5, ElementOfSeq
  <2> QED BY <2>1, LenProperties DEF Fields
<1>7. off \in Nat /\ off <= Len(value)
  BY <1>1, <1>5, <1>6 DEF FormTypeOK
<1>8. PICK n \in 0 .. Len(value) - off :
         /\ n = 0 => value = <<>>
         /\ \/ Take(name, SubSeq(value, off + 1, off + n)) /\ UNCHANGED refused
            \/ Refuse(name, SubSeq(value, off + 1, off + n))
         /\ IF off + n = Len(value)
            THEN rest' = Tail(rest) /\ off' = 0
            ELSE off' = off + n /\ UNCHANGED rest
         /\ cut' = IF n < Len(value) THEN cut \cup {name} ELSE cut
  BY <1>5 DEF Piece
<1> DEFINE data == SubSeq(value, off + 1, off + n)
           whole == off + n = Len(value)
<1>9. n \in Nat /\ off + n <= Len(value) /\ off + n \in Nat
  BY <1>6, <1>7
<1>10. /\ data \in Seq(Nat) /\ Len(data) = n
       /\ SubSeq(value, 1, off) \o data = SubSeq(value, 1, off + n)
       /\ SubSeq(value, 1, off) \in Seq(Nat) /\ Len(SubSeq(value, 1, off)) = off
       /\ SubSeq(value, 1, Len(value)) = value
       /\ SubSeq(SubSeq(value, 1, off), 1, off) = SubSeq(value, 1, off)
       /\ SubSeq(value, 1, 0) = <<>>
  <2> DEFINE v == value
             m == off
  <2>1. v \in Seq(Nat) /\ m \in Nat /\ n \in Nat /\ m + n <= Len(v)
    BY <1>6, <1>7, <1>9
  <2> HIDE DEF v, m
  <2>2. /\ SubSeq(v, m + 1, m + n) \in Seq(Nat) /\ Len(SubSeq(v, m + 1, m + n)) = n
        /\ SubSeq(v, 1, m) \o SubSeq(v, m + 1, m + n) = SubSeq(v, 1, m + n)
        /\ SubSeq(v, 1, m) \in Seq(Nat) /\ Len(SubSeq(v, 1, m)) = m
        /\ SubSeq(v, 1, Len(v)) = v
        /\ SubSeq(SubSeq(v, 1, m), 1, m) = SubSeq(v, 1, m)
        /\ SubSeq(v, 1, 0) = <<>>
    BY <2>1, SubSeqFacts, SMTT(30)
  <2> QED BY <2>2 DEF v, m
<1>11. /\ SubSeq(value, 1, off + n) \in Seq(Nat)
       /\ Len(SubSeq(value, 1, off + n)) = off + n
       /\ IsPrefix(SubSeq(value, 1, off + n), value)
  <2> DEFINE m == off + n
  <2>1. m \in Nat /\ 0 \in Nat /\ m + 0 <= Len(value)
    BY <1>6, <1>9
  <2> HIDE DEF m, name, value
  <2>2. /\ SubSeq(value, 1, m) \in Seq(Nat) /\ Len(SubSeq(value, 1, m)) = m
        /\ IsPrefix(SubSeq(value, 1, m), value)
    BY <1>6, <2>1, SubSeqFacts
  <2> QED BY <2>2 DEF m
<1>12. n = 0 => whole
  <2>1. n = 0 => Len(value) = 0
    BY <1>6, <1>8, EmptySeq
  <2> QED BY <1>6, <1>7, <2>1
<1>13. IF whole THEN Come' = k + 1 ELSE Come' = k
  <2>1. CASE whole
    <3>1. rest' = SubSeq(posted, (k + 1) + 1, Len(posted))
      BY <1>5, <1>8, <2>1
    <3>2. k + 1 \in Nat /\ k + 1 <= Len(posted)
      BY <1>4, <1>5
    <3> DEFINE m == k + 1
               r == rest'
    <3>3. m \in Nat /\ m <= Len(posted) /\ r = SubSeq(posted, m + 1, Len(posted))
      BY <3>1, <3>2
    <3> HIDE DEF whole, m, r
    <3>4. m = Len(posted) - Len(r)
      BY <1>2, <3>3, RestFacts
    <3> QED BY <1>1, <2>1, <3>4 DEF Come, m, r
  <2>2. CASE ~whole
    BY <1>1, <1>5, <1>8, <2>2 DEF Come
  <2> QED BY <2>1, <2>2
\* The part of a field that is there is there as the current one.
<1>14. name \in Placed => SubSeq(text[name], 1, off) = SubSeq(value, 1, off)
  <2> SUFFICES ASSUME name \in Placed
               PROVE  SubSeq(text[name], 1, off) = SubSeq(value, 1, off)
    OBVIOUS
  <2>1. CASE off > 0
    <3>1. text[name] = SubSeq(value, 1, off)
      BY <1>1, <1>5, <2>1 DEF FormInv, CurrentIsPart
    <3> QED BY <1>10, <3>1
  <2>2. CASE off = 0
    <3>1. SubSeq(text[name], 1, 0) = <<>> /\ SubSeq(value, 1, 0) = <<>>
      BY SubSeqEmpty
    <3> QED BY <2>2, <3>1
  <2> QED BY <1>7, <2>1, <2>2
<1>15. text \in [Placed \cup {"code"} -> Seq(Nat)] /\ number \in [Numbers -> Nat]
  BY <1>1 DEF FormTypeOK
<1>16. ASSUME name \in Placed, ~refused'
       PROVE  text' = [text EXCEPT ![name] = SubSeq(value, 1, off + n)]
              /\ off + n <= Limit[name] /\ UNCHANGED <<number, flag, seen>>
  <2>1. Take(name, data)
    BY <1>8, <1>16 DEF Refuse
  <2>2. /\ Fits(name, data) /\ text' = [text EXCEPT ![name] = Put(name, data)]
        /\ UNCHANGED <<number, flag, seen>>
    BY <1>16, <2>1 DEF Take, Placed, Code, Numbers, Flags
  <2>3. Put(name, data) = SubSeq(value, 1, off + n)
    BY <1>10, <1>14, <1>16 DEF Put
  <2>4. off + n <= Limit[name]
    BY <1>10, <1>16, <2>2 DEF Fits
  <2> QED BY <2>2, <2>3, <2>4
<1>17. refused' => text' = text
  BY <1>1, <1>8 DEF Refuse
<1>18. \A f \in Placed : f # name => text'[f] = text[f]
  <2> SUFFICES ASSUME NEW f \in Placed, f # name PROVE text'[f] = text[f]
    OBVIOUS
  <2>1. CASE Take(name, data)
    BY <1>15, <2>1 DEF Take, Placed
  <2>2. CASE Refuse(name, data)
    BY <2>2 DEF Refuse
  <2> QED BY <1>8, <2>1, <2>2
<1> HIDE DEF data, whole
<1>19. ASSUME NEW i \in DOMAIN posted, i # k + 1 PROVE SoFar(i)' = SoFar(i)
  <2>1. i \in Nat /\ posted' = posted
    BY <1>1, <1>4, <1>5
  <2>2. CASE i <= k
    <3>1. i <= Come /\ i <= Come'
      BY <1>4, <1>5, <1>13, <2>1, <2>2
    <3> QED BY <2>1, <3>1 DEF SoFar
  <2>3. CASE i > k
    <3>1. ~(i <= Come) /\ i # Come + 1 /\ ~(i <= Come')
      BY <1>4, <1>5, <1>13, <1>19, <2>1, <2>3
    <3>2. i = Come' + 1 => whole
      BY <1>4, <1>13, <1>19, <2>1, <2>3
    <3>3. i = Come' + 1 => off' = 0
      BY <1>8, <3>2 DEF whole
    <3>4. SubSeq(posted[i].value, 1, 0) = <<>>
      BY SubSeqEmpty
    <3> QED BY <2>1, <3>1, <3>3, <3>4 DEF SoFar
  <2> QED BY <1>4, <2>1, <2>2, <2>3
<1>20. SoFar(k + 1)' = SubSeq(value, 1, off + n)
  <2>1. CASE whole
    <3>1. k + 1 <= Come'
      BY <1>4, <1>13, <2>1
    <3> QED BY <1>1, <1>10, <2>1, <3>1 DEF SoFar, whole
  <2>2. CASE ~whole
    <3>1. ~(k + 1 <= Come') /\ k + 1 = Come' + 1 /\ off' = off + n
      BY <1>4, <1>8, <1>13, <2>2 DEF whole
    <3> QED BY <1>1, <3>1 DEF SoFar
  <2> QED BY <2>1, <2>2
<1>21. ASSUME name \in Placed, refused' PROVE ~Fitting(k + 1)
  <2>1. ~Fits(name, data)
    BY <1>1, <1>8, <1>21 DEF Refuse, Refuses, Placed, data
  <2>2. ~(off + n <= Limit[name])
    BY <1>10, <1>21, <2>1 DEF Fits
  <2>3. Limit[name] \in Nat
    BY <1>21, LimitAssumption
  <2> QED BY <1>6, <1>9, <2>2, <2>3 DEF Fitting
<1>22. Take(name, data) \/ Refuse(name, data)
  BY <1>8 DEF data
<1>23. /\ text' \in [Placed \cup {"code"} -> Seq(Nat)]
       /\ \A f \in Placed \cup {"code"} : Len(text'[f]) <= Limit[f]
  <2>0. \A f \in Placed \cup {"code"} : Len(text[f]) <= Limit[f]
    BY <1>1 DEF FormTypeOK
  <2>1. CASE name \in Placed /\ ~refused'
    <3> DEFINE new == SubSeq(value, 1, off + n)
    <3>1. text' = [text EXCEPT ![name] = new] /\ new \in Seq(Nat) /\ Len(new) <= Limit[name]
      BY <1>11, <1>16, <2>1
    <3> HIDE DEF new, name, value
    <3> QED BY <1>15, <2>0, <2>1, <3>1
  <2>2. CASE name \in Code /\ ~refused'
    <3>1. Take(name, data)
      BY <1>8, <2>2 DEF Refuse, data
    <3>2. text' = [text EXCEPT !["code"] = text["code"] \o data] /\ Fits(name, data)
      BY <2>2, <3>1 DEF Take, Grow, Placed, Code, Numbers, Flags
    <3>3. Len(text["code"]) + Len(data) <= Limit["code"]
      BY <2>2, <3>2 DEF Fits, Placed, Code
    <3> DEFINE t == text["code"]
               new == t \o data
    <3>4. t \in Seq(Nat) /\ data \in Seq(Nat)
      BY <1>10, <1>15
    <3>5. Len(t) + Len(data) <= Limit["code"] /\ text' = [text EXCEPT !["code"] = new]
      BY <3>2, <3>3
    <3> HIDE DEF t
    <3>6. new \in Seq(Nat) /\ Len(new) = Len(t) + Len(data)
      BY <3>4, ConcatProperties
    <3> HIDE DEF new
    <3> QED BY <1>15, <2>0, <3>5, <3>6
  <2>3. CASE name \notin Placed \cup Code \/ refused'
    <3>1. text' = text
      <4>1. CASE Refuse(name, data)
        BY <4>1 DEF Refuse
      <4>2. CASE Take(name, data) /\ ~refused'
        BY <2>3, <4>2 DEF Take
      <4> QED BY <1>8, <1>17, <4>1, <4>2 DEF data
    <3> QED BY <1>15, <2>0, <3>1
  <2> QED BY <2>1, <2>2, <2>3
<1>24. number' \in [Numbers -> Nat] /\ \A f \in Numbers : f # name => number'[f] = number[f]
  <2>1. Value(data) \in Nat
    BY <1>10, ValueIsNat
  <2>3. UNCHANGED number \/ number' = [number EXCEPT ![name] = Value(data)]
    BY <1>22 DEF Take, Refuse, Number
  <2> HIDE DEF name, value
  <2> QED BY <1>15, <2>1, <2>3
<1>25. FormTypeOK'
  <2>2. \E j \in 0 .. Len(posted') : rest' = SubSeq(posted', j + 1, Len(posted'))
    <3>1. CASE whole
      <4>1. rest' = SubSeq(posted, (k + 1) + 1, Len(posted))
        BY <1>5, <1>8, <3>1 DEF whole
      <4>2. k + 1 \in 0 .. Len(posted)
        BY <1>4, <1>5
      <4> QED BY <1>1, <4>1, <4>2
    <3>2. CASE ~whole
      BY <1>1, <1>3, <1>8, <3>2 DEF whole
    <3> QED BY <3>1, <3>2
  <2>3. off' \in 0 .. (IF rest' = <<>> THEN 0 ELSE Len(rest'[1].value))
    <3>1. CASE whole
      <4>1. off' = 0 /\ rest' \in Seq(Fields)
        <5>1. rest \in Seq(Fields) /\ rest' = Tail(rest)
          BY <1>2, <1>3, <1>4, <1>8, <3>1, RestFacts DEF whole
        <5> QED BY <1>1, <1>8, <3>1, <5>1, HeadTailProperties DEF whole
      <4>2. ASSUME rest' # <<>> PROVE Len(rest'[1].value) \in Nat
        <5>1. rest'[1] \in Fields
          BY <4>1, <4>2, EmptySeq, ElementOfSeq
        <5> QED BY <5>1, LenProperties DEF Fields
      <4> QED BY <4>1, <4>2
    <3>2. CASE ~whole
      <4>1. off' = off + n /\ rest' = rest
        BY <1>8, <3>2 DEF whole
      <4> QED BY <1>1, <1>5, <1>6, <1>9, <4>1
    <3> QED BY <3>1, <3>2
  <2>4. flag' \in [Flags -> BOOLEAN]
    <3>1. flag \in [Flags -> BOOLEAN]
      BY <1>1 DEF FormTypeOK
    <3>2. UNCHANGED flag \/ flag' = [flag EXCEPT ![name] = (data = On)]
      BY <1>22 DEF Take, Refuse
    <3> HIDE DEF name, value
    <3> QED BY <3>1, <3>2
  <2>5. seen' \subseteq Code
    BY <1>1, <1>22 DEF Take, Refuse, Seen, FormTypeOK
  <2>6. refused' \in BOOLEAN /\ cut' \subseteq Names
    BY <1>1, <1>6, <1>8 DEF FormTypeOK, Refuse
  <2> QED BY <1>1, <1>2, <1>23, <1>24, <2>2, <2>3, <2>4, <2>5, <2>6 DEF FormTypeOK
<1>26. TextsAreSoFar'
  <2> DEFINE got == SubSeq(value, 1, off + n)
  <2>0. posted' = posted
    BY <1>1
  <2> SUFFICES ASSUME NEW i \in DOMAIN posted, posted[i].name \in Placed, Once(posted[i].name)
               PROVE  LET f == posted[i].name
                      IN  /\ IsPrefix(text'[f], posted[i].value)
                          /\ ~refused' \/ Fitting(i) => text'[f] = SoFar(i)'
                          /\ text'[f] # <<>> =>
                                \A j \in 1 .. i - 1 :
                                   posted[j].name \in Placed /\ Once(posted[j].name)
                                   => text'[posted[j].name] = posted[j].value
    BY <2>0 DEF TextsAreSoFar, Once, Fitting
  <2> DEFINE f == posted[i].name
  <2>1. /\ IsPrefix(text[f], posted[i].value)
        /\ text[f] = SoFar(i)
        /\ text[f] # <<>> =>
              \A j \in 1 .. i - 1 : posted[j].name \in Placed /\ Once(posted[j].name)
                                    => text[posted[j].name] = posted[j].value
    BY <1>1 DEF FormInv, TextsAreSoFar
  <2>2. i \in Nat /\ \A j \in 1 .. i - 1 : j \in DOMAIN posted /\ j \in Nat /\ j < i
    BY <1>4, <1>5
  <2>3. CASE i # k + 1
    <3>1. f # name
      BY <1>5, <2>3 DEF Once
    <3>2. text'[f] = text[f] /\ SoFar(i)' = SoFar(i)
      BY <1>18, <1>19, <2>3, <3>1
    <3>3. ASSUME text[f] # <<>>, NEW j \in 1 .. i - 1,
                 posted[j].name \in Placed, Once(posted[j].name)
          PROVE  text'[posted[j].name] = posted[j].value
      <4>1. i <= k + 1
        BY <1>5, <2>1, <3>3 DEF SoFar
      <4>2. j # k + 1 /\ j \in DOMAIN posted
        BY <1>4, <2>2, <4>1
      <4>3. posted[j].name # name
        BY <1>5, <3>3, <4>2 DEF Once
      <4> QED BY <1>18, <2>1, <3>3, <4>3
    <3> QED BY <2>1, <3>2, <3>3
  <2>4. CASE i = k + 1 /\ ~refused'
    <3>1. text'[name] = got
      <4>1. text' = [text EXCEPT ![name] = got]
        BY <1>16, <2>4
      <4> HIDE DEF got
      <4> QED BY <1>15, <2>4, <4>1
    <3>2. ASSUME NEW j \in 1 .. i - 1, posted[j].name \in Placed, Once(posted[j].name)
          PROVE  text'[posted[j].name] = posted[j].value
      <4>1. j \in DOMAIN posted /\ j # k + 1 /\ j <= Come
        BY <1>4, <1>5, <2>2, <2>4
      <4>2. posted[j].name # name
        BY <1>5, <3>2, <4>1 DEF Once
      <4>3. text[posted[j].name] = SoFar(j)
        BY <1>1, <3>2, <4>1 DEF FormInv, TextsAreSoFar
      <4> QED BY <1>18, <3>2, <4>1, <4>2, <4>3 DEF SoFar
    <3> QED BY <1>11, <1>20, <2>4, <3>1, <3>2
  <2>5. CASE i = k + 1 /\ refused'
    <3>1. text' = text /\ ~Fitting(i)
      BY <1>17, <1>21, <2>5
    <3> QED BY <2>1, <2>5, <3>1
  <2> QED BY <2>3, <2>4, <2>5
<1>27. Unposted'
  <2>1. name \in Posted /\ Posted' = Posted
    BY <1>1, <1>5 DEF Posted
  <2> QED BY <1>1, <1>18, <2>1 DEF FormInv, Unposted
<1>28. /\ \A f : f # name => (f \in cut' <=> f \in cut)
       /\ \A i \in DOMAIN posted : i \in Nat /\ (i # k + 1 /\ Once(posted[i].name)
                                               => posted[i].name # name)
       /\ Come' = k \/ Come' = k + 1
  <2>1. \A f : f # name => (f \in cut' <=> f \in cut)
    BY <1>8
  <2> QED BY <1>4, <1>5, <1>13, <2>1 DEF Once
<1>30. CutsAreSoFar'
  <2> SUFFICES ASSUME NEW i \in DOMAIN posted, Once(posted[i].name)
               PROVE  LET f == posted[i].name
                      IN  /\ i > Come' + 1 => f \notin cut'
                          /\ i = Come' + 1 => (f \in cut' <=> off' > 0)
    BY <1>1 DEF CutsAreSoFar, Once
  <2> DEFINE f == posted[i].name
  <2>1. i > Come + 1 => f \notin cut
    BY <1>1 DEF FormInv, CutsAreSoFar
  <2>2. CASE i # k + 1
    <3>1. f \in cut' <=> f \in cut
      BY <1>28, <2>2
    <3>2. i >= Come' + 1 => i > Come + 1
      BY <1>4, <1>5, <1>28, <2>2
    <3>3. i = Come' + 1 => whole
      BY <1>4, <1>5, <1>13, <1>28, <2>2
    <3>4. i = Come' + 1 => off' = 0
      BY <1>8, <3>3 DEF whole
    <3> QED BY <1>28, <2>1, <3>1, <3>2, <3>4
  <2>3. CASE i = k + 1
    <3>1. ~(i > Come' + 1)
      BY <1>4, <1>28, <2>3
    <3>2. ASSUME i = Come' + 1 PROVE f \in cut' /\ off' > 0
      <4>1. ~whole /\ n # 0
        BY <1>4, <1>12, <1>13, <2>3, <3>2
      <4>2. off' = off + n /\ n < Len(value)
        BY <1>6, <1>7, <1>8, <1>9, <4>1 DEF whole
      <4> QED BY <1>7, <1>8, <1>9, <2>3, <4>1, <4>2
    <3> QED BY <2>3, <3>1, <3>2
  <2> QED BY <2>2, <2>3
\* The piece that ends a field is one of its ends.
<1>31. ASSUME whole, Once(name) PROVE data \in LastPiecesOf(k + 1)'
  <2>1. data = SubSeq(value, off + 1, Len(value)) /\ SubSeq(value, 1, Len(value)) = value
    BY <1>10, <1>31 DEF data, whole
  <2>2. data \in Suffixes(value)
    <3>1. CASE off < Len(value)
      <4>1. off + 1 \in 1 .. Len(value)
        BY <1>6, <1>7, <3>1
      <4> QED BY <2>1, <4>1 DEF Suffixes
    <3>2. CASE off = Len(value)
      <4>1. n = 0
        BY <1>7, <1>9, <3>2
      <4>2. data = <<>>
        BY <1>10, <4>1, EmptySeq
      <4> QED BY <4>2 DEF Suffixes
    <3> QED BY <1>6, <1>7, <3>1, <3>2
  <2>3. name \in cut <=> off > 0
    BY <1>1, <1>5, <1>31 DEF FormInv, CutsAreSoFar
  <2>4. CASE off = 0
    <3>1. off + 1 = 1 /\ ~(n < Len(value))
      BY <1>6, <1>9, <1>31, <2>4 DEF whole
    <3>2. name \notin cut' /\ data = value
      BY <1>7, <1>8, <2>1, <2>3, <2>4, <3>1
    <3> QED BY <1>1, <3>2 DEF LastPiecesOf
  <2>5. CASE off > 0
    <3>1. name \in cut' /\ n < Len(value)
      BY <1>6, <1>7, <1>8, <1>9, <1>31, <2>3, <2>5 DEF whole
    <3>2. data # value
      BY <1>6, <1>10, <3>1
    <3> QED BY <1>1, <2>2, <3>1, <3>2 DEF LastPiecesOf
  <2> QED BY <1>7, <2>4, <2>5
<1>32. \A i \in DOMAIN posted : i # k + 1 /\ Once(posted[i].name) =>
          LastPiecesOf(i)' = LastPiecesOf(i) /\ (i <= Come' => i <= Come)
  BY <1>1, <1>4, <1>5, <1>28 DEF LastPiecesOf
<1>33. NumbersAreSoFar'
  <2> SUFFICES ASSUME ~refused', NEW i \in DOMAIN posted, posted[i].name \in Numbers,
                      Once(posted[i].name), i <= Come'
               PROVE  \E d \in LastPiecesOf(i)' : number'[posted[i].name] = Value(d)
    BY <1>1 DEF NumbersAreSoFar, Once
  <2>1. CASE i # k + 1
    <3>1. \E d \in LastPiecesOf(i) : number[posted[i].name] = Value(d)
      BY <1>1, <1>32, <2>1 DEF FormInv, NumbersAreSoFar
    <3> QED BY <1>24, <1>28, <1>32, <2>1, <3>1
  <2>2. CASE i = k + 1
    <3>1. whole
      BY <1>4, <1>13, <2>2
    <3>2. Take(name, data)
      BY <1>22 DEF Refuse
    <3>3. number' = [number EXCEPT ![name] = Value(data)]
      BY <2>2, <3>2 DEF Take, Number, Placed, Code, Numbers, Flags
    <3> QED BY <1>15, <1>31, <2>2, <3>1, <3>3
  <2> QED BY <2>1, <2>2
<1>34. FlagsAreSoFar'
  <2> SUFFICES ASSUME NEW i \in DOMAIN posted, posted[i].name \in Flags,
                      Once(posted[i].name), i <= Come'
               PROVE  \E d \in LastPiecesOf(i)' : flag'[posted[i].name] = (d = On)
    BY <1>1 DEF FlagsAreSoFar, Once
  <2>1. flag \in [Flags -> BOOLEAN]
    BY <1>1 DEF FormTypeOK
  <2>2. CASE i # k + 1
    <3>1. \E d \in LastPiecesOf(i) : flag[posted[i].name] = (d = On)
      BY <1>1, <1>32, <2>2 DEF FormInv, FlagsAreSoFar
    <3>2. UNCHANGED flag \/ flag' = [flag EXCEPT ![name] = (data = On)]
      BY <1>22 DEF Take, Refuse
    <3>3. flag'[posted[i].name] = flag[posted[i].name]
      BY <1>28, <2>1, <2>2, <3>2
    <3> QED BY <1>32, <2>2, <3>1, <3>3
  <2>3. CASE i = k + 1
    <3>1. whole
      BY <1>4, <1>13, <2>3
    <3>2. Take(name, data)
      BY <1>22, <2>3 DEF Refuse, Refuses, Placed, Code, Flags
    <3>3. flag' = [flag EXCEPT ![name] = (data = On)]
      BY <2>3, <3>2 DEF Take, Placed, Code, Numbers, Flags
    <3> QED BY <1>31, <2>1, <2>3, <3>1, <3>3
  <2> QED BY <2>2, <2>3
<1>35. CodeIsSoFar'
  <2> SUFFICES ASSUME ~refused', NEW i \in DOMAIN posted, posted[i].name \in Code,
                      Once(posted[i].name), seen' \subseteq {posted[i].name}
               PROVE  text'["code"] = SoFar(i)'
    BY <1>1 DEF CodeIsSoFar, Once
  <2>1. Take(name, data)
    BY <1>22 DEF Refuse
  <2>2. seen \subseteq {posted[i].name}
    BY <2>1 DEF Take, Seen
  <2>3. text["code"] = SoFar(i)
    BY <1>1, <2>2 DEF FormInv, CodeIsSoFar
  <2>4. CASE name \notin Code
    <3>1. i # k + 1
      BY <2>4
    <3>2. text'["code"] = text["code"]
      BY <1>15, <2>1, <2>4 DEF Take, Placed, Code
    <3> QED BY <1>19, <2>3, <3>1, <3>2
  <2>5. CASE name \in Code
    <3>1. text' = [text EXCEPT !["code"] = text["code"] \o data] /\ seen' = Seen(name, data)
      BY <2>1, <2>5 DEF Take, Grow, Placed, Code, Numbers, Flags
    <3>2. text'["code"] = text["code"] \o data
      BY <1>15, <3>1
    <3>3. CASE i = k + 1
      <4>1. text["code"] = SubSeq(value, 1, off)
        <5>1. ~(i <= Come) /\ i = Come + 1 /\ posted[i].value = value
          BY <1>4, <1>5, <3>3
        <5> QED BY <2>3, <5>1 DEF SoFar
      <4>2. SubSeq(value, 1, off) \o data = SubSeq(value, 1, off + n)
        BY <1>10
      <4> QED BY <1>20, <3>2, <3>3, <4>1, <4>2
    <3>4. CASE i # k + 1
      <4>1. posted[i].name # name
        BY <1>28, <3>4
      <4>2. ~(Len(data) > 0)
        BY <3>1, <4>1 DEF Seen
      <4>3. data = <<>> /\ text["code"] \in Seq(Nat)
        BY <1>10, <1>15, <4>2, EmptySeq
      <4>4. text["code"] \o <<>> = text["code"]
        BY <4>3, ConcatEmptySeq
      <4> QED BY <1>19, <2>3, <3>2, <3>4, <4>3, <4>4
    <3> QED BY <3>3, <3>4
  <2> QED BY <2>4, <2>5
<1>29. CurrentIsPart'
  <2> SUFFICES ASSUME ~refused', rest' # <<>>, rest'[1].name \in Placed, off' > 0
               PROVE  text'[rest'[1].name] = SubSeq(rest'[1].value, 1, off')
    BY DEF CurrentIsPart
  <2>1. ~whole /\ off' = off + n /\ rest' = rest
    BY <1>8 DEF whole
  <2>2. text' = [text EXCEPT ![name] = SubSeq(value, 1, off + n)] /\ name \in Placed
    BY <1>5, <1>16, <2>1
  <2> QED BY <1>5, <1>15, <2>1, <2>2
<1> QED BY <1>25, <1>26, <1>27, <1>29, <1>30, <1>33, <1>34, <1>35 DEF FormInv

LEMMA FormStays == FormInv /\ UNCHANGED formVars => FormInv'
<1> SUFFICES ASSUME FormInv, UNCHANGED formVars PROVE FormInv'
  OBVIOUS
<1>1. /\ posted' = posted /\ rest' = rest /\ off' = off /\ text' = text /\ number' = number
      /\ flag' = flag /\ seen' = seen /\ refused' = refused /\ cut' = cut
  BY DEF formVars
<1>2. FormTypeOK' /\ Unposted' /\ CurrentIsPart'
  BY <1>1 DEF FormInv, FormTypeOK, Unposted, Posted, CurrentIsPart
<1>3. TextsAreSoFar'
  BY <1>1 DEF FormInv, TextsAreSoFar, Once, Fitting, SoFar, Come
<1>4. CutsAreSoFar' /\ NumbersAreSoFar' /\ FlagsAreSoFar'
  BY <1>1 DEF FormInv, CutsAreSoFar, NumbersAreSoFar, FlagsAreSoFar, LastPiecesOf, Once, Come
<1>5. CodeIsSoFar'
  BY <1>1 DEF FormInv, CodeIsSoFar, Once, SoFar, Come
<1> QED BY <1>2, <1>3, <1>4, <1>5 DEF FormInv

\* The places of the fields of a form, and of those that have come.
LEMMA FieldFacts ==
    ASSUME FormTypeOK
    PROVE  /\ Arrived \subseteq Posted
           /\ \A f \in Posted : \E i \in DOMAIN posted : posted[i].name = f
           /\ \A f \in Arrived : \E i \in DOMAIN posted : posted[i].name = f /\ i <= Come
           /\ rest = <<>> => \A i \in DOMAIN posted : i <= Come
<1>1. posted \in Seq(Fields)
  BY DEF FormTypeOK
<1>2. PICK k \in 0 .. Len(posted) : rest = SubSeq(posted, k + 1, Len(posted))
  BY DEF FormTypeOK
<1>3. Len(posted) \in Nat /\ k \in Nat /\ k <= Len(posted)
  BY <1>1, <1>2, LenProperties
<1>4. Come = k /\ (rest = <<>> <=> k = Len(posted))
  <2> DEFINE r == rest
  <2>1. r = SubSeq(posted, k + 1, Len(posted))
    BY <1>2
  <2> HIDE DEF r
  <2>2. k = Len(posted) - Len(r)
    BY <1>1, <1>3, <2>1, RestFacts
  <2>3. r = <<>> <=> k = Len(posted)
    BY <1>1, <1>3, <2>1, RestFacts
  <2> QED BY <2>2, <2>3 DEF Come, r
<1>5. DOMAIN posted = 1 .. Len(posted)
  BY <1>1, LenProperties
<1>6. \A i \in 1 .. k : i \in 1 .. Len(posted) /\ i <= k
  BY <1>3
<1>7. Arrived = {posted[i].name : i \in 1 .. k}
  BY <1>4 DEF Arrived, Come
<1> QED BY <1>3, <1>4, <1>5, <1>6, <1>7 DEF Posted

\* post_iterator(): what has come in whole is what was posted.
LEMMA FormFollows == FormInv => FormIsWhole
<1> SUFFICES ASSUME FormInv, ~refused PROVE FormIsWhole
  BY DEF FormIsWhole
<1>1. FormTypeOK /\ TextsAreSoFar /\ NumbersAreSoFar /\ FlagsAreSoFar /\ CodeIsSoFar
  BY DEF FormInv
<1>2. ASSUME NEW f \in Arrived, Once(f)
      PROVE  \E i \in DOMAIN posted :
                /\ posted[i].name = f /\ i <= Come /\ SoFar(i) = Given(f)
                /\ LastPiecesOf(i) = LastPieces(f)
  <2>1. PICK i \in DOMAIN posted : posted[i].name = f /\ i <= Come
    BY <1>1, FieldFacts
  <2>2. Given(f) = posted[i].value
    BY <1>2, <2>1, GivenFacts
  <2> QED BY <2>1, <2>2 DEF SoFar, LastPieces, LastPiecesOf
<1>3. ASSUME NEW f \in Placed \cap Arrived, Once(f) PROVE text[f] = Given(f)
  BY <1>1, <1>2, <1>3 DEF TextsAreSoFar
<1>4. ASSUME NEW f \in Code \cap Arrived, Once(f), seen \subseteq {f}
      PROVE  text["code"] = Given(f)
  BY <1>1, <1>2, <1>4 DEF CodeIsSoFar
<1>5. ASSUME NEW f \in Numbers \cap Arrived, Once(f)
      PROVE  \E d \in LastPieces(f) : number[f] = Value(d)
  BY <1>1, <1>2, <1>5 DEF NumbersAreSoFar
<1>6. ASSUME NEW f \in Flags \cap Arrived, Once(f)
      PROVE  \E d \in LastPieces(f) : flag[f] = (d = On)
  BY <1>1, <1>2, <1>6 DEF FlagsAreSoFar
<1> QED BY <1>3, <1>4, <1>5, <1>6 DEF FormIsWhole

-----------------------------------------------------------------------------
(* The accounts.                                                             *)

UsersInv == users \in Seq(UserRows) /\ Len(users) <= MaxUsers /\ PasswordsStand

\* Whoever has an account keeps it, its name and its password.
RowsKeep ==
    /\ DOMAIN users \subseteq DOMAIN users'
    /\ \A i \in DOMAIN users : users'[i].name = users[i].name
                               /\ users'[i].password = users[i].password

LEMMA UserFacts ==
    ASSUME users \in Seq(UserRows)
    PROVE  /\ DOMAIN users = 1 .. Len(users) /\ Len(users) \in Nat /\ 0 \notin DOMAIN users
           /\ {0} \cup DOMAIN users = 0 .. Len(users)
           /\ \A i \in DOMAIN users : users[i] \in UserRows
<1>1. DOMAIN users = 1 .. Len(users) /\ Len(users) \in Nat
  BY LenProperties
<1>2. \A i \in DOMAIN users : users[i] \in UserRows
  BY <1>1, ElementOfSeq
<1>3. \A n \in Nat : 0 \notin 1 .. n /\ {0} \cup 1 .. n = 0 .. n
  OBVIOUS
<1> QED BY <1>1, <1>2, <1>3

LEMMA IdFacts ==
    ASSUME users \in Seq(UserRows), NEW name
    PROVE  /\ IdOf(name) \in {0} \cup DOMAIN users
           /\ IdOf(name) # 0 => users[IdOf(name)].name = name
           /\ IdOf(name) = 0 => \A i \in DOMAIN users : users[i].name # name
<1>1. 0 \notin DOMAIN users
  BY UserFacts
<1> QED BY <1>1 DEF IdOf

\* user_valid_auth: the account that is let in has the password.
LEMMA ValidFacts ==
    ASSUME UsersInv, NEW name, NEW password, Valid(name, password)
    PROVE  /\ IdOf(name) \in DOMAIN users
           /\ users[IdOf(name)].name = name
           /\ users[IdOf(name)].password = password
<1>1. IdOf(name) \in DOMAIN users /\ users[IdOf(name)].name = name
  BY IdFacts DEF UsersInv, Valid
<1>2. /\ Accepts(users[IdOf(name)].hash, password)
      /\ Accepts(users[IdOf(name)].hash, users[IdOf(name)].password)
  BY <1>1 DEF UsersInv, Valid, PasswordsStand
<1>3. \A h, p, q : Accepts(h, p) /\ Accepts(h, q) => p = q
  <2> TAKE h, p, q
  <2>1. \A x : Sha512(x).of = x /\ Md5(x).of = x
    BY DEF Sha512, Md5
  <2> QED BY <2>1 DEF Accepts
<1> QED BY <1>1, <1>2, <1>3

\* The hash of an account is upgraded to that of its password.
LEMMA UpgradeKeeps ==
    ASSUME UsersInv, NEW name, NEW password, Upgrade(name, password)
    PROVE  UsersInv' /\ RowsKeep
<1>1. CASE UNCHANGED users
  BY <1>1 DEF UsersInv, PasswordsStand, RowsKeep
<1>2. CASE /\ Valid(name, password)
           /\ users' = [users EXCEPT ![IdOf(name)].hash = Sha512(password)]
  <2> DEFINE id == IdOf(name)
  <2>1. id \in DOMAIN users /\ users[id].password = password
    BY <1>2, ValidFacts
  <2>2. users \in Seq(UserRows)
    BY DEF UsersInv
  <2>3. users[id] \in UserRows
    BY <2>1, <2>2, UserFacts
  <2> DEFINE row == [users[id] EXCEPT !.hash = Sha512(password)]
  <2>4. users' = [users EXCEPT ![id] = row]
    BY <1>2
  <2>5. /\ row.hash = Sha512(password) /\ row.name = users[id].name
        /\ row.password = users[id].password
    BY <2>3 DEF UserRows
  <2>6. row \in UserRows
    <3>1. password \in Texts
      BY <2>1, <2>3 DEF UserRows
    <3> QED BY <2>3, <3>1 DEF UserRows, Sha512
  <2> HIDE DEF row, id
  <2>7. /\ DOMAIN users' = DOMAIN users /\ Len(users') = Len(users)
        /\ users' \in Seq(UserRows)
        /\ \A i \in DOMAIN users : users'[i] = IF i = id THEN row ELSE users[i]
    <3>1. users' \in Seq(UserRows) /\ Len(users') = Len(users)
      BY <2>1, <2>2, <2>4, <2>6, ExceptSeq
    <3> QED BY <2>4, <3>1
  <2>8. \A i \in DOMAIN users : users'[i].name = users[i].name
                                /\ users'[i].password = users[i].password
    BY <2>5, <2>7
  <2>9. PasswordsStand'
    <3>1. ASSUME NEW i \in DOMAIN users
          PROVE  Accepts(users'[i].hash, users'[i].password)
      <4>1. Accepts(Sha512(password), password)
        BY DEF Accepts, Sha512
      <4>2. Accepts(users[i].hash, users[i].password)
        BY DEF UsersInv, PasswordsStand
      <4> QED BY <2>1, <2>5, <2>7, <4>1, <4>2
    <3>2. \A i, j \in DOMAIN users : users'[j].name = users'[i].name => j = i
      BY <2>8 DEF UsersInv, PasswordsStand
    <3> QED BY <2>7, <3>1, <3>2 DEF PasswordsStand, Accepts, Sha512, Md5
  <2> QED BY <2>7, <2>8, <2>9 DEF UsersInv, RowsKeep
<1> QED BY <1>1, <1>2 DEF Upgrade

\* user_register: a new account has a name that nobody had.
LEMMA RegisterKeeps ==
    ASSUME UsersInv, NEW name \in Texts, NEW password \in Texts, NEW result,
           Register(name, password, result)
    PROVE  /\ UsersInv' /\ RowsKeep
           /\ result = "registered" =>
                 /\ name # <<>> /\ password # <<>>
                 /\ users'[Len(users')].name = name
                 /\ users'[Len(users')].password = password
<1>1. CASE UNCHANGED users /\ result # "registered"
  BY <1>1 DEF UsersInv, PasswordsStand, RowsKeep
<1>2. CASE name # <<>> /\ password # <<>> /\ Len(users) < MaxUsers /\ Insert(name, password)
  <2> DEFINE row == Row([name |-> name, password |-> password], Sha512(password))
             n == Len(users) + 1
  <2>1. row \in UserRows /\ row.name = name /\ row.password = password
        /\ row.hash = Sha512(password)
    BY DEF Row, UserRows, Sha512
  <2>2. /\ users \in Seq(UserRows) /\ Len(users) \in Nat /\ users' = Append(users, row)
        /\ DOMAIN users = 1 .. Len(users)
    BY <1>2, UserFacts DEF UsersInv, Insert
  <2>3. \A i \in DOMAIN users : users[i].name # name
    BY <1>2, <2>2, IdFacts DEF Insert
  <2> HIDE DEF row
  <2>4. /\ users' \in Seq(UserRows) /\ Len(users') = n /\ users'[n] = row
        /\ \A i \in 1 .. Len(users) : users'[i] = users[i]
    BY <2>1, <2>2, AppendProperties
  <2>5. DOMAIN users' = DOMAIN users \cup {n} /\ n \notin DOMAIN users
    BY <2>2, <2>4, LenProperties
  <2>6. n <= MaxUsers
    BY <1>2, <2>2, AccountBounds
  <2> HIDE DEF n
  <2>7. PasswordsStand'
    <3>1. ASSUME NEW i \in DOMAIN users'
          PROVE  Accepts(users'[i].hash, users'[i].password)
      <4>1. Accepts(Sha512(password), password)
        BY DEF Accepts, Sha512
      <4>2. CASE i \in DOMAIN users
        BY <2>2, <2>4, <4>2 DEF UsersInv, PasswordsStand
      <4> QED BY <2>1, <2>4, <2>5, <4>1, <4>2
    <3>2. ASSUME NEW i \in DOMAIN users', NEW j \in DOMAIN users',
                 users'[j].name = users'[i].name
          PROVE  j = i
      BY <2>1, <2>2, <2>3, <2>4, <2>5, <3>2 DEF UsersInv, PasswordsStand
    <3> QED BY <3>1, <3>2 DEF PasswordsStand, Accepts, Sha512, Md5
  <2> QED BY <1>2, <2>1, <2>2, <2>4, <2>5, <2>6, <2>7 DEF UsersInv, RowsKeep
<1> QED BY <1>1, <1>2 DEF Register

LEMMA UsersStart == AccountsInit => UsersInv
<1> SUFFICES ASSUME AccountsInit PROVE UsersInv
  OBVIOUS
<1>1. /\ OldUsers \in Seq([name : Texts, password : Texts]) /\ Len(OldUsers) <= MaxUsers
      /\ users = [i \in DOMAIN OldUsers |-> Row(OldUsers[i], Md5(OldUsers[i].password))]
  BY OldUserAssumption DEF AccountsInit
<1>2. DOMAIN OldUsers = 1 .. Len(OldUsers) /\ Len(OldUsers) \in Nat
  BY <1>1, LenProperties
<1>3. \A i \in DOMAIN OldUsers : OldUsers[i] \in [name : Texts, password : Texts]
  BY <1>1, <1>2, ElementOfSeq
<1>4. \A i \in DOMAIN OldUsers :
         /\ users[i] \in UserRows /\ users[i].name = OldUsers[i].name
         /\ Accepts(users[i].hash, users[i].password)
  BY <1>1, <1>3 DEF Row, UserRows, Md5, Accepts
<1>5. users \in Seq(UserRows) /\ Len(users) = Len(OldUsers) /\ DOMAIN users = DOMAIN OldUsers
  <2>1. DOMAIN users = DOMAIN OldUsers /\ users \in [1 .. Len(OldUsers) -> UserRows]
    BY <1>1, <1>2, <1>4
  <2>2. users \in Seq(UserRows)
    BY <1>2, <2>1, SeqDef
  <2> QED BY <1>2, <2>1, <2>2, LenProperties
<1>6. PasswordsStand
  BY <1>4, <1>5, OldUserAssumption DEF PasswordsStand
<1> QED BY <1>1, <1>5, <1>6 DEF UsersInv

-----------------------------------------------------------------------------
(* The invariant of the requests.                                            *)

\* The cookies, pages and senders have tokens of sessions that were made.
TokensInv ==
    /\ jar \in [Browsers -> {0} \cup DOMAIN made]
    /\ shown \in [Browsers -> {0} \cup DOMAIN made]
    /\ left \in [Browsers -> SUBSET DOMAIN made]
    /\ sender.browser \in Browsers \cup {"none"}
    /\ sender.browser = "none" => sender.opened = 0
    /\ {sender.token, sender.opened} \subseteq {0} \cup DOMAIN made
    /\ sender.login \in [name : Texts, password : Texts]

\* No browser has the cookie of a session that another has, in a page or in a
\* form that it has posted.
Apart ==
    \A b, c \in Browsers : b # c /\ jar[b] # 0 =>
        /\ jar[b] \notin {jar[c], shown[c]}
        /\ sender.browser = c => jar[b] # sender.opened

\* The session of a page or of a form is that of the cookie and alive, if its
\* browser has not left it.
Kept ==
    \A b \in Browsers :
        /\ shown[b] \notin left[b] \cup {0} => shown[b] = jar[b] /\ shown[b] \in sessions
        /\ sender.browser = b /\ sender.opened \notin left[b] \cup {0} =>
              sender.opened = sender.token /\ sender.opened \in sessions

\* A form brings the csrf token of its page.
CsrfPosted ==
    \A i \in DOMAIN posted :
        posted[i].name = "csrf" => posted[i].value = CsrfText(sender.opened)

BrowsersInv == Apart /\ Kept /\ CsrfPosted

\* The last call has what the sender's token or login gives, or a fault.
CallerInv ==
    /\ who.user \in {0} \cup DOMAIN users /\ who.session \in {0} \cup DOMAIN made
    /\ who.called =>
        /\ Ended /\ outcome.kind = "coming"
        /\ who.session # 0 => who.session = sender.token /\ who.user = made[who.session]
        /\ who.user # 0 /\ who.session = 0 =>
              /\ users[who.user].name = sender.login.name
              /\ users[who.user].password = sender.login.password
        /\ who.user = 0 /\ ~who.fail => who.hit
        /\ sender.token \in sessions /\ ~who.hit =>
              who.session = sender.token /\ (who.fail => TooLong)

OutcomeInv ==
    /\ outcome.kind \in Kinds /\ outcome.user \in {0} \cup DOMAIN users
    /\ RegistersWhatWasPosted /\ FiledUnderSender /\ PagesKeepWorking

PostsInv ==
    /\ FormInv /\ AccountsTypeOK /\ PasswordsStand
    /\ TokensInv /\ BrowsersInv /\ CallerInv /\ OutcomeInv

LEMMA NextCases ==
    ASSUME [Next]_vars
    PROVE  \/ \E b \in Browsers : Open(b)
           \/ \E b \in Browsers : Logout(b)
           \/ \E page \in Pages : Post(page)
           \/ TakePiece \/ LastCall \/ Close
           \/ HandleSubmit \/ HandleBookmark \/ HandleRegister \/ HandleLogin \/ HandleAdmin
           \/ UNCHANGED vars
BY Zenon DEF Next

\* Whatever is posted is a form.
LEMMA FilledTyped ==
    ASSUME NEW form \in Seq(Fields), NEW token \in Nat
    PROVE  Filled(form, CsrfText(token)) \in Seq(Fields)
<1> DEFINE csrf == CsrfText(token)
<1>1. csrf \in Seq(Nat)
  <2>1. Limit["csrf"] \in Nat
    BY LimitAssumption DEF Placed
  <2>2. [i \in 1 .. Limit["csrf"] |-> token] \in Seq(Nat)
    BY <2>1, SeqDef
  <2> QED BY <2>2, EmptySeq DEF CsrfText
<1> HIDE DEF csrf
<1>2. DOMAIN form = 1 .. Len(form) /\ Len(form) \in Nat
  BY LenProperties
<1>3. \A i \in DOMAIN form : form[i] \in Fields
  BY <1>2, ElementOfSeq
<1>4. \A i \in DOMAIN form : [form[i] EXCEPT !.value = csrf] \in Fields
  BY <1>1, <1>3 DEF Fields
<1>5. Filled(form, csrf) \in [1 .. Len(form) -> Fields]
  BY <1>2, <1>3, <1>4 DEF Filled
<1> QED BY <1>2, <1>5, SeqDef DEF csrf

\* What a browser posts.
LEMMA PostFacts ==
    ASSUME TokensInv, AccountsTypeOK, NEW page \in Pages, Post(page)
    PROVE  \E b \in Browsers, login \in [name : Texts, password : Texts], form \in Forms[page] :
              /\ NewForm(Filled(form, CsrfText(shown[b])))
              /\ form \in Seq(Fields) /\ shown[b] \in Nat
              /\ sender'.browser = b /\ sender'.token = jar[b] /\ sender'.opened = shown[b]
              /\ sender'.login = login
<1>1. PICK b \in Browsers : PostFrom(page, b)
  BY DEF Post
<1>2. PICK form \in Forms[page] : NewForm(Filled(form, CsrfText(shown[b])))
  BY <1>1 DEF PostFrom
<1>3. form \in Seq(Fields)
  BY <1>2, FormAssumption
<1>4. shown[b] \in Nat
  <2>1. DOMAIN made = 1 .. Len(made)
    BY LenProperties DEF AccountsTypeOK
  <2> QED BY <2>1 DEF TokensInv
<1>5. PICK login \in Logins[page] \cup {NoLogin}, origin \in BOOLEAN :
         sender' = [page |-> page, browser |-> b, token |-> jar[b], opened |-> shown[b],
                    login |-> login, origin |-> origin]
  BY <1>1 DEF PostFrom
<1>6. login \in [name : Texts, password : Texts]
  <2>1. Logins[page] \subseteq [name : Texts, password : Texts]
    BY LoginAssumption
  <2>2. NoLogin \in [name : Texts, password : Texts]
    BY EmptySeq DEF NoLogin, Texts
  <2> QED BY <1>5, <2>1, <2>2
<1> QED BY <1>2, <1>3, <1>4, <1>5, <1>6

LEMMA FormStep == PostsInv /\ [Next]_vars => FormInv'
<1> SUFFICES ASSUME PostsInv, [Next]_vars PROVE FormInv'
  OBVIOUS
<1>1. FormInv /\ TokensInv /\ AccountsTypeOK
  BY DEF PostsInv
<1>2. CASE \E page \in Pages : Post(page)
  <2>1. PICK page \in Pages : Post(page)
    BY <1>2
  <2>2. PICK token \in Nat, form \in Seq(Fields) : NewForm(Filled(form, CsrfText(token)))
    BY <1>1, <2>1, PostFacts
  <2>3. Filled(form, CsrfText(token)) \in Seq(Fields)
    BY FilledTyped
  <2> QED BY <2>2, <2>3, NewFormInv
<1>3. CASE TakePiece
  BY <1>1, <1>3, PieceKeeps DEF TakePiece
<1>4. CASE Close
  <2>1. <<>> \in Seq(Fields)
    BY EmptySeq
  <2> QED BY <1>4, <2>1, NewFormInv DEF Close
<1>5. UNCHANGED formVars => FormInv'
  BY <1>1, FormStays
<1>6. \A b \in Browsers : Open(b) \/ Logout(b) => UNCHANGED formVars
  BY DEF Open, Logout
<1>7. LastCall \/ UNCHANGED vars => UNCHANGED formVars
  BY DEF LastCall, vars
<1>8. HandleSubmit \/ HandleBookmark \/ HandleRegister \/ HandleLogin \/ HandleAdmin
      => UNCHANGED formVars
  BY DEF HandleSubmit, HandleBookmark, HandleRegister, HandleLogin, HandleAdmin, Answer
<1> QED BY <1>2, <1>3, <1>4, <1>5, <1>6, <1>7, <1>8, NextCases

\* The last call looks up the session or the password.
LEMMA AuthenticateFacts ==
    ASSUME UsersInv, Authenticate
    PROVE  UsersInv' /\ RowsKeep
<1>1. CASE UNCHANGED users
  BY <1>1 DEF UsersInv, PasswordsStand, RowsKeep
<1>2. CASE Upgrade(sender.login.name, sender.login.password)
  BY <1>2, UpgradeKeeps
<1> QED BY <1>1, <1>2 DEF Authenticate, ValidAuth

LEMMA UsersStep == PostsInv /\ [Next]_vars => UsersInv' /\ RowsKeep
<1> SUFFICES ASSUME PostsInv, [Next]_vars PROVE UsersInv' /\ RowsKeep
  OBVIOUS
<1>1. UsersInv
  BY DEF PostsInv, AccountsTypeOK, UsersInv
<1>2. UNCHANGED users => UsersInv' /\ RowsKeep
  BY <1>1 DEF UsersInv, PasswordsStand, RowsKeep
<1>3. \A b \in Browsers : Open(b) \/ Logout(b) => UNCHANGED users
  BY DEF Open, Logout, accountVars
<1>4. \A page \in Pages : Post(page) => UNCHANGED users
  BY DEF Post, PostFrom, accountVars
<1>5. TakePiece => UsersInv' /\ RowsKeep
  BY <1>1, UpgradeKeeps DEF TakePiece
<1>6. LastCall => UsersInv' /\ RowsKeep
  BY <1>1, AuthenticateFacts DEF LastCall
<1>7. Close \/ UNCHANGED vars => UNCHANGED users
  BY DEF Close, vars, accountVars
<1>8. HandleSubmit \/ HandleBookmark \/ HandleAdmin => UNCHANGED users
  BY DEF HandleSubmit, HandleBookmark, HandleAdmin, NoTable, accountVars
<1>9. HandleRegister => UsersInv' /\ RowsKeep
  <2>1. text["username"] \in Texts /\ text["password"] \in Texts
    BY DEF PostsInv, FormInv, FormTypeOK, Placed, Texts
  <2> QED BY <1>1, <2>1, RegisterKeeps DEF HandleRegister
<1>10. HandleLogin => UsersInv' /\ RowsKeep
  BY <1>1, <1>2, UpgradeKeeps DEF HandleLogin, accountVars
<1> QED BY <1>2, <1>3, <1>4, <1>5, <1>6, <1>7, <1>8, <1>9, <1>10, NextCases

\* A session keeps its user.
MadeKeep ==
    /\ DOMAIN made \subseteq DOMAIN made'
    /\ \A t \in DOMAIN made : made'[t] = made[t]

LEMMA MadeFacts ==
    ASSUME AccountsTypeOK
    PROVE  /\ DOMAIN made = 1 .. Len(made) /\ Len(made) \in Nat /\ 0 \notin DOMAIN made
           /\ {0} \cup DOMAIN made \subseteq Tokens
           /\ \A t \in DOMAIN made : made[t] \in DOMAIN users /\ made[t] # 0
<1>1. made \in Seq(DOMAIN users) /\ Len(made) <= MaxSessions
  BY DEF AccountsTypeOK
<1>2. DOMAIN made = 1 .. Len(made) /\ Len(made) \in Nat
  BY <1>1, LenProperties
<1>3. \A t \in DOMAIN made : made[t] \in DOMAIN users
  BY <1>1, <1>2, ElementOfSeq
<1>4. 0 \notin DOMAIN users
  BY UserFacts DEF AccountsTypeOK
<1>5. \A n \in Nat : n <= MaxSessions => {0} \cup 1 .. n \subseteq 0 .. MaxSessions /\ 0 \notin 1 .. n
  BY AccountBounds
<1> QED BY <1>1, <1>2, <1>3, <1>4, <1>5 DEF Tokens

\* session_create: a new token, of a session that is alive.
LEMMA SessionCreateFacts ==
    ASSUME AccountsTypeOK, NEW user \in DOMAIN users, NEW token, SessionCreate(user, token)
    PROVE  /\ made' \in Seq(DOMAIN users) /\ Len(made') <= MaxSessions
           /\ sessions' \subseteq DOMAIN made'
           /\ MadeKeep
           /\ token \in {0} \cup DOMAIN made'
           /\ DOMAIN made' \ sessions' \subseteq DOMAIN made \ sessions
<1>1. /\ made \in Seq(DOMAIN users) /\ Len(made) <= MaxSessions
      /\ sessions \subseteq DOMAIN made
  BY DEF AccountsTypeOK
<1>2. CASE token = 0 /\ UNCHANGED <<made, sessions>>
  BY <1>1, <1>2 DEF MadeKeep
<1>3. CASE /\ Len(made) < MaxSessions /\ token = FreshToken
           /\ made' = Append(made, user) /\ sessions' = sessions \cup {token}
  <2>1. Len(made) \in Nat /\ MaxSessions \in Nat
    BY <1>1, LenProperties, AccountBounds
  <2>2. token = Len(made) + 1
    BY <1>3 DEF FreshToken
  <2>3. /\ made' \in Seq(DOMAIN users) /\ Len(made') = Len(made) + 1
        /\ \A t \in 1 .. Len(made) : made'[t] = made[t]
    BY <1>1, <1>3, AppendProperties
  <2>4. DOMAIN made = 1 .. Len(made) /\ DOMAIN made' = 1 .. Len(made')
    BY <1>1, <2>3, LenProperties
  <2>5. 1 .. Len(made) + 1 = 1 .. Len(made) \cup {Len(made) + 1}
    BY <2>1
  <2>6. DOMAIN made' = DOMAIN made \cup {token}
    BY <2>2, <2>3, <2>4, <2>5
  <2>7. Len(made') <= MaxSessions
    BY <1>3, <2>1, <2>3
  <2> QED BY <1>1, <1>3, <2>3, <2>4, <2>6, <2>7 DEF MadeKeep
<1> QED BY <1>2, <1>3 DEF SessionCreate

LEMMA AccountsStep == PostsInv /\ [Next]_vars => AccountsTypeOK' /\ MadeKeep
<1> SUFFICES ASSUME PostsInv, [Next]_vars PROVE AccountsTypeOK' /\ MadeKeep
  OBVIOUS
<1>1. AccountsTypeOK /\ UsersInv
  BY DEF PostsInv, AccountsTypeOK, UsersInv
<1>2. UsersInv' /\ RowsKeep
  BY UsersStep
<1>3. faults' \in 0 .. MaxFaults
  <2>1. UNCHANGED faults \/ Fault
    <3>1. \A b \in Browsers : Open(b) \/ Logout(b) => UNCHANGED faults \/ Fault
      BY DEF Open, Logout, SessionDestroy, accountVars
    <3>2. \A page \in Pages : Post(page) => UNCHANGED faults
      BY DEF Post, PostFrom, accountVars
    <3>3. TakePiece \/ Close \/ UNCHANGED vars => UNCHANGED faults
      BY DEF TakePiece, Close, vars, accountVars
    <3>4. LastCall => UNCHANGED faults \/ Fault
      BY DEF LastCall, Authenticate, ValidAuth
    <3>5. HandleSubmit \/ HandleBookmark \/ HandleAdmin => UNCHANGED faults
      BY DEF HandleSubmit, HandleBookmark, HandleAdmin, NoTable, accountVars
    <3>6. HandleRegister => UNCHANGED faults \/ Fault
      BY DEF HandleRegister, Register
    <3>7. HandleLogin => UNCHANGED faults \/ Fault
      BY DEF HandleLogin, SessionCreate, accountVars
    <3> QED BY <3>1, <3>2, <3>3, <3>4, <3>5, <3>6, <3>7, NextCases
  <2>2. faults \in 0 .. MaxFaults
    BY <1>1 DEF AccountsTypeOK
  <2> QED BY <2>1, <2>2, AccountBounds DEF Fault
<1>4. /\ made' \in Seq(DOMAIN users) /\ Len(made') <= MaxSessions
      /\ sessions' \subseteq DOMAIN made' /\ MadeKeep
  <2>1. UNCHANGED made /\ sessions' \subseteq sessions =>
        /\ made' \in Seq(DOMAIN users) /\ Len(made') <= MaxSessions
        /\ sessions' \subseteq DOMAIN made' /\ MadeKeep
    BY <1>1 DEF AccountsTypeOK, MadeKeep
  <2>2. \A b \in Browsers : Open(b) \/ Logout(b) => UNCHANGED made /\ sessions' \subseteq sessions
    BY DEF Open, Logout, SessionDestroy, accountVars
  <2>3. \A page \in Pages : Post(page) => UNCHANGED made /\ sessions' \subseteq sessions
    BY DEF Post, PostFrom, accountVars
  <2>4. TakePiece \/ LastCall \/ Close \/ UNCHANGED vars
        => UNCHANGED made /\ sessions' \subseteq sessions
    BY DEF TakePiece, LastCall, Close, vars, accountVars
  <2>5. HandleSubmit \/ HandleBookmark \/ HandleRegister \/ HandleAdmin
        => UNCHANGED made /\ sessions' \subseteq sessions
    BY DEF HandleSubmit, HandleBookmark, HandleRegister, HandleAdmin, NoTable, accountVars
  <2>6. CASE HandleLogin
    <3>1. CASE UNCHANGED accountVars
      BY <2>1, <3>1 DEF accountVars
    <3>2. CASE Valid(text["username"], text["password"])
      <4>1. IdOf(text["username"]) \in DOMAIN users
        BY <1>1, <3>2, ValidFacts
      <4>2. \E token \in Tokens : SessionCreate(IdOf(text["username"]), token)
        BY <2>6, <3>2 DEF HandleLogin
      <4> QED BY <1>1, <4>1, <4>2, SessionCreateFacts
    <3> QED BY <2>6, <3>1, <3>2 DEF HandleLogin
  <2> QED BY <2>1, <2>2, <2>3, <2>4, <2>5, <2>6, NextCases
<1>5. made' \in Seq(DOMAIN users')
  BY <1>2, <1>4, SeqMonotonic DEF RowsKeep
<1> QED BY <1>2, <1>3, <1>4, <1>5 DEF AccountsTypeOK, UsersInv

\* Cookies, pages and forms have sessions that were made.
LEMMA TokensStep == PostsInv /\ [Next]_vars => TokensInv'
<1> SUFFICES ASSUME PostsInv, [Next]_vars PROVE TokensInv'
  OBVIOUS
<1>1. AccountsTypeOK /\ UsersInv /\ TokensInv
  BY DEF PostsInv, AccountsTypeOK, UsersInv
<1>2. MadeKeep
  BY AccountsStep
<1>3. UNCHANGED <<made, jar, shown, left, sender>> => TokensInv'
  BY <1>1 DEF TokensInv
<1>4. CASE \E b \in Browsers : Open(b)
  BY <1>1, <1>4 DEF Open, accountVars, TokensInv
<1>5. CASE \E b \in Browsers : Logout(b)
  <2>1. PICK b \in Browsers : Logout(b)
    BY <1>5
  <2>2. UNCHANGED <<made, shown, sender>> /\ jar[b] \in DOMAIN made
    BY <1>1, <2>1 DEF Logout, SessionDestroy, TokensInv
  <2>3. jar' \in [Browsers -> {0} \cup DOMAIN made] /\ left' \in [Browsers -> SUBSET DOMAIN made]
    BY <1>1, <2>1, <2>2 DEF Logout, TokensInv
  <2> QED BY <1>1, <2>2, <2>3 DEF TokensInv
<1>6. CASE \E page \in Pages : Post(page)
  <2>1. UNCHANGED <<made, jar, shown, left>>
    BY <1>6 DEF Post, PostFrom, accountVars
  <2>2. PICK page \in Pages : Post(page)
    BY <1>6
  <2>3. PICK b \in Browsers, login \in [name : Texts, password : Texts] :
           /\ sender'.browser = b /\ sender'.token = jar[b] /\ sender'.opened = shown[b]
           /\ sender'.login = login
    BY <1>1, <2>2, PostFacts
  <2>4. jar[b] \in {0} \cup DOMAIN made /\ shown[b] \in {0} \cup DOMAIN made
    BY <1>1 DEF TokensInv
  <2> QED BY <1>1, <2>1, <2>3, <2>4, NobodyAssumption DEF TokensInv
<1>7. TakePiece \/ LastCall \/ UNCHANGED vars =>
      UNCHANGED <<made, jar, shown, left, sender>>
  BY DEF TakePiece, LastCall, vars, accountVars
<1>8. CASE Close
  <2>1. UNCHANGED <<made, jar, shown, left>> /\ sender' = NoSender
    BY <1>8 DEF Close, accountVars
  <2>2. /\ NoSender.token = 0 /\ NoSender.opened = 0 /\ NoSender.browser = "none"
        /\ NoSender.login \in [name : Texts, password : Texts]
    BY EmptySeq DEF NoSender, NoLogin, Texts
  <2> QED BY <1>1, <2>1, <2>2 DEF TokensInv
<1>9. HandleSubmit \/ HandleBookmark \/ HandleRegister \/ HandleAdmin =>
      UNCHANGED <<made, jar, shown, left, sender>>
  BY DEF HandleSubmit, HandleBookmark, HandleRegister, HandleAdmin, Answer, NoTable, accountVars
<1>10. CASE HandleLogin
  <2>1. UNCHANGED <<shown, sender>>
    BY <1>10 DEF HandleLogin, Answer
  <2>2. CASE UNCHANGED accountVars /\ UNCHANGED <<jar, left>>
    BY <1>3, <2>1, <2>2 DEF accountVars
  <2>3. CASE Valid(text["username"], text["password"])
    <3>1. PICK token \in Tokens :
             /\ SessionCreate(IdOf(text["username"]), token)
             /\ UNCHANGED <<jar, left>> \/ NewCookie(token)
      BY <1>10, <2>3 DEF HandleLogin
    <3>2. token \in {0} \cup DOMAIN made'
      BY <1>1, <2>3, <3>1, ValidFacts, SessionCreateFacts
    <3>3. /\ jar' \in [Browsers -> {0} \cup DOMAIN made']
          /\ left' \in [Browsers -> SUBSET DOMAIN made']
      <4>1. CASE UNCHANGED <<jar, left>>
        BY <1>1, <1>2, <4>1 DEF TokensInv, MadeKeep
      <4>2. CASE \E b \in Browsers :
                    /\ jar' = [jar EXCEPT ![b] = token]
                    /\ left' = [left EXCEPT ![b] = left[b] \cup ({jar[b]} \ {0})]
        <5>1. PICK b \in Browsers :
                    /\ jar' = [jar EXCEPT ![b] = token]
                    /\ left' = [left EXCEPT ![b] = left[b] \cup ({jar[b]} \ {0})]
          BY <4>2
        <5>2. left[b] \cup ({jar[b]} \ {0}) \subseteq DOMAIN made'
          BY <1>1, <1>2 DEF TokensInv, MadeKeep
        <5> QED BY <1>1, <1>2, <3>2, <5>1, <5>2 DEF TokensInv, MadeKeep
      <4> QED BY <3>1, <4>1, <4>2 DEF NewCookie
    <3>4. shown' \in [Browsers -> {0} \cup DOMAIN made']
      BY <1>1, <1>2, <2>1 DEF TokensInv, MadeKeep
    <3> QED BY <1>1, <1>2, <2>1, <3>3, <3>4 DEF TokensInv, MadeKeep
  <2> QED BY <1>10, <2>2, <2>3 DEF HandleLogin
<1> QED BY <1>3, <1>4, <1>5, <1>6, <1>7, <1>8, <1>9, <1>10, NextCases

\* A login brings the cookie of a new session.
LEMMA LoginApart ==
    ASSUME AccountsTypeOK, TokensInv, Apart, Kept, NEW user \in DOMAIN users, NEW token \in Tokens,
           SessionCreate(user, token), token # 0, NEW b \in Browsers, sender.browser = b,
           UNCHANGED <<shown, sender>>,
           jar' = [jar EXCEPT ![b] = token],
           left' = [left EXCEPT ![b] = left[b] \cup ({jar[b]} \ {0})]
    PROVE  Apart' /\ Kept'
<1>1. token \notin {0} \cup DOMAIN made /\ sessions \subseteq sessions'
  <2>1. DOMAIN made = 1 .. Len(made) /\ Len(made) \in Nat
    BY MadeFacts
  <2>2. token = Len(made) + 1 /\ sessions' = sessions \cup {token}
    BY DEF SessionCreate, FreshToken
  <2> QED BY <2>1, <2>2
<1>2. /\ \A c \in Browsers : {jar[c], shown[c], sender.opened} \subseteq {0} \cup DOMAIN made
      /\ \A c \in Browsers : jar'[c] = (IF c = b THEN token ELSE jar[c])
      /\ \A c \in Browsers : left'[c] = (IF c = b THEN left[b] \cup ({jar[b]} \ {0}) ELSE left[c])
  BY DEF TokensInv
<1>3. Apart'
  <2> SUFFICES ASSUME NEW c \in Browsers, NEW d \in Browsers, c # d, jar'[c] # 0
               PROVE  /\ jar'[c] # jar'[d] /\ jar'[c] # shown[d]
                      /\ sender.browser = d => jar'[c] # sender.opened
    BY DEF Apart
  <2>1. CASE c = b
    BY <1>1, <1>2, <2>1
  <2>2. CASE c # b
    BY <1>1, <1>2, <2>2 DEF Apart
  <2> QED BY <2>1, <2>2
<1>4. Kept'
  BY <1>1, <1>2 DEF Kept
<1> QED BY <1>3, <1>4

\* What browsers hold is theirs and lives until they leave it.
LEMMA BrowsersStep == PostsInv /\ [Next]_vars => BrowsersInv'
<1> SUFFICES ASSUME PostsInv, [Next]_vars PROVE BrowsersInv'
  OBVIOUS
<1>1. AccountsTypeOK /\ UsersInv /\ TokensInv /\ Apart /\ Kept /\ CsrfPosted
  BY DEF PostsInv, AccountsTypeOK, UsersInv, BrowsersInv
<1>2. UNCHANGED <<sessions, jar, shown, left, sender>> => Apart' /\ Kept'
  BY <1>1 DEF Apart, Kept
<1>3. posted' = posted /\ sender' = sender => CsrfPosted'
  BY <1>1 DEF CsrfPosted, CsrfText
<1>4. CASE \E b \in Browsers : Open(b)
  <2>1. PICK b \in Browsers : Open(b)
    BY <1>4
  <2>2. /\ UNCHANGED <<sessions, jar, left, sender, posted>>
        /\ shown' = [shown EXCEPT ![b] = IF jar[b] \in sessions THEN jar[b] ELSE 0]
    BY <2>1 DEF Open, accountVars, formVars, SessionLookup
  <2>3. \A c \in Browsers : shown'[c] = IF c # b THEN shown[c]
                                         ELSE IF jar[b] \in sessions THEN jar[b] ELSE 0
    BY <1>1, <2>2 DEF TokensInv
  <2>4. Apart'
    BY <1>1, <2>2, <2>3 DEF Apart
  <2>5. Kept'
    BY <1>1, <2>2, <2>3 DEF Kept
  <2> QED BY <1>3, <2>2, <2>4, <2>5 DEF BrowsersInv
<1>5. CASE \E b \in Browsers : Logout(b)
  <2>1. PICK b \in Browsers : Logout(b)
    BY <1>5
  <2>2. /\ jar[b] # 0 /\ UNCHANGED <<shown, sender, posted>>
        /\ sessions' = sessions \ {jar[b]} \/ sessions' = sessions
        /\ left' = [left EXCEPT ![b] = left[b] \cup {jar[b]}]
        /\ jar' \in {jar, [jar EXCEPT ![b] = 0]}
    BY <2>1 DEF Logout, SessionDestroy, formVars
  <2>3. /\ \A c \in Browsers : jar'[c] = jar[c] \/ (c = b /\ jar'[c] = 0)
        /\ \A c \in Browsers : left'[c] = (IF c = b THEN left[b] \cup {jar[b]} ELSE left[c])
    BY <1>1, <2>2 DEF TokensInv
  <2>4. Apart'
    BY <1>1, <2>2, <2>3 DEF Apart
  <2>5. Kept'
    <3> SUFFICES ASSUME NEW c \in Browsers
                 PROVE  /\ shown[c] \notin left'[c] \cup {0} =>
                              shown[c] = jar'[c] /\ shown[c] \in sessions'
                        /\ sender.browser = c /\ sender.opened \notin left'[c] \cup {0} =>
                              sender.opened = sender.token /\ sender.opened \in sessions'
      BY <2>2 DEF Kept
    <3>1. CASE c = b
      BY <1>1, <2>2, <2>3, <3>1 DEF Kept
    <3>2. CASE c # b
      BY <1>1, <2>2, <2>3, <3>2 DEF Kept, Apart
    <3> QED BY <3>1, <3>2
  <2> QED BY <1>3, <2>2, <2>4, <2>5 DEF BrowsersInv
<1>6. CASE \E page \in Pages : Post(page)
  <2>1. PICK page \in Pages : Post(page)
    BY <1>6
  <2>2. PICK b \in Browsers, form \in Seq(Fields) :
           /\ NewForm(Filled(form, CsrfText(shown[b])))
           /\ sender'.browser = b /\ sender'.token = jar[b] /\ sender'.opened = shown[b]
    BY <1>1, <2>1, PostFacts
  <2>3. UNCHANGED <<sessions, jar, shown, left>>
    BY <2>1 DEF Post, PostFrom, accountVars
  <2>4. Apart' /\ Kept'
    BY <1>1, <2>2, <2>3 DEF Apart, Kept
  <2>5. posted' = Filled(form, CsrfText(sender'.opened))
    BY <2>2, <2>3 DEF NewForm
  <2>6. CsrfPosted'
    <3> DEFINE csrf == CsrfText(sender'.opened)
    <3>1. ASSUME NEW i \in DOMAIN posted', posted'[i].name = "csrf"
          PROVE  posted'[i].value = csrf
      <4>1. /\ i \in DOMAIN form
            /\ posted'[i] = IF form[i].name = "csrf" THEN [form[i] EXCEPT !.value = csrf]
                           ELSE form[i]
        BY <2>5, <3>1 DEF Filled
      <4>2. form[i] \in Fields
        <5>1. DOMAIN form = 1 .. Len(form)
          BY LenProperties
        <5> QED BY <4>1, <5>1, ElementOfSeq
      <4> HIDE DEF csrf
      <4> QED BY <3>1, <4>1, <4>2 DEF Fields
    <3> QED BY <3>1 DEF CsrfPosted, CsrfText
  <2> QED BY <2>4, <2>6 DEF BrowsersInv
<1>7. CASE TakePiece \/ LastCall \/ UNCHANGED vars
  <2>1. UNCHANGED <<sessions, jar, shown, left, sender, posted>>
    BY <1>7 DEF TakePiece, Piece, LastCall, vars, accountVars, formVars
  <2> QED BY <1>2, <1>3, <2>1 DEF BrowsersInv
<1>8. CASE Close
  <2>1. UNCHANGED <<sessions, jar, shown, left>> /\ sender' = NoSender /\ posted' = <<>>
    BY <1>8 DEF Close, NewForm, accountVars
  <2>2. NoSender.browser = "none"
    BY DEF NoSender
  <2>3. Apart' /\ Kept'
    BY <1>1, <2>1, <2>2, NobodyAssumption DEF Apart, Kept
  <2>4. CsrfPosted'
    BY <2>1 DEF CsrfPosted
  <2> QED BY <2>3, <2>4 DEF BrowsersInv
<1>9. CASE HandleSubmit \/ HandleBookmark \/ HandleRegister \/ HandleAdmin
  <2>1. UNCHANGED <<sessions, jar, shown, left, sender, posted>>
    BY <1>9 DEF HandleSubmit, HandleBookmark, HandleRegister, HandleAdmin, Answer, NoTable,
                accountVars, formVars
  <2> QED BY <1>2, <1>3, <2>1 DEF BrowsersInv
<1>10. CASE HandleLogin
  <2>1. UNCHANGED <<shown, sender, posted>>
    BY <1>10 DEF HandleLogin, Answer, formVars
  <2>2. CASE UNCHANGED accountVars /\ UNCHANGED <<jar, left>>
    BY <1>2, <1>3, <2>1, <2>2 DEF accountVars, BrowsersInv
  <2>3. CASE Valid(text["username"], text["password"])
    <3>1. PICK token \in Tokens :
             /\ SessionCreate(IdOf(text["username"]), token)
             /\ UNCHANGED <<jar, left>> \/ (token # 0 /\ NewCookie(token))
      BY <1>10, <2>3 DEF HandleLogin
    <3>2. IdOf(text["username"]) \in DOMAIN users
      BY <1>1, <2>3, ValidFacts
    <3>3. CASE UNCHANGED <<jar, left>>
      <4>1. sessions \subseteq sessions'
        BY <3>1 DEF SessionCreate
      <4>2. Apart' /\ Kept'
        BY <1>1, <2>1, <3>3, <4>1 DEF Apart, Kept
      <4> QED BY <1>3, <2>1, <4>2 DEF BrowsersInv
    <3>4. CASE \E b \in Browsers :
                  /\ token # 0 /\ sender.browser = b
                  /\ jar' = [jar EXCEPT ![b] = token]
                  /\ left' = [left EXCEPT ![b] = left[b] \cup ({jar[b]} \ {0})]
      <4>1. Apart' /\ Kept'
        BY <1>1, <2>1, <3>1, <3>2, <3>4, LoginApart
      <4> QED BY <1>3, <2>1, <4>1 DEF BrowsersInv
    <3> QED BY <3>1, <3>3, <3>4 DEF NewCookie
  <2> QED BY <1>10, <2>2, <2>3 DEF HandleLogin
<1> QED BY <1>4, <1>5, <1>6, <1>7, <1>8, <1>9, <1>10, NextCases

LEMMA CallerStep == PostsInv /\ [Next]_vars => CallerInv'
<1> SUFFICES ASSUME PostsInv, [Next]_vars PROVE CallerInv'
  OBVIOUS
<1>1. AccountsTypeOK /\ UsersInv /\ TokensInv /\ CallerInv
  BY DEF PostsInv, AccountsTypeOK, UsersInv
<1>2. RowsKeep /\ MadeKeep
  BY UsersStep, AccountsStep
<1>3. who' = who /\ ~who.called => CallerInv'
  BY <1>1, <1>2 DEF CallerInv, RowsKeep, MadeKeep
<1>4. who' = NoCall => CallerInv'
  BY DEF CallerInv, NoCall
<1>5. \A b \in Browsers : Open(b) \/ Logout(b) => who' = who /\ ~who.called
  BY DEF Open, Logout, Between
<1>6. \A page \in Pages : Post(page) => who' = who /\ ~who.called
  BY DEF Post, PostFrom, Between
<1>7. TakePiece \/ Close => who' = who /\ ~who.called
  BY DEF TakePiece, Close, Between
<1>8. HandleSubmit \/ HandleBookmark \/ HandleRegister \/ HandleLogin \/ HandleAdmin
      => who' = NoCall
  BY DEF HandleSubmit, HandleBookmark, HandleRegister, HandleLogin, HandleAdmin, Answer
<1>9. CASE UNCHANGED vars
  BY <1>1, <1>9 DEF CallerInv, vars, formVars, accountVars, Ended, TooLong
<1>10. CASE LastCall
  <2> DEFINE t == sender.token
             l == sender.login
             id == IdOf(l.name)
  <2>1. /\ UNCHANGED <<sessions, made, sender, outcome>> /\ Ended' /\ outcome.kind = "coming"
        /\ Authenticate
    BY <1>10 DEF LastCall, Between, Idle, formVars, Ended
  <2>2. 0 \notin DOMAIN made /\ \A x \in DOMAIN made : made[x] \in DOMAIN users /\ made[x] # 0
    BY <1>1, MadeFacts
  <2>3. sessions \subseteq DOMAIN made
    BY <1>1 DEF AccountsTypeOK
  <2>4. CASE /\ t \in sessions
             /\ who' = [user |-> made[t], session |-> t, fail |-> TooLong, called |-> TRUE,
                        hit |-> FALSE]
    <3>1. TooLong' = TooLong
      BY <2>1 DEF TooLong
    <3> QED BY <1>2, <2>1, <2>2, <2>3, <2>4, <3>1 DEF CallerInv, RowsKeep
  <2>5. CASE \E fail \in BOOLEAN :
                who' = [user |-> 0, session |-> 0, fail |-> fail, called |-> TRUE, hit |-> TRUE]
    BY <2>1, <2>5 DEF CallerInv
  <2>6. CASE /\ t \notin sessions
             /\ \E hit \in BOOLEAN :
                  who' = [user |-> 0, session |-> 0, fail |-> TRUE, called |-> TRUE, hit |-> hit]
    BY <2>1, <2>6 DEF CallerInv
  <2>7. CASE /\ Valid(l.name, l.password)
             /\ \E hit \in BOOLEAN :
                  /\ t \notin sessions \/ hit
                  /\ who' = [user |-> id, session |-> 0, fail |-> FALSE, called |-> TRUE, hit |-> hit]
    <3>1. id \in DOMAIN users /\ users[id].name = l.name /\ users[id].password = l.password
      BY <1>1, <2>7, ValidFacts
    <3>2. id # 0
      BY <1>1, <3>1, UserFacts DEF UsersInv
    <3>3. id \in DOMAIN users' /\ users'[id].name = l.name /\ users'[id].password = l.password
      BY <1>2, <3>1 DEF RowsKeep
    <3> HIDE DEF id
    <3> QED BY <2>1, <2>7, <3>2, <3>3 DEF CallerInv
  <2>8. \/ t \in sessions /\ who' = Caller(made[t], t, TooLong, FALSE)
        \/ \E fail \in BOOLEAN : who' = Caller(0, 0, fail, TRUE)
        \/ /\ t \notin sessions /\ \E hit \in BOOLEAN : who' = Caller(0, 0, TRUE, hit)
        \/ /\ Valid(l.name, l.password)
           /\ \E hit \in BOOLEAN : (t \notin sessions \/ hit) /\ who' = Caller(id, 0, FALSE, hit)
    <3>1. SessionLookup(CookieValue) <=> t \in sessions
      BY DEF SessionLookup, CookieValue
    <3>2. ASSUME NEW valid \in BOOLEAN, NEW hit \in BOOLEAN, who' = BasicCaller(valid, hit)
          PROVE  who' = Caller(0, 0, TRUE, hit) \/ (valid /\ who' = Caller(id, 0, FALSE, hit))
      BY <3>2, Zenon DEF BasicCaller
    <3>3. CASE SessionLookup(CookieValue)
      <4>1. CASE who' = Caller(UserOf(CookieValue), CookieValue, TooLong, FALSE)
        BY <3>1, <3>3, <4>1 DEF UserOf, CookieValue
      <4>2. CASE \E valid \in {Valid(l.name, l.password), FALSE} : who' = BasicCaller(valid, TRUE)
        <5>1. CASE who' = BasicCaller(TRUE, TRUE) /\ Valid(l.name, l.password)
          BY <3>2, <5>1
        <5>2. CASE who' = BasicCaller(FALSE, TRUE)
          BY <3>2, <5>2
        <5>3. (Valid(l.name, l.password) = TRUE) \/ (Valid(l.name, l.password) = FALSE)
          BY DEF Valid, Accepts
        <5> QED BY <4>2, <5>1, <5>2, <5>3
      <4> QED BY <2>1, <3>3, <4>1, <4>2, Zenon DEF Authenticate
    <3>4. CASE ~SessionLookup(CookieValue)
      <4>1. CASE who' = Caller(0, 0, FALSE, TRUE)
        BY <4>1
      <4>2. CASE \E valid \in BOOLEAN :
                    /\ ValidAuth(l.name, l.password, valid)
                    /\ who' = BasicCaller(valid, faults' # faults)
        <5>1. PICK valid \in BOOLEAN :
                    /\ ValidAuth(l.name, l.password, valid)
                    /\ who' = BasicCaller(valid, faults' # faults)
          BY <4>2
        <5>2. valid => Valid(l.name, l.password)
          BY <5>1, Zenon DEF ValidAuth
        <5> DEFINE hit == faults' # faults
        <5>3. hit \in BOOLEAN /\ who' = BasicCaller(valid, hit)
          BY <5>1
        <5> HIDE DEF hit
        <5>4. who' = Caller(0, 0, TRUE, hit) \/ (valid /\ who' = Caller(id, 0, FALSE, hit))
          BY <3>2, <5>3
        <5> QED BY <3>1, <3>4, <5>2, <5>3, <5>4
      <4> QED BY <2>1, <3>4, <4>1, <4>2, Zenon DEF Authenticate
    <3> QED BY <3>3, <3>4
  <2> HIDE DEF id
  <2> QED BY <2>4, <2>5, <2>6, <2>7, <2>8 DEF Caller
<1> QED BY <1>3, <1>4, <1>5, <1>6, <1>7, <1>8, <1>9, <1>10, NextCases

\* ahc_echo(): unless a call of the database failed, the session of the page is
\* found if its browser has not left it, and its csrf token is what was sent.
LEMMA PageIsCurrent ==
    ASSUME PostsInv, who.called, ~who.hit, sender.opened # 0,
           sender.opened \notin left[sender.browser], "csrf" \in Arrived, Once("csrf")
    PROVE  CsrfValid /\ (who.fail => TooLong)
<1>1. FormInv /\ FormTypeOK /\ TextsAreSoFar /\ TokensInv /\ Kept /\ CsrfPosted /\ CallerInv
  BY DEF PostsInv, FormInv, BrowsersInv
<1>2. who.session = sender.opened /\ (who.fail => TooLong)
  <2>1. sender.browser \in Browsers
    BY <1>1 DEF TokensInv
  <2>2. sender.opened = sender.token /\ sender.opened \in sessions
    BY <1>1, <2>1 DEF Kept
  <2> QED BY <1>1, <2>2 DEF CallerInv
<1>3. PICK i \in DOMAIN posted : posted[i].name = "csrf" /\ i <= Come
  BY <1>1, FieldFacts
<1>4. posted[i].value = CsrfText(sender.opened)
  BY <1>1, <1>3 DEF CsrfPosted
<1>5. Len(CsrfText(sender.opened)) = Limit["csrf"] /\ Limit["csrf"] \in Nat
  <2>1. Limit["csrf"] \in Nat
    BY LimitAssumption DEF Placed
  <2>2. CsrfText(sender.opened) = [j \in 1 .. Limit["csrf"] |-> sender.opened]
    BY DEF CsrfText
  <2>3. CsrfText(sender.opened) \in Seq({sender.opened})
    BY <2>1, <2>2, SeqDef
  <2>4. DOMAIN CsrfText(sender.opened) = 1 .. Limit["csrf"]
    BY <2>2
  <2> QED BY <2>1, <2>3, <2>4, LenProperties
<1>6. Fitting(i)
  BY <1>3, <1>4, <1>5 DEF Fitting
<1>7. text["csrf"] = SoFar(i)
  BY <1>1, <1>3, <1>6 DEF TextsAreSoFar, Placed
<1>8. text["csrf"] = CsrfText(sender.opened)
  BY <1>3, <1>4, <1>7 DEF SoFar
<1> QED BY <1>2, <1>8 DEF CsrfValid

\* A submission that is not anonymous was not posted as one, but for a cut.
LEMMA NamedIsPosted ==
    ASSUME FormInv, ~flag["is_anonymous"], Once("is_anonymous"), "is_anonymous" \in Arrived \ cut
    PROVE  Given("is_anonymous") # On
<1>1. FormTypeOK /\ FlagsAreSoFar
  BY DEF FormInv
<1>2. PICK i \in DOMAIN posted : posted[i].name = "is_anonymous" /\ i <= Come
  BY <1>1, FieldFacts
<1>3. flag["is_anonymous"] = (posted[i].value = On)
  BY <1>1, <1>2 DEF FlagsAreSoFar, LastPiecesOf, Flags
<1> QED BY <1>2, <1>3, GivenFacts

\* What a whole form leaves of one of its texts.
LEMMA TextIsGiven ==
    ASSUME FormInv, Ended, NEW f \in Placed, Once(f), text[f] # <<>>
    PROVE  /\ f \in Posted /\ IsPrefix(text[f], Given(f))
           /\ ~refused => text[f] = Given(f)
           /\ \A g \in Placed : Once(g) /\ Before(g, f) => text[g] = Given(g)
<1>1. FormTypeOK /\ TextsAreSoFar /\ Unposted
  BY DEF FormInv
<1>2. f \in Posted
  BY <1>1 DEF Unposted
<1>3. PICK i \in DOMAIN posted : posted[i].name = f
  BY <1>1, <1>2, FieldFacts
<1>4. Given(f) = posted[i].value
  BY <1>3, GivenFacts
<1>5. IsPrefix(text[f], Given(f))
  BY <1>1, <1>3, <1>4 DEF TextsAreSoFar
<1>6. ASSUME ~refused PROVE text[f] = Given(f)
  <2>1. i <= Come
    BY <1>1, <1>6, FieldFacts DEF Ended
  <2> QED BY <1>1, <1>3, <1>4, <1>6, <2>1 DEF TextsAreSoFar, SoFar
<1>7. ASSUME NEW g \in Placed, Once(g), Before(g, f) PROVE text[g] = Given(g)
  <2>1. PICK j \in DOMAIN posted, h \in DOMAIN posted :
           posted[j].name = g /\ posted[h].name = f /\ j < h
    BY <1>7 DEF Before
  <2>2. h = i
    BY <1>3, <2>1 DEF Once
  <2>3. j \in 1 .. i - 1
    <3>1. DOMAIN posted = 1 .. Len(posted) /\ Len(posted) \in Nat
      BY <1>1, LenProperties DEF FormTypeOK
    <3> QED BY <2>1, <2>2, <3>1
  <2>4. text[g] = posted[j].value
    BY <1>1, <1>3, <1>7, <2>1, <2>3 DEF TextsAreSoFar
  <2> QED BY <1>7, <2>1, <2>4, GivenFacts
<1> QED BY <1>2, <1>5, <1>6, <1>7

\* Nothing is claimed of a request that is not answered.
LEMMA NoAnswer ==
    ASSUME outcome'.kind \in Kinds \ {"registered", "submitted", "bookmarked", "csrf", "denied"},
           outcome'.user \in {0} \cup DOMAIN users'
    PROVE  OutcomeInv'
BY DEF OutcomeInv, RegistersWhatWasPosted, FiledUnderSender, PagesKeepWorking

LEMMA OutcomeFields ==
    ASSUME NEW kind, NEW o, o = Outcome(kind)
    PROVE  o.kind = kind /\ o.user = 0 /\ o.hit = who.hit
BY DEF Outcome

LEMMA SubmitKeeps == PostsInv /\ HandleSubmit => OutcomeInv'
<1> SUFFICES ASSUME PostsInv, HandleSubmit PROVE OutcomeInv'
  OBVIOUS
<1>1. /\ AccountsTypeOK /\ CallerInv /\ who.called /\ sender.page = "submit"
      /\ UNCHANGED formVars /\ UNCHANGED <<users, made, sessions, left, sender>>
  BY DEF PostsInv, HandleSubmit, Handling, Answer, NoTable, accountVars
<1>2. PICK o \in SubmitOutcome : outcome' = o
  BY DEF HandleSubmit, Answer
<1>3. posted' = posted /\ rest' = rest /\ text' = text /\ flag' = flag /\ cut' = cut
  BY <1>1 DEF formVars
<1> DEFINE filed == [Outcome("submitted") EXCEPT !.user = Owner, !.id = number["task_pk"]]
<1>4. filed.kind = "submitted" /\ filed.user = Owner /\ filed.hit = who.hit
  BY DEF Outcome
<1>5. \/ o = Outcome("csrf") /\ who.session # 0 /\ ~CsrfValid
      \/ \E kind \in {"both", "empty", "limited", "error"} : o = Outcome(kind)
      \/ o = filed /\ (flag["is_anonymous"] \/ ~who.fail)
      \/ o = Outcome("denied") /\ who.fail
  BY <1>2, Zenon DEF SubmitOutcome
<1> HIDE DEF filed
<1>6. CASE \E kind \in {"both", "empty", "limited", "error"} : o = Outcome(kind)
  <2>1. PICK kind \in {"both", "empty", "limited", "error"} : o = Outcome(kind)
    BY <1>6
  <2>2. outcome'.kind = kind /\ outcome'.user = 0
    BY <1>2, <2>1, OutcomeFields
  <2> QED BY <2>1, <2>2, NoAnswer DEF Kinds
<1>7. CASE o = filed /\ (flag["is_anonymous"] \/ ~who.fail)
  <2>1. outcome'.kind = "submitted" /\ outcome'.user = Owner /\ outcome'.hit = who.hit
    BY <1>2, <1>4, <1>7
  <2>2. Owner \in {0} \cup DOMAIN users
    BY <1>1 DEF Owner, CallerInv
  <2>3. FiledUnderSender'
    <3>1. ASSUME Owner # 0
          PROVE  \/ sender.token # 0 /\ made[sender.token] = Owner
                 \/ [name |-> users[Owner].name, password |-> users[Owner].password] = sender.login
      <4>1. Owner = who.user
        BY <3>1 DEF Owner
      <4>2. CASE who.session # 0
        BY <1>1, <4>1, <4>2 DEF CallerInv
      <4>3. CASE who.session = 0
        <5>1. /\ users[Owner].name = sender.login.name
              /\ users[Owner].password = sender.login.password
          BY <1>1, <3>1, <4>1, <4>3 DEF CallerInv
        <5>2. sender.login \in [name : Texts, password : Texts]
          BY DEF PostsInv, TokensInv
        <5>3. sender.login = [name |-> sender.login.name, password |-> sender.login.password]
          BY <5>2
        <5> QED BY <5>1, <5>3
      <4> QED BY <4>2, <4>3
    <3>2. ASSUME Owner = 0 PROVE flag["is_anonymous"] \/ who.hit
      BY <1>1, <1>7, <3>2 DEF Owner, CallerInv
    <3>3. ASSUME Owner # 0, Once("is_anonymous"), "is_anonymous" \in Arrived \ cut
          PROVE  Given("is_anonymous") # On
      BY <3>3, NamedIsPosted DEF Owner, PostsInv
    <3>4. /\ Once("is_anonymous")' = Once("is_anonymous") /\ Arrived' = Arrived
          /\ Given("is_anonymous")' = Given("is_anonymous")
      <4>1. Posted' = Posted
        BY <1>3 DEF Posted
      <4>2. Once("is_anonymous")' = Once("is_anonymous")
        BY <1>3, Zenon DEF Once
      <4>3. Arrived' = Arrived
        BY <1>3 DEF Arrived
      <4>4. Given("is_anonymous")' = Given("is_anonymous")
        BY <1>3, <4>1 DEF Given
      <4> QED BY <4>2, <4>3, <4>4
    <3> QED BY <1>1, <1>3, <2>1, <3>1, <3>2, <3>3, <3>4 DEF FiledUnderSender
  <2> QED BY <1>1, <2>1, <2>2, <2>3 DEF OutcomeInv, RegistersWhatWasPosted, PagesKeepWorking, Kinds
<1>8. CASE \/ o = Outcome("csrf") /\ who.session # 0 /\ ~CsrfValid
           \/ o = Outcome("denied") /\ who.fail
  <2>1. outcome'.kind \in {"csrf", "denied"} /\ outcome'.user = 0 /\ outcome'.hit = who.hit
    BY <1>2, <1>8, OutcomeFields
  <2>2. PagesKeepWorking'
    <3> SUFFICES ASSUME ~who.hit, ~TooLong, sender.opened # 0,
                        sender.opened \notin left[sender.browser], "csrf" \in Arrived, Once("csrf")
                 PROVE  FALSE
      BY <1>1, <1>3, <2>1 DEF PagesKeepWorking, Arrived, Once, TooLong
    <3>1. ~who.fail /\ CsrfValid
      BY <1>1, PageIsCurrent
    <3> QED BY <1>8, <3>1
  <2> QED BY <2>1, <2>2 DEF OutcomeInv, RegistersWhatWasPosted, FiledUnderSender, Kinds
<1> QED BY <1>5, <1>6, <1>7, <1>8

LEMMA BookmarkKeeps == PostsInv /\ HandleBookmark => OutcomeInv'
<1> SUFFICES ASSUME PostsInv, HandleBookmark PROVE OutcomeInv'
  OBVIOUS
<1>1. /\ AccountsTypeOK /\ CallerInv /\ who.called /\ sender.page = "bookmark"
      /\ UNCHANGED formVars /\ UNCHANGED <<users, made, sessions, left, sender>>
  BY DEF PostsInv, HandleBookmark, Handling, Answer, NoTable, accountVars
<1>2. /\ posted' = posted /\ rest' = rest /\ text' = text
  BY <1>1 DEF formVars
<1>3. CASE ~(CsrfValid /\ SameOrigin) /\ outcome' = Outcome("denied")
  <2>1. outcome'.kind = "denied" /\ outcome'.user = 0 /\ outcome'.hit = who.hit
    BY <1>3, OutcomeFields
  <2>2. PagesKeepWorking'
    <3> SUFFICES ASSUME sender.origin, ~who.hit, ~TooLong, sender.opened # 0,
                        sender.opened \notin left[sender.browser], "csrf" \in Arrived, Once("csrf")
                 PROVE  FALSE
      BY <1>1, <1>2, <2>1 DEF PagesKeepWorking, Arrived, Once, TooLong
    <3>1. CsrfValid
      BY <1>1, PageIsCurrent
    <3> QED BY <1>3, <3>1 DEF SameOrigin
  <2> QED BY <2>1, <2>2 DEF OutcomeInv, RegistersWhatWasPosted, FiledUnderSender, Kinds
<1>4. CASE CsrfValid /\ outcome' = [Outcome("bookmarked") EXCEPT !.user = who.user]
  <2>1. outcome'.kind = "bookmarked" /\ outcome'.user = who.user
    BY <1>4 DEF Outcome
  <2>2. /\ who.session # 0 /\ who.session = sender.token /\ who.user = made[sender.token]
        /\ who.session \in DOMAIN made
    BY <1>1, <1>4 DEF CsrfValid, CallerInv
  <2>3. who.user # 0 /\ who.user \in DOMAIN users
    BY <1>1, <2>2, MadeFacts
  <2>4. FiledUnderSender'
    <3>1. outcome'.kind # "submitted"
      BY <2>1
    <3> QED BY <1>1, <2>1, <2>2, <2>3, <3>1 DEF FiledUnderSender
  <2> QED BY <1>1, <2>1, <2>3, <2>4 DEF OutcomeInv, RegistersWhatWasPosted, PagesKeepWorking, Kinds
<1>5. CASE outcome' = Outcome("error")
  <2>1. outcome'.kind = "error" /\ outcome'.user = 0
    BY <1>5, OutcomeFields
  <2> QED BY <2>1, NoAnswer DEF Kinds
<1> QED BY <1>3, <1>4, <1>5 DEF HandleBookmark, Answer

LEMMA RegistrationKeeps == PostsInv /\ HandleRegister => OutcomeInv'
<1> SUFFICES ASSUME PostsInv, HandleRegister PROVE OutcomeInv'
  OBVIOUS
<1> DEFINE name == text["username"]
           password == text["password"]
<1>1. FormInv /\ UsersInv /\ Ended /\ name \in Texts /\ password \in Texts
  BY DEF PostsInv, AccountsTypeOK, UsersInv, FormInv, FormTypeOK, CallerInv, HandleRegister,
         Handling, Placed, Texts
<1>2. PICK result \in {"registered", "taken", "invalid"} :
         Register(name, password, result) /\ Answer(Outcome(result))
  BY DEF HandleRegister
<1>3. outcome'.kind = result /\ outcome'.user = 0
  BY <1>2, OutcomeFields DEF Answer
<1>4. CASE result # "registered"
  <2>1. result \in {"taken", "invalid"}
    BY <1>4
  <2> QED BY <1>3, <2>1, NoAnswer DEF Kinds
<1>5. CASE result = "registered"
  <2>1. /\ name # <<>> /\ password # <<>>
        /\ users'[Len(users')].name = name /\ users'[Len(users')].password = password
    BY <1>1, <1>2, <1>5, RegisterKeeps
  <2>2. posted' = posted /\ refused' = refused
    BY <1>2 DEF Answer, formVars
  <2>3. RegistersWhatWasPosted'
    <3> SUFFICES ASSUME Once("username"), Once("password")
                 PROVE  /\ IsPrefix(name, Given("username"))
                        /\ IsPrefix(password, Given("password"))
                        /\ ~refused => name = Given("username") /\ password = Given("password")
                        /\ Before("username", "password") => name = Given("username")
                        /\ Before("password", "username") => password = Given("password")
      <4>1. /\ Once("username")' = Once("username") /\ Once("password")' = Once("password")
            /\ Before("username", "password")' = Before("username", "password")
            /\ Before("password", "username")' = Before("password", "username")
        BY <2>2, Zenon DEF Once, Before
      <4>2. Posted' = Posted
        BY <2>2 DEF Posted
      <4>3. /\ Given("username")' = Given("username") /\ Given("password")' = Given("password")
        BY <2>2, <4>2 DEF Given
      <4> QED BY <2>1, <2>2, <4>1, <4>3 DEF RegistersWhatWasPosted
    <3>1. "username" \in Placed /\ "password" \in Placed
      BY DEF Placed
    <3>2. /\ IsPrefix(name, Given("username")) /\ (~refused => name = Given("username"))
          /\ Before("password", "username") => password = Given("password")
      BY <1>1, <2>1, <3>1, TextIsGiven
    <3>3. /\ IsPrefix(password, Given("password")) /\ (~refused => password = Given("password"))
          /\ Before("username", "password") => name = Given("username")
      BY <1>1, <2>1, <3>1, TextIsGiven
    <3> QED BY <3>2, <3>3
  <2> QED BY <1>3, <1>5, <2>3 DEF OutcomeInv, FiledUnderSender, PagesKeepWorking, Kinds
<1> QED BY <1>4, <1>5

LEMMA LoginKeeps == PostsInv /\ HandleLogin => OutcomeInv'
<1> SUFFICES ASSUME PostsInv, HandleLogin PROVE OutcomeInv'
  OBVIOUS
<1>1. UsersInv
  BY DEF PostsInv, AccountsTypeOK, UsersInv
<1> DEFINE name == text["username"]
           password == text["password"]
<1>2. CASE \/ outcome' = Outcome("login failed")
           \/ outcome' = [Outcome("login failed") EXCEPT !.hit = TRUE]
  <2>1. outcome'.kind = "login failed" /\ outcome'.user = 0
    <3>1. CASE outcome' = Outcome("login failed")
      BY <3>1 DEF Outcome
    <3>2. CASE outcome' = [Outcome("login failed") EXCEPT !.hit = TRUE]
      BY <3>2 DEF Outcome
    <3> QED BY <1>2, <3>1, <3>2
  <2> QED BY <2>1, NoAnswer DEF Kinds
<1>3. CASE /\ Valid(name, password) /\ Upgrade(name, password)
           /\ outcome' = [Outcome("logged in") EXCEPT !.user = IdOf(name)]
  <2>1. outcome'.kind = "logged in" /\ outcome'.user = IdOf(name)
    BY <1>3 DEF Outcome
  <2>2. IdOf(name) \in DOMAIN users /\ RowsKeep
    BY <1>1, <1>3, ValidFacts, UpgradeKeeps
  <2> QED BY <2>1, <2>2, NoAnswer DEF RowsKeep, Kinds
<1> QED BY <1>2, <1>3 DEF HandleLogin, Answer

LEMMA AdminKeeps == PostsInv /\ HandleAdmin => OutcomeInv'
<1> SUFFICES ASSUME PostsInv, HandleAdmin PROVE OutcomeInv'
  OBVIOUS
<1>1. sender.page = "admin" /\ sender' = sender
  BY DEF HandleAdmin, Handling, Answer
<1>2. CASE \E kind \in {"not found", "error"} : outcome' = Outcome(kind)
  <2>1. outcome'.kind \in {"not found", "error"} /\ outcome'.user = 0
    BY <1>2, OutcomeFields
  <2> QED BY <2>1, NoAnswer DEF Kinds
<1>3. CASE outcome' = [Outcome("admin") EXCEPT !.id = number["admin_id"]]
  <2>1. outcome'.kind = "admin" /\ outcome'.user = 0
    BY <1>3 DEF Outcome
  <2> QED BY <2>1, NoAnswer DEF Kinds
<1>4. CASE outcome' = Outcome("denied")
  <2>1. outcome'.kind = "denied" /\ outcome'.user = 0
    BY <1>4, OutcomeFields
  <2> QED BY <1>1, <2>1 DEF OutcomeInv, RegistersWhatWasPosted, FiledUnderSender,
                            PagesKeepWorking, Kinds
<1> QED BY <1>2, <1>3, <1>4 DEF HandleAdmin, Answer

LEMMA OutcomeStep == PostsInv /\ [Next]_vars => OutcomeInv'
<1> SUFFICES ASSUME PostsInv, [Next]_vars PROVE OutcomeInv'
  OBVIOUS
<1>1. OutcomeInv /\ RowsKeep
  BY UsersStep DEF PostsInv
<1>2. outcome' = outcome /\ outcome.kind \in {"none", "coming"} => OutcomeInv'
  <2>1. outcome.user \in {0} \cup DOMAIN users'
    BY <1>1 DEF OutcomeInv, RowsKeep
  <2> QED BY <2>1, NoAnswer DEF Kinds
<1>3. \A b \in Browsers : Open(b) \/ Logout(b) =>
         outcome' = outcome /\ outcome.kind \in {"none", "coming"}
  BY DEF Open, Logout, Between
<1>4. TakePiece \/ LastCall => outcome' = outcome /\ outcome.kind \in {"none", "coming"}
  BY DEF TakePiece, LastCall, Between
<1>5. CASE (\E page \in Pages : Post(page)) \/ Close
  <2>1. \E kind \in {"none", "coming"} : outcome' = Outcome(kind)
    BY <1>5 DEF Post, PostFrom, Close
  <2>2. outcome'.kind \in {"none", "coming"} /\ outcome'.user = 0
    BY <2>1, OutcomeFields
  <2> QED BY <2>2, NoAnswer DEF Kinds
<1>6. CASE UNCHANGED vars
  <2>1. /\ UNCHANGED <<posted, rest, flag, refused, cut>>
        /\ UNCHANGED <<users, made, left, sender, outcome>>
    BY <1>6 DEF vars, formVars, accountVars
  <2>2. Posted' = Posted /\ Arrived' = Arrived
    BY <2>1 DEF Posted, Arrived
  <2>3. RegistersWhatWasPosted'
    BY <1>1, <2>1, <2>2, Zenon DEF OutcomeInv, RegistersWhatWasPosted, Once, Before, Given
  <2>4. FiledUnderSender'
    BY <1>1, <2>1, <2>2, Zenon DEF OutcomeInv, FiledUnderSender, Once, Given
  <2>5. PagesKeepWorking'
    BY <1>1, <2>1, <2>2, Zenon DEF OutcomeInv, PagesKeepWorking, Once, TooLong
  <2> QED BY <1>1, <2>1, <2>3, <2>4, <2>5 DEF OutcomeInv
<1> QED BY <1>2, <1>3, <1>4, <1>5, <1>6, SubmitKeeps, BookmarkKeeps, RegistrationKeeps,
           LoginKeeps, AdminKeeps, NextCases

LEMMA InvStarts == Init => PostsInv
<1> SUFFICES ASSUME Init PROVE PostsInv
  OBVIOUS
<1>1. FormInv
  <2>1. <<>> \in Seq(Fields) /\ Len(<<>>) = 0
    BY EmptySeq
  <2>2. /\ posted = <<>> /\ rest = <<>> /\ off = 0
        /\ text = NoText /\ number = NoNumber /\ flag = NoFlag
        /\ seen = {} /\ refused = FALSE /\ cut = {}
    BY DEF Init, FormInit
  <2>3. FormTypeOK
    <3>1. \E k \in 0 .. Len(posted) : rest = SubSeq(posted, k + 1, Len(posted))
      <4>1. 0 \in 0 .. 0 /\ <<>> = SubSeq(<<>>, 0 + 1, 0)
        BY SubSeqEmpty
      <4> QED BY <2>1, <2>2, <4>1
    <3>2. text \in [Placed \cup {"code"} -> Seq(Nat)]
      BY <2>2, EmptySeq DEF NoText
    <3>3. \A f \in Placed \cup {"code"} : Len(text[f]) <= Limit[f]
      BY <2>1, <2>2, LimitAssumption DEF NoText
    <3>4. number \in [Numbers -> Nat] /\ flag \in [Flags -> BOOLEAN]
      BY <2>2 DEF NoNumber, NoFlag
    <3>5. off \in 0 .. (IF rest = <<>> THEN 0 ELSE Len(rest[1].value))
      BY <2>2
    <3> QED BY <2>1, <2>2, <3>1, <3>2, <3>3, <3>4, <3>5 DEF FormTypeOK
  <2>4. DOMAIN posted = {}
    BY <2>2
  <2> QED BY <2>2, <2>3, <2>4 DEF FormInv, TextsAreSoFar, Unposted, NoText, CurrentIsPart,
                                  CutsAreSoFar, NumbersAreSoFar, FlagsAreSoFar, CodeIsSoFar
<1>2. UsersInv
  BY UsersStart DEF Init
<1>3. made = <<>> /\ DOMAIN made = {} /\ sessions = {} /\ faults = 0
  BY DEF Init, AccountsInit
<1>4. AccountsTypeOK
  <2>1. made \in Seq(DOMAIN users) /\ Len(made) = 0
    BY <1>3, EmptySeq
  <2> QED BY <1>2, <1>3, <2>1, AccountBounds DEF AccountsTypeOK, UsersInv
<1>5. TokensInv
  <2>1. NoLogin \in [name : Texts, password : Texts]
    BY EmptySeq DEF NoLogin, Texts
  <2> QED BY <1>3, <2>1 DEF Init, TokensInv, NoSender
<1>6. CallerInv
  BY DEF Init, CallerInv, NoCall
<1>8. BrowsersInv
  <2>1. posted = <<>> /\ sender.browser = "none"
    BY DEF Init, FormInit, NoSender
  <2>2. CsrfPosted
    BY <2>1 DEF CsrfPosted
  <2> QED BY <2>1, <2>2, NobodyAssumption DEF Init, BrowsersInv, Apart, Kept
<1>7. OutcomeInv
  <2>1. outcome.kind = "none" /\ outcome.user = 0
    BY DEF Init, Outcome
  <2> QED BY <2>1 DEF OutcomeInv, RegistersWhatWasPosted, FiledUnderSender, PagesKeepWorking,
                      Kinds
<1> QED BY <1>1, <1>2, <1>4, <1>5, <1>6, <1>7, <1>8 DEF PostsInv, UsersInv

\* The invariant of the requests holds at every step of any forms, however they are cut.
THEOREM PostsCorrect == Spec => []PostsInv
<1>1. PostsInv /\ [Next]_vars => PostsInv'
  BY FormStep, UsersStep, AccountsStep, TokensStep, BrowsersStep, CallerStep, OutcomeStep
     DEF PostsInv, UsersInv
<1> QED BY InvStarts, <1>1, PTL DEF Spec

\* Every variable keeps its type, and every text the limit of its buffer.
THEOREM PostsTyped == Spec => []TypeOK
<1>1. PostsInv => TypeOK
  <2> SUFFICES ASSUME PostsInv PROVE TypeOK
    OBVIOUS
  <2>1. {0} \cup DOMAIN made \subseteq Tokens /\ {0} \cup DOMAIN users = 0 .. Len(users)
    BY MadeFacts, UserFacts DEF PostsInv, AccountsTypeOK
  <2> QED BY <2>1 DEF PostsInv, FormInv, TokensInv, CallerInv, OutcomeInv, TypeOK
<1> QED BY <1>1, PostsCorrect, PTL

\* post_iterator(): a text, the code among them, is what was posted wherever it was
\* cut, and a number or a flag is what its last piece says.
THEOREM PiecesMakeTheForm == Spec => []FormIsWhole
<1>1. PostsInv => FormIsWhole
  BY FormFollows DEF PostsInv
<1> QED BY <1>1, PostsCorrect, PTL

\* user.c: the hash of every account is that of its password, before and after the
\* upgrade, and no two accounts have one name.
THEOREM PasswordsAreKept == Spec => []PasswordsStand
<1>1. PostsInv => PasswordsStand
  BY DEF PostsInv
<1> QED BY <1>1, PostsCorrect, PTL

\* An account gets the name and the password that were posted, but after a refusal.
THEOREM RegistrationIsPosted == Spec => []RegistersWhatWasPosted
<1>1. PostsInv => RegistersWhatWasPosted
  BY DEF PostsInv, OutcomeInv
<1> QED BY <1>1, PostsCorrect, PTL

\* What is filed under a user was sent with that user's session or password, and not
\* as an anonymous submission, unless that field was cut.
THEOREM FiledIsOwn == Spec => []FiledUnderSender
<1>1. PostsInv => FiledUnderSender
  BY DEF PostsInv, OutcomeInv
<1> QED BY <1>1, PostsCorrect, PTL

\* A page is turned away only after its own browser has left the session it was
\* opened in.
THEOREM PagesStayValid == Spec => []PagesKeepWorking
<1>1. PostsInv => PagesKeepWorking
  BY DEF PostsInv, OutcomeInv
<1> QED BY <1>1, PostsCorrect, PTL
=============================================================================
