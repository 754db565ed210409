--------------------------- MODULE RateLimitProofs ---------------------------
(* Proofs about the limiter for any number of addresses and entries and any  *)
(* window.                                                                   *)
EXTENDS RateLimit, TLAPS

\* What an entry says of the address in it, and what is known of an address
\* that has no entry.
EntriesTrue ==
    \A i \in Index :
        lastTime[i] = IF address[i] = NoAddress THEN 0 ELSE lastAllowed[address[i]]

ForgottenExpired ==
    \A a \in Addresses :
        \/ \E i \in Index : address[i] = a
        \/ lastAllowed[a] = 0
        \/ now >= lastAllowed[a] + Window

\* Entries are used from the end of the table: the unused ones are the first k.
UnusedFirst ==
    \E k \in 0..Slots : \A i \in Index : address[i] = NoAddress <=> i < k

IInv ==
    /\ TypeOK
    /\ now >= Window
    /\ OneEntryPerAddress
    /\ EntriesTrue
    /\ ForgottenExpired
    /\ UnusedFirst

\* The invariant holds of the zeroed table.
LEMMA InitIInv == Init => IInv
<1> SUFFICES ASSUME Init PROVE IInv
  OBVIOUS
<1> USE SlotsAssumption, TimeAssumption, AddressAssumption
<1>1. TypeOK /\ now >= Window
  BY DEF Init, TypeOK
<1>2. OneEntryPerAddress /\ EntriesTrue /\ ForgottenExpired
  BY DEF Init, OneEntryPerAddress, EntriesTrue, ForgottenExpired
<1>3. UnusedFirst
  <2>1. Slots \in 0..Slots /\ \A i \in Index : address[i] = NoAddress <=> i < Slots
    BY DEF Init, Index
  <2> QED BY <2>1 DEF UnusedFirst
<1> QED BY <1>1, <1>2, <1>3 DEF IInv

\* A tick only makes windows expire.
LEMMA TickStep == IInv /\ Tick => IInv'
<1> SUFFICES ASSUME IInv, Tick PROVE IInv'
  OBVIOUS
<1> USE TimeAssumption
<1>1. TypeOK' /\ (now >= Window)'
  BY DEF IInv, Tick, TypeOK
<1>2. OneEntryPerAddress' /\ EntriesTrue' /\ UnusedFirst'
  BY DEF IInv, Tick, OneEntryPerAddress, EntriesTrue, UnusedFirst
<1>3. ForgottenExpired'
  BY DEF IInv, Tick, ForgottenExpired, TypeOK
<1> QED BY <1>1, <1>2, <1>3 DEF IInv

\* A submission that is allowed keeps the invariant: an entry is evicted only
\* when the window of its address has passed.
LEMMA AllowStep == ASSUME NEW a \in Addresses, IInv, Allow(a) PROVE IInv'
<1> USE SlotsAssumption, TimeAssumption, AddressAssumption
<1>0. /\ TypeOK /\ now >= Window
      /\ OneEntryPerAddress /\ EntriesTrue /\ ForgottenExpired /\ UnusedFirst
  BY DEF IInv
<1>1. PICK i \in Index :
         /\ IsSlot(a, i)
         /\ Expired(i)
         /\ address' = [address EXCEPT ![i] = a]
         /\ lastTime' = [lastTime EXCEPT ![i] = now]
         /\ lastAllowed' = [lastAllowed EXCEPT ![a] = now]
         /\ now' = now
  BY DEF Allow
<1>2. TypeOK' /\ (now >= Window)'
  BY <1>0, <1>1 DEF TypeOK
<1>3. \A j \in Index : j # i => address[j] # a
  BY <1>0, <1>1 DEF IsSlot, OneEntryPerAddress
<1>4. \A j \in Index : /\ address'[j] = IF j = i THEN a ELSE address[j]
                       /\ lastTime'[j] = IF j = i THEN now ELSE lastTime[j]
  BY <1>0, <1>1 DEF TypeOK
<1>5. \A b \in Addresses : lastAllowed'[b] = IF b = a THEN now ELSE lastAllowed[b]
  BY <1>0, <1>1 DEF TypeOK
<1>6. OneEntryPerAddress'
  BY <1>0, <1>3, <1>4 DEF OneEntryPerAddress
<1>7. EntriesTrue'
  BY <1>0, <1>3, <1>4, <1>5 DEF EntriesTrue, TypeOK
<1>8. ForgottenExpired'
  <2> SUFFICES ASSUME NEW b \in Addresses, \A j \in Index : address'[j] # b
               PROVE  lastAllowed'[b] = 0 \/ now >= lastAllowed'[b] + Window
    BY <1>1 DEF ForgottenExpired
  <2>1. b # a /\ lastAllowed'[b] = lastAllowed[b]
    BY <1>1, <1>4, <1>5
  <2>2. CASE address[i] = b
    BY <1>0, <1>1, <2>1, <2>2 DEF EntriesTrue, Expired
  <2>3. CASE address[i] # b
    <3>1. \A j \in Index : address[j] # b
      BY <1>4, <2>3
    <3> QED BY <1>0, <2>1, <3>1 DEF ForgottenExpired
  <2> QED BY <2>2, <2>3
<1>9. UnusedFirst'
  <2>1. PICK k \in 0..Slots : \A j \in Index : address[j] = NoAddress <=> j < k
    BY <1>0 DEF UnusedFirst
  <2>2. CASE address[i] = NoAddress
    <3>1. \A j \in Index : j > i => address[j] # NoAddress
      BY <1>1, <2>2 DEF IsSlot
    <3>2. i < k /\ ~(i + 1 < k)
      <4>1. i < k
        BY <2>1, <2>2
      <4>2. ASSUME i + 1 < k PROVE FALSE
        <5>1. i + 1 \in Index
          BY <4>2 DEF Index
        <5> QED BY <5>1, <4>2, <2>1, <3>1 DEF Index
      <4> QED BY <4>1, <4>2
    <3>3. i \in 0..Slots /\ k = i + 1
      BY <3>2 DEF Index
    <3>4. \A j \in Index : address'[j] = NoAddress <=> j < i
      BY <1>4, <2>1, <3>3 DEF Index
    <3> QED BY <3>3, <3>4 DEF UnusedFirst
  <2>3. CASE address[i] # NoAddress
    <3>1. \A j \in Index : address'[j] = NoAddress <=> j < k
      BY <1>4, <2>1, <2>3
    <3> QED BY <3>1 DEF UnusedFirst
  <2> QED BY <2>2, <2>3
<1> QED BY <1>2, <1>6, <1>7, <1>8, <1>9 DEF IInv

\* The invariant holds in every reachable state.
THEOREM Invariance == Spec => []IInv
<1>1. IInv /\ [Next]_vars => IInv'
  <2> SUFFICES ASSUME IInv, [Next]_vars PROVE IInv'
    OBVIOUS
  <2>1. CASE UNCHANGED vars
    BY <2>1 DEF vars, IInv, TypeOK, OneEntryPerAddress, EntriesTrue, ForgottenExpired,
       UnusedFirst
  <2> QED BY <2>1, TickStep, AllowStep DEF Next
<1> QED BY <1>1, InitIInv, PTL DEF Spec

\* Every reachable state of the table is well typed.
THEOREM TypeCorrect == Spec => []TypeOK
<1>1. IInv => TypeOK
  BY DEF IInv
<1> QED BY <1>1, Invariance, PTL

\* No address ever has two entries.
THEOREM OneEntry == Spec => []OneEntryPerAddress
<1>1. IInv => OneEntryPerAddress
  BY DEF IInv
<1> QED BY <1>1, Invariance, PTL

\* Two submissions of one address that are allowed are a window apart.
THEOREM SpacingHolds == Spec => Spacing
<1>1. IInv /\ [Next]_vars =>
        [\A a \in Addresses : lastAllowed'[a] # lastAllowed[a] =>
            \/ lastAllowed[a] = 0
            \/ lastAllowed'[a] >= lastAllowed[a] + Window]_vars
  <2> SUFFICES ASSUME IInv, [Next]_vars, NEW a \in Addresses,
                      lastAllowed'[a] # lastAllowed[a], lastAllowed[a] # 0
               PROVE  lastAllowed'[a] >= lastAllowed[a] + Window
    OBVIOUS
  <2>0. TypeOK /\ EntriesTrue /\ ForgottenExpired
    BY DEF IInv
  <2>1. Allow(a)
    BY <2>0 DEF Next, Tick, Allow, vars, TypeOK
  <2>2. PICK i \in Index : IsSlot(a, i) /\ Expired(i) /\ lastAllowed'[a] = now
    BY <2>0, <2>1 DEF Allow, TypeOK
  <2>3. CASE address[i] = a
    BY <2>0, <2>2, <2>3, AddressAssumption DEF EntriesTrue, Expired
  <2>4. CASE address[i] # a
    <3>1. \A j \in Index : address[j] # a
      BY <2>2, <2>4 DEF IsSlot
    <3> QED BY <2>0, <2>2, <3>1 DEF ForgottenExpired
  <2> QED BY <2>3, <2>4
<1> QED BY <1>1, Invariance, PTL DEF Spec, Spacing

\* When nobody was allowed within the window, anybody is allowed.
THEOREM NobodyLockedOutHolds == Spec => []NobodyLockedOut
<1>1. IInv => NobodyLockedOut
  <2> SUFFICES ASSUME IInv, \A b \in Addresses : now >= lastAllowed[b] + Window,
                      NEW a \in Addresses
               PROVE  \E i \in Index : IsSlot(a, i) /\ Expired(i)
    BY DEF NobodyLockedOut
  <2> USE SlotsAssumption, TimeAssumption, AddressAssumption
  <2>0. /\ TypeOK /\ now >= Window
        /\ OneEntryPerAddress /\ EntriesTrue /\ UnusedFirst
    BY DEF IInv
  <2>1. \A i \in Index : Expired(i)
    BY <2>0 DEF EntriesTrue, Expired, TypeOK
  <2>2. CASE \E i \in Index : address[i] = a
    BY <2>0, <2>1, <2>2 DEF IsSlot, OneEntryPerAddress, Index
  <2>3. CASE \A i \in Index : address[i] # a
    <3>1. PICK k \in 0..Slots : \A i \in Index : address[i] = NoAddress <=> i < k
      BY <2>0 DEF UnusedFirst
    <3>2. CASE k = 0
      <4>1. 0 \in Index /\ \A i \in Index : address[i] # NoAddress
        BY <3>1, <3>2 DEF Index
      <4>2. IsSlot(a, 0)
        BY <2>3, <4>1 DEF IsSlot
      <4> QED BY <2>1, <4>1, <4>2
    <3>3. CASE k # 0
      <4>1. k - 1 \in Index /\ address[k - 1] = NoAddress
        BY <3>1, <3>3 DEF Index
      <4>2. \A j \in Index : j > k - 1 => address[j] # NoAddress
        BY <3>1 DEF Index
      <4>3. IsSlot(a, k - 1)
        BY <2>3, <4>1, <4>2 DEF IsSlot
      <4> QED BY <2>1, <4>1, <4>3
    <3> QED BY <3>2, <3>3
  <2> QED BY <2>2, <2>3
<1> QED BY <1>1, Invariance, PTL
=============================================================================
