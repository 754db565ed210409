------------------------------ MODULE RateLimit ------------------------------
(* The limiter of anonymous submissions in tle_web: a table of the addresses *)
(* that submitted last.  anonymous_submission_allowed runs under a mutex, so *)
(* a call is one action.                                                     *)
EXTENDS Integers

CONSTANTS
    Addresses,  \* client addresses, "unknown" among them
    NoAddress,  \* the empty string of an unused entry
    Slots,      \* countof(anonymous_rates), 256 in the code
    Window,     \* seconds between two submissions, 5 in the code
    MaxTime     \* bound on the clock

ASSUME SlotsAssumption == Slots \in Nat \ {0}
ASSUME TimeAssumption == Window \in Nat /\ MaxTime \in Nat
ASSUME AddressAssumption == NoAddress \notin Addresses

Index == 0 .. Slots - 1

VARIABLES
    now,         \* time(NULL), assumed not to step backwards
    address,     \* anonymous_rates[i].address
    lastTime,    \* anonymous_rates[i].last_submission
    lastAllowed  \* history: when each address was last allowed, 0 = never

vars == <<now, address, lastTime, lastAllowed>>

TypeOK ==
    /\ now \in Nat
    /\ address \in [Index -> Addresses \cup {NoAddress}]
    /\ lastTime \in [Index -> Nat]
    /\ lastAllowed \in [Addresses -> Nat]

\* The table is zero, and the clock is far from zero.
Init ==
    /\ now = Window
    /\ address = [i \in Index |-> NoAddress]
    /\ lastTime = [i \in Index |-> 0]
    /\ lastAllowed = [a \in Addresses |-> 0]

-----------------------------------------------------------------------------
\* Mutant of IsSlot: an unused entry is preferred to the one of the address.
IsSlotFreeFirst(a, i) ==
    \/ /\ address[i] = NoAddress
       /\ \A j \in Index : j > i => address[j] # NoAddress
    \/ /\ \A j \in Index : address[j] # NoAddress
       /\ address[i] = a
    \/ /\ \A j \in Index : address[j] \notin {a, NoAddress}
       /\ i = 0

\* The entry the scan ends with: the first one of this address; if there is
\* none, the last unused one; if the table is full, entry 0.
IsSlot(a, i) ==
    \/ /\ address[i] = a
       /\ \A j \in Index : j < i => address[j] # a
    \/ /\ \A j \in Index : address[j] # a
       /\ address[i] = NoAddress
       /\ \A j \in Index : j > i => address[j] # NoAddress
    \/ /\ \A j \in Index : address[j] \notin {a, NoAddress}
       /\ i = 0

\* Mutants of Expired: the window is one second shorter, or longer.
ExpiredEarly(i) == now >= lastTime[i] + Window - 1
ExpiredLate(i) == now > lastTime[i] + Window

Expired(i) == now >= lastTime[i] + Window

\* A call that returns 1.  A call that returns 0 changes nothing.
Allow(a) ==
    \E i \in Index :
        /\ IsSlot(a, i)
        /\ Expired(i)
        /\ address' = [address EXCEPT ![i] = a]
        /\ lastTime' = [lastTime EXCEPT ![i] = now]
        /\ lastAllowed' = [lastAllowed EXCEPT ![a] = now]
        /\ UNCHANGED now

Tick ==
    /\ now < MaxTime
    /\ now' = now + 1
    /\ UNCHANGED <<address, lastTime, lastAllowed>>

Next == Tick \/ \E a \in Addresses : Allow(a)

Spec == Init /\ [][Next]_vars

-----------------------------------------------------------------------------
\* No address has two entries: otherwise the scan could find the older one.
OneEntryPerAddress ==
    \A i, j \in Index : address[i] # NoAddress /\ address[i] = address[j] => i = j

\* No address is allowed twice within the window, although the table forgets
\* addresses when it is full.
Spacing ==
    [][\A a \in Addresses : lastAllowed'[a] # lastAllowed[a] =>
          \/ lastAllowed[a] = 0
          \/ lastAllowed'[a] >= lastAllowed[a] + Window]_vars

\* An address that has its window behind it is turned away only on account of
\* another one: when nobody was allowed within the window, anybody is allowed.
NobodyLockedOut ==
    (\A b \in Addresses : now >= lastAllowed[b] + Window)
        => \A a \in Addresses : \E i \in Index : IsSlot(a, i) /\ Expired(i)
=============================================================================
