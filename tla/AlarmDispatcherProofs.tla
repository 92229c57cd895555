----------------------- MODULE AlarmDispatcherProofs -----------------------
(***************************************************************************)
(* The cooldown of AlarmDispatcher for any set of concurrent calls, any    *)
(* names, any cooldown and any bound on the stalls.                        *)
(***************************************************************************)
EXTENDS AlarmDispatcher, TLAPS

\* A call waits for the lock no longer than the longest stall.
StallIsBounded ==
    \A c \in Calls : at[c] = "timed" => clock <= now[c] + MaxStall

\* A reservation holds the slot until its cooldown is over.
ReservationHolds ==
    \A c \in Calls : Reserved(c) =>
        \/ now[c] + Cooldown <= clock
        \/ last_dispatched[threshold_name[c]] = now[c]

\* Two reservations of the same instant have both outlived the cooldown, so the
\* rollback of one cannot delete a slot the other needs.
TwinsAreOld ==
    \A c, d \in Calls :
        (/\ c # d
         /\ threshold_name[c] = threshold_name[d]
         /\ Reserved(c) /\ Reserved(d)
         /\ now[c] = now[d]) => now[c] + Cooldown <= clock

IInv == TypeOK /\ StallIsBounded /\ ReservationHolds /\ TwinsAreOld

\* Type correctness is inductive on its own.
LEMMA TypeIsInvariant == Spec => []TypeOK
<1> USE DispatcherAssumption DEF None, Places
<1>1. Init => TypeOK
  BY DEF Init, TypeOK
<1>2. TypeOK /\ [Next]_vars => TypeOK'
  <2> SUFFICES ASSUME TypeOK, [Next]_vars PROVE TypeOK'
    OBVIOUS
  <2>1. CASE Tick
    BY <2>1 DEF Tick, TypeOK
  <2>2. ASSUME NEW c \in Calls, NEW m \in Names, ReadClock(c, m) PROVE TypeOK'
    BY <2>2 DEF ReadClock, TypeOK
  <2>3. ASSUME NEW c \in Calls, Suppress(c) PROVE TypeOK'
    BY <2>3 DEF Suppress, TypeOK
  <2>4. ASSUME NEW c \in Calls, Reserve(c) PROVE TypeOK'
    BY <2>4 DEF Reserve, TypeOK
  <2>5. ASSUME NEW c \in Calls, Send(c) PROVE TypeOK'
    BY <2>5 DEF Send, TypeOK
  <2>6. ASSUME NEW c \in Calls, RollBack(c) PROVE TypeOK'
    BY <2>6 DEF RollBack, WithoutReservation, TypeOK
  <2>7. CASE UNCHANGED vars
    BY <2>7 DEF vars, TypeOK
  <2> QED
    BY <2>1, <2>2, <2>3, <2>4, <2>5, <2>6, <2>7 DEF Next, Call
<1> QED
  BY <1>1, <1>2, PTL DEF Spec

\* The first state satisfies the inductive invariant.
LEMMA InitInvariant == Init => IInv
BY DispatcherAssumption
   DEF Init, IInv, TypeOK, StallIsBounded, ReservationHolds, TwinsAreOld, Reserved,
       None, Places

\* Every step keeps the inductive invariant.
LEMMA StepInvariant == IInv /\ TypeOK' /\ [Next]_vars => IInv'
<1> SUFFICES ASSUME IInv, TypeOK', [Next]_vars PROVE IInv'
  OBVIOUS
<1> USE DispatcherAssumption DEF None
<1>1. CASE Tick
  BY <1>1 DEF Tick, IInv, TypeOK, StallIsBounded, ReservationHolds, TwinsAreOld, Reserved
<1>2. ASSUME NEW c \in Calls, NEW m \in Names, ReadClock(c, m) PROVE IInv'
  BY <1>2 DEF ReadClock, IInv, TypeOK, StallIsBounded, ReservationHolds, TwinsAreOld, Reserved
<1>3. ASSUME NEW c \in Calls, Suppress(c) PROVE IInv'
  BY <1>3 DEF Suppress, IInv, TypeOK, StallIsBounded, ReservationHolds, TwinsAreOld, Reserved
<1>4. ASSUME NEW c \in Calls, Reserve(c) PROVE IInv'
  <2>1. \A d \in Calls \ {c} : at'[d] = at[d] /\ (Reserved(d)' <=> Reserved(d))
    BY <1>4 DEF Reserve, IInv, TypeOK, Reserved
  <2>2. at'[c] = "sending" /\ last_dispatched'[threshold_name[c]] = now[c]
    BY <1>4 DEF Reserve, IInv, TypeOK
  \* What the reservation overwrites is old.
  <2>3. \A d \in Calls \ {c} : Reserved(d) /\ threshold_name[d] = threshold_name[c] =>
            now[d] + Cooldown <= clock
    BY <1>4 DEF Reserve, InCooldown, IInv, TypeOK, ReservationHolds
  <2>4. StallIsBounded'
    BY <1>4, <2>1, <2>2 DEF Reserve, IInv, StallIsBounded
  <2>5. ReservationHolds'
    BY <1>4, <2>1, <2>2, <2>3 DEF Reserve, IInv, TypeOK, ReservationHolds
  <2>6. TwinsAreOld'
    BY <1>4, <2>1, <2>2, <2>3 DEF Reserve, IInv, TypeOK, TwinsAreOld
  <2> QED
    BY <2>4, <2>5, <2>6 DEF IInv
<1>5. ASSUME NEW c \in Calls, Send(c) PROVE IInv'
  BY <1>5 DEF Send, IInv, TypeOK, StallIsBounded, ReservationHolds, TwinsAreOld, Reserved
<1>6. ASSUME NEW c \in Calls, RollBack(c) PROVE IInv'
  <2>1. \A d \in Calls : Reserved(d)' => Reserved(d) /\ d # c
    BY <1>6 DEF RollBack, IInv, TypeOK, Reserved
  <2>2. Reserved(c)
    BY <1>6 DEF RollBack, Reserved
  <2>3. StallIsBounded'
    BY <1>6 DEF RollBack, IInv, TypeOK, StallIsBounded
  <2>4. ReservationHolds'
    BY <1>6, <2>1, <2>2
       DEF RollBack, WithoutReservation, IInv, TypeOK, ReservationHolds, TwinsAreOld
  <2>5. TwinsAreOld'
    BY <1>6, <2>1 DEF RollBack, IInv, TypeOK, TwinsAreOld
  <2> QED
    BY <2>3, <2>4, <2>5 DEF IInv
<1>7. CASE UNCHANGED vars
  BY <1>7 DEF vars, IInv, TypeOK, StallIsBounded, ReservationHolds, TwinsAreOld, Reserved
<1> QED
  BY <1>1, <1>2, <1>3, <1>4, <1>5, <1>6, <1>7 DEF Next, Call

\* The inductive invariant holds in every reachable state.
LEMMA InductiveInvariant == Spec => []IInv
BY TypeIsInvariant, InitInvariant, StepInvariant, PTL DEF Spec

\* Type correctness: in particular no slot is ever ahead of the clock, so a
\* failed or slow send never lengthens a cooldown (alarms.py:78-119).
THEOREM TypeCorrect == Spec => []TypeOK
BY TypeIsInvariant

\* A reservation that passes the cooldown check comes after every earlier one,
\* short of the cooldown by no more than the stall.
LEMMA ReserveIsSpaced ==
    ASSUME IInv, CooldownHolds, NEW c \in Calls, Reserve(c)
    PROVE  CooldownHolds'
<1> USE DispatcherAssumption DEF None
<1>1. \A d \in Calls \ {c} : Reserved(d)' <=> Reserved(d)
  BY DEF Reserve, IInv, TypeOK, Reserved
<1>2. clock <= now[c] + MaxStall /\ now[c] \in 0 .. clock /\ clock \in Nat
  BY DEF Reserve, IInv, TypeOK, StallIsBounded
<1>3. ASSUME NEW d \in Calls \ {c}, Reserved(d), threshold_name[d] = threshold_name[c]
      PROVE  /\ now[d] + Cooldown <= now[c] + MaxStall
             /\ now[c] <= now[d] => now[c] + Cooldown <= now[d] + MaxStall
  <2>1. now[d] \in 0 .. clock
    BY DEF IInv, TypeOK
  <2>2. CASE now[d] + Cooldown <= clock
    BY <1>2, <2>1, <2>2
  <2>3. CASE last_dispatched[threshold_name[d]] = now[d]
    BY <1>2, <1>3, <2>1, <2>3 DEF Reserve, InCooldown
  <2> QED
    BY <1>3, <2>2, <2>3 DEF IInv, ReservationHolds
<1> QED
  BY <1>1, <1>3 DEF Reserve, CooldownHolds

\* The cooldown itself (alarms.py:87-96 and 110-112): deliveries of one name are
\* the cooldown apart up to the stall, for any number of concurrent calls.
THEOREM CooldownCorrect == Spec => []CooldownHolds
<1>1. Init => CooldownHolds
  BY DEF Init, CooldownHolds, Reserved
<1>2. IInv /\ CooldownHolds /\ [Next]_vars => CooldownHolds'
  <2> SUFFICES ASSUME IInv, CooldownHolds, [Next]_vars PROVE CooldownHolds'
    OBVIOUS
  <2>1. CASE Tick
    BY <2>1 DEF Tick, CooldownHolds, Reserved
  <2>2. ASSUME NEW c \in Calls, NEW m \in Names, ReadClock(c, m) PROVE CooldownHolds'
    BY <2>2 DEF ReadClock, IInv, TypeOK, CooldownHolds, Reserved
  <2>3. ASSUME NEW c \in Calls, Suppress(c) PROVE CooldownHolds'
    BY <2>3 DEF Suppress, IInv, TypeOK, CooldownHolds, Reserved
  <2>4. ASSUME NEW c \in Calls, Reserve(c) PROVE CooldownHolds'
    BY <2>4, ReserveIsSpaced
  <2>5. ASSUME NEW c \in Calls, Send(c) PROVE CooldownHolds'
    BY <2>5 DEF Send, IInv, TypeOK, CooldownHolds, Reserved
  <2>6. ASSUME NEW c \in Calls, RollBack(c) PROVE CooldownHolds'
    BY <2>6 DEF RollBack, IInv, TypeOK, CooldownHolds, Reserved
  <2>7. CASE UNCHANGED vars
    BY <2>7 DEF vars, CooldownHolds, Reserved
  <2> QED
    BY <2>1, <2>2, <2>3, <2>4, <2>5, <2>6, <2>7 DEF Next, Call
<1> QED
  BY <1>1, <1>2, InductiveInvariant, PTL DEF Spec

\* A failed send never leaves its name in cooldown (alarms.py:106-112).
THEOREM NoGhostCorrect == Spec => []NoGhostCooldown
<1>1. Init => NoGhostCooldown
  BY DEF Init, NoGhostCooldown
<1>2. TypeOK /\ NoGhostCooldown /\ [Next]_vars => NoGhostCooldown'
  <2> SUFFICES ASSUME TypeOK, NoGhostCooldown, [Next]_vars, NEW n \in Names,
                      last_dispatched'[n] # None
               PROVE  \E c \in Calls : /\ threshold_name'[c] = n
                                       /\ Reserved(c)'
                                       /\ now'[c] = last_dispatched'[n]
    BY DEF NoGhostCooldown
  <2>1. CASE Tick
    BY <2>1 DEF Tick, NoGhostCooldown, Reserved
  <2>2. CASE \E c \in Calls : (\E m \in Names : ReadClock(c, m)) \/ Suppress(c) \/ Send(c)
    BY <2>2 DEF ReadClock, Suppress, Send, TypeOK, NoGhostCooldown, Reserved
  <2>3. ASSUME NEW c \in Calls, Reserve(c), threshold_name[c] = n
        PROVE  threshold_name'[c] = n /\ Reserved(c)' /\ now'[c] = last_dispatched'[n]
    BY <2>3 DEF Reserve, TypeOK, Reserved
  <2>4. ASSUME NEW c \in Calls, Reserve(c), threshold_name[c] # n
        PROVE  \E d \in Calls : /\ threshold_name'[d] = n
                                /\ Reserved(d)'
                                /\ now'[d] = last_dispatched'[n]
    BY <2>4 DEF Reserve, TypeOK, NoGhostCooldown, Reserved
  <2>5. ASSUME NEW c \in Calls, RollBack(c)
        PROVE  \E d \in Calls : /\ threshold_name'[d] = n
                                /\ Reserved(d)'
                                /\ now'[d] = last_dispatched'[n]
    <3>1. last_dispatched'[n] = last_dispatched[n]
      BY <2>5 DEF RollBack, WithoutReservation, TypeOK
    <3>2. PICK d \in Calls : /\ threshold_name[d] = n
                             /\ Reserved(d)
                             /\ now[d] = last_dispatched[n]
      BY <3>1 DEF NoGhostCooldown
    <3>3. d # c
      BY <2>5, <3>1, <3>2 DEF RollBack, WithoutReservation, TypeOK
    <3> QED
      BY <2>5, <3>1, <3>2, <3>3 DEF RollBack, TypeOK, Reserved
  <2>6. CASE UNCHANGED vars
    BY <2>6 DEF vars, NoGhostCooldown, Reserved
  <2> QED
    BY <2>1, <2>2, <2>3, <2>4, <2>5, <2>6 DEF Next, Call
<1> QED
  BY <1>1, <1>2, TypeIsInvariant, PTL DEF Spec
============================================================================
