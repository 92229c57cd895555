-------------------------- MODULE AlarmDispatcher --------------------------
(***************************************************************************)
(* AlarmDispatcher.dispatch of app/watch_dog/alarms.py: alarms go to       *)
(* Telegram at most once per threshold name and cooldown.  Every element   *)
(* of Calls is one call of dispatch; any number of them run at the same    *)
(* time on any threads.  A call reads the clock before it takes the lock,  *)
(* reserves the cooldown slot under the lock, sends outside it, and takes  *)
(* it again to give the slot back when the send failed.                    *)
(***************************************************************************)
EXTENDS Integers

CONSTANTS
    Calls,      \* the calls of dispatch
    Names,      \* threshold names; Hermes passes incident fingerprints
    Cooldown,   \* cooldown_seconds
    MaxStall,   \* longest time between a call's clock reading and its lock
    MaxTime     \* bound on the clock

ASSUME DispatcherAssumption ==
    /\ Names # {}
    /\ Cooldown \in Nat
    /\ MaxStall \in Nat
    /\ MaxTime \in Nat

VARIABLES
    clock,            \* time.monotonic()
    at,               \* where each call is
    threshold_name,   \* the argument of each call that was made
    now,              \* the clock each call read
    last_dispatched   \* the cooldown slot of each name

vars == <<clock, at, threshold_name, now, last_dispatched>>

\* The name has no slot: no key in the dict, and no time of a clock.
None == -1

Places == {"idle", "timed", "suppressed", "sending", "failing", "failed", "delivered"}

\* The call has reserved the slot and its send has not been undone.
Reserved(c) == at[c] \in {"sending", "failing", "delivered"}

Init ==
    /\ clock = 0
    /\ at = [c \in Calls |-> "idle"]
    /\ threshold_name = [c \in Calls |-> CHOOSE n \in Names : TRUE]
    /\ now = [c \in Calls |-> 0]
    /\ last_dispatched = [n \in Names |-> None]

\* Time passes, but not past the longest stall of a call before its lock.
Tick ==
    /\ clock < MaxTime
    /\ \A c \in Calls : at[c] = "timed" => clock < now[c] + MaxStall
    /\ clock' = clock + 1
    /\ UNCHANGED <<at, threshold_name, now, last_dispatched>>

\* dispatch(n, message) is called and now = self._now() read outside the lock.
ReadClock(c, n) ==
    /\ at[c] = "idle"
    /\ at' = [at EXCEPT ![c] = "timed"]
    /\ threshold_name' = [threshold_name EXCEPT ![c] = n]
    /\ now' = [now EXCEPT ![c] = clock]
    /\ UNCHANGED <<clock, last_dispatched>>

InCooldown(c) ==
    LET last == last_dispatched[threshold_name[c]]
    IN  last # None /\ now[c] < last + Cooldown

Suppress(c) ==
    /\ at[c] = "timed"
    /\ InCooldown(c)
    /\ at' = [at EXCEPT ![c] = "suppressed"]
    /\ UNCHANGED <<clock, threshold_name, now, last_dispatched>>

Reserve(c) ==
    /\ at[c] = "timed"
    /\ ~InCooldown(c)
    /\ at' = [at EXCEPT ![c] = "sending"]
    /\ last_dispatched' = [last_dispatched EXCEPT ![threshold_name[c]] = now[c]]
    /\ UNCHANGED <<clock, threshold_name, now>>

\* post_telegram_message returns, with ok or without.
Send(c) ==
    /\ at[c] = "sending"
    /\ \E outcome \in {"delivered", "failing"} : at' = [at EXCEPT ![c] = outcome]
    /\ UNCHANGED <<clock, threshold_name, now, last_dispatched>>

\* Mutant of WithoutReservation: deletes the slot without comparing it.
DeletesAnySlot(c) == [last_dispatched EXCEPT ![threshold_name[c]] = None]

\* Mutant of WithoutReservation: a failed send keeps the slot.
KeepsSlot(c) == last_dispatched

\* The slots after a failed call compared and deleted its reservation.
WithoutReservation(c) ==
    IF last_dispatched[threshold_name[c]] = now[c]
    THEN [last_dispatched EXCEPT ![threshold_name[c]] = None]
    ELSE last_dispatched

RollBack(c) ==
    /\ at[c] = "failing"
    /\ at' = [at EXCEPT ![c] = "failed"]
    /\ last_dispatched' = WithoutReservation(c)
    /\ UNCHANGED <<clock, threshold_name, now>>

Call(c) ==
    \/ \E n \in Names : ReadClock(c, n)
    \/ Suppress(c)
    \/ Reserve(c)
    \/ Send(c)
    \/ RollBack(c)

Next == Tick \/ \E c \in Calls : Call(c)

Spec == Init /\ [][Next]_vars
----------------------------------------------------------------------------
\* Every variable has its type, and neither a call nor a slot is ahead of the
\* clock.
TypeOK ==
    /\ clock \in Nat
    /\ at \in [Calls -> Places]
    /\ threshold_name \in [Calls -> Names]
    /\ now \in [Calls -> 0 .. clock]
    /\ last_dispatched \in [Names -> None .. clock]

\* Two alarms of one name that were sent, or are being sent, are at least the
\* cooldown apart, up to the time a thread can stall between reading the clock
\* and taking the lock; with no stall the cooldown is exact whatever overlaps,
\* fails or rolls back.
CooldownHolds ==
    \A c, d \in Calls :
        (/\ c # d
         /\ threshold_name[c] = threshold_name[d]
         /\ Reserved(c) /\ Reserved(d)
         /\ now[c] <= now[d]) =>
            now[c] + Cooldown <= now[d] + MaxStall

\* A name is never in cooldown for a send that failed: whatever slot is held
\* belongs to a call that delivered or may still deliver.
NoGhostCooldown ==
    \A n \in Names : last_dispatched[n] # None =>
        \E c \in Calls : /\ threshold_name[c] = n
                         /\ Reserved(c)
                         /\ now[c] = last_dispatched[n]
============================================================================
