-------------------------- MODULE IncidentDelivery --------------------------
(***************************************************************************)
(* From a classified incident to Telegram: CorrelatingSink consults the    *)
(* correlator, the routed TelegramSink waits for the investigation bridge, *)
(* and AlarmDispatcher sends, all on the agent's polling thread            *)
(* (app/hermes/correlating_sink.py, sinks.py, wired as in                  *)
(* app/cli/commands/hermes.py).  The correlator is the module this one     *)
(* extends, the dispatcher an instance of its module; incident number c    *)
(* makes dispatch call c.                                                  *)
(***************************************************************************)
EXTENDS IncidentCorrelator

CONSTANTS
    Cooldown,
    Routes,        \* the destinations with a sink
    BridgeTime,    \* bridge_timeout_s
    MaxStall

ASSUME DeliveryAssumption ==
    /\ Fingerprints # {}
    /\ Cooldown \in Nat
    /\ BridgeTime \in Nat
    /\ MaxStall \in Nat

VARIABLES
    at, threshold_name, now, last_dispatched,   \* the dispatcher
    handled,                                    \* history: the incidents and their verdicts
    thread,                                     \* what the polling thread is doing
    metrics                                     \* CorrelatingSink._metrics

correlator == <<rows, seen, decision>>
dispatcher == <<at, threshold_name, now, last_dispatched>>
vars == <<clock, correlator, dispatcher, handled, thread, metrics>>

Calls == 1 .. MaxSeen

\* A fingerprint and the same fingerprint with ":escalated" behind it.
Names == [fingerprint: Fingerprints, escalated: BOOLEAN]

Dispatcher == INSTANCE AlarmDispatcher

Current == Len(handled)
Incident(c) == handled[c].incident
VerdictOn(c) == handled[c].verdict

\* Mutant of Key: one cooldown for all fingerprints.
SharedKey(incident, verdict) ==
    [fingerprint |-> CHOOSE fp \in Fingerprints : TRUE, escalated |-> verdict.escalated]

\* Mutant of Key: an escalated incident keeps its fingerprint.
PlainKey(incident, verdict) ==
    [fingerprint |-> incident.fingerprint, escalated |-> FALSE]

\* The cooldown key: _with_escalated_fingerprint.
Key(incident, verdict) ==
    [fingerprint |-> incident.fingerprint, escalated |-> verdict.escalated]

\* Only HIGH and CRITICAL incidents are investigated.
Investigated(verdict) == verdict.severity \in {"high", "critical"}

Counters == {"delivered", "suppressed", "escalated", "dropped", "unrouted"}

\* The counters after an incident ends as outcome; a suppressed one is never
\* escalated.
Counted(outcome, verdict) ==
    [k \in Counters |->
        IF k = outcome \/ (k = "escalated" /\ verdict.escalated)
        THEN metrics[k] + 1
        ELSE metrics[k]]

Init ==
    /\ CorrelatorInit
    /\ Dispatcher!Init
    /\ handled = <<>>
    /\ thread = "idle"
    /\ metrics = [k \in Counters |-> 0]

\* CorrelatingSink.__call__ up to the sink: the correlator's verdict, and the
\* three ways an incident ends without a sink.  The run has time left for it.
Observe(incident) ==
    /\ thread = "idle"
    /\ Current < MaxSeen /\ clock + BridgeTime <= MaxTime
    /\ Emittable(incident)
    /\ Correlate(incident)
    /\ LET verdict == decision'.verdict
           ended   == IF verdict.suppressed THEN "suppressed"
                      ELSE IF verdict.destination = "drop" THEN "dropped"
                      ELSE IF verdict.destination \notin Routes THEN "unrouted"
                      ELSE "no"
       IN  /\ handled' = Append(handled, [incident |-> incident,
                                          verdict  |-> verdict,
                                          taken_at |-> clock])
           /\ IF ended = "no"
              THEN thread' = "sinking" /\ UNCHANGED metrics
              ELSE thread' = "idle" /\ metrics' = Counted(ended, verdict)
    /\ UNCHANGED dispatcher

\* Time the bridge may still take: nothing when there is no investigation.
BridgeDeadline ==
    handled[Current].taken_at + IF Investigated(VerdictOn(Current)) THEN BridgeTime ELSE 0

Dispatch ==
    /\ Dispatcher!ReadClock(Current, Key(Incident(Current), VerdictOn(Current)))
    /\ thread' = "dispatching"
    /\ UNCHANGED <<correlator, handled, metrics>>

\* The bridge answers, raises or is cancelled before its time is up; it may
\* also hang, so nothing obliges it to.
BridgeReturns ==
    /\ thread = "sinking" /\ clock < BridgeDeadline
    /\ Dispatch

\* Mutant of BridgeIsOver: the bridge is awaited without a timeout.
NoTimeout ==
    /\ thread = "sinking" /\ clock >= BridgeDeadline
    /\ ~Investigated(VerdictOn(Current))
    /\ Dispatch

\* There was no investigation, or future.result timed out.
BridgeIsOver ==
    /\ thread = "sinking" /\ clock >= BridgeDeadline
    /\ Dispatch

Deliver ==
    /\ thread = "dispatching"
    /\ \/ Dispatcher!Suppress(Current)
       \/ Dispatcher!Reserve(Current)
       \/ Dispatcher!Send(Current)
       \/ Dispatcher!RollBack(Current)
    /\ UNCHANGED <<correlator, handled, thread, metrics>>

\* The sink returned: TelegramSink ignores what dispatch returned.
SinkReturns ==
    /\ thread = "dispatching"
    /\ at[Current] \in {"suppressed", "failed", "delivered"}
    /\ thread' = "idle"
    /\ metrics' = Counted("delivered", VerdictOn(Current))
    /\ UNCHANGED <<clock, correlator, dispatcher, handled>>

Tick ==
    /\ Dispatcher!Tick
    /\ thread = "sinking" => clock < BridgeDeadline
    /\ UNCHANGED <<correlator, handled, thread, metrics>>

Next ==
    \/ \E incident \in Incidents : Observe(incident)
    \/ BridgeReturns
    \/ BridgeIsOver
    \/ Deliver
    \/ SinkReturns
    \/ Tick

\* Time passes, and the polling thread goes on whenever the code lets it: the
\* bridge is only ever awaited with a timeout and the Telegram client has one.
Fairness ==
    WF_vars(Tick) /\ WF_vars(BridgeIsOver) /\ WF_vars(Deliver) /\ WF_vars(SinkReturns)

Spec == Init /\ [][Next]_vars /\ Fairness
----------------------------------------------------------------------------
\* An incident whose fingerprint was quiet for the cooldown, the time of a
\* bridge and the lag of the log is never swallowed by the dispatcher: only an
\* earlier, undone by nothing, message of that fingerprint can suppress one.
QuietFingerprintIsSent ==
    \A c \in 1 .. Current : at[c] = "suppressed" =>
        \E d \in 1 .. c - 1 :
            /\ Incident(d).fingerprint = Incident(c).fingerprint
            /\ at[d] = "delivered"
            /\ Incident(c).detected_at
                   < Incident(d).detected_at + Cooldown + BridgeTime + MaxLag

\* What the ":escalated" key is for: the cooldown of the first occurrence never
\* suppresses the first escalation.
FirstEscalationIsSent ==
    \A c \in 1 .. Current : (at[c] = "suppressed" /\ VerdictOn(c).escalated) =>
        \E d \in 1 .. c - 1 :
            /\ Incident(d).fingerprint = Incident(c).fingerprint
            /\ VerdictOn(d).escalated
            /\ at[d] = "delivered"

\* A hung investigation cannot stop the watcher: the polling thread always gets
\* back to the log.
ThreadComesBack == (thread # "idle") ~> (thread = "idle")
============================================================================
