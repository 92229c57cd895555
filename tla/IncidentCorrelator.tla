------------------------- MODULE IncidentCorrelator -------------------------
(***************************************************************************)
(* IncidentCorrelator of app/hermes/correlator.py: which incidents of the  *)
(* Hermes log go on to a sink, with which severity and where.  correlate   *)
(* runs under one lock, so a call is a step.  Its clock is the log's:      *)
(* detected_at is a record's timestamp, which is behind the present by the *)
(* backlog of the watcher and, for a traceback, by the time its frames     *)
(* were awaited.                                                           *)
(***************************************************************************)
EXTENDS Integers, Sequences, FiniteSetsExt, Functions

CONSTANTS
    Fingerprints,         \* what deduplication identifies incidents by
    Rule,                 \* the rule each fingerprint comes from
    DedupWindow,
    EscalationWindow,
    EscalationThreshold,
    MaxLag,               \* how far detected_at may be behind the present
    MaxSeen,              \* bound on the incidents of one run
    MaxTime               \* bound on the clock

ASSUME CorrelatorAssumption ==
    /\ DedupWindow \in Nat
    /\ EscalationWindow \in Nat \ {0}
    /\ EscalationThreshold \in Nat \ {0, 1}
    /\ MaxLag \in Nat
    /\ MaxSeen \in Nat
    /\ MaxTime \in Nat

VARIABLES
    clock,      \* the present
    rows,       \* _state: a row for each fingerprint it remembers
    seen,       \* history: every detected_at of a fingerprint since the last reset
    decision    \* history: the last incident and the decision returned for it

correlatorVars == <<clock, rows, seen, decision>>

SeverityOrder == <<"low", "medium", "high", "critical">>
Severities == Range(SeverityOrder)
Destinations == {"drop", "telegram", "telegram_with_rca", "pager"}

\* The routes of the default matrix, one rule for each way a route is chosen.
RoutingMatrix ==
    [error_severity |-> "telegram_with_rca",
     traceback      |-> "telegram_with_rca",
     warning_burst  |-> "telegram",
     context_window |-> "telegram",
     crash_loop     |-> "pager"]

\* What the classifier and its rules emit: an ERROR record is high and a
\* CRITICAL record critical under the same fingerprint, a rule has one severity;
\* "custom" is a rule of the user's that the matrix does not know.
SeveritiesOf ==
    [error_severity |-> {"high", "critical"},
     traceback      |-> {"critical"},
     warning_burst  |-> {"medium"},
     context_window |-> {"high"},
     crash_loop     |-> {"critical"},
     custom         |-> {"medium"}]

LongestWindow == Max({DedupWindow, EscalationWindow})

Bumped(severity) ==
    LET i == CHOOSE k \in DOMAIN SeverityOrder : SeverityOrder[k] = severity
    IN  SeverityOrder[Min({i + 1, Len(SeverityOrder)})]

Route(rule, severity) ==
    IF rule \in DOMAIN RoutingMatrix
    THEN IF severity = "critical" /\ RoutingMatrix[rule] = "telegram"
         THEN "pager"
         ELSE RoutingMatrix[rule]
    ELSE IF severity \in {"high", "critical"} THEN "telegram" ELSE "drop"

\* Mutant of Trimmed: occurrences are never forgotten.
NeverTrimmed(timestamps, cutoff) == timestamps

\* The sequence without its leading timestamps before the cutoff.
Trimmed(timestamps, cutoff) ==
    LET kept == {i \in DOMAIN timestamps : timestamps[i] >= cutoff}
    IN  IF kept = {} THEN <<>>
        ELSE SubSeq(timestamps, Min(kept), Len(timestamps))

Known(fp) == fp \in DOMAIN rows

\* Mutant of UpdatedRow: last_seen keeps the time of the first occurrence.
KeepsFirstSeen(fp, now) ==
    [last_seen  |-> IF Known(fp) THEN rows[fp].last_seen ELSE now,
     timestamps |-> IF Known(fp)
                    THEN Trimmed(Append(rows[fp].timestamps, now), now - EscalationWindow)
                    ELSE <<now>>]

\* The row of a fingerprint once an incident of it is detected at now.
UpdatedRow(fp, now) ==
    [last_seen  |-> now,
     timestamps |-> IF Known(fp)
                    THEN Trimmed(Append(rows[fp].timestamps, now), now - EscalationWindow)
                    ELSE <<now>>]

\* The fingerprints seen before the cutoff are forgotten; the row that was just
\* written never is.
EvictStale(table, cutoff) ==
    Restrict(table, {fp \in DOMAIN table : table[fp].last_seen >= cutoff})

WithRow(fp, row) == [g \in DOMAIN rows \cup {fp} |-> IF g = fp THEN row ELSE rows[g]]

WithinDedup(fp, now) == Known(fp) /\ now - rows[fp].last_seen < DedupWindow

Verdict(incident) ==
    LET fp        == incident.fingerprint
        repeats   == Len(UpdatedRow(fp, incident.detected_at).timestamps)
        bumped    == Bumped(incident.severity)
        escalated == repeats >= EscalationThreshold /\ bumped # incident.severity
        severity  == IF escalated THEN bumped ELSE incident.severity
        suppress  == WithinDedup(fp, incident.detected_at) /\ ~escalated
    IN  [suppressed  |-> suppress,
         escalated   |-> escalated,
         severity    |-> severity,
         destination |-> IF suppress THEN "drop" ELSE Route(Rule[fp], severity)]

NoIncident == [fingerprint |-> "none", severity |-> "low", detected_at |-> 0]
NoVerdict == [suppressed |-> FALSE, escalated |-> FALSE,
              severity |-> "low", destination |-> "drop"]

CorrelatorInit ==
    /\ clock = 0
    /\ rows = <<>>
    /\ seen = [fp \in Fingerprints |-> <<>>]
    /\ decision = [incident |-> NoIncident, verdict |-> NoVerdict]

SeenTotal == FoldFunctionOnSet(LAMBDA s, n : Len(s) + n, 0, seen, Fingerprints)

\* An incident the classifier can emit now: the timestamps of one fingerprint
\* follow the order of the log.
Emittable(incident) ==
    LET fp == incident.fingerprint
    IN  /\ incident.severity \in SeveritiesOf[Rule[fp]]
        /\ clock - MaxLag <= incident.detected_at
        /\ seen[fp] # <<>> => seen[fp][Len(seen[fp])] <= incident.detected_at

Incidents == [fingerprint: Fingerprints, severity: Severities, detected_at: 0 .. clock]

Correlate(incident) ==
    LET fp  == incident.fingerprint
        now == incident.detected_at
    IN  /\ decision' = [incident |-> incident, verdict |-> Verdict(incident)]
        /\ rows' = EvictStale(WithRow(fp, UpdatedRow(fp, now)), now - LongestWindow)
        /\ seen' = [seen EXCEPT ![fp] = Append(@, now)]
        /\ UNCHANGED clock

\* CorrelatingSink.close ends with a reset.
Reset ==
    /\ rows # <<>>
    /\ rows' = <<>>
    /\ seen' = [fp \in Fingerprints |-> <<>>]
    /\ UNCHANGED <<clock, decision>>

CorrelatorTick ==
    /\ clock < MaxTime
    /\ clock' = clock + 1
    /\ UNCHANGED <<rows, seen, decision>>

CorrelatorNext ==
    \/ CorrelatorTick
    \/ Reset
    \/ \E incident \in Incidents :
          SeenTotal < MaxSeen /\ Emittable(incident) /\ Correlate(incident)

CorrelatorSpec == CorrelatorInit /\ [][CorrelatorNext]_correlatorVars
----------------------------------------------------------------------------
\* The step correlated an incident of this fingerprint.
Correlated(fp) == Len(seen'[fp]) > Len(seen[fp])

DedupStep ==
    \A fp \in Fingerprints :
        (/\ Correlated(fp)
         /\ seen[fp] # <<>>
         /\ ~decision'.verdict.suppressed
         /\ ~decision'.verdict.escalated) =>
            LET previous == seen[fp][Len(seen[fp])]
                latest   == decision'.incident.detected_at
            IN  \/ previous + DedupWindow <= latest
                \/ previous + LongestWindow < latest + MaxLag

\* Deduplication: an incident that goes on without being escalated comes at
\* least a dedup window after the previous one of its fingerprint, unless the
\* log time of other fingerprints ran ahead of it by enough to evict its row.
DedupHolds == [][DedupStep]_correlatorVars

\* Occurrences of a fingerprint, the present one included, in the last w.
RecentlySeen(fp, w) ==
    Cardinality({i \in DOMAIN seen'[fp] : seen'[fp][i] >= decision'.incident.detected_at - w})

EscalationStep ==
    \A fp \in Fingerprints : Correlated(fp) =>
        LET safe == Min({EscalationWindow, LongestWindow - MaxLag})
        IN  /\ decision'.verdict.escalated =>
                  RecentlySeen(fp, EscalationWindow) >= EscalationThreshold
            /\ (/\ RecentlySeen(fp, safe) >= EscalationThreshold
                /\ decision'.incident.severity # "critical") =>
                  decision'.verdict.escalated /\ ~decision'.verdict.suppressed

\* Escalation: only a fingerprint that occurred the threshold times within the
\* window is escalated, and one that did always is, through any deduplication,
\* as long as its severity can rise and the log's lag evicted none of it.
EscalationHolds == [][EscalationStep]_correlatorVars
============================================================================
