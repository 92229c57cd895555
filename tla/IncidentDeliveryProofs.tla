----------------------- MODULE IncidentDeliveryProofs -----------------------
(***************************************************************************)
(* Deduplication and escalation by IncidentCorrelator, alone and on the    *)
(* way to Telegram, and what the composition of correlator, bridge and     *)
(* dispatcher may swallow, for any fingerprints, rules, windows,           *)
(* threshold, cooldown, bridge time and lag of the log.                    *)
(***************************************************************************)
EXTENDS IncidentDelivery, FiniteSetTheorems, SequenceTheorems, WellFoundedInduction, TLAPS

-----------------------------------------------------------------------------
(* Deduplication *)

\* The log so far and the clock have their types.
LogType ==
    /\ clock \in Nat
    /\ seen \in [Fingerprints -> Seq(Nat)]
    /\ DOMAIN rows \subseteq Fingerprints

LastSeen(fp) == seen[fp][Len(seen[fp])]

\* A row remembers when its fingerprint was last seen, and a fingerprint that
\* was seen but has no row was last seen more than the longest window ago.
RowsFollowTheLog ==
    \A fp \in Fingerprints :
        /\ Known(fp) => seen[fp] # <<>> /\ rows[fp].last_seen = LastSeen(fp)
        /\ ~Known(fp) /\ seen[fp] # <<>> => LastSeen(fp) + LongestWindow < clock

RowsInv == LogType /\ RowsFollowTheLog

\* A step of the correlator, without the bound on the incidents of a run.
CorrelatorStep ==
    \/ CorrelatorTick
    \/ Reset
    \/ \E incident \in Incidents : Emittable(incident) /\ Correlate(incident)

LEMMA BoundedStep == CorrelatorNext => CorrelatorStep
BY DEF CorrelatorNext, CorrelatorStep

\* The larger of two windows is one of them and bounds both.
LEMMA LongerOfTwo ==
    ASSUME NEW a \in Nat, NEW b \in Nat
    PROVE  /\ Max({a, b}) \in Nat
           /\ a <= Max({a, b})
           /\ b <= Max({a, b})
<1>1. \E x \in {a, b} : \A y \in {a, b} : x >= y
  <2>1. CASE a >= b
    BY <2>1
  <2>2. CASE b >= a
    BY <2>2
  <2> QED
    BY <2>1, <2>2
<1>2. Max({a, b}) \in {a, b} /\ \A y \in {a, b} : Max({a, b}) >= y
  BY <1>1, Zenon DEF Max
<1> QED
  BY <1>2

LEMMA LongestWindowBounds ==
    /\ LongestWindow \in Nat
    /\ DedupWindow <= LongestWindow
BY CorrelatorAssumption, LongerOfTwo DEF LongestWindow

\* What correlate does to the rows and the log.
LEMMA CorrelateEffect ==
    ASSUME LogType, NEW incident \in Incidents, Correlate(incident)
    PROVE  /\ \A g \in DOMAIN rows' :
                 /\ g \in DOMAIN rows \cup {incident.fingerprint}
                 /\ rows'[g].last_seen = IF g = incident.fingerprint
                                         THEN incident.detected_at
                                         ELSE rows[g].last_seen
           /\ \A g \in DOMAIN rows : g \notin DOMAIN rows' =>
                 /\ g # incident.fingerprint
                 /\ ~(rows[g].last_seen >= incident.detected_at - LongestWindow)
           /\ incident.fingerprint \in DOMAIN rows'
           /\ seen' \in [Fingerprints -> Seq(Nat)]
           /\ seen'[incident.fingerprint] # <<>>
           /\ LastSeen(incident.fingerprint)' = incident.detected_at
           /\ \A g \in Fingerprints \ {incident.fingerprint} : seen'[g] = seen[g]
<1> DEFINE fp == incident.fingerprint
           latest == incident.detected_at
           table == WithRow(fp, UpdatedRow(fp, latest))
<1>1. fp \in Fingerprints /\ latest \in 0 .. clock /\ latest \in Nat
  BY DEF Incidents, LogType
<1>2. UpdatedRow(fp, latest).last_seen = latest
  BY DEF UpdatedRow
<1>3. /\ DOMAIN table = DOMAIN rows \cup {fp}
      /\ table[fp].last_seen = latest
      /\ \A g \in DOMAIN rows \ {fp} : table[g] = rows[g]
  BY <1>2 DEF WithRow
<1> HIDE DEF table
<1>4. /\ DOMAIN rows' = {g \in DOMAIN table : table[g].last_seen >= latest - LongestWindow}
      /\ \A g \in DOMAIN rows' : rows'[g] = table[g]
  BY DEF Correlate, EvictStale, Restrict, table
<1>5. latest >= latest - LongestWindow
  BY <1>1, LongestWindowBounds
<1>6. seen' = [seen EXCEPT ![fp] = Append(seen[fp], latest)]
  BY DEF Correlate
<1>7. Append(seen[fp], latest) \in Seq(Nat)
  BY <1>1 DEF LogType
<1>8. /\ seen' \in [Fingerprints -> Seq(Nat)]
      /\ seen'[fp] = Append(seen[fp], latest)
      /\ \A g \in Fingerprints \ {fp} : seen'[g] = seen[g]
  BY <1>1, <1>6, <1>7 DEF LogType
<1>9. seen'[fp] # <<>> /\ LastSeen(fp)' = latest
  <2>1. seen[fp] \in Seq(Nat)
    BY <1>1 DEF LogType
  <2>2. Len(Append(seen[fp], latest)) = Len(seen[fp]) + 1
    BY <1>1, <2>1
  <2>3. Append(seen[fp], latest)[Len(seen[fp]) + 1] = latest
    BY <1>1, <2>1
  <2>4. Append(seen[fp], latest) # <<>>
    BY <2>1, <2>2
  <2>5. LastSeen(fp)' = seen'[fp][Len(seen'[fp])]
    BY DEF LastSeen
  <2> HIDE DEF fp, latest
  <2> QED
    BY <1>8, <2>2, <2>3, <2>4, <2>5
<1> QED
  BY <1>1, <1>3, <1>4, <1>5, <1>8, <1>9

\* The rows and the log keep agreeing.
LEMMA RowsInit == CorrelatorInit => RowsInv
BY CorrelatorAssumption, LongestWindowBounds
   DEF CorrelatorInit, RowsInv, LogType, RowsFollowTheLog, Known

LEMMA RowsStep == RowsInv /\ [CorrelatorStep]_correlatorVars => RowsInv'
<1> USE CorrelatorAssumption, LongestWindowBounds
<1> SUFFICES ASSUME RowsInv, [CorrelatorStep]_correlatorVars PROVE RowsInv'
  OBVIOUS
<1>1. CASE CorrelatorTick
  <2>1. LogType'
    BY <1>1 DEF CorrelatorTick, RowsInv, LogType
  <2>2. \A fp \in Fingerprints : seen[fp] # <<>> => LastSeen(fp) \in Nat
    BY DEF RowsInv, LogType, LastSeen
  <2> QED
    BY <1>1, <2>1, <2>2 DEF CorrelatorTick, RowsInv, LogType, RowsFollowTheLog, Known, LastSeen
<1>2. CASE Reset
  BY <1>2 DEF Reset, RowsInv, LogType, RowsFollowTheLog, Known
<1>3. ASSUME NEW incident \in Incidents, Correlate(incident) PROVE RowsInv'
  <2> DEFINE fp == incident.fingerprint
  <2>1. fp \in Fingerprints /\ incident.detected_at \in 0 .. clock /\ clock' = clock
    BY <1>3 DEF Incidents, Correlate
  <2>2. LogType'
    BY <1>3, <2>1, CorrelateEffect DEF RowsInv, LogType
  <2>3. ASSUME NEW g \in Fingerprints, Known(g)'
        PROVE  seen'[g] # <<>> /\ rows'[g].last_seen = LastSeen(g)'
    BY <1>3, <2>1, <2>3, CorrelateEffect DEF RowsInv, RowsFollowTheLog, Known, LastSeen
  <2>4. ASSUME NEW g \in Fingerprints, ~Known(g)', seen'[g] # <<>>
        PROVE  LastSeen(g)' + LongestWindow < clock'
    <3>1. g # fp /\ seen'[g] = seen[g]
      BY <1>3, <2>1, <2>4, CorrelateEffect DEF RowsInv, Known
    <3>2. LastSeen(g) \in Nat /\ clock \in Nat
      BY <2>4, <3>1 DEF RowsInv, LogType, LastSeen
    <3>3. CASE Known(g)
      BY <1>3, <2>1, <2>4, <3>1, <3>2, <3>3, CorrelateEffect
         DEF RowsInv, RowsFollowTheLog, Known, LastSeen
    <3>4. CASE ~Known(g)
      BY <2>1, <2>4, <3>1, <3>4 DEF RowsInv, RowsFollowTheLog, LastSeen
    <3> QED
      BY <3>3, <3>4
  <2> QED
    BY <2>2, <2>3, <2>4 DEF RowsInv, RowsFollowTheLog
<1>4. CASE UNCHANGED correlatorVars
  BY <1>4 DEF correlatorVars, RowsInv, LogType, RowsFollowTheLog, Known, LastSeen
<1> QED
  BY <1>1, <1>2, <1>3, <1>4 DEF CorrelatorStep


\* An incident that is let through found no row, or one old enough.
LEMMA DedupKept == RowsInv /\ [CorrelatorStep]_correlatorVars => [DedupStep]_correlatorVars
<1> SUFFICES ASSUME RowsInv, CorrelatorStep PROVE DedupStep
  OBVIOUS
<1>1. CASE CorrelatorTick
  BY <1>1 DEF CorrelatorTick, DedupStep, Correlated, RowsInv, LogType
<1>2. CASE Reset
  BY <1>2 DEF Reset, DedupStep, Correlated, RowsInv, LogType
<1>3. ASSUME NEW incident \in Incidents, Emittable(incident), Correlate(incident)
      PROVE  DedupStep
  <2> DEFINE latest == incident.detected_at
  <2> SUFFICES ASSUME NEW fp \in Fingerprints, Correlated(fp), seen[fp] # <<>>,
                      ~decision'.verdict.suppressed, ~decision'.verdict.escalated
               PROVE  \/ LastSeen(fp) + DedupWindow <= latest
                      \/ LastSeen(fp) + LongestWindow < latest + MaxLag
    BY <1>3 DEF DedupStep, LastSeen, Correlate
  <2>1. fp = incident.fingerprint
    BY <1>3, CorrelateEffect DEF Correlated, RowsInv, LogType
  <2>2. LastSeen(fp) \in Nat /\ latest \in Nat /\ clock <= latest + MaxLag /\ clock \in Nat
    BY <1>3, CorrelatorAssumption DEF RowsInv, LogType, LastSeen, Incidents, Emittable
  <2>3. CASE Known(fp)
    <3>1. ~WithinDedup(fp, latest)
      BY <1>3, <2>1 DEF Correlate, Verdict
    <3> QED
      BY <2>2, <2>3, <3>1, CorrelatorAssumption
         DEF WithinDedup, RowsInv, RowsFollowTheLog
  <2>4. CASE ~Known(fp)
    BY <2>2, <2>4, CorrelatorAssumption, LongestWindowBounds DEF RowsInv, RowsFollowTheLog
  <2> QED
    BY <2>3, <2>4
<1> QED
  BY <1>1, <1>2, <1>3 DEF CorrelatorStep

-----------------------------------------------------------------------------
(* Escalation *)

\* The timestamps of a fingerprint follow the log.
SeenInOrder ==
    \A fp \in Fingerprints : \A i, j \in 1 .. Len(seen[fp]) :
        i <= j => seen[fp][i] <= seen[fp][j]

\* The sequence is what is left of s without its first k elements.
IsRest(timestamps, s, k) ==
    /\ timestamps \in Seq(Nat)
    /\ Len(timestamps) = Len(s) - k
    /\ \A i \in 1 .. Len(timestamps) : timestamps[i] = s[k + i]

\* The first k occurrences are too old to count: before the escalation window
\* of the last one, or before the longest window of the present.
Outdated(fp, k) ==
    \A i \in 1 .. k : \/ seen[fp][i] + EscalationWindow < LastSeen(fp)
                      \/ seen[fp][i] + LongestWindow < clock

\* A row holds the occurrences of its fingerprint but for outdated ones, and
\* without a row all of them are.
RowsHoldTheRest ==
    \A fp \in Fingerprints : \E k \in 0 .. Len(seen[fp]) :
        /\ Known(fp) => IsRest(rows[fp].timestamps, seen[fp], k)
        /\ ~Known(fp) => k = Len(seen[fp])
        /\ Outdated(fp, k)

CountInv == RowsInv /\ SeenInOrder /\ RowsHoldTheRest

\* A set of natural numbers has a least element.
LEMMA SmallestOf ==
    ASSUME NEW T, T \subseteq Nat, T # {}
    PROVE  \E x \in T : \A y \in T : x <= y
<1> DEFINE less == OpToRel(<, Nat)
<1>1. \A x, y \in Nat : x < y => <<x, y>> \in less
  BY DEF OpToRel
<1>2. IsWellFoundedOn(less, Nat)
  BY NatLessThanWellFounded
<1> HIDE DEF less
<1>3. PICK x \in T : \A y \in T : ~(<<y, x>> \in less)
  BY <1>2, WFMin
<1>4. \A y \in T : ~(y < x)
  BY <1>1, <1>3, Zenon
<1> QED
  BY <1>4

LEMMA SmallerOfTwo ==
    ASSUME NEW a \in Int, NEW b \in Int
    PROVE  Min({a, b}) \in {a, b} /\ Min({a, b}) <= a /\ Min({a, b}) <= b
<1>1. \E x \in {a, b} : \A y \in {a, b} : x =< y
  <2>1. CASE a <= b
    BY <2>1
  <2>2. CASE b <= a
    BY <2>2
  <2> QED
    BY <2>1, <2>2
<1>2. Min({a, b}) \in {a, b} /\ \A y \in {a, b} : Min({a, b}) =< y
  BY <1>1, Zenon DEF Min
<1> QED
  BY <1>2

\* A severity below critical rises.
LEMMA BumpedRises ==
    ASSUME NEW severity \in Severities, severity # "critical"
    PROVE  Bumped(severity) # severity
<1> DEFINE i == CHOOSE k \in DOMAIN SeverityOrder : SeverityOrder[k] = severity
<1>1. DOMAIN SeverityOrder = 1 .. 4 /\ Len(SeverityOrder) = 4
  BY DEF SeverityOrder
<1>2. \E k \in DOMAIN SeverityOrder : SeverityOrder[k] = severity
  BY DEF Severities, Range
<1>3. i \in DOMAIN SeverityOrder /\ SeverityOrder[i] = severity
  BY <1>2
<1> HIDE DEF i
<1>4. i \in {1, 2, 3}
  BY <1>1, <1>3 DEF SeverityOrder
<1>5. Min({i + 1, 4}) = i + 1
  <2>1. i + 1 \in Int /\ 4 \in Int /\ i + 1 <= 4
    BY <1>4
  <2>2. Min({i + 1, 4}) \in {i + 1, 4} /\ Min({i + 1, 4}) <= i + 1
    BY <2>1, SmallerOfTwo
  <2> QED
    BY <2>1, <2>2
<1>6. Bumped(severity) = SeverityOrder[i + 1]
  BY <1>1, <1>5 DEF Bumped, i
<1> QED
  BY <1>3, <1>4, <1>6 DEF SeverityOrder

\* Trimming a sequence in order cuts it where the cutoff lies.
LEMMA TrimmedCuts ==
    ASSUME NEW s \in Seq(Nat), s # <<>>, NEW cutoff \in Int, s[Len(s)] >= cutoff,
           \A i, j \in 1 .. Len(s) : i <= j => s[i] <= s[j]
    PROVE  \E m \in 0 .. Len(s) - 1 :
              /\ IsRest(Trimmed(s, cutoff), s, m)
              /\ \A i \in 1 .. m : s[i] < cutoff
              /\ \A i \in m + 1 .. Len(s) : s[i] >= cutoff
<1> DEFINE kept == {i \in DOMAIN s : s[i] >= cutoff}
<1>1. DOMAIN s = 1 .. Len(s) /\ Len(s) \in Nat /\ Len(s) > 0 /\ \A i \in 1 .. Len(s) : s[i] \in Nat
  BY EmptySeq
<1>2. kept \subseteq Nat /\ Len(s) \in kept
  BY <1>1
<1>3. \E x \in kept : \A y \in kept : x =< y
  BY <1>2, SmallestOf
<1> HIDE DEF kept
<1>4. Min(kept) \in kept /\ \A y \in kept : Min(kept) =< y
  BY <1>3, Zenon DEF Min
<1> DEFINE first == Min(kept)
<1>5. first \in 1 .. Len(s) /\ s[first] >= cutoff
  BY <1>1, <1>4 DEF kept
<1>6. \A i \in 1 .. first - 1 : s[i] < cutoff
  <2> SUFFICES ASSUME NEW i \in 1 .. first - 1, ~(s[i] < cutoff)
               PROVE  FALSE
    OBVIOUS
  <2>1. i \in 1 .. Len(s) /\ i < first
    BY <1>1, <1>5
  <2>2. i \in kept
    BY <1>1, <2>1 DEF kept
  <2>3. first =< i
    BY <1>4, <2>2
  <2> QED
    BY <1>1, <1>5, <2>1, <2>3
<1>7. \A i \in first .. Len(s) : s[i] >= cutoff
  BY <1>1, <1>5
<1>8. Trimmed(s, cutoff) = SubSeq(s, first, Len(s))
  BY <1>2, Zenon DEF Trimmed, kept
<1> HIDE DEF first
<1>9. IsRest(SubSeq(s, first, Len(s)), s, first - 1)
  BY <1>1, <1>5 DEF IsRest
<1> QED
  BY <1>1, <1>5, <1>6, <1>7, <1>8, <1>9

LEMMA Appended ==
    ASSUME NEW log \in Seq(Nat), NEW latest \in Nat
    PROVE  /\ Append(log, latest) \in Seq(Nat) /\ Len(Append(log, latest)) = Len(log) + 1
           /\ \A i \in 1 .. Len(log) : Append(log, latest)[i] = log[i]
           /\ Append(log, latest)[Len(log) + 1] = latest
           /\ Len(log) \in Nat /\ \A i \in 1 .. Len(log) : log[i] \in Nat
OBVIOUS

LEMMA AppendedInOrder ==
    ASSUME NEW log \in Seq(Nat), NEW latest \in Nat,
           Len(log) > 0 => log[Len(log)] <= latest,
           \A i, j \in 1 .. Len(log) : i <= j => log[i] <= log[j]
    PROVE  \A i, j \in 1 .. Len(log) + 1 :
              i <= j => Append(log, latest)[i] <= Append(log, latest)[j]
<1> DEFINE longer == Append(log, latest)
<1>1. /\ Len(log) \in Nat /\ longer[Len(log) + 1] = latest
      /\ \A i \in 1 .. Len(log) : longer[i] = log[i] /\ log[i] \in Nat
  BY Appended
<1> HIDE DEF longer
<1>2. \A i \in 1 .. Len(log) : log[i] <= latest
  <2> SUFFICES ASSUME NEW i \in 1 .. Len(log)
               PROVE  log[i] <= latest
    OBVIOUS
  <2>1. Len(log) \in 1 .. Len(log) /\ log[i] <= log[Len(log)]
    BY <1>1
  <2> QED
    BY <1>1, <2>1
<1>3. ASSUME NEW i \in 1 .. Len(log) + 1, NEW j \in 1 .. Len(log) + 1, i <= j
      PROVE  longer[i] <= longer[j]
  <2>1. CASE j \in 1 .. Len(log)
    <3>1. i \in 1 .. Len(log)
      BY <1>1, <1>3, <2>1
    <3> QED
      BY <1>1, <1>3, <2>1, <3>1
  <2>2. CASE j = Len(log) + 1 /\ i \in 1 .. Len(log)
    BY <1>1, <1>2, <2>2
  <2>3. CASE j = Len(log) + 1 /\ i = Len(log) + 1
    BY <1>1, <2>3
  <2> QED
    BY <1>1, <1>3, <2>1, <2>2, <2>3
<1> QED
  BY <1>3 DEF longer

LEMMA AppendedRest ==
    ASSUME NEW log \in Seq(Nat), NEW latest \in Nat, NEW k \in 0 .. Len(log),
           NEW timestamps, IsRest(timestamps, log, k)
    PROVE  IsRest(Append(timestamps, latest), Append(log, latest), k)
<1> DEFINE longer == Append(log, latest)
           extended == Append(timestamps, latest)
<1>1. /\ Len(longer) = Len(log) + 1 /\ longer[Len(log) + 1] = latest /\ Len(log) \in Nat
      /\ \A i \in 1 .. Len(log) : longer[i] = log[i]
  BY Appended
<1>2. /\ timestamps \in Seq(Nat) /\ Len(timestamps) = Len(log) - k
      /\ \A i \in 1 .. Len(timestamps) : timestamps[i] = log[k + i]
  BY DEF IsRest
<1>3. /\ extended \in Seq(Nat) /\ Len(extended) = Len(timestamps) + 1
      /\ extended[Len(timestamps) + 1] = latest
      /\ \A i \in 1 .. Len(timestamps) : extended[i] = timestamps[i]
  BY <1>2, Appended
<1> HIDE DEF longer, extended
<1>4. ASSUME NEW i \in 1 .. Len(extended)
      PROVE  extended[i] = longer[k + i]
  <2>1. CASE i \in 1 .. Len(timestamps)
    <3>1. k + i \in 1 .. Len(log)
      BY <1>1, <1>2, <2>1
    <3> QED
      BY <1>1, <1>2, <1>3, <2>1, <3>1
  <2>2. CASE i = Len(timestamps) + 1
    BY <1>1, <1>2, <1>3, <2>2
  <2> QED
    BY <1>1, <1>2, <1>3, <2>1, <2>2
<1>5. IsRest(extended, longer, k)
  BY <1>1, <1>2, <1>3, <1>4 DEF IsRest
<1> QED
  BY <1>5 DEF longer, extended

LEMMA RestOfRest ==
    ASSUME NEW s \in Seq(Nat), NEW k \in 0 .. Len(s), NEW t, IsRest(t, s, k),
           NEW m \in 0 .. Len(t), NEW u, IsRest(u, t, m)
    PROVE  IsRest(u, s, k + m)
<1>1. /\ Len(s) \in Nat /\ Len(t) = Len(s) - k /\ Len(u) = Len(t) - m /\ u \in Seq(Nat)
      /\ \A i \in 1 .. Len(t) : t[i] = s[k + i]
      /\ \A i \in 1 .. Len(u) : u[i] = t[m + i]
  BY DEF IsRest
<1>2. ASSUME NEW i \in 1 .. Len(u)
      PROVE  u[i] = s[k + m + i]
  <2>1. m + i \in 1 .. Len(t) /\ k + (m + i) = k + m + i
    BY <1>1
  <2> QED
    BY <1>1, <2>1
<1> QED
  BY <1>1, <1>2 DEF IsRest

\* Trimming what is left of a sequence in order leaves what lies behind the
\* cutoff.
LEMMA TrimmedRest ==
    ASSUME NEW s \in Seq(Nat), NEW k \in 0 .. Len(s) - 1, NEW t, IsRest(t, s, k),
           \A i, j \in 1 .. Len(s) : i <= j => s[i] <= s[j],
           NEW cutoff \in Int, s[Len(s)] >= cutoff
    PROVE  \E l \in k .. Len(s) - 1 :
              /\ IsRest(Trimmed(t, cutoff), s, l)
              /\ \A i \in k + 1 .. l : s[i] < cutoff
              /\ \A i \in l + 1 .. Len(s) : s[i] >= cutoff
<1>1. /\ Len(s) \in Nat /\ Len(t) = Len(s) - k /\ t \in Seq(Nat)
      /\ \A i \in 1 .. Len(t) : t[i] = s[k + i]
  BY DEF IsRest
<1>2. t # <<>> /\ t[Len(t)] >= cutoff
  <2>1. Len(t) \in 1 .. Len(t) /\ k + Len(t) = Len(s) /\ Len(t) > 0
    BY <1>1
  <2>2. t[Len(t)] = s[Len(s)]
    BY <1>1, <2>1
  <2>3. t # <<>>
    BY <2>1
  <2> QED
    BY <2>2, <2>3
<1>3. ASSUME NEW i \in 1 .. Len(t), NEW j \in 1 .. Len(t), i <= j
      PROVE  t[i] <= t[j]
  <2>1. k + i \in 1 .. Len(s) /\ k + j \in 1 .. Len(s) /\ k + i <= k + j
    BY <1>1, <1>3
  <2> QED
    BY <1>1, <2>1
<1>4. PICK m \in 0 .. Len(t) - 1 :
         /\ IsRest(Trimmed(t, cutoff), t, m)
         /\ \A i \in 1 .. m : t[i] < cutoff
         /\ \A i \in m + 1 .. Len(t) : t[i] >= cutoff
  BY <1>1, <1>2, <1>3, TrimmedCuts
<1>5. k + m \in k .. Len(s) - 1 /\ m \in 0 .. Len(t) /\ k \in 0 .. Len(s)
  BY <1>1
<1>6. IsRest(Trimmed(t, cutoff), s, k + m)
  BY <1>1, <1>4, <1>5, RestOfRest
<1>7. ASSUME NEW i \in k + 1 .. Len(s)
      PROVE  i - k \in 1 .. Len(t) /\ s[i] = t[i - k]
  <2>1. i - k \in 1 .. Len(t) /\ k + (i - k) = i
    BY <1>1
  <2> QED
    BY <1>1, <2>1
<1>8. ASSUME NEW i \in k + 1 .. k + m
      PROVE  s[i] < cutoff
  <2>1. i - k \in 1 .. m /\ i \in k + 1 .. Len(s)
    BY <1>1
  <2> QED
    BY <1>4, <1>7, <2>1
<1>9. ASSUME NEW i \in k + m + 1 .. Len(s)
      PROVE  s[i] >= cutoff
  <2>1. i - k \in m + 1 .. Len(t) /\ i \in k + 1 .. Len(s)
    BY <1>1
  <2> QED
    BY <1>4, <1>7, <2>1
<1> QED
  BY <1>5, <1>6, <1>8, <1>9

\* The row an incident leaves holds what the log has of its fingerprint, but for
\* outdated occurrences, and nothing from before the escalation window.
LEMMA UpdatedIsRest ==
    ASSUME CountInv, NEW incident \in Incidents, Emittable(incident), Correlate(incident),
           NEW fp, fp = incident.fingerprint, NEW latest, latest = incident.detected_at
    PROVE  \E k \in 0 .. Len(seen[fp]) :
              /\ IsRest(UpdatedRow(fp, latest).timestamps, seen'[fp], k)
              /\ \A i \in 1 .. k : \/ seen'[fp][i] + EscalationWindow < latest
                                   \/ seen'[fp][i] + LongestWindow < clock
              /\ \A i \in k + 1 .. Len(seen'[fp]) : seen'[fp][i] >= latest - EscalationWindow
<1> USE CorrelatorAssumption, LongestWindowBounds
<1>1. fp \in Fingerprints /\ latest \in Nat /\ clock \in Nat /\ seen[fp] \in Seq(Nat)
  BY DEF Incidents, CountInv, RowsInv, LogType
<1> DEFINE log == seen[fp]
           n == Len(log)
<1>2. seen'[fp] = Append(log, latest)
  BY <1>1 DEF Correlate, CountInv, RowsInv, LogType
<1>3. n > 0 => LastSeen(fp) <= latest /\ LastSeen(fp) = log[n]
  BY <1>1, EmptySeq DEF Emittable, LastSeen
<1>4. \A i, j \in 1 .. n : i <= j => log[i] <= log[j]
  BY <1>1 DEF CountInv, SeenInOrder
<1>5. PICK k \in 0 .. n :
         /\ Known(fp) => IsRest(rows[fp].timestamps, log, k)
         /\ ~Known(fp) => k = n
         /\ Outdated(fp, k)
  BY <1>1 DEF CountInv, RowsHoldTheRest
<1> DEFINE longer == Append(log, latest)
           cutoff == latest - EscalationWindow
<1>6. /\ longer \in Seq(Nat) /\ Len(longer) = n + 1 /\ n \in Nat
      /\ \A i \in 1 .. n : longer[i] = log[i] /\ log[i] \in Nat
      /\ longer[n + 1] = latest
  BY <1>1, Appended
<1>7. \A i, j \in 1 .. n + 1 : i <= j => longer[i] <= longer[j]
  BY <1>1, <1>3, <1>4, AppendedInOrder
<1> HIDE DEF longer
<1>8. ASSUME NEW i \in 1 .. k
      PROVE  \/ longer[i] + EscalationWindow < latest
             \/ longer[i] + LongestWindow < clock
  <2>1. i \in 1 .. n /\ n > 0 /\ longer[i] = log[i] /\ log[i] \in Nat /\ LastSeen(fp) <= latest
    <3> HIDE DEF log, n
    <3>1. i \in 1 .. n /\ n > 0
      BY <1>6
    <3> QED
      BY <1>3, <1>6, <3>1
  <2>2. log[i] + EscalationWindow < LastSeen(fp) \/ log[i] + LongestWindow < clock
    BY <1>5 DEF Outdated
  <2>3. LastSeen(fp) \in Nat
    <3>1. n \in 1 .. n
      BY <1>6, <2>1
    <3>2. log[n] \in Nat
      BY <1>6, <3>1
    <3> QED
      BY <1>3, <2>1, <3>2
  <2>4. EscalationWindow \in Nat /\ LongestWindow \in Nat
    OBVIOUS
  <2>5. log[i] + EscalationWindow < LastSeen(fp) => log[i] + EscalationWindow < latest
    BY <1>1, <2>1, <2>3, <2>4
  <2> QED
    BY <2>1, <2>2, <2>5
<1>9. cutoff \in Int /\ latest >= cutoff
  BY <1>1
<1>10. CASE ~Known(fp)
  <2>1. UpdatedRow(fp, latest).timestamps = <<latest>>
    BY <1>10 DEF UpdatedRow
  <2>2. IsRest(<<latest>>, longer, n)
    BY <1>1, <1>6 DEF IsRest
  <2>3. \A i \in n + 1 .. n + 1 : longer[i] >= cutoff
    BY <1>6, <1>9
  <2> QED
    BY <1>2, <1>5, <1>6, <1>8, <1>10, <2>1, <2>2, <2>3 DEF longer
<1>11. CASE Known(fp)
  <2> DEFINE before == Append(rows[fp].timestamps, latest)
  <2>1. UpdatedRow(fp, latest).timestamps = Trimmed(before, cutoff)
    BY <1>11 DEF UpdatedRow
  <2>2. IsRest(before, longer, k)
    BY <1>1, <1>5, <1>11, AppendedRest DEF longer
  <2> HIDE DEF before, cutoff
  <2>3. PICK l \in k .. n :
           /\ IsRest(Trimmed(before, cutoff), longer, l)
           /\ \A i \in k + 1 .. l : longer[i] < cutoff
           /\ \A i \in l + 1 .. n + 1 : longer[i] >= cutoff
    <3>1. /\ k \in 0 .. Len(longer) - 1 /\ Len(longer) - 1 = n
          /\ longer[Len(longer)] >= cutoff
          /\ \A i, j \in 1 .. Len(longer) : i <= j => longer[i] <= longer[j]
      <4>1. Len(longer) = n + 1 /\ n \in Nat
        BY <1>6
      <4>2. longer[Len(longer)] = latest /\ latest >= cutoff
        BY <1>6, <1>9 DEF cutoff
      <4> QED
        BY <1>7, <4>1, <4>2
    <3> QED
      BY <1>6, <1>9, <2>2, <3>1, TrimmedRest
  <2>4. ASSUME NEW i \in 1 .. l
        PROVE  \/ longer[i] + EscalationWindow < latest
               \/ longer[i] + LongestWindow < clock
    <3>1. i \in 1 .. k \/ i \in k + 1 .. l
      BY <1>6
    <3>2. i \in k + 1 .. l => longer[i] < latest - EscalationWindow /\ longer[i] \in Nat
      <4> HIDE DEF log, n
      <4> SUFFICES ASSUME i \in k + 1 .. l PROVE longer[i] < latest - EscalationWindow /\ longer[i] \in Nat
        OBVIOUS
      <4>1. longer[i] < latest - EscalationWindow
        BY <2>3 DEF cutoff
      <4>2. i \in 1 .. n
        BY <1>6
      <4> QED
        BY <1>6, <4>1, <4>2
    <3> QED
      BY <1>1, <1>8, <3>1, <3>2
  <2>5. l \in 0 .. n
    BY <1>6
  <2> QED
    BY <1>2, <1>6, <2>1, <2>3, <2>4, <2>5 DEF longer, cutoff
<1> QED
  BY <1>10, <1>11

\* What correlate does to the timestamps of the rows.
LEMMA CorrelateRows ==
    ASSUME NEW incident, Correlate(incident)
    PROVE  \A g \in DOMAIN rows' :
              rows'[g] = IF g = incident.fingerprint
                         THEN UpdatedRow(g, incident.detected_at) ELSE rows[g]
<1> DEFINE fp == incident.fingerprint
           row == UpdatedRow(fp, incident.detected_at)
           table == WithRow(fp, row)
<1>1. \A g \in DOMAIN table : table[g] = IF g = fp THEN row ELSE rows[g]
  BY DEF WithRow
<1> HIDE DEF table, row
<1>2. \A g \in DOMAIN rows' : g \in DOMAIN table /\ rows'[g] = table[g]
  BY DEF Correlate, EvictStale, Restrict, table, row
<1> QED
  BY <1>1, <1>2 DEF row

\* An outdated occurrence stays outdated when the last one and the present move on.
LEMMA StaysOutdated ==
    ASSUME LogType, NEW fp \in Fingerprints, NEW k \in 0 .. Len(seen[fp]), Outdated(fp, k),
           seen' = seen, clock' \in Nat, clock <= clock'
    PROVE  Outdated(fp, k)'
<1> USE CorrelatorAssumption, LongestWindowBounds
<1>1. \A i \in 1 .. k : seen[fp][i] \in Nat
  <2>1. seen[fp] \in Seq(Nat)
    BY DEF LogType
  <2> QED
    BY <2>1
<1> QED
  BY <1>1 DEF Outdated, LastSeen, LogType

\* The step of a correlated incident keeps the counts.
LEMMA CorrelateKeepsCounts ==
    ASSUME CountInv, RowsInv', NEW incident \in Incidents, Emittable(incident), Correlate(incident)
    PROVE  (SeenInOrder /\ RowsHoldTheRest)'
<1> DEFINE fp == incident.fingerprint
           latest == incident.detected_at
<1> USE CorrelatorAssumption, LongestWindowBounds
<1>1. fp \in Fingerprints /\ latest \in Nat /\ latest <= clock /\ clock \in Nat /\ clock' = clock
  BY DEF Incidents, CountInv, RowsInv, LogType, Correlate
<1>2. /\ seen[fp] \in Seq(Nat) /\ seen'[fp] = Append(seen[fp], latest)
      /\ \A g \in Fingerprints \ {fp} : seen'[g] = seen[g]
  BY <1>1 DEF Correlate, CountInv, RowsInv, LogType
<1>3. LastSeen(fp)' = latest /\ fp \in DOMAIN rows'
  BY CorrelateEffect DEF CountInv, RowsInv
<1> HIDE DEF fp, latest
<1>4. \A i, j \in 1 .. Len(seen'[fp]) : i <= j => seen'[fp][i] <= seen'[fp][j]
  <2>1. Len(seen[fp]) > 0 => seen[fp][Len(seen[fp])] <= latest
    BY <1>1, EmptySeq DEF Emittable, fp, latest
  <2>2. \A i, j \in 1 .. Len(seen[fp]) : i <= j => seen[fp][i] <= seen[fp][j]
    BY <1>1 DEF CountInv, SeenInOrder
  <2>3. Len(Append(seen[fp], latest)) = Len(seen[fp]) + 1
    BY <1>1, <1>2, Appended
  <2> QED
    BY <1>1, <1>2, <2>1, <2>2, <2>3, AppendedInOrder
<1>5. SeenInOrder'
  BY <1>2, <1>4 DEF CountInv, SeenInOrder
<1>6. \E k \in 0 .. Len(seen'[fp]) :
         /\ Known(fp)' => IsRest(rows'[fp].timestamps, seen'[fp], k)
         /\ ~Known(fp)' => k = Len(seen'[fp])
         /\ Outdated(fp, k)'
  <2>1. PICK k \in 0 .. Len(seen[fp]) :
           /\ IsRest(UpdatedRow(fp, latest).timestamps, seen'[fp], k)
           /\ \A i \in 1 .. k : \/ seen'[fp][i] + EscalationWindow < latest
                                \/ seen'[fp][i] + LongestWindow < clock
    BY UpdatedIsRest DEF fp, latest
  <2>2. rows'[fp] = UpdatedRow(fp, latest)
    BY <1>3, CorrelateRows DEF fp, latest
  <2>3. k \in 0 .. Len(seen'[fp])
    BY <1>1, <1>2, Appended
  <2>4. Outdated(fp, k)'
    BY <1>1, <1>3, <2>1 DEF Outdated
  <2> QED
    BY <1>3, <2>1, <2>2, <2>3, <2>4 DEF Known
<1>7. ASSUME NEW g \in Fingerprints, g # fp
      PROVE  \E k \in 0 .. Len(seen'[g]) :
                /\ Known(g)' => IsRest(rows'[g].timestamps, seen'[g], k)
                /\ ~Known(g)' => k = Len(seen'[g])
                /\ Outdated(g, k)'
  <2>1. seen'[g] = seen[g] /\ LastSeen(g)' = LastSeen(g) /\ seen[g] \in Seq(Nat)
    BY <1>2, <1>7 DEF LastSeen, CountInv, RowsInv, LogType
  <2>2. \A k : Outdated(g, k) => Outdated(g, k)'
    BY <1>1, <2>1 DEF Outdated
  <2>3. CASE Known(g)'
    <3>1. rows'[g] = rows[g] /\ Known(g)
      BY <1>7, <2>3, CorrelateRows, CorrelateEffect DEF Known, fp, latest, CountInv, RowsInv
    <3> QED
      BY <2>1, <2>2, <2>3, <3>1 DEF CountInv, RowsHoldTheRest
  <2>4. CASE ~Known(g)' /\ seen'[g] # <<>>
    <3>1. LastSeen(g) + LongestWindow < clock
      BY <1>1, <2>1, <2>4 DEF RowsInv, RowsFollowTheLog
    <3>2. Len(seen[g]) \in 1 .. Len(seen[g]) /\ \A i \in 1 .. Len(seen[g]) : seen[g][i] \in Nat
      BY <2>1, <2>4, EmptySeq
    <3>3. \A i \in 1 .. Len(seen[g]) : seen[g][i] <= LastSeen(g)
      BY <3>2 DEF CountInv, SeenInOrder, LastSeen
    <3>4. LastSeen(g) \in Nat
      BY <3>2 DEF LastSeen
    <3>5. Outdated(g, Len(seen[g]))
      BY <1>1, <3>1, <3>2, <3>3, <3>4 DEF Outdated
    <3>6. Len(seen[g]) \in 0 .. Len(seen'[g])
      BY <2>1, <3>2
    <3> QED
      BY <2>1, <2>2, <2>4, <3>5, <3>6
  <2>5. CASE ~Known(g)' /\ seen'[g] = <<>>
    <3>1. Outdated(g, 0)
      BY DEF Outdated
    <3>2. Len(seen'[g]) = 0
      BY <2>5
    <3> QED
      BY <2>2, <2>5, <3>1, <3>2
  <2> QED
    BY <2>3, <2>4, <2>5
<1>8. RowsHoldTheRest'
  BY <1>6, <1>7 DEF RowsHoldTheRest
<1> QED
  BY <1>5, <1>8

LEMMA CountsInit == CorrelatorInit => SeenInOrder /\ RowsHoldTheRest
<1> SUFFICES ASSUME CorrelatorInit, NEW fp \in Fingerprints
             PROVE  /\ \A i, j \in 1 .. Len(seen[fp]) : i <= j => seen[fp][i] <= seen[fp][j]
                    /\ ~Known(fp) /\ Len(seen[fp]) = 0 /\ Outdated(fp, 0)
  BY DEF SeenInOrder, RowsHoldTheRest
<1> QED
  BY DEF CorrelatorInit, Known, Outdated

LEMMA CountsStep ==
    CountInv /\ RowsInv' /\ [CorrelatorStep]_correlatorVars => (SeenInOrder /\ RowsHoldTheRest)'
<1> USE CorrelatorAssumption, LongestWindowBounds
<1> SUFFICES ASSUME CountInv, RowsInv', [CorrelatorStep]_correlatorVars
             PROVE  (SeenInOrder /\ RowsHoldTheRest)'
  OBVIOUS
<1>1. ASSUME UNCHANGED <<rows, seen>>, clock' \in Nat, clock <= clock'
      PROVE  (SeenInOrder /\ RowsHoldTheRest)'
  <2>1. SeenInOrder'
    BY <1>1 DEF CountInv, SeenInOrder
  <2>2. ASSUME NEW fp \in Fingerprints, NEW k \in 0 .. Len(seen[fp]), Outdated(fp, k)
        PROVE  Outdated(fp, k)'
    BY <1>1, <2>2, StaysOutdated DEF CountInv, RowsInv
  <2>3. RowsHoldTheRest'
    BY <1>1, <2>2 DEF CountInv, RowsHoldTheRest, Known
  <2> QED
    BY <2>1, <2>3
<1>2. CASE CorrelatorTick
  BY <1>1, <1>2 DEF CorrelatorTick, CountInv, RowsInv, LogType
<1>3. CASE Reset
  <2> SUFFICES ASSUME NEW fp \in Fingerprints
               PROVE  /\ \A i, j \in 1 .. Len(seen'[fp]) : i <= j => seen'[fp][i] <= seen'[fp][j]
                      /\ ~Known(fp)' /\ Len(seen'[fp]) = 0 /\ Outdated(fp, 0)'
    BY DEF SeenInOrder, RowsHoldTheRest
  <2> QED
    BY <1>3 DEF Reset, Known, Outdated
<1>4. ASSUME NEW incident \in Incidents, Emittable(incident), Correlate(incident)
      PROVE  (SeenInOrder /\ RowsHoldTheRest)'
  BY <1>4, CorrelateKeepsCounts
<1>5. CASE UNCHANGED correlatorVars
  BY <1>1, <1>5 DEF correlatorVars, CountInv, RowsInv, LogType
<1> QED
  BY <1>2, <1>3, <1>4, <1>5 DEF CorrelatorStep

\* The occurrences from the k-th on are as many as the indices behind it.
LEMMA CountOfRest ==
    ASSUME NEW n \in Nat, NEW k \in 0 .. n, NEW S
    PROVE  /\ S \subseteq 1 .. n /\ k + 1 .. n \subseteq S => Cardinality(S) >= n - k
           /\ S \subseteq k + 1 .. n => Cardinality(S) <= n - k
           /\ S \subseteq 1 .. n => Cardinality(S) \in Nat
<1>1. IsFiniteSet(k + 1 .. n) /\ Cardinality(k + 1 .. n) = n - k
  <2> DEFINE a == k + 1
  <2>1. a \in Int /\ n \in Int /\ k \in Int /\ k <= n
    OBVIOUS
  <2>2. /\ IsFiniteSet(a .. n)
        /\ Cardinality(a .. n) = (IF a > n THEN 0 ELSE n - a + 1)
    <3> HIDE DEF a
    <3> QED
      BY <2>1, FS_Interval
  <2>3. (IF a > n THEN 0 ELSE n - a + 1) = n - k
    BY <2>1
  <2> QED
    BY <2>2, <2>3
<1>2. IsFiniteSet(1 .. n)
  BY FS_Interval
<1>3. S \subseteq 1 .. n => IsFiniteSet(S) /\ Cardinality(S) \in Nat
  BY <1>2, FS_Subset, FS_CardinalityType
<1>4. S \subseteq 1 .. n /\ k + 1 .. n \subseteq S => Cardinality(S) >= n - k
  BY <1>1, <1>3, FS_Subset
<1>5. S \subseteq k + 1 .. n => Cardinality(S) <= n - k
  BY <1>1, FS_Subset
<1> QED
  BY <1>3, <1>4, <1>5

\* The timestamps a row keeps count what the window holds.
LEMMA EscalationKept ==
    CountInv /\ [CorrelatorStep]_correlatorVars => [EscalationStep]_correlatorVars
<1> USE CorrelatorAssumption, LongestWindowBounds
<1> SUFFICES ASSUME CountInv, CorrelatorStep PROVE EscalationStep
  OBVIOUS
<1>1. CASE CorrelatorTick
  BY <1>1 DEF CorrelatorTick, EscalationStep, Correlated, CountInv, RowsInv, LogType
<1>2. CASE Reset
  BY <1>2 DEF Reset, EscalationStep, Correlated, CountInv, RowsInv, LogType
<1>3. ASSUME NEW incident \in Incidents, Emittable(incident), Correlate(incident)
      PROVE  EscalationStep
  <2> DEFINE fp == incident.fingerprint
             latest == incident.detected_at
             n == Len(seen'[fp])
             repeats == Len(UpdatedRow(fp, latest).timestamps)
             safe == Min({EscalationWindow, LongestWindow - MaxLag})
             Recent(w) == {i \in DOMAIN seen'[fp] : seen'[fp][i] >= latest - w}
  <2>1. \A g \in Fingerprints : Correlated(g) => g = fp
    BY <1>3, CorrelateEffect DEF Correlated, CountInv, RowsInv, LogType
  <2>2. /\ decision'.incident = incident
        /\ decision'.verdict = Verdict(incident)
    BY <1>3 DEF Correlate
  <2>3. fp \in Fingerprints /\ latest \in Nat /\ clock \in Nat /\ clock <= latest + MaxLag
    BY <1>3 DEF Incidents, CountInv, RowsInv, LogType, Emittable
  <2>4. seen'[fp] \in Seq(Nat)
    BY <1>3, <2>3, CorrelateEffect DEF CountInv, RowsInv
  <2>5. PICK k \in 0 .. Len(seen[fp]) :
           /\ IsRest(UpdatedRow(fp, latest).timestamps, seen'[fp], k)
           /\ \A i \in 1 .. k : \/ seen'[fp][i] + EscalationWindow < latest
                                \/ seen'[fp][i] + LongestWindow < clock
           /\ \A i \in k + 1 .. n : seen'[fp][i] >= latest - EscalationWindow
    BY <1>3, UpdatedIsRest
  <2>6. repeats = n - k /\ n \in Nat /\ k \in 0 .. n
    <3>1. Len(seen'[fp]) = Len(seen[fp]) + 1 /\ Len(seen[fp]) \in Nat
      BY <1>3, <2>3, Appended DEF Correlate, CountInv, RowsInv, LogType
    <3> QED
      BY <2>5, <3>1 DEF IsRest
  <2>7. Verdict(incident).escalated =>
           Cardinality(Recent(EscalationWindow)) >= EscalationThreshold
    <3>1. /\ Recent(EscalationWindow) \subseteq 1 .. n
          /\ k + 1 .. n \subseteq Recent(EscalationWindow)
      BY <2>4, <2>5, <2>6
    <3>2. /\ Cardinality(Recent(EscalationWindow)) >= n - k
          /\ Cardinality(Recent(EscalationWindow)) \in Nat
      BY <2>6, <3>1, CountOfRest
    <3>3. Verdict(incident).escalated => repeats >= EscalationThreshold
      BY DEF Verdict
    <3> HIDE DEF repeats, n, Recent
    <3> QED
      BY <2>6, <3>2, <3>3
  <2>8. /\ Cardinality(Recent(safe)) >= EscalationThreshold
        /\ incident.severity # "critical"
        => Verdict(incident).escalated /\ ~Verdict(incident).suppressed
    <3>1. safe \in Int /\ safe <= EscalationWindow /\ safe <= LongestWindow - MaxLag
      <4>1. EscalationWindow \in Int /\ LongestWindow - MaxLag \in Int
        BY DEF LongestWindow
      <4> QED
        BY <4>1, SmallerOfTwo
    <3> HIDE DEF safe
    <3>2. ASSUME NEW i \in 1 .. k
          PROVE  seen'[fp][i] < latest - safe
      <4>1. seen'[fp][i] \in Nat
        BY <2>4, <2>6
      <4>2. \/ seen'[fp][i] + EscalationWindow < latest
            \/ seen'[fp][i] + LongestWindow < clock
        BY <2>5
      <4>3. EscalationWindow \in Int /\ LongestWindow \in Int /\ MaxLag \in Int
        BY DEF LongestWindow
      <4> HIDE DEF latest
      <4>4. CASE seen'[fp][i] + EscalationWindow < latest
        BY <2>3, <3>1, <4>1, <4>3, <4>4
      <4>5. CASE seen'[fp][i] + LongestWindow < clock
        BY <2>3, <3>1, <4>1, <4>3, <4>5
      <4> QED
        BY <4>2, <4>4, <4>5
    <3>3. Recent(safe) \subseteq k + 1 .. n
      <4> SUFFICES ASSUME NEW i \in 1 .. n, seen'[fp][i] >= latest - safe
                   PROVE  i \in k + 1 .. n
        BY <2>4
      <4>1. seen'[fp][i] \in Nat
        BY <2>4
      <4>2. ~(i \in 1 .. k)
        BY <2>3, <3>1, <3>2, <4>1
      <4> QED
        BY <2>6, <4>2
    <3>4. Cardinality(Recent(safe)) <= n - k /\ Cardinality(Recent(safe)) \in Nat
      <4>1. Recent(safe) \subseteq 1 .. n
        BY <2>4
      <4> QED
        BY <2>6, <3>3, <4>1, CountOfRest
    <3>5. incident.severity # "critical" => Bumped(incident.severity) # incident.severity
      BY BumpedRises DEF Incidents
    <3>6. repeats >= EscalationThreshold /\ incident.severity # "critical"
          => Verdict(incident).escalated /\ ~Verdict(incident).suppressed
      BY <3>5 DEF Verdict
    <3> HIDE DEF repeats, n, Recent
    <3> QED
      BY <2>6, <3>4, <3>6
  <2> QED
    BY <2>1, <2>2, <2>7, <2>8 DEF EscalationStep, RecentlySeen
<1> QED
  BY <1>1, <1>2, <1>3 DEF CorrelatorStep

\* Deduplication (correlator.py:140-182 with _evict_stale): two unescalated
\* incidents of one fingerprint go on a dedup window apart, or the log of the
\* other fingerprints ran ahead of them; with an escalation window longer than
\* the dedup window by the lag, as the defaults allow, the second never happens.
THEOREM DedupCorrect == CorrelatorSpec => DedupHolds
<1>1. RowsInv /\ [CorrelatorNext]_correlatorVars => RowsInv' /\ [DedupStep]_correlatorVars
  BY BoundedStep, RowsStep, DedupKept
<1> QED
  BY <1>1, RowsInit, PTL DEF CorrelatorSpec, DedupHolds

\* Escalation (correlator.py:140-182): the timestamps a row keeps are exactly those
\* within the escalation window, unless the row was evicted while the log was
\* ahead of its fingerprint; so an escalation has its threshold of occurrences
\* behind it, and a threshold of occurrences has its escalation.
THEOREM EscalationCorrect == CorrelatorSpec => EscalationHolds
<1>1. CorrelatorInit => CountInv
  BY RowsInit, CountsInit DEF CountInv
<1>2. CountInv /\ [CorrelatorNext]_correlatorVars => CountInv' /\ [EscalationStep]_correlatorVars
  BY BoundedStep, RowsStep, CountsStep, EscalationKept DEF CountInv
<1> QED
  BY <1>1, <1>2, PTL DEF CorrelatorSpec, EscalationHolds

-----------------------------------------------------------------------------
(* Delivery *)

Finished == {"suppressed", "failed", "delivered"}

NoSlot == -1

TypeOK ==
    /\ clock \in Nat
    /\ at \in [Calls -> {"idle", "timed", "suppressed", "sending", "failing",
                         "failed", "delivered"}]
    /\ threshold_name \in [Calls -> Names]
    /\ now \in [Calls -> Nat]
    /\ last_dispatched \in [Names -> Nat \cup {NoSlot}]
    /\ thread \in {"idle", "sinking", "dispatching"}
    /\ Current \in 0 .. MaxSeen
    /\ handled = [c \in 1 .. Current |-> handled[c]]

\* An incident is taken when it is at most MaxLag old.
TakenInTime ==
    \A c \in 1 .. Current :
        /\ Incident(c).fingerprint \in Fingerprints
        /\ VerdictOn(c).escalated \in BOOLEAN
        /\ Incident(c).detected_at \in Nat /\ handled[c].taken_at \in Nat
        /\ Incident(c).detected_at <= handled[c].taken_at
        /\ handled[c].taken_at <= Incident(c).detected_at + MaxLag
        /\ handled[c].taken_at <= clock

\* A call belongs to an incident; it reads the clock when the bridge is over.
CallsFollowIncidents ==
    \A c \in Calls : at[c] # "idle" =>
        /\ c \in 1 .. Current
        /\ threshold_name[c] = Key(Incident(c), VerdictOn(c))
        /\ handled[c].taken_at <= now[c]
        /\ now[c] <= handled[c].taken_at + BridgeTime

\* One thread makes the calls: those of earlier incidents are over.
OneCallAtATime ==
    /\ \A c \in Calls : at[c] \in Finished \cup {"idle"} \/ c = Current
    /\ thread = "sinking" =>
         Current # 0 /\ at[Current] = "idle" /\ clock <= BridgeDeadline
    /\ thread = "dispatching" => Current # 0 /\ at[Current] # "idle"
    /\ thread = "idle" => \A c \in Calls : at[c] \in Finished \cup {"idle"}

\* A slot is the reservation of a call that delivered or is under way.
SlotsAreEarned ==
    \A n \in Names : last_dispatched[n] # NoSlot =>
        \E d \in Calls : /\ at[d] \in {"sending", "failing", "delivered"}
                         /\ threshold_name[d] = n
                         /\ now[d] = last_dispatched[n]

IInv ==
    /\ TypeOK
    /\ TakenInTime
    /\ CallsFollowIncidents
    /\ OneCallAtATime
    /\ SlotsAreEarned

LEMMA Bounds == MaxLag \in Nat /\ MaxSeen \in Nat
BY CorrelatorAssumption

\* The first state satisfies the inductive invariant.
LEMMA InitInvariant == Init => IInv
<1> SUFFICES ASSUME Init PROVE IInv
  OBVIOUS
<1> USE DeliveryAssumption, Bounds DEF Init, CorrelatorInit, Dispatcher!Init
<1>1. Current = 0
  BY EmptySeq DEF Current
<1>2. TypeOK
  <2>1. Names # {}
    <3>1. PICK fp \in Fingerprints : TRUE
      OBVIOUS
    <3>2. [fingerprint |-> fp, escalated |-> TRUE] \in Names
      BY DEF Names
    <3> QED
      BY <3>2
  <2>2. (CHOOSE n \in Names : TRUE) \in Names
    BY <2>1
  <2> QED
    BY <1>1, <2>2 DEF TypeOK, Dispatcher!None, NoSlot, Calls
<1>3. TakenInTime /\ CallsFollowIncidents /\ OneCallAtATime /\ SlotsAreEarned
  BY <1>1 DEF TakenInTime, CallsFollowIncidents, OneCallAtATime, SlotsAreEarned,
              Dispatcher!None, NoSlot, Finished, Names
<1> QED
  BY <1>2, <1>3 DEF IInv

\* A sequence keeps its elements when one is appended.
LEMMA AppendKeeps ==
    ASSUME NEW s, NEW e, NEW n \in Nat, Len(s) = n, s = [i \in 1 .. n |-> s[i]]
    PROVE  /\ Len(Append(s, e)) = n + 1
           /\ Append(s, e) = [i \in 1 .. n + 1 |-> Append(s, e)[i]]
           /\ \A i \in 1 .. n : Append(s, e)[i] = s[i]
           /\ Append(s, e)[n + 1] = e
<1> DEFINE S == {s[i] : i \in 1 .. n} \cup {e}
<1>1. s \in [1 .. n -> S]
  OBVIOUS
<1>2. s \in Seq(S) /\ e \in S
  BY <1>1, IsASeq
<1> HIDE DEF S
<1>3. Append(s, e) \in Seq(S)
  BY <1>2
<1> QED
  BY <1>2, <1>3

\* The polling thread hands an incident to the correlator.
LEMMA ObserveKeeps ==
    ASSUME IInv, NEW incident \in Incidents, Observe(incident)
    PROVE  IInv'
<1> USE DeliveryAssumption, Bounds
<1> DEFINE n == Current + 1
<1>1. /\ TypeOK /\ TakenInTime /\ CallsFollowIncidents /\ OneCallAtATime /\ SlotsAreEarned
      /\ Current \in Nat /\ n \in Nat
  BY DEF IInv, TypeOK
<1>2. /\ clock' = clock /\ at' = at /\ threshold_name' = threshold_name /\ now' = now
      /\ last_dispatched' = last_dispatched
      /\ thread = "idle" /\ thread' \in {"idle", "sinking"}
      /\ n <= MaxSeen
  BY <1>1 DEF Observe, Correlate, dispatcher
<1>3. handled' = Append(handled, [incident |-> incident, verdict |-> decision'.verdict,
                                  taken_at |-> clock])
  BY DEF Observe
<1>4. /\ Current' = n
      /\ handled' = [i \in 1 .. n |-> handled'[i]]
      /\ \A i \in 1 .. Current : handled'[i] = handled[i]
      /\ handled'[n].incident = incident
      /\ handled'[n].verdict = decision'.verdict
      /\ handled'[n].taken_at = clock
  BY <1>1, <1>3, AppendKeeps DEF Current, TypeOK
<1>5. decision'.verdict.escalated \in BOOLEAN
  BY DEF Observe, Correlate, Verdict
<1>6. /\ incident.fingerprint \in Fingerprints
      /\ incident.detected_at \in Nat /\ clock \in Nat
      /\ incident.detected_at <= clock /\ clock <= incident.detected_at + MaxLag
  BY <1>1 DEF Observe, Incidents, Emittable, TypeOK
<1>7. TypeOK'
  BY <1>1, <1>2, <1>4 DEF TypeOK
<1>8. TakenInTime'
  <2>1. ASSUME NEW c \in 1 .. Current
        PROVE  /\ Incident(c)' = Incident(c) /\ VerdictOn(c)' = VerdictOn(c)
               /\ handled'[c].taken_at = handled[c].taken_at
    BY <1>4 DEF Incident, VerdictOn
  <2>2. ASSUME NEW c, c = n
        PROVE  /\ Incident(c)' = incident /\ VerdictOn(c)' = decision'.verdict
               /\ handled'[c].taken_at = clock
    BY <1>4, <2>2 DEF Incident, VerdictOn
  <2>3. \A c \in 1 .. n : c \in 1 .. Current \/ c = n
    BY <1>1
  <2> HIDE DEF n
  <2> SUFFICES ASSUME NEW c \in 1 .. n
               PROVE  /\ Incident(c)'.fingerprint \in Fingerprints
                      /\ VerdictOn(c)'.escalated \in BOOLEAN
                      /\ Incident(c)'.detected_at \in Nat /\ handled'[c].taken_at \in Nat
                      /\ Incident(c)'.detected_at <= handled'[c].taken_at
                      /\ handled'[c].taken_at <= Incident(c)'.detected_at + MaxLag
                      /\ handled'[c].taken_at <= clock'
    BY <1>4 DEF TakenInTime
  <2>4. CASE c = n
    BY <1>2, <1>5, <1>6, <2>2, <2>4
  <2>5. CASE c \in 1 .. Current
    BY <1>1, <1>2, <2>1, <2>5 DEF TakenInTime
  <2> QED
    BY <2>3, <2>4, <2>5
<1>9. CallsFollowIncidents'
  <2> SUFFICES ASSUME NEW c \in Calls, at[c] # "idle"
               PROVE  /\ c \in 1 .. n
                      /\ threshold_name[c] = Key(Incident(c)', VerdictOn(c)')
                      /\ handled'[c].taken_at <= now[c]
                      /\ now[c] <= handled'[c].taken_at + BridgeTime
    BY <1>2, <1>4 DEF CallsFollowIncidents, Incident, VerdictOn, Key
  <2>1. /\ c \in 1 .. Current
        /\ threshold_name[c] = Key(Incident(c), VerdictOn(c))
        /\ handled[c].taken_at <= now[c]
        /\ now[c] <= handled[c].taken_at + BridgeTime
    BY <1>1 DEF CallsFollowIncidents
  <2>2. handled'[c] = handled[c]
    BY <1>4, <2>1
  <2> QED
    BY <1>1, <2>1, <2>2 DEF Incident, VerdictOn
<1>10. OneCallAtATime'
  <2>1. \A c \in Calls : at[c] \in Finished \cup {"idle"}
    BY <1>1, <1>2 DEF OneCallAtATime
  <2>2. n \in Calls /\ at[n] = "idle"
    BY <1>1, <1>2 DEF CallsFollowIncidents, Calls
  <2>3. clock <= BridgeDeadline'
    BY <1>2, <1>4, <1>6 DEF BridgeDeadline
  <2> QED
    BY <1>1, <1>2, <1>4, <2>1, <2>2, <2>3 DEF OneCallAtATime
<1>11. SlotsAreEarned'
  BY <1>1, <1>2 DEF SlotsAreEarned
<1> QED
  BY <1>7, <1>8, <1>9, <1>10, <1>11 DEF IInv

\* The bridge answers or is given up: the dispatch reads its clock.
LEMMA DispatchKeeps ==
    ASSUME IInv, Dispatch, thread = "sinking"
    PROVE  IInv'
<1> USE DeliveryAssumption, Bounds
<1>1. /\ TypeOK /\ TakenInTime /\ CallsFollowIncidents /\ OneCallAtATime /\ SlotsAreEarned
      /\ Current \in 1 .. MaxSeen /\ Current \in Calls
      /\ at[Current] = "idle" /\ clock <= BridgeDeadline
  BY DEF IInv, TypeOK, OneCallAtATime, Calls
<1>2. /\ clock' = clock /\ last_dispatched' = last_dispatched
      /\ handled' = handled /\ thread' = "dispatching"
      /\ at' = [at EXCEPT ![Current] = "timed"]
      /\ threshold_name' =
           [threshold_name EXCEPT ![Current] = Key(Incident(Current), VerdictOn(Current))]
      /\ now' = [now EXCEPT ![Current] = clock]
  BY DEF Dispatch, Dispatcher!ReadClock
<1>3. Current' = Current /\ (\A c : Incident(c)' = Incident(c) /\ VerdictOn(c)' = VerdictOn(c))
  BY <1>2 DEF Current, Incident, VerdictOn
<1>4. Key(Incident(Current), VerdictOn(Current)) \in Names
  BY <1>1 DEF TakenInTime, Key, Names
<1>5. TypeOK'
  BY <1>1, <1>2, <1>3, <1>4 DEF TypeOK
<1>6. TakenInTime'
  BY <1>1, <1>2, <1>3 DEF TakenInTime
<1>7. CallsFollowIncidents'
  <2>1. /\ handled[Current].taken_at <= clock
        /\ clock <= handled[Current].taken_at + BridgeTime
    BY <1>1 DEF TakenInTime, BridgeDeadline, TypeOK
  <2>2. /\ at'[Current] = "timed" /\ now'[Current] = clock
        /\ threshold_name'[Current] = Key(Incident(Current), VerdictOn(Current))
        /\ \A c \in Calls \ {Current} : /\ at'[c] = at[c] /\ now'[c] = now[c]
                                        /\ threshold_name'[c] = threshold_name[c]
    BY <1>1, <1>2 DEF TypeOK
  <2>3. \A c \in Calls \ {Current} : at'[c] # "idle" =>
            /\ c \in 1 .. Current'
            /\ threshold_name'[c] = Key(Incident(c)', VerdictOn(c)')
            /\ handled'[c].taken_at <= now'[c]
            /\ now'[c] <= handled'[c].taken_at + BridgeTime
    BY <1>1, <1>2, <1>3, <2>2 DEF CallsFollowIncidents
  <2> QED
    BY <1>1, <1>2, <1>3, <2>1, <2>2, <2>3 DEF CallsFollowIncidents, Key
<1>8. OneCallAtATime'
  BY <1>1, <1>2, <1>3 DEF OneCallAtATime, TypeOK
<1>9. SlotsAreEarned'
  <2>1. \A d \in Calls : at[d] \in {"sending", "failing", "delivered"} => d # Current
    BY <1>1
  <2> QED
    BY <1>1, <1>2, <2>1 DEF SlotsAreEarned, TypeOK
<1> QED
  BY <1>5, <1>6, <1>7, <1>8, <1>9 DEF IInv

\* What every later step of a dispatch leaves alone.
LEMMA DeliverKeeps ==
    ASSUME IInv, Deliver
    PROVE  IInv'
<1> USE DeliveryAssumption, Bounds
<1> DEFINE c == Current
<1>1. /\ TypeOK /\ TakenInTime /\ CallsFollowIncidents /\ OneCallAtATime /\ SlotsAreEarned
      /\ thread = "dispatching" /\ c \in 1 .. MaxSeen /\ c \in Calls /\ c \in 1 .. Current
  BY DEF IInv, TypeOK, OneCallAtATime, Calls, Deliver
<1>2. /\ clock' = clock /\ handled' = handled /\ thread' = thread
      /\ threshold_name' = threshold_name /\ now' = now
      /\ \E place \in {"suppressed", "sending", "failing", "delivered", "failed"} :
            at' = [at EXCEPT ![c] = place]
      /\ at[c] # "idle"
  BY DEF Deliver, Dispatcher!Suppress, Dispatcher!Reserve, Dispatcher!Send,
         Dispatcher!RollBack
<1>3. Current' = Current /\ (\A d : Incident(d)' = Incident(d) /\ VerdictOn(d)' = VerdictOn(d))
  BY <1>2 DEF Current, Incident, VerdictOn
<1>4. /\ threshold_name[c] \in Names /\ now[c] \in Nat
      /\ \A d \in Calls \ {c} : at'[d] = at[d]
      /\ at'[c] # "idle"
  BY <1>1, <1>2 DEF TypeOK
<1>5. TakenInTime' /\ CallsFollowIncidents'
  BY <1>1, <1>2, <1>3, <1>4 DEF TakenInTime, CallsFollowIncidents, Key
<1>6. OneCallAtATime'
  BY <1>1, <1>2, <1>3, <1>4 DEF OneCallAtATime
<1>7. last_dispatched' \in [Names -> Nat \cup {NoSlot}] => TypeOK'
  BY <1>1, <1>2, <1>3 DEF TypeOK
<1>8. CASE Dispatcher!Suppress(c) \/ Dispatcher!Send(c)
  <2>1. last_dispatched' = last_dispatched
    BY <1>8 DEF Dispatcher!Suppress, Dispatcher!Send
  <2>2. at[c] \in {"timed", "sending"}
    BY <1>8 DEF Dispatcher!Suppress, Dispatcher!Send
  <2>3. at[c] = "sending" => at'[c] \in {"delivered", "failing"}
    BY <1>1, <1>8 DEF Dispatcher!Suppress, Dispatcher!Send, TypeOK
  <2>4. SlotsAreEarned'
    BY <1>1, <1>2, <1>4, <2>1, <2>2, <2>3 DEF SlotsAreEarned
  <2> QED
    BY <1>1, <1>5, <1>6, <1>7, <2>1, <2>4 DEF IInv, TypeOK
<1>9. CASE Dispatcher!Reserve(c)
  <2>1. /\ last_dispatched' = [last_dispatched EXCEPT ![threshold_name[c]] = now[c]]
        /\ at[c] = "timed" /\ at'[c] = "sending"
    BY <1>1, <1>9 DEF Dispatcher!Reserve, TypeOK
  <2>2. SlotsAreEarned'
    <3> SUFFICES ASSUME NEW m \in Names, last_dispatched'[m] # NoSlot
                 PROVE  \E d \in Calls : /\ at'[d] \in {"sending", "failing", "delivered"}
                                         /\ threshold_name[d] = m
                                         /\ now[d] = last_dispatched'[m]
      BY <1>2 DEF SlotsAreEarned
    <3>1. CASE m = threshold_name[c]
      BY <1>1, <1>4, <2>1, <3>1 DEF TypeOK
    <3>2. CASE m # threshold_name[c]
      <4>1. last_dispatched'[m] = last_dispatched[m]
        BY <1>1, <2>1, <3>2 DEF TypeOK
      <4> QED
        BY <1>1, <1>4, <2>1, <4>1 DEF SlotsAreEarned
    <3> QED
      BY <3>1, <3>2
  <2> QED
    BY <1>1, <1>4, <1>5, <1>6, <1>7, <2>1, <2>2 DEF IInv, TypeOK
<1>10. CASE Dispatcher!RollBack(c)
  <2>1. /\ last_dispatched' = Dispatcher!WithoutReservation(c)
        /\ at[c] = "failing" /\ at'[c] = "failed"
    BY <1>1, <1>10 DEF Dispatcher!RollBack, TypeOK
  <2>2. /\ last_dispatched' \in [Names -> Nat \cup {NoSlot}]
        /\ \A m \in Names : last_dispatched'[m] # NoSlot =>
              /\ last_dispatched'[m] = last_dispatched[m]
              /\ ~(m = threshold_name[c] /\ last_dispatched[m] = now[c])
    BY <1>1, <1>4, <2>1 DEF Dispatcher!WithoutReservation, Dispatcher!None, TypeOK, NoSlot
  <2>3. SlotsAreEarned'
    <3> SUFFICES ASSUME NEW m \in Names, last_dispatched'[m] # NoSlot
                 PROVE  \E d \in Calls : /\ at'[d] \in {"sending", "failing", "delivered"}
                                         /\ threshold_name[d] = m
                                         /\ now[d] = last_dispatched'[m]
      BY <1>2 DEF SlotsAreEarned
    <3>1. PICK d \in Calls : /\ at[d] \in {"sending", "failing", "delivered"}
                             /\ threshold_name[d] = m
                             /\ now[d] = last_dispatched[m]
      BY <1>1, <2>2 DEF SlotsAreEarned
    <3>2. d # c
      BY <2>2, <3>1
    <3> QED
      BY <1>4, <2>2, <3>1, <3>2
  <2> QED
    BY <1>1, <1>5, <1>6, <1>7, <2>2, <2>3 DEF IInv
<1> QED
  BY <1>8, <1>9, <1>10 DEF Deliver

\* Every step keeps the inductive invariant.
LEMMA StepInvariant == IInv /\ [Next]_vars => IInv'
<1> SUFFICES ASSUME IInv, [Next]_vars PROVE IInv'
  OBVIOUS
<1> USE DeliveryAssumption, Bounds
<1>1. ASSUME NEW incident \in Incidents, Observe(incident) PROVE IInv'
  BY <1>1, ObserveKeeps
<1>2. CASE BridgeReturns \/ BridgeIsOver
  BY <1>2, DispatchKeeps DEF BridgeReturns, BridgeIsOver
<1>3. CASE Deliver
  BY <1>3, DeliverKeeps
<1>4. CASE SinkReturns
  <2>1. /\ UNCHANGED <<clock, at, threshold_name, now, last_dispatched, handled>>
        /\ at[Current] \in Finished /\ thread' = "idle"
    BY <1>4 DEF SinkReturns, dispatcher, Finished
  <2>2. /\ Current' = Current
        /\ \A d : Incident(d)' = Incident(d) /\ VerdictOn(d)' = VerdictOn(d)
    BY <2>1 DEF Current, Incident, VerdictOn
  <2>3. TypeOK' /\ TakenInTime' /\ SlotsAreEarned'
    BY <2>1, <2>2 DEF IInv, TypeOK, TakenInTime, SlotsAreEarned
  <2>4. CallsFollowIncidents'
    BY <2>1, <2>2 DEF IInv, CallsFollowIncidents, Key
  <2>5. OneCallAtATime'
    BY <2>1, <2>2 DEF IInv, OneCallAtATime
  <2> QED
    BY <2>3, <2>4, <2>5 DEF IInv
<1>5. CASE Tick
  <2>1. /\ UNCHANGED <<at, threshold_name, now, last_dispatched, handled, thread>>
        /\ clock' = clock + 1 /\ clock \in Nat
        /\ thread = "sinking" => clock < BridgeDeadline
    BY <1>5 DEF Tick, Dispatcher!Tick, IInv, TypeOK
  <2>2. /\ Current' = Current /\ BridgeDeadline' = BridgeDeadline
        /\ \A d : Incident(d)' = Incident(d) /\ VerdictOn(d)' = VerdictOn(d)
    BY <2>1 DEF Current, Incident, VerdictOn, BridgeDeadline, Investigated
  <2>3. TypeOK' /\ SlotsAreEarned'
    BY <2>1, <2>2 DEF IInv, TypeOK, SlotsAreEarned
  <2>4. TakenInTime'
    BY <2>1, <2>2 DEF IInv, TakenInTime
  <2>5. CallsFollowIncidents'
    BY <2>1, <2>2 DEF IInv, CallsFollowIncidents, Key
  <2>6. BridgeDeadline \in Int \/ thread # "sinking"
    BY DEF IInv, TakenInTime, OneCallAtATime, TypeOK, BridgeDeadline
  <2>7. OneCallAtATime'
    BY <2>1, <2>2, <2>6 DEF IInv, OneCallAtATime
  <2> QED
    BY <2>3, <2>4, <2>5, <2>7 DEF IInv
<1>6. CASE UNCHANGED vars
  <2>1. UNCHANGED <<clock, at, threshold_name, now, last_dispatched, handled, thread>>
    BY <1>6 DEF vars, dispatcher
  <2>2. /\ Current' = Current /\ BridgeDeadline' = BridgeDeadline
        /\ \A d : Incident(d)' = Incident(d) /\ VerdictOn(d)' = VerdictOn(d)
    BY <2>1 DEF Current, Incident, VerdictOn, BridgeDeadline, Investigated
  <2> QED
    BY <2>1, <2>2 DEF IInv, TypeOK, TakenInTime, CallsFollowIncidents, OneCallAtATime,
                      SlotsAreEarned, Key
<1> QED
  BY <1>1, <1>2, <1>3, <1>4, <1>5, <1>6 DEF Next

\* The inductive invariant holds in every reachable state.
LEMMA InductiveInvariant == Spec => []IInv
BY InitInvariant, StepInvariant, PTL DEF Spec

\* A call the dispatcher suppresses has a delivered message of its key before it.
LEMMA SuppressedBehindDelivered ==
    ASSUME IInv, Dispatcher!Suppress(Current), thread = "dispatching"
    PROVE  \E d \in 1 .. Current - 1 :
              /\ at[d] = "delivered"
              /\ Incident(d).fingerprint = Incident(Current).fingerprint
              /\ VerdictOn(d).escalated = VerdictOn(Current).escalated
              /\ Incident(Current).detected_at
                     < Incident(d).detected_at + Cooldown + BridgeTime + MaxLag
<1> USE DeliveryAssumption, Bounds
<1> DEFINE c == Current
           name == threshold_name[c]
<1>1. /\ at[c] = "timed"
      /\ last_dispatched[name] # NoSlot
      /\ now[c] < last_dispatched[name] + Cooldown
  BY DEF Dispatcher!Suppress, Dispatcher!InCooldown, Dispatcher!None, NoSlot
<1>2. c \in Calls /\ c \in 1 .. Current /\ name \in Names
  BY DEF IInv, TypeOK, OneCallAtATime, Calls
<1>3. PICK d \in Calls : /\ at[d] \in {"sending", "failing", "delivered"}
                         /\ threshold_name[d] = name
                         /\ now[d] = last_dispatched[name]
  BY <1>1, <1>2 DEF IInv, SlotsAreEarned
<1>4. d # c /\ at[d] = "delivered"
  BY <1>1, <1>3 DEF IInv, OneCallAtATime, Finished
<1>5. /\ d \in 1 .. Current /\ d \in 1 .. Current - 1
      /\ name = Key(Incident(d), VerdictOn(d)) /\ name = Key(Incident(c), VerdictOn(c))
      /\ handled[c].taken_at <= now[c]
      /\ now[d] <= handled[d].taken_at + BridgeTime
  <2>1. /\ d \in 1 .. Current /\ threshold_name[d] = Key(Incident(d), VerdictOn(d))
        /\ now[d] <= handled[d].taken_at + BridgeTime
    BY <1>4 DEF IInv, CallsFollowIncidents
  <2>2. /\ threshold_name[c] = Key(Incident(c), VerdictOn(c))
        /\ handled[c].taken_at <= now[c]
    BY <1>1, <1>2 DEF IInv, CallsFollowIncidents
  <2>3. d \in 1 .. Current - 1
    BY <1>2, <1>4, <2>1 DEF IInv, TypeOK
  <2> QED
    BY <1>3, <2>1, <2>2, <2>3
<1>6. /\ Incident(d).fingerprint = Incident(c).fingerprint
      /\ VerdictOn(d).escalated = VerdictOn(c).escalated
  BY <1>5 DEF Key
<1>7. /\ Incident(c).detected_at \in Nat /\ handled[c].taken_at \in Nat
      /\ Incident(d).detected_at \in Nat /\ handled[d].taken_at \in Nat
      /\ Incident(c).detected_at <= handled[c].taken_at
      /\ handled[d].taken_at <= Incident(d).detected_at + MaxLag
      /\ now[c] \in Nat /\ now[d] \in Nat
  BY <1>2, <1>5 DEF IInv, TakenInTime, TypeOK
<1>8. Incident(c).detected_at < Incident(d).detected_at + Cooldown + BridgeTime + MaxLag
  BY <1>1, <1>3, <1>5, <1>7
<1> QED
  BY <1>4, <1>5, <1>6, <1>8

\* What a suppressed call has behind it.
Excused(c) ==
    \E d \in 1 .. c - 1 :
        /\ at[d] = "delivered"
        /\ Incident(d).fingerprint = Incident(c).fingerprint
        /\ VerdictOn(d).escalated = VerdictOn(c).escalated
        /\ Incident(c).detected_at
               < Incident(d).detected_at + Cooldown + BridgeTime + MaxLag

SuppressedAreExcused == \A c \in 1 .. Current : at[c] = "suppressed" => Excused(c)

\* Incidents stay handled and messages delivered; only Deliver suppresses.
LEMMA HistoryGrows ==
    ASSUME IInv, [Next]_vars
    PROVE  /\ Current <= Current'
           /\ \A d \in 1 .. Current : handled'[d] = handled[d]
           /\ \A d \in Calls : at[d] = "delivered" => at'[d] = "delivered"
           /\ \A c \in Calls : at'[c] = "suppressed" /\ at[c] # "suppressed" =>
                 /\ c = Current /\ Dispatcher!Suppress(Current)
                 /\ thread = "dispatching" /\ handled' = handled
<1> USE DeliveryAssumption, Bounds
<1>1. TypeOK /\ Current \in Nat /\ at \in [Calls -> {"idle", "timed", "suppressed",
                                "sending", "failing", "failed", "delivered"}]
  BY DEF IInv, TypeOK
<1>2. ASSUME NEW incident \in Incidents, Observe(incident)
      PROVE  /\ Current <= Current' /\ at' = at
             /\ \A d \in 1 .. Current : handled'[d] = handled[d]
  <2> DEFINE entry == [incident |-> incident, verdict |-> decision'.verdict,
                       taken_at |-> clock]
  <2>1. handled' = Append(handled, entry) /\ at' = at
    BY <1>2 DEF Observe, dispatcher
  <2> HIDE DEF entry
  <2>2. /\ Len(handled') = Current + 1
        /\ \A d \in 1 .. Current : handled'[d] = handled[d]
    BY <1>1, <2>1, AppendKeeps DEF Current, TypeOK
  <2> QED
    BY <1>1, <2>1, <2>2 DEF Current
<1>3. CASE Dispatch /\ thread = "sinking"
  <2>1. at' = [at EXCEPT ![Current] = "timed"] /\ handled' = handled
    BY <1>3 DEF Dispatch, Dispatcher!ReadClock
  <2>2. at[Current] = "idle"
    BY <1>3 DEF IInv, OneCallAtATime
  <2> QED
    BY <1>1, <2>1, <2>2 DEF Current
<1>4. CASE Deliver
  <2>1. handled' = handled /\ thread = "dispatching"
    BY <1>4 DEF Deliver
  <2>2. CASE Dispatcher!Suppress(Current)
    BY <1>1, <2>1, <2>2 DEF Dispatcher!Suppress, Current
  <2>3. CASE Dispatcher!Reserve(Current) \/ Dispatcher!Send(Current)
              \/ Dispatcher!RollBack(Current)
    <3>1. /\ at[Current] \in {"timed", "sending", "failing"}
          /\ \E place \in {"sending", "failing", "failed", "delivered"} :
                at' = [at EXCEPT ![Current] = place]
      BY <2>3 DEF Dispatcher!Reserve, Dispatcher!Send, Dispatcher!RollBack
    <3> QED
      BY <1>1, <2>1, <3>1 DEF Current
  <2> QED
    BY <1>4, <2>2, <2>3 DEF Deliver
<1>5. CASE SinkReturns \/ Tick \/ UNCHANGED vars
  <2>1. at' = at /\ handled' = handled
    BY <1>5 DEF SinkReturns, Tick, Dispatcher!Tick, vars, dispatcher
  <2> QED
    BY <1>1, <2>1 DEF Current
<1>6. CASE \E incident \in Incidents : Observe(incident)
  BY <1>2, <1>6
<1> QED
  BY <1>3, <1>4, <1>5, <1>6 DEF Next, BridgeReturns, BridgeIsOver

\* Every call the dispatcher suppressed stays excused: what was handled and what
\* was delivered stays so.
LEMMA SuppressedInvariant == Spec => []SuppressedAreExcused
<1>1. Init => SuppressedAreExcused
  <2>1. Init => Current = 0
    BY EmptySeq DEF Init, Current
  <2> QED
    BY <2>1 DEF SuppressedAreExcused
<1>2. IInv /\ IInv' /\ SuppressedAreExcused /\ [Next]_vars => SuppressedAreExcused'
  <2> SUFFICES ASSUME IInv, IInv', SuppressedAreExcused, [Next]_vars,
                      NEW c \in 1 .. Current', at'[c] = "suppressed"
               PROVE  Excused(c)'
    BY DEF SuppressedAreExcused
  <2> USE DeliveryAssumption, Bounds
  <2>1. /\ Current \in 0 .. MaxSeen /\ Current' \in 0 .. MaxSeen /\ c \in Calls
        /\ Current <= Current'
        /\ \A d \in 1 .. Current : handled'[d] = handled[d]
        /\ \A d \in Calls : at[d] = "delivered" => at'[d] = "delivered"
    BY HistoryGrows DEF IInv, TypeOK, Calls
  <2>2. CASE at[c] = "suppressed"
    <3>1. c \in 1 .. Current
      BY <2>1, <2>2 DEF IInv, CallsFollowIncidents
    <3>2. PICK d \in 1 .. c - 1 :
             /\ at[d] = "delivered"
             /\ Incident(d).fingerprint = Incident(c).fingerprint
             /\ VerdictOn(d).escalated = VerdictOn(c).escalated
             /\ Incident(c).detected_at
                    < Incident(d).detected_at + Cooldown + BridgeTime + MaxLag
      BY <2>2, <3>1 DEF SuppressedAreExcused, Excused
    <3>3. d \in 1 .. Current /\ d \in Calls
      BY <2>1, <3>1 DEF Calls
    <3> QED
      BY <2>1, <3>1, <3>2, <3>3 DEF Excused, Incident, VerdictOn
  <2>3. CASE at[c] # "suppressed"
    <3>1. /\ c = Current /\ Dispatcher!Suppress(Current)
          /\ thread = "dispatching" /\ handled' = handled
      BY <2>1, <2>3, HistoryGrows
    <3>2. PICK d \in 1 .. c - 1 :
             /\ at[d] = "delivered"
             /\ Incident(d).fingerprint = Incident(c).fingerprint
             /\ VerdictOn(d).escalated = VerdictOn(c).escalated
             /\ Incident(c).detected_at
                    < Incident(d).detected_at + Cooldown + BridgeTime + MaxLag
      BY <3>1, SuppressedBehindDelivered
    <3>3. d \in Calls
      BY <2>1 DEF Calls
    <3> QED
      BY <2>1, <3>1, <3>2, <3>3 DEF Excused, Incident, VerdictOn
  <2> QED
    BY <2>2, <2>3
<1> QED
  BY <1>1, <1>2, InductiveInvariant, PTL DEF Spec

\* The cooldown of alarms.py:87-96 behind the windows of correlator.py:140-182
\* (correlating_sink.py:79-114): what the dispatcher swallows repeats a delivered
\* message of its fingerprint that is as recent as the delays allow.
THEOREM QuietCorrect == Spec => []QuietFingerprintIsSent
<1>1. SuppressedAreExcused => QuietFingerprintIsSent
  BY DEF SuppressedAreExcused, Excused, QuietFingerprintIsSent
<1> QED
  BY <1>1, SuppressedInvariant, PTL

\* What the ":escalated" key is for (correlating_sink.py:202-218): only an earlier
\* delivered escalation of the fingerprint can swallow an escalation.
THEOREM EscalationIsSent == Spec => []FirstEscalationIsSent
<1>1. SuppressedAreExcused => FirstEscalationIsSent
  BY DEF SuppressedAreExcused, Excused, FirstEscalationIsSent
<1> QED
  BY <1>1, SuppressedInvariant, PTL

\* The steps of the delivery are the correlator's, as far as it can see them.
LEMMA StepCorrelates == [Next]_vars => [CorrelatorStep]_correlatorVars
<1> SUFFICES ASSUME [Next]_vars PROVE [CorrelatorStep]_correlatorVars
  OBVIOUS
<1>1. ASSUME NEW incident \in Incidents, Observe(incident)
      PROVE  CorrelatorStep
  BY <1>1 DEF Observe, CorrelatorStep
<1>2. CASE Tick
  BY <1>2 DEF Tick, Dispatcher!Tick, correlator, CorrelatorStep, CorrelatorTick
<1>3. CASE BridgeReturns \/ BridgeIsOver
  BY <1>3 DEF BridgeReturns, BridgeIsOver, Dispatch, Dispatcher!ReadClock, correlator,
              correlatorVars
<1>4. CASE Deliver
  BY <1>4 DEF Deliver, Dispatcher!Suppress, Dispatcher!Reserve, Dispatcher!Send,
              Dispatcher!RollBack, correlator, correlatorVars
<1>5. CASE SinkReturns \/ UNCHANGED vars
  BY <1>5 DEF SinkReturns, vars, correlator, correlatorVars
<1> QED
  BY <1>1, <1>2, <1>3, <1>4, <1>5 DEF Next

\* Nothing the sink does while the bridge or Telegram is slow disturbs
\* deduplication (correlating_sink.py:79-114 under the lock of correlator.py).
THEOREM DeliveryDedup == Spec => DedupHolds
<1>1. RowsInv /\ [Next]_vars => RowsInv' /\ [DedupStep]_correlatorVars
  BY StepCorrelates, RowsStep, DedupKept
<1>2. Init => RowsInv
  BY RowsInit DEF Init
<1> QED
  BY <1>1, <1>2, PTL DEF Spec, DedupHolds

\* Nor does it disturb escalation: the counts behind an escalated message are
\* those of the log.
THEOREM DeliveryEscalation == Spec => EscalationHolds
<1>1. Init => CountInv
  BY RowsInit, CountsInit DEF Init, CountInv
<1>2. CountInv /\ [Next]_vars => CountInv' /\ [EscalationStep]_correlatorVars
  BY StepCorrelates, RowsStep, CountsStep, EscalationKept DEF CountInv
<1> QED
  BY <1>1, <1>2, PTL DEF Spec, EscalationHolds

\* The sink uses the dispatcher as its contract allows: what the composition
\* does to the dispatcher is calls of dispatch and time passing (sinks.py,
\* alarms.py:79-130).
THEOREM DeliveryDispatches == Spec => Dispatcher!Spec
<1>1. Init => Dispatcher!Init
  BY DEF Init
<1>2. IInv /\ [Next]_vars => [Dispatcher!Next]_(Dispatcher!vars)
  <2> SUFFICES ASSUME IInv, [Next]_vars
               PROVE  Dispatcher!Next \/ UNCHANGED Dispatcher!vars
    OBVIOUS
  <2>1. ASSUME NEW incident \in Incidents, Observe(incident)
        PROVE  UNCHANGED Dispatcher!vars
    BY <2>1 DEF Observe, Correlate, dispatcher, Dispatcher!vars
  <2>2. CASE BridgeReturns \/ BridgeIsOver
    <3>1. Dispatcher!ReadClock(Current, Key(Incident(Current), VerdictOn(Current)))
      BY <2>2 DEF BridgeReturns, BridgeIsOver, Dispatch
    <3>2. Current \in 1 .. Current /\ Current \in Calls
      BY <2>2 DEF BridgeReturns, BridgeIsOver, IInv, TypeOK, OneCallAtATime, Calls
    <3>3. Key(Incident(Current), VerdictOn(Current)) \in Names
      BY <3>2 DEF IInv, TakenInTime, Key, Names
    <3> QED
      BY <3>1, <3>2, <3>3 DEF Dispatcher!Next, Dispatcher!Call
  <2>3. CASE Deliver
    <3>1. Current \in Calls
      BY <2>3 DEF Deliver, IInv, TypeOK, OneCallAtATime, Calls
    <3> QED
      BY <2>3, <3>1 DEF Deliver, Dispatcher!Next, Dispatcher!Call
  <2>4. CASE SinkReturns \/ UNCHANGED vars
    BY <2>4 DEF SinkReturns, vars, dispatcher, Dispatcher!vars
  <2>5. CASE Tick
    BY <2>5 DEF Tick, Dispatcher!Next
  <2> QED
    BY <2>1, <2>2, <2>3, <2>4, <2>5 DEF Next
<1> QED
  BY <1>1, <1>2, InductiveInvariant, PTL DEF Spec, Dispatcher!Spec

DispatcherProofs == INSTANCE AlarmDispatcherProofs

\* The theorems of the dispatcher are about the same steps.
LEMMA SameDispatcher ==
    /\ Dispatcher!Init => DispatcherProofs!Init
    /\ [Dispatcher!Next]_(Dispatcher!vars) => [DispatcherProofs!Next]_(DispatcherProofs!vars)
<1>1. Dispatcher!Init => DispatcherProofs!Init
  BY DEF Dispatcher!Init, DispatcherProofs!Init, Dispatcher!None, DispatcherProofs!None
<1>2. [Dispatcher!Next]_(Dispatcher!vars) => [DispatcherProofs!Next]_(DispatcherProofs!vars)
  BY DEF Dispatcher!vars, DispatcherProofs!vars, Dispatcher!Next, DispatcherProofs!Next,
         Dispatcher!Tick, DispatcherProofs!Tick, Dispatcher!Call, DispatcherProofs!Call,
         Dispatcher!ReadClock, DispatcherProofs!ReadClock,
         Dispatcher!Suppress, DispatcherProofs!Suppress,
         Dispatcher!Reserve, DispatcherProofs!Reserve,
         Dispatcher!Send, DispatcherProofs!Send,
         Dispatcher!RollBack, DispatcherProofs!RollBack,
         Dispatcher!InCooldown, DispatcherProofs!InCooldown,
         Dispatcher!WithoutReservation, DispatcherProofs!WithoutReservation,
         Dispatcher!None, DispatcherProofs!None
<1> QED
  BY <1>1, <1>2

\* So what holds of the dispatcher alone holds behind the correlator: two
\* messages of one key are the cooldown apart, and no failed message keeps a
\* later one back (alarms.py:79-130).
THEOREM DeliveryCooldown ==
    Spec => [](Dispatcher!CooldownHolds /\ Dispatcher!NoGhostCooldown)
<1>1. DispatcherProofs!DispatcherAssumption
  <2>1. PICK fp \in Fingerprints : TRUE
    BY DeliveryAssumption
  <2>2. [fingerprint |-> fp, escalated |-> TRUE] \in Names
    BY <2>1 DEF Names
  <2> QED
    BY <2>2, DeliveryAssumption, CorrelatorAssumption DEF DispatcherProofs!DispatcherAssumption
<1>2. DispatcherProofs!Spec => []DispatcherProofs!CooldownHolds
  BY <1>1, DispatcherProofs!CooldownCorrect
<1>3. DispatcherProofs!Spec => []DispatcherProofs!NoGhostCooldown
  BY <1>1, DispatcherProofs!NoGhostCorrect
<1>4. DispatcherProofs!CooldownHolds => Dispatcher!CooldownHolds
  BY DEF DispatcherProofs!CooldownHolds, Dispatcher!CooldownHolds,
         DispatcherProofs!Reserved, Dispatcher!Reserved
<1>5. DispatcherProofs!NoGhostCooldown => Dispatcher!NoGhostCooldown
  BY DEF DispatcherProofs!NoGhostCooldown, Dispatcher!NoGhostCooldown,
         DispatcherProofs!Reserved, Dispatcher!Reserved, DispatcherProofs!None, Dispatcher!None
<1> QED
  BY <1>2, <1>3, <1>4, <1>5, DeliveryDispatches, SameDispatcher, PTL
     DEF Dispatcher!Spec, DispatcherProofs!Spec
=============================================================================
