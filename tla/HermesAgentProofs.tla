------------------------- MODULE HermesAgentProofs --------------------------
(***************************************************************************)
(* The agent and its classifier, for any loggers, windows, threshold and   *)
(* number of records: every traceback is reported once, but for those that *)
(* an exception has cost, its frames stay together, the incidents keep up  *)
(* with each other as the correlator assumes, and a burst is counted over  *)
(* the window it names.                                                    *)
(***************************************************************************)
EXTENDS HermesAgent, FiniteSetTheorems, FunctionTheorems, SequenceTheorems,
        WellFoundedInduction, TLAPS

States == [logger : Loggers, at : Nat, frames : Nat]
Incidents == [fingerprint : Fingerprints, at : Nat, header : Nat]

AgentType ==
    /\ clock \in Nat /\ observed \in Nat /\ headers \in Nat
    /\ headers <= observed /\ observed <= MaxRecords
    /\ DOMAIN open \subseteq 1 .. headers
    /\ \A h \in DOMAIN open : open[h] \in States
    /\ buckets \in [Buckets -> Seq(Nat)]
    /\ unspent \in [Buckets -> Seq(Nat)]
    /\ outbox \in [Threads -> Seq(Incidents)]
    /\ poller \in {"none", "alive"}
    /\ caller \in {"idle", "joining", "processing", "dispatching"}
    /\ stop_event \in BOOLEAN /\ overlapped \in BOOLEAN
    /\ block \in [Threads -> Nat]
    /\ frames \in [Headers -> Nat]
    /\ reported \in [Headers -> Nat]
    /\ newest \in Nat
    /\ latest \in [Fingerprints -> Nat]
    /\ lost \subseteq Headers /\ raised \in BOOLEAN

Slots(th) == DOMAIN outbox[th]

\* A header waits in an outbox.
Leaving(h) == \E th \in Threads : \E i \in Slots(th) : outbox[th][i].header = h

\* A header is in one place: open, or in one slot of an outbox, or reported, or
\* lost.
Placed ==
    /\ \A h \in Headers :
          /\ reported[h] <= 1
          /\ h > headers => reported[h] = 0
          /\ h <= headers => h \in DOMAIN open \/ Leaving(h) \/ reported[h] = 1 \/ h \in lost
          /\ h \in DOMAIN open => reported[h] = 0 /\ ~Leaving(h)
          /\ h \in lost => reported[h] = 0 /\ h <= headers /\ h \notin DOMAIN open /\ ~Leaving(h)
          /\ Leaving(h) => reported[h] = 0 /\ h <= headers
    /\ \A th \in Threads, ht \in Threads : \A i \in Slots(th), j \in Slots(ht) :
          outbox[th][i].header = outbox[ht][j].header /\ outbox[th][i].header # NoHeader
              => th = ht /\ i = j

\* What is open or in an outbox has somebody who will see to it, unless a thread
\* ended by an exception and nobody has flushed since.
Manned ==
    /\ DOMAIN open # {} => poller = "alive" \/ caller \in {"joining", "processing"} \/ raised
    /\ poller = "alive" /\ stop_event => caller = "joining"
    /\ outbox["poller"] # <<>> => poller = "alive"
    /\ outbox["caller"] # <<>> => caller \in {"processing", "dispatching"}
    /\ ~overlapped /\ poller = "alive" => caller \in {"idle", "joining"}

\* The frames of a header that is yet to come are not counted.
Framed ==
    /\ \A th \in Threads : block[th] <= headers
    /\ \A h \in Headers : h > headers => frames[h] = 0
    /\ FramesAreCollected

\* The classifier keeps one traceback of a logger.
OnePerLogger == \A g, h \in DOMAIN open : open[g].logger = open[h].logger => g = h

KeepsUp(a, b) == a <= b \/ a < b + Followup

Past ==
    /\ newest <= clock
    /\ \A fp \in Fingerprints : latest[fp] <= clock
    /\ \A h \in DOMAIN open : open[h].at <= clock
    /\ \A th \in Threads : \A i \in Slots(th) : outbox[th][i].at <= clock

\* Along the way of the incidents, from what was dispatched over what waits in an
\* outbox to what is open, nothing lies further back than a traceback stays open.
Flowing ==
    /\ \A h \in DOMAIN open : KeepsUp(newest, open[h].at)
    /\ \A g, h \in DOMAIN open : KeepsUp(open[g].at, open[h].at)
    /\ \A th \in Threads : \A i \in Slots(th) :
          /\ KeepsUp(newest, outbox[th][i].at)
          /\ \A h \in DOMAIN open : KeepsUp(outbox[th][i].at, open[h].at)
          /\ \A j \in Slots(th) : i < j => KeepsUp(outbox[th][i].at, outbox[th][j].at)

\* And a fingerprint does not go back at all.
Rising ==
    /\ \A h \in DOMAIN open : latest[<<"traceback", open[h].logger>>] <= open[h].at
    /\ \A th \in Threads : \A i \in Slots(th) :
          /\ latest[outbox[th][i].fingerprint] <= outbox[th][i].at
          /\ \A h \in DOMAIN open :
                outbox[th][i].fingerprint = <<"traceback", open[h].logger>> => outbox[th][i].at <= open[h].at
          /\ \A j \in Slots(th) :
                i < j /\ outbox[th][i].fingerprint = outbox[th][j].fingerprint
                    => outbox[th][i].at <= outbox[th][j].at

\* A bucket holds the unspent matches but for some that the window has left behind.
Windowed(b) ==
    \E k \in 0 .. Len(unspent[b]) :
        /\ buckets[b] = SubSeq(unspent[b], k + 1, Len(unspent[b]))
        /\ \A i \in 1 .. k : unspent[b][i] + Window < clock

Sorted(b) ==
    /\ \A i \in 1 .. Len(unspent[b]) : unspent[b][i] <= clock
    /\ \A i, j \in 1 .. Len(unspent[b]) : i <= j => unspent[b][i] <= unspent[b][j]

Counting == \A b \in Buckets : Windowed(b) /\ Sorted(b)

Lagging == ~overlapped => Flowing /\ Rising

IInv == AgentType /\ Placed /\ Manned /\ Framed /\ OnePerLogger /\ Past /\ Lagging /\ Counting

\* Open tracebacks are headers that were observed.
LEMMA OpenIsKnown ==
    ASSUME AgentType
    PROVE  DOMAIN open \subseteq Headers /\ headers \in Nat /\ \A h \in DOMAIN open : h <= headers
<1>1. /\ headers \in Nat /\ observed \in Nat /\ headers <= observed /\ observed <= MaxRecords
      /\ DOMAIN open \subseteq 1 .. headers
  BY DEF AgentType
<1>2. MaxRecords \in Nat
  BY AgentAssumption
<1>3. ASSUME NEW h \in DOMAIN open PROVE h \in 1 .. MaxRecords /\ h <= headers
  BY <1>1, <1>2, <1>3
<1> QED
  BY <1>1, <1>3 DEF Headers
-----------------------------------------------------------------------------
(* The order in which tracebacks leave the classifier. *)

\* A finite set of numbers has its members in order, each of them once.
LEMMA InOrderIs ==
    ASSUME NEW n \in Nat, NEW hs \in SUBSET (1 .. n)
    PROVE  /\ IsFiniteSet(hs) /\ Cardinality(hs) \in Nat
           /\ InOrder(hs) \in [1 .. Cardinality(hs) -> hs]
           /\ \A i, j \in 1 .. Cardinality(hs) : i # j => InOrder(hs)[i] # InOrder(hs)[j]
           /\ \A h \in hs : \E i \in 1 .. Cardinality(hs) : InOrder(hs)[i] = h
<1> DEFINE size == Cardinality(hs)
           below(h) == {g \in hs : g <= h}
           rank == [h \in hs |-> Cardinality(below(h))]
           Increasing(seq) == \A i, j \in DOMAIN seq : i < j => seq[i] < seq[j]
<1>0. \A h \in hs : h \in Nat
  OBVIOUS
<1>1. IsFiniteSet(hs) /\ size \in Nat
  <2>1. IsFiniteSet(1 .. n)
    BY FS_Interval
  <2>2. IsFiniteSet(hs)
    BY <2>1, FS_Subset
  <2> QED
    BY <2>2, FS_CardinalityType
<1>2. \A h \in hs : IsFiniteSet(below(h)) /\ rank[h] \in 1 .. size
  <2> TAKE h \in hs
  <2>1. below(h) \in SUBSET hs /\ h \in below(h)
    BY <1>0
  <2>2. IsFiniteSet(below(h)) /\ Cardinality(below(h)) <= size
    BY <1>1, <2>1, FS_Subset
  <2>3. Cardinality(below(h)) \in Nat /\ Cardinality(below(h)) # 0
    BY <2>1, <2>2, FS_CardinalityType, FS_EmptySet
  <2> QED
    BY <1>1, <2>2, <2>3
<1>3. \A g, h \in hs : g < h => rank[g] < rank[h]
  <2> SUFFICES ASSUME NEW g \in hs, NEW h \in hs, g < h PROVE rank[g] < rank[h]
    OBVIOUS
  <2>1. below(g) \in SUBSET below(h) /\ h \in below(h) /\ h \notin below(g)
    <3>1. \A f \in hs : f <= g => f <= h
      BY <1>0
    <3>2. h <= h /\ ~(h <= g)
      BY <1>0
    <3> QED
      BY <3>1, <3>2
  <2>2. Cardinality(below(g)) <= Cardinality(below(h)) /\ Cardinality(below(g)) # Cardinality(below(h))
    BY <1>2, <2>1, FS_Subset
  <2> QED
    BY <1>2, <2>2
<1>4. rank \in Injection(hs, 1 .. size)
  <2>1. rank \in [hs -> 1 .. size]
    BY <1>2
  <2>2. \A g, h \in hs : rank[g] = rank[h] => g = h
    <3> SUFFICES ASSUME NEW g \in hs, NEW h \in hs, g # h PROVE rank[g] # rank[h]
      OBVIOUS
    <3>1. rank[g] \in Nat /\ rank[h] \in Nat
      BY <1>2
    <3>2. CASE g < h
      BY <1>3, <3>1, <3>2
    <3>3. CASE h < g
      BY <1>3, <3>1, <3>3
    <3> QED
      BY <3>2, <3>3
  <2> HIDE DEF rank
  <2> QED
    BY <2>1, <2>2, Fun_IsInj
<1>5. rank \in Surjection(hs, 1 .. size)
  <2>1. IsFiniteSet(1 .. size) /\ Cardinality(1 .. size) = size
    BY <1>1, FS_Interval
  <2> HIDE DEF rank, size
  <2>2. Cardinality(hs) = Cardinality(1 .. size)
    BY <2>1 DEF size
  <2> QED
    BY <1>4, <2>1, <2>2, FS_Injection
<1>6. \A i \in 1 .. size : \E h \in hs : rank[h] = i
  BY <1>5 DEF Surjection
<1> DEFINE sorted == [i \in 1 .. size |-> CHOOSE h \in hs : rank[h] = i]
<1>7. \A i \in 1 .. size : sorted[i] \in hs /\ rank[sorted[i]] = i
  BY <1>6
<1>8. sorted \in [1 .. size -> hs] /\ Increasing(sorted)
  <2>1. sorted \in [1 .. size -> hs]
    BY <1>7
  <2>2. ASSUME NEW i \in 1 .. size, NEW j \in 1 .. size, i < j PROVE sorted[i] < sorted[j]
    <3>1. sorted[i] \in hs /\ sorted[j] \in hs /\ rank[sorted[i]] = i /\ rank[sorted[j]] = j
      BY <1>7
    <3> HIDE DEF sorted, rank, size
    <3>2. /\ i \in Nat /\ j \in Nat
          /\ sorted[i] \in Nat /\ sorted[j] \in Nat
      <4>1. i \in Nat /\ j \in Nat
        BY <1>1
      <4>2. sorted[i] \in Nat /\ sorted[j] \in Nat
        BY <1>0, <3>1
      <4> QED
        BY <4>1, <4>2
    <3>3. sorted[i] # sorted[j]
      BY <2>2, <3>1, <3>2
    <3>4. ~(sorted[j] < sorted[i])
      BY <1>3, <2>2, <3>1, <3>2
    <3> QED
      BY <3>2, <3>3, <3>4
  <2> QED
    BY <2>1, <2>2
<1>9. InOrder(hs) \in [1 .. size -> hs] /\ Increasing(InOrder(hs))
  <2> HIDE DEF sorted
  <2> QED
    BY <1>8, Zenon DEF InOrder
<1>10. \A i, j \in 1 .. size : i # j => InOrder(hs)[i] # InOrder(hs)[j]
  <2> HIDE DEF size
  <2> TAKE i \in 1 .. size, j \in 1 .. size
  <2>0. InOrder(hs)[i] \in Nat /\ InOrder(hs)[j] \in Nat /\ i \in Nat /\ j \in Nat
    <3>1. i \in Nat /\ j \in Nat
      BY <1>1
    <3>2. InOrder(hs)[i] \in hs /\ InOrder(hs)[j] \in hs
      BY <1>9
    <3> QED
      BY <1>0, <3>1, <3>2
  <2>1. CASE i < j
    BY <1>9, <2>0, <2>1
  <2>2. CASE j < i
    BY <1>9, <2>0, <2>2
  <2> QED
    BY <2>0, <2>1, <2>2
<1>11. InOrder(hs) \in Injection(1 .. size, hs)
  BY <1>9, <1>10, Fun_IsInj
<1>12. InOrder(hs) \in Surjection(1 .. size, hs)
  <2>1. Cardinality(1 .. size) = size
    BY <1>1, FS_Interval
  <2> QED
    BY <1>1, <1>11, <2>1, FS_Injection
<1> QED
  BY <1>1, <1>9, <1>10, <1>12 DEF Surjection
-----------------------------------------------------------------------------
(* What a call of the classifier, under its lock, does. *)

\* The incident of a traceback that was closed.
Closes(incident, closed) ==
    /\ incident.header \in closed
    /\ incident = Traceback(incident.header)

\* The incident of the record itself.
Fresh(incident) ==
    /\ incident.header = NoHeader /\ incident.at = clock
    /\ \A logger \in Loggers : incident.fingerprint # <<"traceback", logger>>

\* Some tracebacks are closed, and new holds the header that the record opens, if
\* any.
Moves(closed, new, logger) ==
    /\ closed \subseteq DOMAIN open
    /\ DOMAIN open' = (DOMAIN open \ closed) \cup new
    /\ \A h \in DOMAIN open \ closed :
          open'[h] = open[h] /\ clock < open[h].at + Followup /\ open[h].logger # logger
    /\ \A h \in new : open'[h] \in States /\ open'[h].logger = logger /\ open'[h].at = clock
    /\ \/ new = {} /\ headers' = headers
       \/ new = {headers + 1} /\ headers' = headers + 1 /\ headers < MaxRecords
    /\ UNCHANGED <<clock, reports, overlapped>>

\* A thread gets the incidents of the tracebacks closed, in some order, and behind
\* them those of its record.
Emits(th, seq, closed, new, logger) ==
    /\ Moves(closed, new, logger)
    /\ outbox[th] = <<>> /\ outbox' = [outbox EXCEPT ![th] = seq]
    /\ seq \in Seq(Incidents)
    /\ \A i \in 1 .. Len(seq) : Closes(seq[i], closed) \/ Fresh(seq[i])
    /\ \A h \in closed : \E i \in 1 .. Len(seq) : seq[i].header = h
    /\ \A i, j \in 1 .. Len(seq) : i # j /\ seq[i].header = seq[j].header => seq[i].header = NoHeader
    /\ \A i, j \in 1 .. Len(seq) : i < j /\ Closes(seq[j], closed) => Closes(seq[i], closed)
    /\ lost' = lost

\* _build_traceback_incident gives each of the tracebacks one incident.
LEMMA TracebacksAre ==
    ASSUME AgentType, NEW hs \in SUBSET DOMAIN open
    PROVE  /\ Tracebacks(hs) \in Seq(Incidents)
           /\ \A i \in 1 .. Len(Tracebacks(hs)) : Closes(Tracebacks(hs)[i], hs)
           /\ \A i, j \in 1 .. Len(Tracebacks(hs)) :
                 i # j => Tracebacks(hs)[i].header # Tracebacks(hs)[j].header
           /\ \A h \in hs : \E i \in 1 .. Len(Tracebacks(hs)) : Tracebacks(hs)[i].header = h
<1> DEFINE size == Cardinality(hs)
           seq == Tracebacks(hs)
<1>1. /\ size \in Nat
      /\ \A i \in 1 .. size : InOrder(hs)[i] \in hs
      /\ \A i, j \in 1 .. size : i # j => InOrder(hs)[i] # InOrder(hs)[j]
      /\ \A h \in hs : \E i \in 1 .. size : InOrder(hs)[i] = h
  <2>1. headers \in Nat /\ hs \in SUBSET (1 .. headers)
    BY DEF AgentType
  <2> QED
    BY <2>1, InOrderIs
<1>2. \A h \in hs : Traceback(h) \in Incidents /\ Traceback(h).header = h
  <2> TAKE h \in hs
  <2>1. h \in Nat /\ open[h].at \in Nat /\ open[h].logger \in Loggers
    BY DEF AgentType, States
  <2>2. <<"traceback", open[h].logger>> \in Fingerprints
    BY <2>1 DEF Fingerprints
  <2> QED
    BY <2>1, <2>2 DEF Traceback, Incidents
<1>3. \A i \in 1 .. size : seq[i] = Traceback(InOrder(hs)[i]) /\ seq[i] \in Incidents /\ seq[i].header = InOrder(hs)[i]
  BY <1>1, <1>2 DEF Tracebacks
<1>4. seq \in Seq(Incidents) /\ Len(seq) = size
  <2>1. seq = [i \in 1 .. size |-> seq[i]]
    BY DEF Tracebacks
  <2>2. seq \in [1 .. size -> Incidents]
    BY <1>3, <2>1
  <2> QED
    BY <1>1, <2>1, <2>2
<1> HIDE DEF seq, size
<1>5. \A i \in 1 .. Len(seq) : Closes(seq[i], hs)
  BY <1>1, <1>3, <1>4 DEF Closes
<1>6. \A i, j \in 1 .. Len(seq) : i # j => seq[i].header # seq[j].header
  BY <1>1, <1>3, <1>4
<1>7. \A h \in hs : \E i \in 1 .. Len(seq) : seq[i].header = h
  BY <1>1, <1>3, <1>4
<1> QED
  BY <1>4, <1>5, <1>6, <1>7 DEF seq

\* A record makes incidents of its own, all of the present.
LEMMA OwnAre ==
    ASSUME AgentType, NEW kind \in Kinds, NEW logger \in Loggers
    PROVE  Own(kind, logger) \in Seq({incident \in Incidents : Fresh(incident)})
<1> DEFINE Now == {incident \in Incidents : Fresh(incident)}
<1>1. ASSUME NEW rule \in {"error_severity", "warning_burst", "repeat"}
      PROVE  Incident(rule, logger) \in Now
  <2>1. <<rule, logger>> \in Fingerprints
    BY DEF Fingerprints
  <2>2. \A l \in Loggers : <<rule, logger>> # <<"traceback", l>>
    BY <1>1
  <2> QED
    BY <2>1, <2>2 DEF Incident, Incidents, Fresh, NoHeader, AgentType
<1> HIDE DEF Now
<1>2. <<>> \in Seq(Now)
  OBVIOUS
<1>3. \A rule \in {"error_severity", "warning_burst", "repeat"} : <<Incident(rule, logger)>> \in Seq(Now)
  BY <1>1
<1>4. \A s \in Seq(Now), t \in Seq(Now) : s \o t \in Seq(Now)
  OBVIOUS
<1> DEFINE a == IF kind \in {"error", "repeat"} THEN <<Incident("error_severity", logger)>> ELSE <<>>
           b == IF kind = "warning" /\ Fires(<<"warning_burst", logger>>)
                THEN <<Incident("warning_burst", logger)>> ELSE <<>>
           c == IF kind = "repeat" /\ Fires(<<"repeat", logger>>) THEN <<Incident("repeat", logger)>> ELSE <<>>
<1>5. a \in Seq(Now) /\ b \in Seq(Now) /\ c \in Seq(Now)
  BY <1>2, <1>3
<1>6. Own(kind, logger) = (a \o b) \o c
  BY DEF Own
<1> HIDE DEF a, b, c
<1> QED
  BY <1>4, <1>5, <1>6 DEF Now

\* The elements of a concatenation.
LEMMA ConcatIs ==
    ASSUME NEW S, NEW s \in Seq(S), NEW t \in Seq(S)
    PROVE  /\ s \o t \in Seq(S) /\ Len(s \o t) = Len(s) + Len(t)
           /\ \A i \in 1 .. Len(s) : (s \o t)[i] = s[i]
           /\ \A i \in 1 .. Len(t) : (s \o t)[Len(s) + i] = t[i]
           /\ \A i \in Len(s) + 1 .. Len(s) + Len(t) : (s \o t)[i] = t[i - Len(s)]
OBVIOUS

\* A record closes the tracebacks whose time has come and that of its logger, and
\* no other.
LEMMA ClassifyMoves ==
    ASSUME AgentType, NEW th \in Threads, NEW kind \in Kinds, NEW logger \in Loggers,
           observed < MaxRecords, Classify(th, kind, logger)
    PROVE  Moves(Due \cup Superseded(logger), IF kind = "header" THEN {headers + 1} ELSE {}, logger)
<1> DEFINE closed == Due \cup Superseded(logger)
           new == IF kind = "header" THEN {headers + 1} ELSE {}
<1>1. closed \subseteq DOMAIN open
  BY DEF Due, Superseded
<1>2. /\ DOMAIN open' = (DOMAIN open \ closed) \cup new
      /\ \A h \in DOMAIN open \ closed : open'[h] = open[h]
      /\ \A h \in new : open'[h] = [logger |-> logger, at |-> clock, frames |-> 0]
  <2>1. \A h \in DOMAIN open : h \notin new
    BY DEF AgentType
  <2> QED
    BY <2>1 DEF Classify, Opened
<1>3. \A h \in new : open'[h] \in States /\ open'[h].logger = logger /\ open'[h].at = clock
  BY <1>2 DEF States, AgentType
<1>4. \A h \in DOMAIN open \ closed : clock < open[h].at + Followup /\ open[h].logger # logger
  <2> TAKE h \in DOMAIN open \ closed
  <2>1. clock \in Nat /\ open[h].at \in Nat /\ Followup \in Nat
    BY AgentAssumption DEF AgentType, States
  <2>2. ~IsDue(h) /\ open[h].logger # logger
    BY DEF Due, Superseded
  <2> QED
    BY <2>1, <2>2 DEF IsDue
<1>5. \/ new = {} /\ headers' = headers
      \/ new = {headers + 1} /\ headers' = headers + 1 /\ headers < MaxRecords
  BY AgentAssumption DEF Classify, AgentType
<1>6. UNCHANGED <<clock, reports, overlapped>>
  BY DEF Classify, reports
<1> HIDE DEF closed, new
<1>7. Moves(closed, new, logger)
  BY <1>1, <1>2, <1>3, <1>4, <1>5, <1>6 DEF Moves
<1> QED
  BY <1>7 DEF closed, new

\* observe, for a record: the incidents of those it closes, and its own.
LEMMA RecordEmits ==
    ASSUME AgentType, NEW th \in Threads, NEW kind \in Kinds, NEW logger \in Loggers,
           outbox[th] = <<>>, observed < MaxRecords, ObserveRecord(th, kind, logger)
    PROVE  Emits(th, Emitted(kind, logger), Due \cup Superseded(logger),
                 IF kind = "header" THEN {headers + 1} ELSE {}, logger)
<1> DEFINE closed == Due \cup Superseded(logger)
           new == IF kind = "header" THEN {headers + 1} ELSE {}
           s == Tracebacks(Due)
           t == Tracebacks(Superseded(logger))
           own == Own(kind, logger)
           seq == Emitted(kind, logger)
<1>1. /\ Due \in SUBSET DOMAIN open /\ Superseded(logger) \in SUBSET DOMAIN open
      /\ Due \cap Superseded(logger) = {}
  BY DEF Due, Superseded
<1>2. /\ s \in Seq(Incidents)
      /\ \A i \in 1 .. Len(s) : Closes(s[i], Due)
      /\ \A i, j \in 1 .. Len(s) : i # j => s[i].header # s[j].header
      /\ \A h \in Due : \E i \in 1 .. Len(s) : s[i].header = h
  BY <1>1, TracebacksAre
<1>3. /\ t \in Seq(Incidents)
      /\ \A i \in 1 .. Len(t) : Closes(t[i], Superseded(logger))
      /\ \A i, j \in 1 .. Len(t) : i # j => t[i].header # t[j].header
      /\ \A h \in Superseded(logger) : \E i \in 1 .. Len(t) : t[i].header = h
  BY <1>1, TracebacksAre
<1>4. own \in Seq(Incidents) /\ \A i \in 1 .. Len(own) : Fresh(own[i])
  <2> DEFINE Now == {incident \in Incidents : Fresh(incident)}
  <2>1. own \in Seq(Now)
    BY OwnAre
  <2>2. \A i \in 1 .. Len(own) : own[i] \in Now
    BY <2>1
  <2> HIDE DEF own
  <2>3. own \in [1 .. Len(own) -> Incidents] /\ Len(own) \in Nat
    BY <2>1, <2>2
  <2> QED
    BY <2>1, <2>2, <2>3
<1>5. \A h \in closed : h # NoHeader
  BY <1>1 DEF AgentType, NoHeader
<1>6. seq = (s \o t) \o own
  BY DEF Emitted
<1> HIDE DEF s, t, own, seq
<1>7. /\ s \o t \in Seq(Incidents) /\ Len(s \o t) = Len(s) + Len(t)
      /\ \A i \in 1 .. Len(s) : (s \o t)[i] = s[i]
      /\ \A i \in 1 .. Len(t) : (s \o t)[Len(s) + i] = t[i]
      /\ \A i \in Len(s) + 1 .. Len(s) + Len(t) : (s \o t)[i] = t[i - Len(s)]
  BY <1>2, <1>3
<1> DEFINE both == s \o t
<1> HIDE DEF both
<1>8. /\ both \in Seq(Incidents) /\ Len(both) = Len(s) + Len(t)
      /\ \A i \in 1 .. Len(s) : both[i] = s[i]
      /\ \A i \in 1 .. Len(t) : both[Len(s) + i] = t[i]
      /\ \A i \in Len(s) + 1 .. Len(s) + Len(t) : both[i] = t[i - Len(s)]
      /\ seq = both \o own
  BY <1>6, <1>7 DEF both
<1>9. /\ seq \in Seq(Incidents) /\ Len(seq) = Len(both) + Len(own)
      /\ \A i \in 1 .. Len(both) : seq[i] = both[i]
      /\ \A i \in Len(both) + 1 .. Len(seq) : seq[i] = own[i - Len(both)]
  <2>1. both \in Seq(Incidents) /\ own \in Seq(Incidents)
    BY <1>4, <1>8
  <2>2. /\ both \o own \in Seq(Incidents) /\ Len(both \o own) = Len(both) + Len(own)
        /\ \A i \in 1 .. Len(both) : (both \o own)[i] = both[i]
        /\ \A i \in Len(both) + 1 .. Len(both) + Len(own) : (both \o own)[i] = own[i - Len(both)]
    BY <2>1, ConcatIs
  <2> QED
    BY <1>8, <2>2
<1>10. Len(s) \in Nat /\ Len(t) \in Nat /\ Len(both) \in Nat /\ Len(own) \in Nat
  BY <1>2, <1>3, <1>4, <1>8
<1>11. \A i \in 1 .. Len(both) : Closes(both[i], closed)
  <2> TAKE i \in 1 .. Len(both)
  <2>1. CASE i <= Len(s)
    <3>1. i \in 1 .. Len(s)
      BY <1>10, <2>1
    <3> QED
      BY <1>2, <1>8, <3>1 DEF Closes
  <2>2. CASE i > Len(s)
    <3>1. i \in Len(s) + 1 .. Len(s) + Len(t) /\ i - Len(s) \in 1 .. Len(t)
      BY <1>8, <1>10, <2>2
    <3> QED
      BY <1>3, <1>8, <3>1 DEF Closes
  <2> QED
    BY <1>10, <2>1, <2>2
<1>12. \A i, j \in 1 .. Len(both) : i < j => both[i].header # both[j].header
  <2> SUFFICES ASSUME NEW i \in 1 .. Len(both), NEW j \in 1 .. Len(both), i < j
               PROVE  both[i].header # both[j].header
    OBVIOUS
  <2>1. CASE j <= Len(s)
    <3>1. i \in 1 .. Len(s) /\ j \in 1 .. Len(s) /\ i # j
      BY <1>10, <2>1
    <3> QED
      BY <1>2, <1>8, <3>1
  <2>2. CASE i > Len(s)
    <3>1. /\ i \in Len(s) + 1 .. Len(s) + Len(t) /\ i - Len(s) \in 1 .. Len(t)
          /\ j \in Len(s) + 1 .. Len(s) + Len(t) /\ j - Len(s) \in 1 .. Len(t)
          /\ i - Len(s) # j - Len(s)
      BY <1>8, <1>10, <2>2
    <3>2. both[i] = t[i - Len(s)] /\ both[j] = t[j - Len(s)]
      BY <1>8, <3>1
    <3>3. t[i - Len(s)].header # t[j - Len(s)].header
      BY <1>3, <3>1
    <3> QED
      BY <3>2, <3>3
  <2>3. CASE i <= Len(s) /\ j > Len(s)
    <3>1. i \in 1 .. Len(s) /\ j \in Len(s) + 1 .. Len(s) + Len(t) /\ j - Len(s) \in 1 .. Len(t)
      BY <1>8, <1>10, <2>3
    <3>2. both[i].header \in Due /\ both[j].header \in Superseded(logger)
      BY <1>2, <1>3, <1>8, <3>1 DEF Closes
    <3> QED
      BY <1>1, <3>2
  <2> QED
    BY <1>10, <2>1, <2>2, <2>3
<1>13. \A h \in closed : \E i \in 1 .. Len(both) : both[i].header = h
  <2> TAKE h \in closed
  <2>1. CASE h \in Due
    <3>1. PICK i \in 1 .. Len(s) : s[i].header = h
      BY <1>2, <2>1
    <3>2. i \in 1 .. Len(both)
      BY <1>8, <1>10
    <3> QED
      BY <1>8, <3>1, <3>2
  <2>2. CASE h \in Superseded(logger)
    <3>1. PICK i \in 1 .. Len(t) : t[i].header = h
      BY <1>3, <2>2
    <3>2. Len(s) + i \in 1 .. Len(both)
      BY <1>8, <1>10
    <3> QED
      BY <1>8, <3>1, <3>2
  <2> QED
    BY <2>1, <2>2
<1>14. \A i \in 1 .. Len(seq) :
          \/ i \in 1 .. Len(both) /\ seq[i] = both[i] /\ Closes(seq[i], closed)
          \/ i > Len(both) /\ Fresh(seq[i]) /\ ~Closes(seq[i], closed)
  <2> TAKE i \in 1 .. Len(seq)
  <2>1. CASE i <= Len(both)
    <3>1. i \in 1 .. Len(both)
      BY <1>10, <2>1
    <3> QED
      BY <1>9, <1>11, <3>1
  <2>2. CASE i > Len(both)
    <3>1. i \in Len(both) + 1 .. Len(seq) /\ i - Len(both) \in 1 .. Len(own)
      BY <1>9, <1>10, <2>2
    <3>2. Fresh(seq[i])
      BY <1>4, <1>9, <3>1
    <3> QED
      BY <1>5, <2>2, <3>2 DEF Closes, Fresh
  <2> QED
    BY <1>10, <2>1, <2>2
<1>15. \A i, j \in 1 .. Len(seq) : i # j /\ seq[i].header = seq[j].header => seq[i].header = NoHeader
  <2> SUFFICES ASSUME NEW i \in 1 .. Len(seq), NEW j \in 1 .. Len(seq), i # j,
                      seq[i].header = seq[j].header, seq[i].header # NoHeader
               PROVE  FALSE
    OBVIOUS
  <2>1. /\ i \in 1 .. Len(both) /\ seq[i] = both[i]
        /\ j \in 1 .. Len(both) /\ seq[j] = both[j]
    BY <1>14 DEF Fresh
  <2>2. i < j \/ j < i
    BY <1>10, <2>1
  <2> QED
    BY <1>12, <2>1, <2>2
<1>16. \A i, j \in 1 .. Len(seq) : i < j /\ Closes(seq[j], closed) => Closes(seq[i], closed)
  <2> TAKE i \in 1 .. Len(seq), j \in 1 .. Len(seq)
  <2>1. i \in Nat /\ j \in Nat /\ Len(both) \in Nat
    BY <1>10
  <2>2. Closes(seq[j], closed) => j <= Len(both)
    BY <1>10, <1>14
  <2>3. ~Closes(seq[i], closed) => i > Len(both)
    BY <1>14
  <2> QED
    BY <2>1, <2>2, <2>3
<1>17. \A h \in closed : \E i \in 1 .. Len(seq) : seq[i].header = h
  <2> TAKE h \in closed
  <2>1. PICK i \in 1 .. Len(both) : both[i].header = h
    BY <1>13
  <2>2. i \in 1 .. Len(seq)
    BY <1>9, <1>10
  <2> QED
    BY <1>9, <2>1, <2>2
<1>18. outbox' = [outbox EXCEPT ![th] = seq]
  <2>1. outbox[th] \o seq = seq
    BY <1>9
  <2> QED
    BY <2>1 DEF ObserveRecord, seq
<1>19. Moves(closed, new, logger)
  BY ClassifyMoves DEF ObserveRecord
<1>20. lost' = lost
  BY DEF ObserveRecord, faults
<1> HIDE DEF closed, new
<1>21. Emits(th, seq, closed, new, logger)
  BY <1>9, <1>14, <1>15, <1>16, <1>17, <1>18, <1>19, <1>20 DEF Emits
<1> QED
  BY <1>21 DEF seq, closed, new

\* flush closes every traceback.
LEMMA FlushEmits ==
    ASSUME AgentType, NEW th \in Threads, NEW logger, outbox[th] = <<>>, Flush(th),
           UNCHANGED <<clock, headers, reports, overlapped>>
    PROVE  Emits(th, Tracebacks(DOMAIN open), DOMAIN open, {}, logger)
<1> DEFINE seq == Tracebacks(DOMAIN open)
<1>1. /\ seq \in Seq(Incidents)
      /\ \A i \in 1 .. Len(seq) : Closes(seq[i], DOMAIN open)
      /\ \A i, j \in 1 .. Len(seq) : i # j => seq[i].header # seq[j].header
      /\ \A h \in DOMAIN open : \E i \in 1 .. Len(seq) : seq[i].header = h
  BY TracebacksAre
<1>2. DOMAIN open' = {} /\ lost' = lost /\ outbox' = [outbox EXCEPT ![th] = seq]
  BY DEF Flush
<1> HIDE DEF seq
<1>3. Emits(th, seq, DOMAIN open, {}, logger)
  BY <1>1, <1>2 DEF Emits, Moves
<1> QED
  BY <1>3 DEF seq
-----------------------------------------------------------------------------
(* What that does to the parts of the invariant. *)

LEMMA EmitsSlots ==
    ASSUME AgentType, NEW th \in Threads, NEW seq, NEW closed, NEW new, NEW logger,
           Emits(th, seq, closed, new, logger)
    PROVE  /\ outbox'[th] = seq /\ Slots(th)' = 1 .. Len(seq) /\ Slots(th) = {}
           /\ outbox' \in [Threads -> Seq(Incidents)]
           /\ \A ht \in Threads \ {th} : outbox'[ht] = outbox[ht] /\ Slots(ht)' = Slots(ht)
<1>1. outbox \in [Threads -> Seq(Incidents)] /\ seq \in Seq(Incidents)
  BY DEF AgentType, Emits, Moves
<1>2. outbox' = [outbox EXCEPT ![th] = seq] /\ outbox[th] = <<>>
  BY DEF Emits, Moves
<1>3. outbox'[th] = seq /\ \A ht \in Threads \ {th} : outbox'[ht] = outbox[ht]
  BY <1>1, <1>2
<1>4. DOMAIN seq = 1 .. Len(seq) /\ DOMAIN outbox[th] = {}
  BY <1>1, <1>2
<1> QED
  BY <1>1, <1>2, <1>3, <1>4 DEF Slots

LEMMA PlacedByEmits ==
    ASSUME AgentType, Placed, NEW th \in Threads, NEW seq, NEW closed, NEW new, NEW logger,
           Emits(th, seq, closed, new, logger)
    PROVE  Placed'
<1>0. /\ headers \in Nat /\ closed \subseteq DOMAIN open /\ DOMAIN open \subseteq 1 .. headers
      /\ headers <= MaxRecords /\ MaxRecords \in Nat
  BY AgentAssumption DEF Emits, Moves, AgentType
<1>1. /\ outbox'[th] = seq /\ Slots(th)' = 1 .. Len(seq) /\ Slots(th) = {}
      /\ \A ht \in Threads \ {th} : outbox'[ht] = outbox[ht] /\ Slots(ht)' = Slots(ht)
  BY EmitsSlots
<1>2. /\ \A i \in 1 .. Len(seq) : seq[i].header # NoHeader => seq[i].header \in closed
      /\ \A h \in closed : \E i \in 1 .. Len(seq) : seq[i].header = h
      /\ \A i, j \in 1 .. Len(seq) : i # j /\ seq[i].header = seq[j].header => seq[i].header = NoHeader
  BY DEF Emits, Moves, Closes, Fresh
<1>3. ASSUME NEW h \in Headers PROVE Leaving(h)' <=> Leaving(h) \/ h \in closed
  <2>1. h # NoHeader
    BY <1>0 DEF Headers, NoHeader
  <2>2. ASSUME Leaving(h)' PROVE Leaving(h) \/ h \in closed
    <3>0. PICK ht \in Threads : \E i \in Slots(ht)' : outbox'[ht][i].header = h
      BY <2>2 DEF Leaving
    <3>1. PICK i \in Slots(ht)' : outbox'[ht][i].header = h
      BY <3>0
    <3>2. CASE ht = th
      BY <1>1, <1>2, <2>1, <3>1, <3>2
    <3>3. CASE ht # th
      BY <1>1, <3>1, <3>3 DEF Leaving
    <3> QED
      BY <3>2, <3>3
  <2>3. ASSUME Leaving(h) PROVE Leaving(h)'
    <3>0. PICK ht \in Threads : \E i \in Slots(ht) : outbox[ht][i].header = h
      BY <2>3 DEF Leaving
    <3>1. PICK i \in Slots(ht) : outbox[ht][i].header = h
      BY <3>0
    <3>2. ht # th
      BY <1>1, <3>1
    <3> QED
      BY <1>1, <3>1, <3>2 DEF Leaving
  <2>4. ASSUME h \in closed PROVE Leaving(h)'
    BY <1>1, <1>2, <2>4 DEF Leaving
  <2> QED
    BY <2>2, <2>3, <2>4
<1>4. /\ DOMAIN open' = (DOMAIN open \ closed) \cup new
      /\ \/ new = {} /\ headers' = headers
         \/ new = {headers + 1} /\ headers' = headers + 1 /\ headers < MaxRecords
      /\ reported' = reported /\ lost' = lost
  BY DEF Emits, Moves, reports
<1>5. ASSUME NEW h \in Headers
      PROVE  /\ reported'[h] <= 1
             /\ h > headers' => reported'[h] = 0
             /\ h <= headers' => h \in DOMAIN open' \/ Leaving(h)' \/ reported'[h] = 1 \/ h \in lost'
             /\ h \in DOMAIN open' => reported'[h] = 0 /\ ~Leaving(h)'
             /\ h \in lost' => reported'[h] = 0 /\ h <= headers' /\ h \notin DOMAIN open' /\ ~Leaving(h)'
             /\ Leaving(h)' => reported'[h] = 0 /\ h <= headers'
  <2>1. /\ reported[h] <= 1
        /\ h > headers => reported[h] = 0
        /\ h <= headers => h \in DOMAIN open \/ Leaving(h) \/ reported[h] = 1 \/ h \in lost
        /\ h \in DOMAIN open => reported[h] = 0 /\ ~Leaving(h)
        /\ h \in lost => reported[h] = 0 /\ h <= headers /\ h \notin DOMAIN open /\ ~Leaving(h)
        /\ Leaving(h) => reported[h] = 0 /\ h <= headers
    BY DEF Placed
  <2>2. h \in Nat /\ (h \in DOMAIN open => h <= headers)
    BY <1>0 DEF Headers
  <2>3. h \in new => h > headers /\ headers' = h
    BY <1>0, <1>4
  <2>4. headers' >= headers /\ (h <= headers' => h <= headers \/ h \in new)
    BY <1>0, <1>4, <2>2
  <2>5. h > headers' => h > headers
    BY <1>0, <1>4, <2>2
  <2>6. h <= headers => h <= headers'
    BY <1>0, <1>4, <2>2
  <2>7. h \in new => ~(h <= headers) /\ h <= headers'
    BY <1>0, <1>4, <2>2
  <2> QED
    BY <1>0, <1>3, <1>4, <2>1, <2>2, <2>3, <2>4, <2>5, <2>6, <2>7
<1>6. ASSUME NEW ht \in Threads, NEW kt \in Threads, NEW i \in Slots(ht)', NEW j \in Slots(kt)',
             outbox'[ht][i].header = outbox'[kt][j].header, outbox'[ht][i].header # NoHeader
      PROVE  ht = kt /\ i = j
  <2>1. CASE ht = th /\ kt = th
    BY <1>1, <1>2, <1>6, <2>1
  <2>2. CASE ht # th /\ kt # th
    BY <1>1, <1>6, <2>2 DEF Placed
  <2>3. ASSUME NEW lt \in Threads \ {th}, NEW k \in Slots(lt), NEW l \in 1 .. Len(seq),
               outbox[lt][k].header = seq[l].header, seq[l].header # NoHeader
        PROVE  FALSE
    <3>1. seq[l].header \in closed
      BY <1>2, <2>3
    <3>2. seq[l].header \in Headers
      BY <1>0, <3>1 DEF Headers
    <3>3. Leaving(seq[l].header)
      BY <2>3 DEF Leaving
    <3> QED
      BY <1>0, <3>1, <3>2, <3>3 DEF Placed
  <2>4. CASE ht = th /\ kt # th
    BY <1>1, <1>6, <2>3, <2>4
  <2>5. CASE ht # th /\ kt = th
    BY <1>1, <1>6, <2>3, <2>5
  <2> QED
    BY <2>1, <2>2, <2>4, <2>5
<1> QED
  BY <1>5, <1>6 DEF Placed

LEMMA PastByEmits ==
    ASSUME AgentType, Past, NEW th \in Threads, NEW seq, NEW closed, NEW new, NEW logger,
           Emits(th, seq, closed, new, logger)
    PROVE  Past'
<1>1. /\ outbox'[th] = seq /\ Slots(th)' = 1 .. Len(seq)
      /\ \A ht \in Threads \ {th} : outbox'[ht] = outbox[ht] /\ Slots(ht)' = Slots(ht)
  BY EmitsSlots
<1>2. clock' = clock /\ newest' = newest /\ latest' = latest /\ clock \in Nat
  BY DEF Emits, Moves, reports, AgentType
<1>3. \A h \in DOMAIN open' : open'[h].at <= clock
  BY <1>2 DEF Emits, Moves, Past
<1>4. \A i \in 1 .. Len(seq) : seq[i].at <= clock
  <2> TAKE i \in 1 .. Len(seq)
  <2>1. CASE Closes(seq[i], closed)
    <3>1. seq[i].header \in DOMAIN open /\ seq[i].at = open[seq[i].header].at
      BY <2>1 DEF Emits, Moves, Closes, Traceback
    <3> QED
      BY <3>1 DEF Past
  <2>2. CASE Fresh(seq[i])
    BY <1>2, <2>2 DEF Fresh
  <2> QED
    BY <2>1, <2>2 DEF Emits, Moves
<1> QED
  BY <1>1, <1>2, <1>3, <1>4 DEF Past

LEMMA OnePerLoggerByMoves ==
    ASSUME AgentType, OnePerLogger, NEW closed, NEW new, NEW logger, Moves(closed, new, logger)
    PROVE  OnePerLogger'
<1>1. /\ DOMAIN open' = (DOMAIN open \ closed) \cup new
      /\ \A h \in DOMAIN open \ closed : open'[h] = open[h] /\ open[h].logger # logger
      /\ \A h \in new : open'[h].logger = logger
      /\ \A g, h \in new : g = h
  BY DEF Moves
<1> QED
  BY <1>1 DEF OnePerLogger

LEMMA LaggingByEmits ==
    ASSUME AgentType, Past, OnePerLogger, Flowing, Rising,
           NEW th \in Threads, NEW seq, NEW closed, NEW new, NEW logger,
           Emits(th, seq, closed, new, logger),
           \A ht \in Threads \ {th} : outbox[ht] = <<>>
    PROVE  Flowing' /\ Rising'
<1>1. /\ outbox'[th] = seq /\ Slots(th)' = 1 .. Len(seq)
      /\ \A ht \in Threads \ {th} : Slots(ht)' = {}
  <2>1. \A ht \in Threads \ {th} : Slots(ht) = {}
    BY DEF Slots
  <2> QED
    BY <2>1, EmitsSlots
<1>2. /\ clock' = clock /\ newest' = newest /\ latest' = latest
      /\ clock \in Nat /\ newest \in Nat /\ Followup \in Nat
  BY AgentAssumption DEF Emits, Moves, reports, AgentType
<1> DEFINE kept == DOMAIN open \ closed
<1>3. /\ DOMAIN open' = kept \cup new
      /\ \A h \in kept : open'[h] = open[h] /\ clock < open[h].at + Followup /\ open[h].logger # logger
      /\ \A h \in new : open'[h].at = clock /\ open'[h].logger = logger
      /\ \A g, h \in new : g = h
  BY DEF Emits, Moves
<1>4. \A h \in DOMAIN open : open[h].at \in Nat /\ open[h].at <= clock /\ open[h].logger \in Loggers
  BY DEF AgentType, States, Past
<1>5. \A h \in DOMAIN open' : open'[h].at \in Nat /\ open'[h].at <= clock /\ KeepsUp(clock, open'[h].at)
  BY <1>2, <1>3, <1>4 DEF KeepsUp
<1>6. \A a \in Nat, b \in Nat : a <= clock /\ KeepsUp(clock, b) => KeepsUp(a, b)
  BY <1>2 DEF KeepsUp
<1>7. \A i \in 1 .. Len(seq) :
         /\ seq[i].at \in Nat /\ seq[i].at <= clock
         /\ \/ Closes(seq[i], closed) /\ seq[i].at = open[seq[i].header].at
               /\ seq[i].fingerprint = <<"traceback", open[seq[i].header].logger>>
               /\ seq[i].header \in DOMAIN open
            \/ Fresh(seq[i]) /\ seq[i].at = clock
  <2> TAKE i \in 1 .. Len(seq)
  <2>1. CASE Closes(seq[i], closed)
    <3>1. seq[i].header \in DOMAIN open
      BY <2>1 DEF Emits, Moves, Closes
    <3>2. seq[i].at = open[seq[i].header].at /\ seq[i].fingerprint = <<"traceback", open[seq[i].header].logger>>
      BY <2>1 DEF Closes, Traceback
    <3> QED
      BY <1>4, <2>1, <3>1, <3>2
  <2>2. CASE Fresh(seq[i])
    BY <1>2, <2>2 DEF Fresh
  <2> QED
    BY <2>1, <2>2 DEF Emits, Moves
<1>8. newest <= clock /\ \A fp \in Fingerprints : latest[fp] <= clock /\ latest[fp] \in Nat
  BY DEF Past, AgentType
<1>9. \A i \in 1 .. Len(seq) : seq[i].fingerprint \in Fingerprints
  <2>1. \A i \in 1 .. Len(seq) : seq[i] \in Incidents
    BY DEF Emits, Moves
  <2> QED
    BY <2>1 DEF Incidents
<1>10. \A i \in 1 .. Len(seq) : ~(Closes(seq[i], closed) /\ Fresh(seq[i]))
  <2>1. NoHeader \notin closed
    BY DEF Emits, Moves, AgentType, NoHeader
  <2> QED
    BY <2>1 DEF Closes, Fresh
<1>11. \A i, j \in 1 .. Len(seq) : i < j /\ Fresh(seq[i]) => Fresh(seq[j])
  BY <1>10 DEF Emits, Moves
<1>12. Flowing'
  <2>1. \A h \in DOMAIN open' : KeepsUp(newest, open'[h].at)
    BY <1>2, <1>5, <1>6, <1>8
  <2>2. \A g, h \in DOMAIN open' : KeepsUp(open'[g].at, open'[h].at)
    BY <1>5, <1>6
  <2>3. ASSUME NEW i \in 1 .. Len(seq)
        PROVE  /\ KeepsUp(newest, seq[i].at)
               /\ \A h \in DOMAIN open' : KeepsUp(seq[i].at, open'[h].at)
               /\ \A j \in 1 .. Len(seq) : i < j => KeepsUp(seq[i].at, seq[j].at)
    <3>1. KeepsUp(newest, seq[i].at)
      <4>1. CASE Closes(seq[i], closed)
        BY <1>7, <1>10, <4>1 DEF Flowing
      <4>2. CASE Fresh(seq[i])
        BY <1>8, <4>2 DEF KeepsUp, Fresh
      <4> QED
        BY <1>7, <4>1, <4>2
    <3>2. \A h \in DOMAIN open' : KeepsUp(seq[i].at, open'[h].at)
      BY <1>5, <1>6, <1>7
    <3>3. ASSUME NEW j \in 1 .. Len(seq), i < j PROVE KeepsUp(seq[i].at, seq[j].at)
      <4>1. CASE Fresh(seq[j])
        BY <1>7, <4>1 DEF KeepsUp, Fresh
      <4>2. CASE ~Fresh(seq[j])
        <5>1. /\ seq[i].header \in DOMAIN open /\ seq[i].at = open[seq[i].header].at
              /\ seq[j].header \in DOMAIN open /\ seq[j].at = open[seq[j].header].at
          BY <1>7, <1>11, <3>3, <4>2
        <5> QED
          BY <5>1 DEF Flowing
      <4> QED
        BY <4>1, <4>2
    <3> QED
      BY <3>1, <3>2, <3>3
  <2> QED
    BY <1>1, <1>2, <2>1, <2>2, <2>3 DEF Flowing
<1>13. Rising'
  <2>1. ASSUME NEW h \in DOMAIN open' PROVE latest[<<"traceback", open'[h].logger>>] <= open'[h].at
    <3>1. CASE h \in kept
      BY <1>3, <3>1 DEF Rising
    <3>2. CASE h \in new
      <4>1. open'[h].logger \in Loggers
        BY <3>2 DEF Emits, Moves, States
      <4>2. <<"traceback", open'[h].logger>> \in Fingerprints
        BY <4>1 DEF Fingerprints
      <4> QED
        BY <1>3, <1>8, <3>2, <4>2
    <3> QED
      BY <1>3, <3>1, <3>2
  <2>2. ASSUME NEW i \in 1 .. Len(seq) PROVE latest[seq[i].fingerprint] <= seq[i].at
    <3>1. CASE Closes(seq[i], closed)
      BY <1>7, <1>10, <3>1 DEF Rising
    <3>2. CASE Fresh(seq[i])
      BY <1>8, <1>9, <3>2 DEF Fresh
    <3> QED
      BY <1>7, <3>1, <3>2
  <2>3. ASSUME NEW i \in 1 .. Len(seq), NEW h \in DOMAIN open',
               seq[i].fingerprint = <<"traceback", open'[h].logger>>
        PROVE  seq[i].at <= open'[h].at
    <3>1. CASE h \in new
      BY <1>3, <1>7, <3>1
    <3>2. CASE h \in kept
      <4>1. open'[h] = open[h] /\ open[h].logger \in Loggers
        BY <1>3, <1>4, <3>2
      <4>2. /\ seq[i].header \in DOMAIN open /\ seq[i].header \in closed
            /\ seq[i].fingerprint = <<"traceback", open[seq[i].header].logger>>
        BY <1>7, <2>3, <4>1 DEF Fresh, Closes
      <4>3. open[seq[i].header].logger = open[h].logger
        BY <2>3, <4>1, <4>2
      <4>4. seq[i].header = h
        BY <3>2, <4>2, <4>3 DEF OnePerLogger
      <4> QED
        BY <3>2, <4>2, <4>4
    <3> QED
      BY <1>3, <3>1, <3>2
  <2>4. ASSUME NEW i \in 1 .. Len(seq), NEW j \in 1 .. Len(seq), i < j,
               seq[i].fingerprint = seq[j].fingerprint
        PROVE  seq[i].at <= seq[j].at
    <3>1. CASE Fresh(seq[j])
      BY <1>7, <3>1 DEF Fresh
    <3>2. CASE ~Fresh(seq[j])
      <4>1. /\ seq[i].header \in DOMAIN open /\ seq[i].at = open[seq[i].header].at
            /\ seq[i].fingerprint = <<"traceback", open[seq[i].header].logger>>
            /\ seq[j].header \in DOMAIN open /\ seq[j].at = open[seq[j].header].at
            /\ seq[j].fingerprint = <<"traceback", open[seq[j].header].logger>>
        BY <1>7, <1>11, <2>4, <3>2
      <4>2. open[seq[i].header].logger = open[seq[j].header].logger
        <5>1. <<"traceback", open[seq[i].header].logger>> = <<"traceback", open[seq[j].header].logger>>
          BY <2>4, <4>1
        <5> QED
          BY <5>1
      <4>3. seq[i].header = seq[j].header
        BY <4>1, <4>2 DEF OnePerLogger
      <4> QED
        BY <1>7, <4>1, <4>3
    <3> QED
      BY <3>1, <3>2
  <2> QED
    BY <1>1, <1>2, <2>1, <2>2, <2>3, <2>4 DEF Rising
<1> QED
  BY <1>12, <1>13
-----------------------------------------------------------------------------
(* What handing an incident to the sink does to them. *)

LEMMA DispatchEffect ==
    ASSUME AgentType, NEW th \in Threads, Dispatch(th)
    PROVE  /\ outbox' \in [Threads -> Seq(Incidents)]
           /\ 1 \in Slots(th) /\ Head(outbox[th]) = outbox[th][1] /\ outbox[th][1] \in Incidents
           /\ \A i \in Slots(th)' : i \in Nat /\ i # 0 /\ i + 1 \in Slots(th) /\ outbox'[th][i] = outbox[th][i + 1]
           /\ \A i \in Slots(th) : i = 1 \/ (i - 1 \in Slots(th)' /\ outbox'[th][i - 1] = outbox[th][i])
           /\ \A ht \in Threads \ {th} : outbox'[ht] = outbox[ht] /\ Slots(ht)' = Slots(ht)
<1> DEFINE seq == outbox[th]
<1>1. outbox \in [Threads -> Seq(Incidents)] /\ seq \in Seq(Incidents) /\ seq # <<>>
  BY DEF AgentType, Dispatch
<1>2. outbox' = [outbox EXCEPT ![th] = Tail(seq)]
  BY DEF Dispatch
<1>3. outbox'[th] = Tail(seq) /\ \A ht \in Threads \ {th} : outbox'[ht] = outbox[ht]
  BY <1>1, <1>2
<1>4. Slots(th) = 1 .. Len(seq) /\ Len(seq) \in Nat /\ Len(seq) # 0
  BY <1>1 DEF Slots
<1> HIDE DEF seq
<1>5. /\ Tail(seq) \in Seq(Incidents) /\ Len(Tail(seq)) = Len(seq) - 1
      /\ \A i \in 1 .. Len(seq) - 1 : Tail(seq)[i] = seq[i + 1]
      /\ Head(seq) = seq[1]
  BY <1>1, <1>4, HeadTailProperties
<1>6. Slots(th)' = 1 .. Len(seq) - 1
  BY <1>3, <1>5 DEF Slots
<1>7. outbox' \in [Threads -> Seq(Incidents)]
  BY <1>1, <1>2, <1>5
<1>8. 1 \in 1 .. Len(seq) /\ seq[1] \in Incidents
  BY <1>1, <1>4
<1>9. \A i \in 1 .. Len(seq) - 1 : i \in Nat /\ i # 0 /\ i + 1 \in 1 .. Len(seq)
  BY <1>4
<1>10. \A i \in 1 .. Len(seq) : i = 1 \/ (i - 1 \in 1 .. Len(seq) - 1 /\ Tail(seq)[i - 1] = seq[i])
  <2> TAKE i \in 1 .. Len(seq)
  <2>1. i = 1 \/ (i - 1 \in 1 .. Len(seq) - 1 /\ (i - 1) + 1 = i)
    BY <1>4
  <2> QED
    BY <1>5, <2>1
<1> QED
  BY <1>3, <1>4, <1>5, <1>6, <1>7, <1>8, <1>9, <1>10 DEF seq, Slots

LEMMA PlacedByDispatch ==
    ASSUME AgentType, Placed, NEW th \in Threads, Dispatch(th)
    PROVE  Placed'
<1> DEFINE sent == outbox[th][1].header
<1>1. /\ 1 \in Slots(th) /\ Head(outbox[th]) = outbox[th][1]
      /\ \A i \in Slots(th)' : i \in Nat /\ i # 0 /\ i + 1 \in Slots(th) /\ outbox'[th][i] = outbox[th][i + 1]
      /\ \A i \in Slots(th) : i = 1 \/ (i - 1 \in Slots(th)' /\ outbox'[th][i - 1] = outbox[th][i])
      /\ \A ht \in Threads \ {th} : outbox'[ht] = outbox[ht] /\ Slots(ht)' = Slots(ht)
  BY DispatchEffect
<1>2. /\ reported \in [Headers -> Nat] /\ headers' = headers /\ open' = open /\ lost' = lost
      /\ \A h \in Headers : reported'[h] = IF h = sent THEN reported[h] + 1 ELSE reported[h]
  BY <1>1 DEF AgentType, Dispatch, records, classifier, faults
<1>3. \A h \in Headers : h # NoHeader
  BY AgentAssumption DEF Headers, NoHeader
<1> HIDE DEF sent
<1>4. ASSUME NEW h \in Headers PROVE Leaving(h)' <=> Leaving(h) /\ h # sent
  <2>1. ASSUME Leaving(h)' PROVE Leaving(h) /\ h # sent
    <3>1. PICK ht \in Threads : \E i \in Slots(ht)' : outbox'[ht][i].header = h
      BY <2>1 DEF Leaving
    <3>2. PICK i \in Slots(ht)' : outbox'[ht][i].header = h
      BY <3>1
    <3>3. CASE ht = th
      <4>1. i + 1 \in Slots(th) /\ outbox[th][i + 1].header = h /\ i + 1 # 1
        BY <1>1, <3>2, <3>3
      <4>2. Leaving(h)
        BY <4>1 DEF Leaving
      <4>3. h # sent
        BY <1>1, <1>3, <4>1 DEF Placed, sent
      <4> QED
        BY <4>2, <4>3
    <3>4. CASE ht # th
      <4>1. i \in Slots(ht) /\ outbox[ht][i].header = h
        BY <1>1, <3>2, <3>4
      <4>2. Leaving(h)
        BY <4>1 DEF Leaving
      <4>3. h # sent
        BY <1>1, <1>3, <3>4, <4>1 DEF Placed, sent
      <4> QED
        BY <4>2, <4>3
    <3> QED
      BY <3>3, <3>4
  <2>2. ASSUME Leaving(h), h # sent PROVE Leaving(h)'
    <3>1. PICK ht \in Threads : \E i \in Slots(ht) : outbox[ht][i].header = h
      BY <2>2 DEF Leaving
    <3>2. PICK i \in Slots(ht) : outbox[ht][i].header = h
      BY <3>1
    <3>3. CASE ht = th
      <4>1. i # 1
        BY <2>2, <3>2, <3>3 DEF sent
      <4>2. i - 1 \in Slots(th)' /\ outbox'[th][i - 1].header = h
        BY <1>1, <3>2, <3>3, <4>1
      <4> QED
        BY <4>2 DEF Leaving
    <3>4. CASE ht # th
      BY <1>1, <3>2, <3>4 DEF Leaving
    <3> QED
      BY <3>3, <3>4
  <2> QED
    BY <2>1, <2>2
<1>5. sent \in Headers => Leaving(sent)
  BY <1>1 DEF Leaving, sent
<1>6. ASSUME NEW h \in Headers
      PROVE  /\ reported'[h] <= 1
             /\ h > headers' => reported'[h] = 0
             /\ h <= headers' => h \in DOMAIN open' \/ Leaving(h)' \/ reported'[h] = 1 \/ h \in lost'
             /\ h \in DOMAIN open' => reported'[h] = 0 /\ ~Leaving(h)'
             /\ h \in lost' => reported'[h] = 0 /\ h <= headers' /\ h \notin DOMAIN open' /\ ~Leaving(h)'
             /\ Leaving(h)' => reported'[h] = 0 /\ h <= headers'
  <2>1. CASE h = sent
    <3>1. reported[h] = 0 /\ h <= headers /\ h \notin DOMAIN open /\ h \notin lost
      BY <1>5, <2>1 DEF Placed
    <3>2. reported'[h] = 1 /\ ~Leaving(h)'
      BY <1>2, <1>4, <2>1, <3>1
    <3>3. ~(h > headers)
      BY <3>1 DEF AgentType, Headers
    <3> QED
      BY <1>2, <3>1, <3>2, <3>3
  <2>2. CASE h # sent
    <3>1. reported'[h] = reported[h] /\ (Leaving(h)' <=> Leaving(h))
      BY <1>2, <1>4, <2>2
    <3> QED
      BY <1>2, <3>1 DEF Placed
  <2> QED
    BY <2>1, <2>2
<1>7. ASSUME NEW ht \in Threads, NEW kt \in Threads, NEW i \in Slots(ht)', NEW j \in Slots(kt)',
             outbox'[ht][i].header = outbox'[kt][j].header, outbox'[ht][i].header # NoHeader
      PROVE  ht = kt /\ i = j
  <2>1. CASE ht = th /\ kt = th
    <3>1. i + 1 \in Slots(th) /\ j + 1 \in Slots(th) /\ outbox[th][i + 1].header = outbox[th][j + 1].header
          /\ outbox[th][i + 1].header # NoHeader /\ i \in Nat /\ j \in Nat
      BY <1>1, <1>7, <2>1
    <3>2. i + 1 = j + 1
      BY <3>1 DEF Placed
    <3> QED
      BY <2>1, <3>1, <3>2
  <2>2. CASE ht # th /\ kt # th
    BY <1>1, <1>7, <2>2 DEF Placed
  <2>3. ASSUME NEW lt \in Threads \ {th}, NEW k \in Slots(lt), NEW l \in Slots(th)',
               outbox[lt][k].header = outbox'[th][l].header, outbox[lt][k].header # NoHeader
        PROVE  FALSE
    <3>1. l + 1 \in Slots(th) /\ outbox[lt][k].header = outbox[th][l + 1].header
      BY <1>1, <2>3
    <3>2. lt = th
      BY <2>3, <3>1 DEF Placed
    <3> QED
      BY <3>2
  <2>4. CASE ht = th /\ kt # th
    BY <1>1, <1>7, <2>3, <2>4
  <2>5. CASE ht # th /\ kt = th
    BY <1>1, <1>7, <2>3, <2>5
  <2> QED
    BY <2>1, <2>2, <2>4, <2>5
<1> QED
  BY <1>6, <1>7 DEF Placed

LEMMA PastByDispatch ==
    ASSUME AgentType, Past, NEW th \in Threads, Dispatch(th)
    PROVE  Past'
<1>1. /\ 1 \in Slots(th) /\ Head(outbox[th]) = outbox[th][1] /\ outbox[th][1] \in Incidents
      /\ \A i \in Slots(th)' : i + 1 \in Slots(th) /\ outbox'[th][i] = outbox[th][i + 1]
      /\ \A ht \in Threads \ {th} : outbox'[ht] = outbox[ht] /\ Slots(ht)' = Slots(ht)
  BY DispatchEffect
<1> DEFINE sent == outbox[th][1]
<1>2. /\ clock' = clock /\ open' = open
      /\ newest' = IF sent.at > newest THEN sent.at ELSE newest
      /\ latest' = [latest EXCEPT ![sent.fingerprint] = sent.at]
  BY <1>1 DEF Dispatch, classifier
<1>3. sent.at <= clock
  BY <1>1 DEF Past
<1>4. sent.fingerprint \in Fingerprints /\ latest \in [Fingerprints -> Nat]
  BY <1>1 DEF Incidents, AgentType
<1> HIDE DEF sent
<1>5. newest' <= clock
  BY <1>2, <1>3 DEF Past
<1>6. \A fp \in Fingerprints : latest'[fp] <= clock
  BY <1>2, <1>3, <1>4 DEF Past
<1>7. \A ht \in Threads : \A i \in Slots(ht)' : outbox'[ht][i].at <= clock
  BY <1>1 DEF Past
<1> QED
  BY <1>2, <1>5, <1>6, <1>7 DEF Past

LEMMA LaggingByDispatch ==
    ASSUME AgentType, Flowing, Rising, NEW th \in Threads, Dispatch(th),
           \A ht \in Threads \ {th} : outbox[ht] = <<>>
    PROVE  Flowing' /\ Rising'
<1>1. /\ 1 \in Slots(th) /\ Head(outbox[th]) = outbox[th][1] /\ outbox[th][1] \in Incidents
      /\ \A i \in Slots(th)' :
            i \in Nat /\ 1 < i + 1 /\ i + 1 \in Slots(th) /\ outbox'[th][i] = outbox[th][i + 1]
      /\ \A ht \in Threads \ {th} : Slots(ht)' = {}
  <2>1. \A ht \in Threads \ {th} : Slots(ht) = {}
    BY DEF Slots
  <2>2. \A i \in Slots(th)' : i \in Nat /\ i # 0 => 1 < i + 1
    OBVIOUS
  <2> QED
    BY <2>1, <2>2, DispatchEffect
<1> DEFINE sent == outbox[th][1]
<1>2. /\ open' = open
      /\ newest' = IF sent.at > newest THEN sent.at ELSE newest
      /\ latest' = [latest EXCEPT ![sent.fingerprint] = sent.at]
      /\ latest \in [Fingerprints -> Nat] /\ sent.fingerprint \in Fingerprints
  BY <1>1 DEF Dispatch, classifier, Incidents, AgentType
<1>3. /\ \A h \in DOMAIN open : KeepsUp(sent.at, open[h].at) /\ KeepsUp(newest, open[h].at)
      /\ \A i \in Slots(th) : 1 < i => KeepsUp(sent.at, outbox[th][i].at)
      /\ \A i \in Slots(th) : KeepsUp(newest, outbox[th][i].at)
  BY <1>1 DEF Flowing
<1>4. /\ \A h \in DOMAIN open : sent.fingerprint = <<"traceback", open[h].logger>> => sent.at <= open[h].at
      /\ \A i \in Slots(th) : 1 < i /\ sent.fingerprint = outbox[th][i].fingerprint => sent.at <= outbox[th][i].at
  BY <1>1 DEF Rising
<1>5. \A i \in Slots(th) : outbox[th][i].fingerprint \in Fingerprints
  <2>1. outbox[th] \in Seq(Incidents)
    BY DEF AgentType
  <2>2. \A i \in Slots(th) : outbox[th][i] \in Incidents
    BY <2>1 DEF Slots
  <2> QED
    BY <2>2 DEF Incidents
<1>6. \A h \in DOMAIN open : <<"traceback", open[h].logger>> \in Fingerprints
  BY DEF AgentType, States, Fingerprints
<1> HIDE DEF sent
<1>7. newest' = newest \/ newest' = sent.at
  BY <1>2
<1>8. \A fp \in Fingerprints : latest'[fp] = IF fp = sent.fingerprint THEN sent.at ELSE latest[fp]
  BY <1>2
<1>9. \A i, j \in Slots(th)' : i < j => i + 1 < j + 1
  BY <1>1
<1>10. Flowing'
  <2>1. \A h \in DOMAIN open' : KeepsUp(newest', open'[h].at)
    BY <1>2, <1>3, <1>7
  <2>2. \A g, h \in DOMAIN open' : KeepsUp(open'[g].at, open'[h].at)
    BY <1>2 DEF Flowing
  <2>3. \A i \in Slots(th)' :
           /\ KeepsUp(newest', outbox'[th][i].at)
           /\ \A h \in DOMAIN open' : KeepsUp(outbox'[th][i].at, open'[h].at)
           /\ \A j \in Slots(th)' : i < j => KeepsUp(outbox'[th][i].at, outbox'[th][j].at)
    <3> TAKE i \in Slots(th)'
    <3>1. KeepsUp(newest', outbox'[th][i].at)
      BY <1>1, <1>3, <1>7
    <3>2. \A h \in DOMAIN open' : KeepsUp(outbox'[th][i].at, open'[h].at)
      BY <1>1, <1>2 DEF Flowing
    <3>3. \A j \in Slots(th)' : i < j => KeepsUp(outbox'[th][i].at, outbox'[th][j].at)
      BY <1>1, <1>9 DEF Flowing
    <3> QED
      BY <3>1, <3>2, <3>3
  <2> QED
    BY <1>1, <2>1, <2>2, <2>3 DEF Flowing
<1>11. Rising'
  <2>1. \A h \in DOMAIN open' : latest'[<<"traceback", open'[h].logger>>] <= open'[h].at
    BY <1>2, <1>4, <1>6, <1>8 DEF Rising
  <2>2. \A i \in Slots(th)' : latest'[outbox'[th][i].fingerprint] <= outbox'[th][i].at
    BY <1>1, <1>4, <1>5, <1>8 DEF Rising
  <2>3. \A i \in Slots(th)' : \A h \in DOMAIN open' :
           outbox'[th][i].fingerprint = <<"traceback", open'[h].logger>> => outbox'[th][i].at <= open'[h].at
    BY <1>1, <1>2 DEF Rising
  <2>4. \A i, j \in Slots(th)' :
           i < j /\ outbox'[th][i].fingerprint = outbox'[th][j].fingerprint => outbox'[th][i].at <= outbox'[th][j].at
    BY <1>1, <1>9 DEF Rising
  <2> QED
    BY <1>1, <2>1, <2>2, <2>3, <2>4 DEF Rising
<1> QED
  BY <1>10, <1>11
-----------------------------------------------------------------------------
(* The counting of warnings and repeats. *)

LEMMA SmallestOf ==
    ASSUME NEW T, T \subseteq Nat, T # {}
    PROVE  Min(T) \in T /\ \A y \in T : Min(T) <= y
<1> DEFINE less == OpToRel(<, Nat)
<1>1. \A x, y \in Nat : x < y => <<x, y>> \in less
  BY DEF OpToRel
<1>2. IsWellFoundedOn(less, Nat)
  BY NatLessThanWellFounded
<1> HIDE DEF less
<1>3. PICK x \in T : \A y \in T : ~(<<y, x>> \in less)
  BY <1>2, WFMin
<1>4. \A y \in T : ~(y < x)
  BY <1>1, <1>3, Zenon
<1>5. \E z \in T : \A y \in T : z =< y
  BY <1>4
<1> QED
  BY <1>5, Zenon DEF Min

\* Dropping from the front what the window has left behind finds the first match
\* that lies in it, also among those that were dropped earlier.
LEMMA CountedIs ==
    ASSUME AgentType, Counting, NEW b \in Buckets
    PROVE  \E first \in 1 .. Len(unspent[b]) + 1 :
              /\ Counted(b) = SubSeq(Append(unspent[b], clock), first, Len(unspent[b]) + 1)
              /\ Counted(b) \in Seq(Nat)
              /\ Len(Counted(b)) = Len(unspent[b]) + 2 - first
              /\ \A i \in 1 .. first - 1 : unspent[b][i] + Window < clock
              /\ \A i \in first .. Len(unspent[b]) : unspent[b][i] + Window >= clock
<1> DEFINE all == unspent[b]
           n == Len(all)
           longer == Append(all, clock)
           bucket == Append(buckets[b], clock)
           fresh == {i \in DOMAIN bucket : bucket[i] + Window >= clock}
<1>1. all \in Seq(Nat) /\ n \in Nat /\ clock \in Nat /\ Window \in Nat
  BY AgentAssumption DEF AgentType
<1>2. PICK k \in 0 .. n : /\ buckets[b] = SubSeq(all, k + 1, n)
                          /\ \A i \in 1 .. k : all[i] + Window < clock
  BY DEF Counting, Windowed
<1>3. \A i, j \in 1 .. n : i <= j => all[i] <= all[j]
  BY DEF Counting, Sorted
<1>4. \A i \in 1 .. n : all[i] \in Nat
  BY <1>1
<1>5. k \in Nat /\ k <= n
  BY <1>1, <1>2
<1> HIDE DEF all, n
<1>6. /\ longer \in Seq(Nat) /\ Len(longer) = n + 1 /\ longer[n + 1] = clock
      /\ \A i \in 1 .. n : longer[i] = all[i]
  BY <1>1 DEF n
<1>7. \A i \in 1 .. n + 1 : longer[i] \in Nat
  BY <1>6
<1> HIDE DEF longer
<1>8. /\ SubSeq(all, k + 1, n) \in Seq(Nat) /\ Len(SubSeq(all, k + 1, n)) = n - k
      /\ \A i \in 1 .. n - k : SubSeq(all, k + 1, n)[i] = all[k + i]
  <2>1. k + 1 \in Int /\ n \in Int /\ \A i \in k + 1 .. n : all[i] \in Nat
    BY <1>1, <1>4, <1>5
  <2>2. /\ SubSeq(all, k + 1, n) \in Seq(Nat)
        /\ Len(SubSeq(all, k + 1, n)) = IF k + 1 <= n THEN n - (k + 1) + 1 ELSE 0
        /\ \A i \in 1 .. n - (k + 1) + 1 : SubSeq(all, k + 1, n)[i] = all[(k + 1) + i - 1]
    BY <2>1, SubSeqProperties
  <2>3. n - (k + 1) + 1 = n - k /\ (~(k + 1 <= n) => n - k = 0)
    BY <1>1, <1>5
  <2>4. \A i \in 1 .. n - k : (k + 1) + i - 1 = k + i
    BY <1>5
  <2> QED
    BY <2>2, <2>3, <2>4
<1>9. /\ bucket \in Seq(Nat) /\ Len(bucket) = n - k + 1
      /\ \A i \in 1 .. n - k + 1 : bucket[i] = longer[k + i]
  <2>1. buckets[b] \in Seq(Nat) /\ Len(buckets[b]) = n - k
    BY <1>2, <1>8
  <2>2. /\ bucket \in Seq(Nat) /\ Len(bucket) = n - k + 1 /\ bucket[n - k + 1] = clock
        /\ \A i \in 1 .. n - k : bucket[i] = buckets[b][i]
    <3>1. /\ bucket \in Seq(Nat) /\ Len(bucket) = Len(buckets[b]) + 1
          /\ bucket[Len(buckets[b]) + 1] = clock
          /\ \A i \in 1 .. Len(buckets[b]) : bucket[i] = buckets[b][i]
      BY <1>1, <2>1
    <3> QED
      BY <2>1, <3>1
  <2>3. \A i \in 1 .. n - k : k + i \in 1 .. n /\ bucket[i] = all[k + i]
    <3> HIDE DEF bucket
    <3> TAKE i \in 1 .. n - k
    <3>1. k + i \in 1 .. n
      BY <1>1, <1>5
    <3>2. bucket[i] = SubSeq(all, k + 1, n)[i]
      BY <1>2, <2>2
    <3> QED
      BY <1>8, <3>1, <3>2
  <2>4. \A i \in 1 .. n - k + 1 : i \in 1 .. n - k \/ (i = n - k + 1 /\ k + i = n + 1)
    BY <1>1, <1>5
  <2> QED
    BY <1>6, <2>2, <2>3, <2>4
<1>10. n - k + 1 \in fresh /\ fresh \subseteq 1 .. n - k + 1 /\ fresh \subseteq Nat
  <2>1. n - k + 1 \in 1 .. n - k + 1 /\ k + (n - k + 1) = n + 1
    BY <1>1, <1>5
  <2>2. DOMAIN bucket = 1 .. n - k + 1
    BY <1>9
  <2>3. bucket[n - k + 1] = clock
    BY <1>6, <1>9, <2>1
  <2>4. bucket[n - k + 1] + Window >= clock
    BY <1>1, <2>3
  <2> QED
    BY <1>1, <1>5, <2>1, <2>2, <2>4
<1> DEFINE m == Min(fresh)
<1>11. m \in fresh /\ \A i \in fresh : m <= i
  BY <1>10, SmallestOf
<1> HIDE DEF m
<1>12. m \in Nat /\ m >= 1 /\ m <= n - k + 1
  <2>1. m \in 1 .. n - k + 1
    BY <1>10, <1>11
  <2> QED
    BY <1>1, <1>5, <2>1
<1>13. Counted(b) = SubSeq(bucket, m, n - k + 1)
  BY <1>9 DEF Counted, Aged, m
<1>14. bucket[m] + Window >= clock
  BY <1>11
<1>15. \A i \in 1 .. m - 1 : bucket[i] + Window < clock
  <2> SUFFICES ASSUME NEW i \in 1 .. m - 1, ~(bucket[i] + Window < clock) PROVE FALSE
    OBVIOUS
  <2>1. i \in Nat /\ i \in 1 .. n - k + 1 /\ i < m
    BY <1>1, <1>5, <1>12
  <2>2. bucket[i] \in Nat /\ i \in DOMAIN bucket
    BY <1>9, <2>1
  <2>3. i \in fresh
    BY <1>1, <2>2
  <2>4. m <= i
    BY <1>11, <2>3
  <2> QED
    BY <1>12, <2>1, <2>4
<1> HIDE DEF bucket, fresh, m
<1> DEFINE first == k + m
<1>16. first \in Nat /\ first \in 1 .. n + 1
  BY <1>1, <1>5, <1>12
<1>17. \A i \in 1 .. first - 1 : all[i] + Window < clock
  <2> TAKE i \in 1 .. first - 1
  <2>1. i \in 1 .. n
    BY <1>1, <1>16
  <2>2. CASE i <= k
    <3>1. i \in 1 .. k
      BY <1>5, <2>2
    <3> QED
      BY <1>2, <3>1
  <2>3. CASE i > k
    <3>1. i - k \in 1 .. m - 1 /\ i - k \in 1 .. n - k + 1 /\ k + (i - k) = i
      BY <1>1, <1>5, <1>12, <2>1, <2>3
    <3>2. bucket[i - k] = all[i]
      BY <1>6, <1>9, <2>1, <3>1
    <3> QED
      BY <1>15, <3>1, <3>2
  <2> QED
    BY <1>5, <2>2, <2>3
<1>18. \A i \in first .. n : all[i] + Window >= clock
  <2> TAKE i \in first .. n
  <2>1. first \in 1 .. n /\ i \in 1 .. n /\ first <= i
    BY <1>1, <1>16
  <2>2. m \in 1 .. n - k + 1
    BY <1>1, <1>5, <1>12
  <2>3. bucket[m] = all[first]
    BY <1>6, <1>9, <2>1, <2>2
  <2>4. all[first] <= all[i] /\ all[first] \in Nat /\ all[i] \in Nat
    BY <1>3, <1>4, <2>1
  <2> QED
    BY <1>1, <1>14, <2>3, <2>4
<1>19. /\ Counted(b) = SubSeq(longer, first, n + 1)
       /\ Counted(b) \in Seq(Nat)
       /\ Len(Counted(b)) = n + 2 - first
  <2> DEFINE s == SubSeq(bucket, m, n - k + 1)
             t == SubSeq(longer, first, n + 1)
  <2>1. /\ s \in Seq(Nat) /\ Len(s) = n - k + 2 - m
        /\ \A i \in 1 .. n - k + 2 - m : s[i] = bucket[m + i - 1]
    <3>1. m \in Int /\ n - k + 1 \in Int /\ \A i \in m .. n - k + 1 : bucket[i] \in Nat
      <4>1. \A i \in m .. n - k + 1 : i \in 1 .. n - k + 1
        BY <1>1, <1>5, <1>12
      <4> QED
        BY <1>1, <1>5, <1>9, <1>12, <4>1
    <3>2. /\ s \in Seq(Nat) /\ Len(s) = IF m <= n - k + 1 THEN (n - k + 1) - m + 1 ELSE 0
          /\ \A i \in 1 .. (n - k + 1) - m + 1 : s[i] = bucket[m + i - 1]
      BY <3>1, SubSeqProperties
    <3>3. (n - k + 1) - m + 1 = n - k + 2 - m
      BY <1>1, <1>5, <1>12
    <3> QED
      BY <1>12, <3>2, <3>3
  <2>2. /\ t \in Seq(Nat) /\ Len(t) = n + 2 - first
        /\ \A i \in 1 .. n + 2 - first : t[i] = longer[first + i - 1]
    <3>1. first \in Int /\ n + 1 \in Int /\ \A i \in first .. n + 1 : longer[i] \in Nat
      BY <1>1, <1>7, <1>16
    <3> HIDE DEF first
    <3>2. /\ t \in Seq(Nat) /\ Len(t) = IF first <= n + 1 THEN (n + 1) - first + 1 ELSE 0
          /\ \A i \in 1 .. (n + 1) - first + 1 : t[i] = longer[first + i - 1]
      BY <3>1, SubSeqProperties
    <3>3. (n + 1) - first + 1 = n + 2 - first /\ first <= n + 1
      BY <1>1, <1>16
    <3> QED
      BY <3>2, <3>3
  <2> HIDE DEF s, t
  <2>3. n - k + 2 - m = n + 2 - first
    BY <1>1, <1>5, <1>12
  <2>4. \A i \in 1 .. n + 2 - first : s[i] = t[i]
    <3> TAKE i \in 1 .. n + 2 - first
    <3>1. m + i - 1 \in 1 .. n - k + 1 /\ k + (m + i - 1) = first + i - 1
      BY <1>1, <1>5, <1>12
    <3> QED
      BY <1>9, <2>1, <2>2, <2>3, <3>1
  <2>5. s = t
    BY <2>1, <2>2, <2>3, <2>4, SeqEqual
  <2> QED
    BY <1>13, <2>2, <2>5 DEF s, t
<1> HIDE DEF first
<1> QED
  BY <1>16, <1>17, <1>18, <1>19 DEF all, n, longer

\* So its length is the number of unspent matches in the window, and the new one.
LEMMA CountedCounts ==
    ASSUME AgentType, Counting, NEW b \in Buckets
    PROVE  Len(Counted(b))
           = 1 + Cardinality({i \in DOMAIN unspent[b] : unspent[b][i] + Window >= clock})
<1> DEFINE n == Len(unspent[b])
           within == {i \in DOMAIN unspent[b] : unspent[b][i] + Window >= clock}
<1>1. /\ n \in Nat /\ DOMAIN unspent[b] = 1 .. n /\ clock \in Nat /\ Window \in Nat
      /\ \A i \in 1 .. n : unspent[b][i] \in Nat
  BY AgentAssumption DEF AgentType
<1>2. PICK first \in 1 .. n + 1 :
          /\ Len(Counted(b)) = n + 2 - first
          /\ \A i \in 1 .. first - 1 : unspent[b][i] + Window < clock
          /\ \A i \in first .. n : unspent[b][i] + Window >= clock
  BY CountedIs
<1>3. within = first .. n
  <2>1. ASSUME NEW i \in 1 .. n PROVE unspent[b][i] + Window >= clock <=> i \in first .. n
    <3>1. CASE i < first
      <4>1. i \in 1 .. first - 1 /\ ~(i \in first .. n)
        BY <1>1, <3>1
      <4> QED
        BY <1>1, <1>2, <4>1
    <3>2. CASE i >= first
      <4>1. i \in first .. n
        BY <1>1, <3>2
      <4> QED
        BY <1>2, <4>1
    <3> QED
      BY <1>1, <3>1, <3>2
  <2>2. first .. n \subseteq 1 .. n
    BY <1>1
  <2> QED
    BY <1>1, <2>1, <2>2
<1>4. Cardinality(first .. n) = IF first > n THEN 0 ELSE n - first + 1
  <2>1. first \in Int /\ n \in Int
    BY <1>1
  <2> QED
    BY <2>1, FS_Interval
<1> HIDE DEF within
<1>5. Cardinality(within) = n + 1 - first
  <2>1. first \in Nat /\ first <= n + 1
    BY <1>1
  <2> QED
    BY <1>1, <1>3, <1>4, <2>1
<1>6. Len(Counted(b)) = 1 + Cardinality(within)
  BY <1>1, <1>2, <1>5
<1> QED
  BY <1>6 DEF within

LEMMA CountingKept ==
    ASSUME AgentType, Counting, clock' \in Nat, clock <= clock', UNCHANGED <<buckets, unspent>>
    PROVE  Counting'
<1> SUFFICES ASSUME NEW b \in Buckets PROVE Windowed(b)' /\ Sorted(b)'
  BY DEF Counting
<1> DEFINE all == unspent[b]
<1>1. /\ clock \in Nat /\ Window \in Nat /\ Len(all) \in Nat
      /\ \A i \in 1 .. Len(all) : all[i] \in Nat
  BY AgentAssumption DEF AgentType
<1>2. PICK k \in 0 .. Len(all) : /\ buckets[b] = SubSeq(all, k + 1, Len(all))
                                 /\ \A i \in 1 .. k : all[i] + Window < clock
  BY DEF Counting, Windowed
<1>3. \A i \in 1 .. k : all[i] + Window < clock'
  <2> TAKE i \in 1 .. k
  <2>1. i \in 1 .. Len(all)
    BY <1>1
  <2> QED
    BY <1>1, <1>2, <2>1
<1>4. Windowed(b)'
  BY <1>2, <1>3 DEF Windowed
<1>5. Sorted(b)'
  <2>1. Sorted(b)
    BY DEF Counting
  <2> QED
    BY <1>1, <2>1 DEF Sorted
<1> QED
  BY <1>4, <1>5

LEMMA CountingByRecord ==
    ASSUME AgentType, Counting, NEW th \in Threads, NEW kind \in Kinds, NEW logger \in Loggers,
           Classify(th, kind, logger)
    PROVE  /\ buckets' \in [Buckets -> Seq(Nat)] /\ unspent' \in [Buckets -> Seq(Nat)]
           /\ Counting'
<1>1. /\ clock' = clock /\ clock \in Nat /\ Window \in Nat
      /\ buckets \in [Buckets -> Seq(Nat)] /\ unspent \in [Buckets -> Seq(Nat)]
  BY AgentAssumption DEF Classify, AgentType
<1>2. ASSUME NEW b \in Buckets
      PROVE  \/ buckets'[b] = buckets[b] /\ unspent'[b] = unspent[b]
             \/ buckets'[b] = <<>> /\ unspent'[b] = <<>>
             \/ buckets'[b] = Counted(b) /\ unspent'[b] = Append(unspent[b], clock)
  BY DEF Classify
<1>3. /\ buckets' = [b \in Buckets |-> buckets'[b]]
      /\ unspent' = [b \in Buckets |-> unspent'[b]]
  BY DEF Classify
<1>4. ASSUME NEW b \in Buckets
      PROVE  /\ buckets'[b] \in Seq(Nat) /\ unspent'[b] \in Seq(Nat)
             /\ Windowed(b)' /\ Sorted(b)'
  <2>0. unspent[b] \in Seq(Nat) /\ buckets[b] \in Seq(Nat) /\ Windowed(b) /\ Sorted(b)
    BY <1>1 DEF Counting
  <2>1. CASE buckets'[b] = buckets[b] /\ unspent'[b] = unspent[b]
    BY <1>1, <2>0, <2>1 DEF Windowed, Sorted
  <2>2. CASE buckets'[b] = <<>> /\ unspent'[b] = <<>>
    <3>1. Len(unspent'[b]) = 0 /\ <<>> \in Seq(Nat)
      BY <2>2
    <3>2. 0 \in 0 .. Len(unspent'[b]) /\ SubSeq(unspent'[b], 0 + 1, Len(unspent'[b])) = <<>>
      BY <3>1, SubSeqEmpty
    <3>3. Windowed(b)'
      BY <2>2, <3>1, <3>2 DEF Windowed
    <3>4. Sorted(b)'
      BY <3>1 DEF Sorted
    <3> QED
      BY <2>2, <3>1, <3>3, <3>4
  <2>3. CASE buckets'[b] = Counted(b) /\ unspent'[b] = Append(unspent[b], clock)
    <3> DEFINE all == unspent[b]
               n == Len(all)
               longer == Append(all, clock)
    <3>1. /\ longer \in Seq(Nat) /\ Len(longer) = n + 1 /\ longer[n + 1] = clock /\ n \in Nat
          /\ \A i \in 1 .. n : longer[i] = all[i] /\ all[i] \in Nat
      BY <1>1, <2>0
    <3>2. PICK first \in 1 .. n + 1 :
              /\ Counted(b) = SubSeq(longer, first, n + 1)
              /\ Counted(b) \in Seq(Nat)
              /\ \A i \in 1 .. first - 1 : all[i] + Window < clock
      BY CountedIs
    <3> HIDE DEF all, n, longer
    <3>3. Windowed(b)'
      <4>1. first - 1 \in 0 .. Len(longer) /\ (first - 1) + 1 = first
        BY <3>1
      <4>2. buckets'[b] = SubSeq(longer, (first - 1) + 1, Len(longer))
        BY <2>3, <3>1, <3>2, <4>1
      <4>3. \A i \in 1 .. first - 1 : longer[i] + Window < clock'
        <5> TAKE i \in 1 .. first - 1
        <5>1. i \in 1 .. n
          BY <3>1
        <5> QED
          BY <1>1, <3>1, <3>2, <5>1
      <4>4. unspent'[b] = longer
        BY <2>3 DEF longer, all
      <4> QED
        BY <4>1, <4>2, <4>3, <4>4 DEF Windowed
    <3>4. Sorted(b)'
      <4>1. /\ \A i \in 1 .. n : all[i] <= clock
            /\ \A i, j \in 1 .. n : i <= j => all[i] <= all[j]
        BY <2>0 DEF Sorted, all, n
      <4>2. \A i \in 1 .. n + 1 : i \in 1 .. n \/ i = n + 1
        BY <3>1
      <4>3. \A i \in 1 .. n + 1 : longer[i] <= clock
        <5> TAKE i \in 1 .. n + 1
        <5>1. CASE i = n + 1
          BY <1>1, <3>1, <5>1
        <5>2. CASE i \in 1 .. n
          BY <3>1, <4>1, <5>2
        <5> QED
          BY <4>2, <5>1, <5>2
      <4>4. \A i, j \in 1 .. n + 1 : i <= j => longer[i] <= longer[j]
        <5> SUFFICES ASSUME NEW i \in 1 .. n + 1, NEW j \in 1 .. n + 1, i <= j
                     PROVE  longer[i] <= longer[j]
          OBVIOUS
        <5>1. CASE j = n + 1
          BY <3>1, <4>3, <5>1
        <5>2. CASE j \in 1 .. n
          <6>1. i \in 1 .. n
            BY <3>1, <5>2
          <6> QED
            BY <3>1, <4>1, <5>2, <6>1
        <5> QED
          BY <4>2, <5>1, <5>2
      <4>5. unspent'[b] = longer
        BY <2>3 DEF longer, all
      <4> QED
        BY <1>1, <3>1, <4>3, <4>4, <4>5 DEF Sorted
    <3>5. unspent'[b] \in Seq(Nat)
      BY <2>3, <3>1 DEF longer, all
    <3> QED
      BY <2>3, <3>2, <3>3, <3>4, <3>5
  <2> QED
    BY <1>2, <2>1, <2>2, <2>3
<1>5. buckets' \in [Buckets -> Seq(Nat)] /\ unspent' \in [Buckets -> Seq(Nat)]
  BY <1>3, <1>4
<1> QED
  BY <1>4, <1>5 DEF Counting
-----------------------------------------------------------------------------
(* Every step keeps the invariant. *)

\* With one producer at a time, nothing waits in another thread's outbox.
LEMMA OthersAreEmpty ==
    ASSUME IInv, ~overlapped, NEW th \in Threads,
           \/ AtWork(th)
           \/ outbox[th] # <<>>
           \/ th = "caller" /\ caller = "joining" /\ poller = "none"
    PROVE  \A ht \in Threads \ {th} : outbox[ht] = <<>>
BY DEF IInv, Manned, AtWork, Threads

LEMMA InitInvariant == Init => IInv
<1> SUFFICES ASSUME Init PROVE IInv
  OBVIOUS
<1>1. DOMAIN open = {} /\ (\A b \in Buckets : buckets[b] = <<>> /\ unspent[b] = <<>>)
      /\ \A th \in Threads : outbox[th] = <<>> /\ Slots(th) = {}
  BY DEF Init, Slots
<1>2. AgentType
  <2>1. /\ buckets \in [Buckets -> Seq(Nat)] /\ unspent \in [Buckets -> Seq(Nat)]
        /\ outbox \in [Threads -> Seq(Incidents)]
    BY DEF Init
  <2>2. headers <= observed /\ observed <= MaxRecords /\ DOMAIN open \subseteq 1 .. headers
    BY <1>1, AgentAssumption DEF Init
  <2>3. block \in [Threads -> Nat] /\ frames \in [Headers -> Nat] /\ reported \in [Headers -> Nat]
        /\ latest \in [Fingerprints -> Nat]
    BY DEF Init, NoHeader
  <2> QED
    BY <1>1, <2>1, <2>2, <2>3 DEF Init, AgentType
<1>3. Placed
  BY <1>1 DEF Init, Placed, Leaving, Headers
<1>4. Manned
  BY <1>1 DEF Init, Manned, Threads
<1>5. Framed
  BY <1>1 DEF Init, Framed, FramesAreCollected, AtWork, NoHeader
<1>6. OnePerLogger /\ Past
  BY <1>1 DEF Init, OnePerLogger, Past
<1>7. Lagging
  BY <1>1 DEF Init, Lagging, Flowing, Rising
<1>8. Counting
  <2> SUFFICES ASSUME NEW b \in Buckets PROVE Windowed(b) /\ Sorted(b)
    BY DEF Counting
  <2>1. Len(unspent[b]) = 0 /\ buckets[b] = <<>> /\ unspent[b] = <<>>
    BY <1>1
  <2>2. 0 \in 0 .. Len(unspent[b]) /\ SubSeq(unspent[b], 0 + 1, Len(unspent[b])) = <<>>
    BY <2>1, SubSeqEmpty
  <2> QED
    BY <2>1, <2>2 DEF Windowed, Sorted
<1> QED
  BY <1>2, <1>3, <1>4, <1>5, <1>6, <1>7, <1>8 DEF IInv

\* What a record does to the classifier keeps its part of the invariant, whether its
\* incidents reach a thread or not.
LEMMA ClassifyStep ==
    ASSUME IInv, NEW th \in Threads, AtWork(th), observed < MaxRecords,
           NEW kind \in Kinds, NEW logger \in Loggers, Classify(th, kind, logger),
           \A ht \in Threads : AtWork(ht)' => AtWork(ht)
    PROVE  /\ headers' \in Nat /\ observed' \in Nat
           /\ headers <= headers' /\ headers' <= observed' /\ observed' <= MaxRecords
           /\ DOMAIN open' \subseteq 1 .. headers' /\ \A h \in DOMAIN open' : open'[h] \in States
           /\ block' \in [Threads -> Nat]
           /\ buckets' \in [Buckets -> Seq(Nat)] /\ unspent' \in [Buckets -> Seq(Nat)]
           /\ OnePerLogger' /\ Framed' /\ Counting'
<1> DEFINE new == IF kind = "header" THEN {headers + 1} ELSE {}
           closed == Due \cup Superseded(logger)
<1>0. AgentType /\ Manned /\ Framed /\ OnePerLogger /\ Counting
  BY DEF IInv
<1>1. Moves(closed, new, logger)
  BY <1>0, ClassifyMoves
<1>2. /\ observed' = observed + 1 /\ frames' = frames /\ overlapped' = overlapped
      /\ headers' = (IF kind = "header" THEN headers + 1 ELSE headers)
      /\ block' = [block EXCEPT ![th] = IF kind = "header" THEN headers + 1 ELSE NoHeader]
  BY DEF Classify
<1>3. /\ DOMAIN open' = (DOMAIN open \ closed) \cup new
      /\ \A h \in DOMAIN open \ closed : open'[h] = open[h]
      /\ \A h \in new : open'[h] \in States /\ open'[h].frames = 0
  <2>1. \A h \in DOMAIN open : h \notin new
    BY <1>0 DEF AgentType
  <2>2. \A h \in new : open'[h] = [logger |-> logger, at |-> clock, frames |-> 0]
    BY DEF Classify, Opened
  <2> QED
    BY <1>1, <2>2 DEF Moves
<1> HIDE DEF new, closed
<1>5. headers \in Nat /\ headers < MaxRecords /\ MaxRecords \in Nat /\ headers <= headers' /\ headers' <= headers + 1
  BY <1>0, <1>2, AgentAssumption DEF AgentType
<1>6. headers' \in Nat /\ observed' \in Nat /\ headers' <= observed' /\ observed' <= MaxRecords
  BY <1>0, <1>2, <1>5 DEF AgentType
<1>7. DOMAIN open' \subseteq 1 .. headers' /\ \A h \in DOMAIN open' : open'[h] \in States
  <2>1. new \subseteq 1 .. headers'
    BY <1>2, <1>5 DEF new
  <2>2. DOMAIN open \subseteq 1 .. headers'
    <3>1. DOMAIN open \subseteq 1 .. headers
      BY <1>0 DEF AgentType
    <3>2. headers' \in Nat /\ 1 .. headers \subseteq 1 .. headers'
      BY <1>2, <1>5
    <3> QED
      BY <3>1, <3>2
  <2> QED
    BY <1>0, <1>3, <2>1, <2>2 DEF AgentType
<1>8. block' \in [Threads -> Nat]
  BY <1>0, <1>2, <1>5 DEF AgentType, NoHeader
<1>9. buckets' \in [Buckets -> Seq(Nat)] /\ unspent' \in [Buckets -> Seq(Nat)] /\ Counting'
  BY <1>0, CountingByRecord
<1>10. Framed'
  <2>1. \A ht \in Threads : block'[ht] <= headers'
    BY <1>0, <1>2, <1>5 DEF Framed, AgentType, NoHeader
  <2>2. \A h \in Headers : h > headers' => frames'[h] = 0
    <3> TAKE h \in Headers
    <3>1. h > headers' => h > headers
      BY <1>0, <1>2, <1>5 DEF Headers
    <3> QED
      BY <1>0, <1>2, <3>1 DEF Framed
  <2>3. ASSUME ~overlapped, NEW ht \in Threads, AtWork(ht)', block'[ht] # NoHeader
        PROVE  block'[ht] \in DOMAIN open'
    <3>0. AtWork(ht)
      BY <2>3
    <3>1. ht = th
      BY <1>0, <2>3, <3>0 DEF Manned, AtWork, Threads
    <3>2. kind = "header" /\ block'[th] = headers + 1
      BY <1>0, <1>2, <2>3, <3>1 DEF AgentType
    <3> QED
      BY <1>3, <3>1, <3>2 DEF new
  <2>4. ASSUME ~overlapped, NEW h \in DOMAIN open' PROVE open'[h].frames = frames'[h]
    <3>1. CASE h \in new
      <4>1. h = headers + 1 /\ h \in Headers /\ h > headers
        BY <1>5, <3>1 DEF new, Headers
      <4> QED
        BY <1>0, <1>2, <1>3, <3>1, <4>1 DEF Framed
    <3>2. CASE h \in DOMAIN open \ closed
      BY <1>0, <1>2, <1>3, <2>4, <3>2 DEF Framed, FramesAreCollected
    <3> QED
      BY <1>3, <3>1, <3>2
  <2> QED
    BY <1>2, <2>1, <2>2, <2>3, <2>4 DEF Framed, FramesAreCollected
<1> QED
  BY <1>0, <1>1, <1>5, <1>6, <1>7, <1>8, <1>9, <1>10, OnePerLoggerByMoves

LEMMA RecordStep ==
    ASSUME IInv, NEW th \in Threads, AtWork(th), outbox[th] = <<>>, observed < MaxRecords,
           NEW kind \in Kinds, NEW logger \in Loggers, ObserveRecord(th, kind, logger)
    PROVE  IInv'
<1> DEFINE new == IF kind = "header" THEN {headers + 1} ELSE {}
           closed == Due \cup Superseded(logger)
           seq == Emitted(kind, logger)
<1>0. AgentType /\ Placed /\ Manned /\ OnePerLogger /\ Past /\ Lagging
  BY DEF IInv
<1>1. Emits(th, seq, closed, new, logger)
  BY <1>0, RecordEmits
<1>2. /\ frames' = frames /\ overlapped' = overlapped
      /\ poller' = poller /\ caller' = caller /\ stop_event' = stop_event /\ clock' = clock
      /\ reported' = reported /\ newest' = newest /\ latest' = latest
      /\ lost' = lost /\ raised' = raised /\ Classify(th, kind, logger)
  BY DEF ObserveRecord, Classify, agent, reports, faults
<1>3. /\ outbox' \in [Threads -> Seq(Incidents)]
      /\ \A ht \in Threads \ {th} : outbox'[ht] = outbox[ht]
  BY <1>0, <1>1, EmitsSlots
<1> HIDE DEF new, closed, seq
<1>4. /\ headers' \in Nat /\ observed' \in Nat
      /\ headers <= headers' /\ headers' <= observed' /\ observed' <= MaxRecords
      /\ DOMAIN open' \subseteq 1 .. headers' /\ \A h \in DOMAIN open' : open'[h] \in States
      /\ block' \in [Threads -> Nat]
      /\ buckets' \in [Buckets -> Seq(Nat)] /\ unspent' \in [Buckets -> Seq(Nat)]
      /\ OnePerLogger' /\ Framed' /\ Counting'
  <2>1. \A ht \in Threads : AtWork(ht)' => AtWork(ht)
    BY <1>2 DEF AtWork
  <2> QED
    BY <1>2, <2>1, ClassifyStep
<1>5. AgentType'
  BY <1>0, <1>2, <1>3, <1>4 DEF AgentType
<1>6. Placed' /\ Past'
  BY <1>0, <1>1, PlacedByEmits, PastByEmits
<1>7. Lagging'
  <2> SUFFICES ASSUME ~overlapped PROVE Flowing' /\ Rising'
    BY <1>2 DEF Lagging
  <2>1. \A ht \in Threads \ {th} : outbox[ht] = <<>>
    BY OthersAreEmpty
  <2> QED
    BY <1>0, <1>1, <2>1, LaggingByEmits DEF Lagging
<1>8. Manned'
  BY <1>0, <1>2, <1>3 DEF Manned, AtWork, Threads
<1> QED
  BY <1>4, <1>5, <1>6, <1>7, <1>8 DEF IInv

\* A rule that raises ends the thread: what was closed is lost, the others stay open.
LEMMA RaiseStep ==
    ASSUME IInv, NEW th \in Threads, AtWork(th), outbox[th] = <<>>, observed < MaxRecords,
           NEW kind \in Kinds, NEW logger \in Loggers, RecordRaises(th, kind, logger),
           raised', UNCHANGED stop_event,
           \/ th = "poller" /\ poller' = "none" /\ caller' = caller
           \/ th = "caller" /\ caller' = "idle" /\ poller' = poller
    PROVE  IInv'
<1> DEFINE new == IF kind = "header" THEN {headers + 1} ELSE {}
           closed == Due \cup Superseded(logger)
<1>0. AgentType /\ Placed /\ Manned /\ OnePerLogger /\ Past /\ Lagging
  BY DEF IInv
<1>1. /\ frames' = frames /\ overlapped' = overlapped /\ clock' = clock
      /\ reported' = reported /\ newest' = newest /\ latest' = latest
      /\ outbox' = outbox /\ Classify(th, kind, logger)
  BY DEF RecordRaises, Classify, reports
<1>2. Moves(closed, new, logger)
  BY <1>0, <1>1, ClassifyMoves
<1>3. lost' = lost \cup closed
  BY DEF RecordRaises
<1> HIDE DEF new, closed
<1>4. /\ headers' \in Nat /\ observed' \in Nat
      /\ headers <= headers' /\ headers' <= observed' /\ observed' <= MaxRecords
      /\ DOMAIN open' \subseteq 1 .. headers' /\ \A h \in DOMAIN open' : open'[h] \in States
      /\ block' \in [Threads -> Nat]
      /\ buckets' \in [Buckets -> Seq(Nat)] /\ unspent' \in [Buckets -> Seq(Nat)]
      /\ OnePerLogger' /\ Framed' /\ Counting'
  <2>1. \A ht \in Threads : AtWork(ht)' => AtWork(ht)
    BY DEF AtWork, Threads
  <2> QED
    BY <1>1, <2>1, ClassifyStep
<1>5. /\ closed \subseteq DOMAIN open /\ DOMAIN open' = (DOMAIN open \ closed) \cup new
      /\ \A h \in DOMAIN open \ closed : open'[h] = open[h] /\ clock < open[h].at + Followup
      /\ \A h \in new : open'[h].at = clock /\ open'[h].logger \in Loggers
      /\ \/ new = {} /\ headers' = headers
         \/ new = {headers + 1} /\ headers' = headers + 1
  BY <1>2 DEF Moves, States
<1>6. DOMAIN open \subseteq Headers /\ headers \in Nat /\ \A h \in DOMAIN open : h <= headers
  BY <1>0, OpenIsKnown
<1>7. AgentType'
  <2>1. lost' \subseteq Headers
    BY <1>0, <1>3, <1>5, <1>6 DEF AgentType
  <2> QED
    BY <1>0, <1>1, <1>4, <2>1 DEF AgentType
<1>8. Placed'
  <2>1. \A h \in Headers : Leaving(h)' <=> Leaving(h)
    BY <1>1 DEF Leaving, Slots
  <2>2. ASSUME NEW h \in Headers
        PROVE  /\ reported'[h] <= 1
               /\ h > headers' => reported'[h] = 0
               /\ h <= headers' => h \in DOMAIN open' \/ Leaving(h)' \/ reported'[h] = 1 \/ h \in lost'
               /\ h \in DOMAIN open' => reported'[h] = 0 /\ ~Leaving(h)'
               /\ h \in lost' => reported'[h] = 0 /\ h <= headers' /\ h \notin DOMAIN open' /\ ~Leaving(h)'
               /\ Leaving(h)' => reported'[h] = 0 /\ h <= headers'
    <3>1. /\ reported[h] <= 1
          /\ h > headers => reported[h] = 0
          /\ h <= headers => h \in DOMAIN open \/ Leaving(h) \/ reported[h] = 1 \/ h \in lost
          /\ h \in DOMAIN open => reported[h] = 0 /\ ~Leaving(h)
          /\ h \in lost => reported[h] = 0 /\ h <= headers /\ h \notin DOMAIN open /\ ~Leaving(h)
          /\ Leaving(h) => reported[h] = 0 /\ h <= headers
      BY <1>0 DEF Placed
    <3>2. /\ h \in new => h > headers /\ ~(h <= headers) /\ h <= headers'
          /\ h <= headers => h <= headers'
          /\ h <= headers' => h <= headers \/ h \in new
          /\ h > headers' => h > headers
      BY <1>5, <1>6 DEF Headers
    <3> QED
      BY <1>1, <1>3, <1>5, <1>6, <2>1, <3>1, <3>2
  <2>3. \A ht \in Threads, kt \in Threads : \A i \in Slots(ht)', j \in Slots(kt)' :
           outbox'[ht][i].header = outbox'[kt][j].header /\ outbox'[ht][i].header # NoHeader
               => ht = kt /\ i = j
    BY <1>0, <1>1 DEF Placed, Slots
  <2> QED
    BY <2>2, <2>3 DEF Placed
<1>9. Past'
  <2>1. \A h \in DOMAIN open' : open'[h].at <= clock
    BY <1>0, <1>5 DEF Past, AgentType
  <2> QED
    BY <1>0, <1>1, <2>1 DEF Past, Slots
<1>10. Lagging'
  <2> SUFFICES ASSUME ~overlapped PROVE Flowing' /\ Rising'
    BY <1>1 DEF Lagging
  <2>1. \A ht \in Threads : Slots(ht)' = {}
    <3>1. \A ht \in Threads : outbox[ht] = <<>>
      BY OthersAreEmpty
    <3> QED
      BY <1>1, <3>1 DEF Slots
  <2>2. clock \in Nat /\ newest \in Nat /\ Followup \in Nat /\ newest <= clock
    BY <1>0, AgentAssumption DEF AgentType, Past
  <2>3. \A h \in DOMAIN open : open[h].at \in Nat /\ open[h].at <= clock /\ open[h].logger \in Loggers
    BY <1>0 DEF AgentType, States, Past
  <2>4. ASSUME NEW h \in DOMAIN open'
        PROVE  /\ open'[h].at \in Nat /\ open'[h].at <= clock
               /\ clock <= open'[h].at \/ clock < open'[h].at + Followup
    BY <1>5, <2>2, <2>3
  <2>5. Flowing'
    <3>1. \A h \in DOMAIN open' : KeepsUp(newest', open'[h].at)
      BY <1>1, <2>2, <2>4 DEF KeepsUp
    <3>2. \A g, h \in DOMAIN open' : KeepsUp(open'[g].at, open'[h].at)
      BY <2>2, <2>4 DEF KeepsUp
    <3> QED
      BY <2>1, <3>1, <3>2 DEF Flowing
  <2>6. Rising'
    <3>1. ASSUME NEW h \in DOMAIN open' PROVE latest[<<"traceback", open'[h].logger>>] <= open'[h].at
      <4>1. CASE h \in DOMAIN open \ closed
        BY <1>0, <1>5, <4>1 DEF Lagging, Rising
      <4>2. CASE h \in new
        <5>1. <<"traceback", open'[h].logger>> \in Fingerprints
          BY <1>5, <4>2 DEF Fingerprints
        <5> QED
          BY <1>0, <1>5, <4>2, <5>1 DEF Past
      <4> QED
        BY <1>5, <4>1, <4>2
    <3> QED
      BY <1>1, <2>1, <3>1 DEF Rising
  <2> QED
    BY <2>5, <2>6
<1>11. Manned'
  BY <1>0, <1>1 DEF Manned, AtWork, Threads
<1> QED
  BY <1>4, <1>7, <1>8, <1>9, <1>10, <1>11 DEF IInv

LEMMA FrameStep ==
    ASSUME IInv, NEW th \in Threads, AtWork(th), observed < MaxRecords, ObserveFrame(th)
    PROVE  IInv'
<1>0. AgentType /\ Placed /\ Manned /\ Framed /\ OnePerLogger /\ Past /\ Lagging /\ Counting
  BY DEF IInv
<1>1. /\ observed' = observed + 1 /\ overlapped' = overlapped /\ headers' = headers
      /\ poller' = poller /\ caller' = caller /\ stop_event' = stop_event /\ clock' = clock
      /\ reported' = reported /\ newest' = newest /\ latest' = latest /\ outbox' = outbox
      /\ block' = block /\ buckets' = buckets /\ unspent' = unspent
      /\ lost' = lost /\ raised' = raised
      /\ frames' = [h \in Headers |-> IF h = block[th] THEN frames[h] + 1 ELSE frames[h]]
  BY DEF ObserveFrame, agent, reports, faults
<1>2. /\ DOMAIN open' = DOMAIN open
      /\ \A h \in DOMAIN open : open'[h] = IF h = block[th] THEN [open[h] EXCEPT !.frames = @ + 1] ELSE open[h]
  BY DEF ObserveFrame, Extended
<1>3. \A h \in DOMAIN open :
         /\ open'[h] \in States /\ open'[h].logger = open[h].logger /\ open'[h].at = open[h].at
         /\ open'[h].frames = IF h = block[th] THEN open[h].frames + 1 ELSE open[h].frames
  <2> TAKE h \in DOMAIN open
  <2>1. open[h] \in States
    BY <1>0 DEF AgentType
  <2> QED
    BY <1>2, <2>1 DEF States
<1>4. \A ht \in Threads : Slots(ht)' = Slots(ht)
  BY <1>1 DEF Slots
<1>5. AgentType'
  <2>1. observed' \in Nat /\ headers' <= observed' /\ observed' <= MaxRecords
    BY <1>0, <1>1, AgentAssumption DEF AgentType
  <2>2. frames' \in [Headers -> Nat]
    BY <1>0, <1>1 DEF AgentType
  <2> QED
    BY <1>0, <1>1, <1>2, <1>3, <2>1, <2>2 DEF AgentType
<1>6. Placed'
  BY <1>0, <1>1, <1>2, <1>4 DEF Placed, Leaving
<1>7. Manned'
  BY <1>0, <1>1, <1>2 DEF Manned
<1>8. OnePerLogger' /\ Past'
  BY <1>0, <1>1, <1>2, <1>3, <1>4 DEF OnePerLogger, Past
<1>9. Lagging'
  <2> SUFFICES ASSUME ~overlapped PROVE Flowing' /\ Rising'
    BY <1>1 DEF Lagging
  <2>1. Flowing'
    BY <1>0, <1>1, <1>2, <1>3, <1>4 DEF Lagging, Flowing
  <2>2. Rising'
    BY <1>0, <1>1, <1>2, <1>3, <1>4 DEF Lagging, Rising
  <2> QED
    BY <2>1, <2>2
<1>10. Framed'
  <2>1. \A h \in Headers : h > headers' => frames'[h] = 0
    BY <1>0, <1>1 DEF Framed, Headers, AgentType
  <2>2. ASSUME ~overlapped PROVE \A h \in DOMAIN open' : open'[h].frames = frames'[h]
    <3> TAKE h \in DOMAIN open'
    <3>1. h \in Headers /\ h \in DOMAIN open
      BY <1>0, <1>2, AgentAssumption DEF AgentType, Headers
    <3> QED
      BY <1>0, <1>1, <1>3, <2>2, <3>1 DEF Framed, FramesAreCollected
  <2> QED
    BY <1>0, <1>1, <1>2, <2>1, <2>2 DEF Framed, FramesAreCollected, AtWork
<1>11. Counting'
  <2>1. clock \in Nat /\ clock' \in Nat /\ clock <= clock'
    BY <1>0, <1>1 DEF AgentType
  <2> QED
    BY <1>0, <1>1, <2>1, CountingKept
<1> QED
  BY <1>5, <1>6, <1>7, <1>8, <1>9, <1>10, <1>11 DEF IInv

LEMMA DispatchStep ==
    ASSUME IInv, NEW th \in Threads, Dispatch(th)
    PROVE  IInv'
<1>0. AgentType /\ Placed /\ Manned /\ Framed /\ OnePerLogger /\ Past /\ Lagging /\ Counting
  BY DEF IInv
<1>1. /\ observed' = observed /\ overlapped' = overlapped /\ headers' = headers /\ open' = open
      /\ poller' = poller /\ caller' = caller /\ stop_event' = stop_event /\ clock' = clock
      /\ block' = block /\ buckets' = buckets /\ unspent' = unspent /\ frames' = frames
      /\ lost' = lost /\ raised' = raised /\ outbox[th] # <<>>
  BY DEF Dispatch, agent, records, classifier, faults
<1>2. /\ outbox' \in [Threads -> Seq(Incidents)] /\ outbox[th][1] \in Incidents
      /\ Head(outbox[th]) = outbox[th][1]
      /\ \A ht \in Threads \ {th} : outbox'[ht] = outbox[ht]
  BY <1>0, DispatchEffect
<1>3. AgentType'
  <2> DEFINE sent == outbox[th][1]
  <2>1. sent.at \in Nat /\ sent.fingerprint \in Fingerprints
    BY <1>2 DEF Incidents
  <2>2. /\ reported' = [h \in Headers |-> IF h = sent.header THEN reported[h] + 1 ELSE reported[h]]
        /\ newest' = IF sent.at > newest THEN sent.at ELSE newest
        /\ latest' = [latest EXCEPT ![sent.fingerprint] = sent.at]
    BY <1>2 DEF Dispatch
  <2> HIDE DEF sent
  <2>3. reported' \in [Headers -> Nat] /\ newest' \in Nat /\ latest' \in [Fingerprints -> Nat]
    BY <1>0, <2>1, <2>2 DEF AgentType
  <2> QED
    BY <1>0, <1>1, <1>2, <2>3 DEF AgentType
<1>4. Placed' /\ Past'
  BY <1>0, PlacedByDispatch, PastByDispatch
<1>5. Manned'
  BY <1>0, <1>1, <1>2 DEF Manned, Threads
<1>6. Framed' /\ OnePerLogger'
  BY <1>0, <1>1 DEF Framed, FramesAreCollected, AtWork, OnePerLogger
<1>7. Lagging'
  <2> SUFFICES ASSUME ~overlapped PROVE Flowing' /\ Rising'
    BY <1>1 DEF Lagging
  <2>1. \A ht \in Threads \ {th} : outbox[ht] = <<>>
    BY <1>1, OthersAreEmpty
  <2> QED
    BY <1>0, <2>1, LaggingByDispatch DEF Lagging
<1>8. Counting'
  <2>1. clock \in Nat /\ clock' \in Nat /\ clock <= clock'
    BY <1>0, <1>1 DEF AgentType
  <2> QED
    BY <1>0, <1>1, <2>1, CountingKept
<1> QED
  BY <1>3, <1>4, <1>5, <1>6, <1>7, <1>8 DEF IInv

\* stop and process flush when no line can come from their side any more.
LEMMA FlushStep ==
    ASSUME IInv, Flush("caller"), outbox["caller"] = <<>>,
           (caller = "joining" /\ poller = "none") \/ caller = "processing",
           caller' = "dispatching",
           UNCHANGED <<clock, buckets, poller, stop_event, calls, reports, records, overlapped>>
    PROVE  IInv'
<1> DEFINE seq == Tracebacks(DOMAIN open)
<1>0. AgentType /\ Placed /\ Manned /\ Framed /\ OnePerLogger /\ Past /\ Lagging /\ Counting
  BY DEF IInv
<1>1. /\ observed' = observed /\ overlapped' = overlapped /\ headers' = headers
      /\ poller' = poller /\ stop_event' = stop_event /\ clock' = clock
      /\ block' = block /\ buckets' = buckets /\ unspent' = unspent /\ frames' = frames
      /\ reported' = reported /\ newest' = newest /\ latest' = latest
  BY DEF records, reports
<1>2. "caller" \in Threads
  BY DEF Threads
<1>3. Emits("caller", seq, DOMAIN open, {}, NoHeader)
  BY <1>0, <1>1, <1>2, FlushEmits
<1>4. /\ outbox' \in [Threads -> Seq(Incidents)]
      /\ \A ht \in Threads \ {"caller"} : outbox'[ht] = outbox[ht]
  BY <1>0, <1>2, <1>3, EmitsSlots
<1>5. DOMAIN open' = {} /\ lost' = lost /\ raised' = FALSE
  BY DEF Flush
<1> HIDE DEF seq
<1>6. AgentType'
  BY <1>0, <1>1, <1>4, <1>5 DEF AgentType
<1>7. Placed' /\ OnePerLogger' /\ Past'
  BY <1>0, <1>2, <1>3, PlacedByEmits, OnePerLoggerByMoves, PastByEmits DEF Emits
<1>8. Lagging'
  <2> SUFFICES ASSUME ~overlapped PROVE Flowing' /\ Rising'
    BY <1>1 DEF Lagging
  <2>1. \A ht \in Threads \ {"caller"} : outbox[ht] = <<>>
    BY <1>2, OthersAreEmpty DEF AtWork
  <2> QED
    BY <1>0, <1>2, <1>3, <2>1, LaggingByEmits DEF Lagging
<1>9. Manned'
  <2>1. outbox'["poller"] = outbox["poller"]
    BY <1>4 DEF Threads
  <2>2. poller = "alive" => caller = "processing"
    OBVIOUS
  <2> QED
    BY <1>0, <1>1, <1>5, <2>1, <2>2 DEF Manned
<1>10. Framed'
  <2>1. ~overlapped => \A th \in Threads : ~AtWork(th)'
    BY <1>0, <1>1 DEF Manned, AtWork, Threads
  <2> QED
    BY <1>0, <1>1, <1>5, <2>1 DEF Framed, FramesAreCollected
<1>11. Counting'
  <2>1. clock \in Nat /\ clock' \in Nat /\ clock <= clock'
    BY <1>0, <1>1 DEF AgentType
  <2> QED
    BY <1>0, <1>1, <2>1, CountingKept
<1> QED
  BY <1>6, <1>7, <1>8, <1>9, <1>10, <1>11 DEF IInv

\* The steps that leave the incidents alone.
LEMMA QuietStep ==
    ASSUME AgentType, Placed, OnePerLogger, Past, Lagging, Counting,
           clock' \in {clock, clock + 1}, overlapped => overlapped',
           UNCHANGED <<open, buckets, outbox, reported, newest, latest, observed, headers, frames, unspent, lost>>
    PROVE  Placed' /\ OnePerLogger' /\ Past' /\ Lagging' /\ Counting'
<1>1. clock \in Nat /\ clock' \in Nat /\ clock <= clock'
  BY DEF AgentType
<1>2. Placed' /\ OnePerLogger'
  BY DEF Placed, Leaving, Slots, OnePerLogger
<1>3. Past'
  <2>1. newest \in Nat /\ (\A fp \in Fingerprints : latest[fp] \in Nat)
        /\ \A h \in DOMAIN open : open[h].at \in Nat
    BY DEF AgentType, States
  <2>2. \A th \in Threads : \A i \in Slots(th) : outbox[th][i].at \in Nat
    <3> SUFFICES ASSUME NEW th \in Threads, NEW i \in Slots(th) PROVE outbox[th][i].at \in Nat
      OBVIOUS
    <3>1. outbox[th] \in Seq(Incidents)
      BY DEF AgentType
    <3>2. outbox[th][i] \in Incidents
      BY <3>1 DEF Slots
    <3> QED
      BY <3>2 DEF Incidents
  <2>3. \A at \in Nat : at <= clock => at <= clock'
    BY <1>1
  <2> QED
    BY <2>1, <2>2, <2>3 DEF Past, Slots
<1>4. Lagging'
  BY DEF Lagging, Flowing, Rising, Slots
<1>5. Counting'
  BY <1>1, CountingKept
<1> QED
  BY <1>2, <1>3, <1>4, <1>5

LEMMA NextStep == IInv /\ [Next]_vars => IInv'
<1> SUFFICES ASSUME IInv, [Next]_vars PROVE IInv'
  OBVIOUS
<1>0. AgentType /\ Placed /\ Manned /\ Framed /\ OnePerLogger /\ Past /\ Lagging /\ Counting
  BY DEF IInv
<1>1. CASE Start
  <2>1. /\ UNCHANGED <<clock, open, buckets, outbox, reported, newest, latest, observed, headers, frames,
                       unspent, lost, raised, overlapped, caller>>
        /\ caller = "idle" /\ poller = "none" /\ poller' = "alive" /\ stop_event' = FALSE
        /\ block' = [block EXCEPT !["poller"] = NoHeader]
    BY <1>1 DEF Start, faults, classifier, reports
  <2>2. AgentType'
    <3>1. block' \in [Threads -> Nat]
      BY <1>0, <2>1 DEF AgentType, NoHeader
    <3> QED
      BY <1>0, <2>1, <3>1 DEF AgentType
  <2>3. Placed' /\ OnePerLogger' /\ Past' /\ Lagging' /\ Counting'
    BY <1>0, <2>1, QuietStep
  <2>4. Manned'
    BY <1>0, <2>1 DEF Manned
  <2>5. Framed'
    <3>1. \A th \in Threads : block'[th] = IF th = "poller" THEN NoHeader ELSE block[th]
      BY <1>0, <2>1 DEF AgentType
    <3> QED
      BY <1>0, <2>1, <3>1 DEF Framed, FramesAreCollected, AtWork, NoHeader, AgentType, Threads
  <2> QED
    BY <2>2, <2>3, <2>4, <2>5 DEF IInv
<1>2. CASE Stop
  <2>1. /\ UNCHANGED <<clock, open, buckets, outbox, reported, newest, latest, observed, headers, frames,
                       unspent, lost, raised, overlapped, poller, block>>
        /\ caller = "idle" /\ stop_event' = TRUE /\ caller' = "joining"
    BY <1>2 DEF Stop, faults, classifier, reports, records
  <2>2. AgentType'
    BY <1>0, <2>1 DEF AgentType
  <2>3. Placed' /\ OnePerLogger' /\ Past' /\ Lagging' /\ Counting'
    BY <1>0, <2>1, QuietStep
  <2>4. Manned'
    BY <1>0, <2>1 DEF Manned
  <2>5. Framed'
    BY <1>0, <2>1 DEF Framed, FramesAreCollected, AtWork
  <2> QED
    BY <2>2, <2>3, <2>4, <2>5 DEF IInv
<1>3. CASE Process
  <2>1. /\ UNCHANGED <<clock, open, buckets, outbox, reported, newest, latest, observed, headers, frames,
                       unspent, lost, raised, poller, stop_event>>
        /\ caller = "idle" /\ caller' = "processing"
        /\ overlapped' = (overlapped \/ poller = "alive")
        /\ block' = [block EXCEPT !["caller"] = NoHeader]
    BY <1>3 DEF Process, faults, classifier, reports
  <2>2. AgentType'
    <3>1. block' \in [Threads -> Nat]
      BY <1>0, <2>1 DEF AgentType, NoHeader
    <3>2. overlapped' \in BOOLEAN
      BY <2>1
    <3> QED
      BY <1>0, <2>1, <3>1, <3>2 DEF AgentType
  <2>3. Placed' /\ OnePerLogger' /\ Past' /\ Lagging' /\ Counting'
    BY <1>0, <2>1, QuietStep
  <2>4. Manned'
    BY <1>0, <2>1 DEF Manned
  <2>5. Framed'
    <3>1. \A th \in Threads : block'[th] = IF th = "caller" THEN NoHeader ELSE block[th]
      BY <1>0, <2>1 DEF AgentType
    <3> QED
      BY <1>0, <2>1, <3>1 DEF Framed, FramesAreCollected, AtWork, NoHeader, AgentType, Threads
  <2> QED
    BY <2>2, <2>3, <2>4, <2>5 DEF IInv
<1>4. ASSUME NEW th \in Threads, AtWork(th), Observe(th) PROVE IInv'
  <2>1. outbox[th] = <<>> /\ observed < MaxRecords
    BY <1>4 DEF Observe
  <2>2. CASE ObserveFrame(th)
    BY <1>4, <2>1, <2>2, FrameStep
  <2>3. ASSUME NEW kind \in Kinds, NEW logger \in Loggers, ObserveRecord(th, kind, logger) PROVE IInv'
    BY <1>4, <2>1, <2>3, RecordStep
  <2> QED
    BY <1>4, <2>2, <2>3 DEF Observe
<1>5. CASE PollLine
  BY <1>4, <1>5 DEF PollLine, AtWork, Threads
<1>6. CASE ProcessLine
  BY <1>4, <1>6 DEF ProcessLine, AtWork, Threads
<1>7. CASE Joined
  <2>1. outbox["caller"] = <<>> /\ caller = "joining" /\ poller = "none"
    BY <1>0, <1>7 DEF Joined, Manned
  <2> QED
    BY <1>7, <2>1, FlushStep DEF Joined
<1>8. CASE Processed
  BY <1>8, FlushStep DEF Processed
<1>9. CASE Return
  <2>1. /\ UNCHANGED <<clock, open, buckets, outbox, reported, newest, latest, observed, headers, frames,
                       unspent, lost, raised, overlapped, poller, stop_event, block>>
        /\ caller = "dispatching" /\ caller' = "idle" /\ outbox["caller"] = <<>>
    BY <1>9 DEF Return, faults, classifier, reports, records
  <2>2. AgentType'
    BY <1>0, <2>1 DEF AgentType
  <2>3. Placed' /\ OnePerLogger' /\ Past' /\ Lagging' /\ Counting'
    BY <1>0, <2>1, QuietStep
  <2>4. Manned'
    BY <1>0, <2>1 DEF Manned
  <2>5. Framed'
    BY <1>0, <2>1 DEF Framed, FramesAreCollected, AtWork
  <2> QED
    BY <2>2, <2>3, <2>4, <2>5 DEF IInv
<1>10. CASE Dispatch("caller")
  BY <1>10, DispatchStep DEF Threads
<1>11. CASE Dispatch("poller")
  BY <1>11, DispatchStep DEF Threads
<1>12. CASE PollerEnds
  <2>1. /\ UNCHANGED <<clock, open, buckets, outbox, reported, newest, latest, observed, headers, frames,
                       unspent, lost, raised, overlapped, stop_event, caller, block>>
        /\ poller = "alive" /\ stop_event /\ poller' = "none" /\ outbox["poller"] = <<>>
    BY <1>12 DEF PollerEnds, faults, classifier, reports, records
  <2>2. AgentType'
    BY <1>0, <2>1 DEF AgentType
  <2>3. Placed' /\ OnePerLogger' /\ Past' /\ Lagging' /\ Counting'
    BY <1>0, <2>1, QuietStep
  <2>4. Manned'
    BY <1>0, <2>1 DEF Manned
  <2>5. Framed'
    BY <1>0, <2>1 DEF Framed, FramesAreCollected, AtWork
  <2> QED
    BY <2>2, <2>3, <2>4, <2>5 DEF IInv
<1>13. CASE Tick
  <2>1. /\ UNCHANGED <<open, buckets, outbox, reported, newest, latest, observed, headers, frames,
                       unspent, lost, raised, overlapped, poller, stop_event, caller, block>>
        /\ clock' = clock + 1
    BY <1>13 DEF Tick, faults, classifier, agent, reports, records
  <2>2. AgentType'
    BY <1>0, <2>1 DEF AgentType
  <2>3. Placed' /\ OnePerLogger' /\ Past' /\ Lagging' /\ Counting'
    BY <1>0, <2>1, QuietStep
  <2>4. Manned' /\ Framed'
    BY <1>0, <2>1 DEF Manned, Framed, FramesAreCollected, AtWork
  <2> QED
    BY <2>2, <2>3, <2>4 DEF IInv
<1>14. ASSUME NEW th \in Threads, AtWork(th), Raises(th), UNCHANGED stop_event,
              \/ th = "poller" /\ poller' = "none" /\ caller' = caller
              \/ th = "caller" /\ caller' = "idle" /\ poller' = poller
       PROVE  IInv'
  <2>1. outbox[th] = <<>> /\ raised' = TRUE
    BY <1>14 DEF Raises
  <2>2. ASSUME observed < MaxRecords, NEW kind \in Kinds, NEW logger \in Loggers, RecordRaises(th, kind, logger)
        PROVE  IInv'
    BY <1>14, <2>1, <2>2, RaiseStep
  <2>3. CASE UNCHANGED <<clock, classifier, outbox, reports, records, lost, overlapped>>
    <3>1. UNCHANGED <<clock, open, buckets, outbox, reported, newest, latest, observed, headers, frames,
                      unspent, lost, overlapped, block>>
      BY <2>3 DEF classifier, reports, records
    <3>2. AgentType'
      BY <1>0, <1>14, <2>1, <3>1 DEF AgentType
    <3>3. Placed' /\ OnePerLogger' /\ Past' /\ Lagging' /\ Counting'
      BY <1>0, <3>1, QuietStep
    <3>4. Manned'
      BY <1>0, <1>14, <2>1, <3>1 DEF Manned, AtWork, Threads
    <3>5. Framed'
      BY <1>0, <1>14, <3>1 DEF Framed, FramesAreCollected, AtWork, Threads
    <3> QED
      BY <3>2, <3>3, <3>4, <3>5 DEF IInv
  <2> QED
    BY <1>14, <2>2, <2>3 DEF Raises
<1>15. CASE PollerCrashes
  BY <1>14, <1>15 DEF PollerCrashes, AtWork, Threads
<1>16. CASE ProcessRaises
  BY <1>14, <1>16 DEF ProcessRaises, AtWork, Threads
<1>17. CASE UNCHANGED vars
  <2>1. /\ UNCHANGED <<clock, open, buckets, outbox, reported, newest, latest, observed, headers, frames,
                       unspent, lost, raised, overlapped, poller, stop_event, caller, block>>
    BY <1>17 DEF vars, faults, classifier, agent, reports, records
  <2>2. AgentType'
    BY <1>0, <2>1 DEF AgentType
  <2>3. Placed' /\ OnePerLogger' /\ Past' /\ Lagging' /\ Counting'
    BY <1>0, <2>1, QuietStep
  <2>4. Manned' /\ Framed'
    BY <1>0, <2>1 DEF Manned, Framed, FramesAreCollected, AtWork
  <2> QED
    BY <2>2, <2>3, <2>4 DEF IInv
<1> QED
  BY <1>1, <1>2, <1>3, <1>5, <1>6, <1>7, <1>8, <1>9, <1>10, <1>11, <1>12, <1>13, <1>15, <1>16, <1>17
     DEF Next, Caller, Poller

LEMMA InductiveInvariant == Spec => []IInv
BY InitInvariant, NextStep, PTL DEF Spec
-----------------------------------------------------------------------------
\* Whatever the threads do, the state keeps its types.
THEOREM TypesAreKept == Spec => []AgentType
<1>1. IInv => AgentType
  BY DEF IInv
<1> QED
  BY InductiveInvariant, <1>1, PTL

\* A traceback is reported at most once, and when no thread is at work every
\* header that was ever observed has been reported, unless an exception has cost
\* it or, for as long as nobody flushes, has left it open.
THEOREM TracebacksReported == Spec => []TracebacksAreReported
<1>1. IInv => TracebacksAreReported
  <2> SUFFICES ASSUME IInv PROVE TracebacksAreReported
    OBVIOUS
  <2>1. \A h \in Headers : reported[h] <= 1 /\ (h \in lost => reported[h] = 0)
    BY DEF IInv, Placed
  <2>2. ASSUME poller = "none", caller = "idle", NEW h \in 1 .. headers
        PROVE  reported[h] = 1 \/ h \in lost \/ (raised /\ h \in DOMAIN open)
    <3>1. (DOMAIN open # {} => raised) /\ outbox["poller"] = <<>> /\ outbox["caller"] = <<>>
      BY <2>2 DEF IInv, Manned
    <3>2. ~Leaving(h)
      BY <3>1 DEF Leaving, Slots, Threads
    <3>3. h \in Headers /\ h <= headers
      BY AgentAssumption DEF IInv, AgentType, Headers
    <3> QED
      BY <3>1, <3>2, <3>3 DEF IInv, Placed
  <2> QED
    BY <2>1, <2>2 DEF TracebacksAreReported
<1> QED
  BY InductiveInvariant, <1>1, PTL

\* With one producer at a time a traceback is open while its lines may come, and
\* keeps exactly those.
THEOREM FramesCollected == Spec => []FramesAreCollected
<1>1. IInv => FramesAreCollected
  BY DEF IInv, Framed
<1> QED
  BY InductiveInvariant, <1>1, PTL

\* What reaches the sink keeps up with what reached it before, as the correlator
\* behind the sink assumes.
THEOREM IncidentsInOrder == Spec => IncidentsKeepUp
<1> DEFINE Step == \A th \in Threads :
              (Dispatch(th) /\ ~overlapped) =>
                  LET incident == Head(outbox[th])
                  IN  /\ latest[incident.fingerprint] <= incident.at
                      /\ newest <= incident.at \/ newest < incident.at + Followup
<1>1. IInv /\ [Next]_vars => [Step]_vars
  <2> SUFFICES ASSUME IInv, NEW th \in Threads, Dispatch(th), ~overlapped
               PROVE  LET incident == Head(outbox[th])
                      IN  /\ latest[incident.fingerprint] <= incident.at
                          /\ newest <= incident.at \/ newest < incident.at + Followup
    OBVIOUS
  <2>1. 1 \in Slots(th) /\ Head(outbox[th]) = outbox[th][1]
    BY DispatchEffect DEF IInv
  <2>2. Flowing /\ Rising
    BY DEF IInv, Lagging
  <2> QED
    BY <2>1, <2>2 DEF Flowing, Rising, KeepsUp
<1> QED
  BY InductiveInvariant, <1>1, PTL DEF Spec, IncidentsKeepUp

\* A bucket fires on a match if and only if enough of its unspent matches lie in
\* the window, however often matches were dropped from it before.
THEOREM BurstsExact == Spec => BurstsAreExact
<1> DEFINE Step == \A b \in Buckets : unspent'[b] # unspent[b] =>
          (unspent'[b] = <<>>) =
              (1 + Cardinality({i \in DOMAIN unspent[b] : unspent[b][i] + Window >= clock}) >= Threshold)
<1>1. IInv /\ [Next]_vars => [Step]_vars
  <2> SUFFICES ASSUME IInv, [Next]_vars, NEW b \in Buckets, unspent'[b] # unspent[b]
               PROVE  (unspent'[b] = <<>>) =
                  (1 + Cardinality({i \in DOMAIN unspent[b] : unspent[b][i] + Window >= clock}) >= Threshold)
    OBVIOUS
  <2>1. PICK th \in Threads, kind \in Kinds, logger \in Loggers : Classify(th, kind, logger)
    <3>1. ASSUME NEW th \in Threads, Observe(th) \/ Raises(th)
          PROVE  \E kind \in Kinds, logger \in Loggers : Classify(th, kind, logger)
      BY <3>1 DEF Observe, ObserveFrame, ObserveRecord, Raises, RecordRaises, records
    <3>2. PollLine \/ PollerCrashes \/ ProcessLine \/ ProcessRaises
      BY DEF Next, Caller, Poller, Start, Stop, Process, Joined, Processed, Return, Dispatch, PollerEnds, Tick,
             vars, records
    <3>3. \E th \in Threads : Observe(th) \/ Raises(th)
      BY <3>2 DEF PollLine, PollerCrashes, ProcessLine, ProcessRaises, Threads
    <3> QED
      BY <3>1, <3>3
  <2>2. unspent'[b] = IF Fires(b) THEN <<>> ELSE Append(unspent[b], clock)
    BY <2>1 DEF Classify
  <2>3. Append(unspent[b], clock) # <<>>
    <3>1. unspent[b] \in Seq(Nat) /\ clock \in Nat
      BY DEF IInv, AgentType
    <3>2. Len(Append(unspent[b], clock)) = Len(unspent[b]) + 1 /\ Len(unspent[b]) \in Nat
      BY <3>1
    <3> QED
      BY <3>1, <3>2
  <2>4. (unspent'[b] = <<>>) = Fires(b)
    BY <2>2, <2>3 DEF Fires
  <2> QED
    BY <2>4, CountedCounts DEF IInv, Fires
<1> QED
  BY InductiveInvariant, <1>1, PTL DEF Spec, BurstsAreExact
=============================================================================
