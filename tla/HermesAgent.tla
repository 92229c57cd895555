---------------------------- MODULE HermesAgent -----------------------------
(***************************************************************************)
(* From log records to incidents: HermesAgent (app/hermes/agent.py) with   *)
(* its polling thread and its callers, and the IncidentClassifier they     *)
(* share (classifier.py, rules.py).  The lines come from LogTailer; here a *)
(* record of any kind may come next, stamped by the present.  What a       *)
(* thread calls may raise: that ends the polling thread, and process.      *)
(*                                                                         *)
(* Records are told apart by what the rules make of them: a traceback      *)
(* header, an error (which stands for the pattern rules, too: one record,  *)
(* one incident), an error that a RepeatRule counts, a warning, any other  *)
(* record, and a continuation line.                                        *)
(***************************************************************************)
EXTENDS Naturals, Sequences, FiniteSets, FiniteSetsExt

CONSTANTS
    Loggers,
    Followup,      \* traceback_followup_s
    Window,        \* warning_burst_window_s and the window of a RepeatRule
    Threshold,     \* their threshold
    MaxRecords,    \* bound on the records observed
    MaxTime,       \* bound on the clock
    MaxCalls       \* bound on the calls of start and process

ASSUME AgentAssumption ==
    /\ Followup \in Nat /\ Window \in Nat \ {0} /\ Threshold \in Nat \ {0, 1}
    /\ MaxRecords \in Nat /\ MaxTime \in Nat /\ MaxCalls \in Nat

Kinds == {"header", "error", "repeat", "warning", "info"}
Threads == {"poller", "caller"}
Buckets == {"warning_burst", "repeat"} \X Loggers
Fingerprints == {"traceback", "error_severity", "warning_burst", "repeat"} \X Loggers
Headers == 1 .. MaxRecords
NoHeader == 0

VARIABLES
    clock,
    open,          \* _open_tracebacks, by the number of the header: the dict's order
    buckets,       \* _warning_buckets and the _hits of the rules: timestamps
    outbox,        \* the incidents a thread has yet to hand to the sink
    poller,        \* whether the polling thread is alive
    stop_event,
    caller,        \* what the thread that calls start, stop and process does
    calls,         \* how many starts and processes there were
    observed,      \* how many records were observed
    headers,       \* history: how many of them were traceback headers
    block,         \* history: the header whose frames a thread's next lines may be
    frames,        \* history: how many frames of a header were observed
    reported,      \* history: how often a header's traceback was dispatched
    newest,        \* history: the latest detected_at dispatched
    latest,        \* history: that of each fingerprint
    unspent,       \* history: the matches of a bucket since it last fired
    lost,          \* history: the headers whose tracebacks were closed by a call that raised
    raised,        \* history: a thread ended so since the classifier was flushed
    overlapped     \* history: process was called while the polling thread lived

classifier == <<open, buckets>>
agent == <<poller, stop_event, caller, calls>>
reports == <<reported, newest, latest>>
records == <<observed, headers, block, frames, unspent>>
faults == <<lost, raised>>
vars == <<clock, classifier, outbox, agent, reports, records, faults, overlapped>>

Init ==
    /\ clock = 0
    /\ open = <<>> /\ buckets = [b \in Buckets |-> <<>>]
    /\ outbox = [th \in Threads |-> <<>>]
    /\ poller = "none" /\ stop_event = FALSE /\ caller = "idle" /\ calls = 0
    /\ observed = 0 /\ headers = 0
    /\ block = [th \in Threads |-> NoHeader]
    /\ frames = [h \in Headers |-> 0]
    /\ reported = [h \in Headers |-> 0]
    /\ newest = 0 /\ latest = [fp \in Fingerprints |-> 0]
    /\ unspent = [b \in Buckets |-> <<>>]
    /\ lost = {} /\ raised = FALSE
    /\ overlapped = FALSE
-----------------------------------------------------------------------------
(* IncidentClassifier.  Each call holds the lock throughout. *)

Incident(rule, logger) == [fingerprint |-> <<rule, logger>>, at |-> clock, header |-> NoHeader]

\* _build_traceback_incident, for each of some open tracebacks in their order.
Traceback(h) == [fingerprint |-> <<"traceback", open[h].logger>>, at |-> open[h].at, header |-> h]

InOrder(hs) ==
    CHOOSE seq \in [1 .. Cardinality(hs) -> hs] : \A i, j \in DOMAIN seq : i < j => seq[i] < seq[j]

Tracebacks(hs) == [i \in 1 .. Cardinality(hs) |-> Traceback(InOrder(hs)[i])]

\* Mutant of IsDue: a traceback waits one unit longer than its deadline.
DueLater(h) == clock > open[h].at + Followup

\* _collect_finalized_tracebacks: its deadline has come.
IsDue(h) == clock >= open[h].at + Followup

Due == {h \in DOMAIN open : IsDue(h)}

\* _maybe_open_or_finalize_traceback: what a record of the same logger closes.
Superseded(logger) == {h \in DOMAIN open \ Due : open[h].logger = logger}

\* Mutant of Aged: a match as old as the window is dropped.
DropsEdge(bucket) ==
    LET fresh == {i \in DOMAIN bucket : bucket[i] + Window > clock}
    IN  SubSeq(bucket, Min(fresh), Len(bucket))

\* The matches that the window has left behind are dropped from the front.
Aged(bucket) ==
    LET fresh == {i \in DOMAIN bucket : bucket[i] + Window >= clock}
    IN  SubSeq(bucket, Min(fresh), Len(bucket))

\* _maybe_emit_warning_burst and RepeatRule.evaluate: a bucket that reaches its
\* threshold is emptied.
Counted(b) == Aged(Append(buckets[b], clock))

Fires(b) == Len(Counted(b)) >= Threshold

\* The bucket in which a record is counted, if it is counted at all.
Hit(kind, logger) ==
    CASE kind = "warning" -> {<<"warning_burst", logger>>}
      [] kind = "repeat"  -> {<<"repeat", logger>>}
      [] OTHER            -> {}

\* Mutant of Extended: the frame goes to the traceback that was opened first.
ExtendsOldest(own) ==
    [h \in DOMAIN open |->
        IF h = own /\ \A g \in DOMAIN open : h <= g THEN [open[h] EXCEPT !.frames = @ + 1] ELSE open[h]]

\* _extend_open_tracebacks: every open traceback gets the line.  Only those of its
\* own block are counted.
Extended(own) ==
    [h \in DOMAIN open |-> IF h = own THEN [open[h] EXCEPT !.frames = @ + 1] ELSE open[h]]

\* observe, for a continuation line: its timestamp, datetime.min, closes nothing.
ObserveFrame(th) ==
    /\ observed' = observed + 1
    /\ open' = Extended(block[th])
    /\ frames' = [h \in Headers |-> IF h = block[th] THEN frames[h] + 1 ELSE frames[h]]
    /\ UNCHANGED <<clock, buckets, outbox, agent, reports, headers, block, unspent, faults, overlapped>>

\* The incidents of a record: tracebacks it closes, by its time or its logger, then
\* its own.
Own(kind, logger) ==
    (IF kind \in {"error", "repeat"} THEN <<Incident("error_severity", logger)>> ELSE <<>>)
    \o (IF kind = "warning" /\ Fires(<<"warning_burst", logger>>) THEN <<Incident("warning_burst", logger)>> ELSE <<>>)
    \o (IF kind = "repeat" /\ Fires(<<"repeat", logger>>) THEN <<Incident("repeat", logger)>> ELSE <<>>)

Emitted(kind, logger) == Tracebacks(Due) \o Tracebacks(Superseded(logger)) \o Own(kind, logger)

\* The tracebacks that stay open, and the one that a header opens.
Opened(kind, logger) ==
    LET kept == DOMAIN open \ (Due \cup Superseded(logger))
        new == IF kind = "header" THEN {headers + 1} ELSE {}
    IN  [h \in kept \cup new |->
            IF h \in new THEN [logger |-> logger, at |-> clock, frames |-> 0] ELSE open[h]]

\* What a record does to the classifier.
Classify(th, kind, logger) ==
    /\ observed' = observed + 1
    /\ open' = Opened(kind, logger)
    /\ buckets' = [b \in Buckets |->
          IF b \notin Hit(kind, logger) THEN buckets[b] ELSE IF Fires(b) THEN <<>> ELSE Counted(b)]
    /\ unspent' = [b \in Buckets |->
          IF b \notin Hit(kind, logger) THEN unspent[b] ELSE IF Fires(b) THEN <<>> ELSE Append(unspent[b], clock)]
    /\ headers' = IF kind = "header" THEN headers + 1 ELSE headers
    /\ block' = [block EXCEPT ![th] = IF kind = "header" THEN headers + 1 ELSE NoHeader]
    /\ UNCHANGED <<clock, reports, frames, overlapped>>

ObserveRecord(th, kind, logger) ==
    /\ Classify(th, kind, logger)
    /\ outbox' = [outbox EXCEPT ![th] = @ \o Emitted(kind, logger)]
    /\ UNCHANGED <<agent, faults>>

Observe(th) ==
    /\ outbox[th] = <<>> /\ observed < MaxRecords
    /\ \/ ObserveFrame(th)
       \/ \E kind \in Kinds, logger \in Loggers : ObserveRecord(th, kind, logger)

\* A rule raises: the incidents that observe has collected are lost.  (One that
\* raises before a RepeatRule has counted the record leaves what an error leaves.)
RecordRaises(th, kind, logger) ==
    /\ Classify(th, kind, logger)
    /\ lost' = lost \cup Due \cup Superseded(logger)
    /\ UNCHANGED outbox

\* The exception leaves the loop over the lines: it came from observe, or from
\* what gives the lines.
Raises(th) ==
    /\ outbox[th] = <<>>
    /\ \/ /\ observed < MaxRecords
          /\ \E kind \in Kinds, logger \in Loggers : RecordRaises(th, kind, logger)
       \/ UNCHANGED <<clock, classifier, outbox, reports, records, lost, overlapped>>
    /\ raised' = TRUE

Flush(th) ==
    /\ open' = <<>>
    /\ outbox' = [outbox EXCEPT ![th] = Tracebacks(DOMAIN open)]
    /\ raised' = FALSE
    /\ UNCHANGED lost
-----------------------------------------------------------------------------
(* HermesAgent. *)

\* The sink is called outside the lock; what it raises is logged.
Dispatch(th) ==
    /\ outbox[th] # <<>>
    /\ LET incident == Head(outbox[th])
       IN  /\ outbox' = [outbox EXCEPT ![th] = Tail(@)]
           /\ reported' = [h \in Headers |-> IF h = incident.header THEN reported[h] + 1 ELSE reported[h]]
           /\ newest' = IF incident.at > newest THEN incident.at ELSE newest
           /\ latest' = [latest EXCEPT ![incident.fingerprint] = incident.at]
    /\ UNCHANGED <<clock, classifier, agent, records, faults, overlapped>>

Start ==
    /\ caller = "idle" /\ poller = "none" /\ calls < MaxCalls
    /\ calls' = calls + 1
    /\ poller' = "alive"
    /\ stop_event' = FALSE
    /\ block' = [block EXCEPT !["poller"] = NoHeader]
    /\ UNCHANGED <<clock, classifier, outbox, caller, reports, observed, headers, frames, unspent, faults, overlapped>>

\* A line of the log reaches the polling thread, which does not look at the stop
\* event itself: the tailer may have more lines.
PollLine == poller = "alive" /\ Observe("poller")

\* The tailer has nothing buffered and sees the event.
PollerEnds ==
    /\ poller = "alive" /\ stop_event /\ outbox["poller"] = <<>>
    /\ poller' = "none"
    /\ UNCHANGED <<clock, classifier, outbox, stop_event, caller, calls, reports, records, faults, overlapped>>

\* "hermes-agent polling thread crashed": nobody flushes the classifier.
PollerCrashes ==
    /\ poller = "alive" /\ Raises("poller")
    /\ poller' = "none"
    /\ UNCHANGED <<stop_event, caller, calls>>

\* Mutant of Stop: the thread is joined before the event is set.
JoinsFirst ==
    /\ caller = "idle"
    /\ caller' = "joining"
    /\ UNCHANGED <<clock, classifier, outbox, poller, stop_event, calls, reports, records, faults, overlapped>>

\* stop, with a polling thread to join, or with none or one that has crashed.
Stop ==
    /\ caller = "idle"
    /\ stop_event' = TRUE
    /\ caller' = "joining"
    /\ UNCHANGED <<clock, classifier, outbox, poller, calls, reports, records, faults, overlapped>>

\* Mutant of Joined: after its timeout the join is given up.
GivesUp ==
    /\ caller = "joining"
    /\ Flush("caller")
    /\ caller' = "dispatching"
    /\ UNCHANGED <<clock, buckets, poller, stop_event, calls, reports, records, overlapped>>

\* The thread is joined, with its timeout or without, before the classifier is
\* flushed.
Joined ==
    /\ caller = "joining" /\ poller = "none"
    /\ Flush("caller")
    /\ caller' = "dispatching"
    /\ UNCHANGED <<clock, buckets, poller, stop_event, calls, reports, records, overlapped>>

\* process: lines of its own through the same pipeline ...
Process ==
    /\ caller = "idle" /\ calls < MaxCalls
    /\ calls' = calls + 1
    /\ caller' = "processing"
    /\ block' = [block EXCEPT !["caller"] = NoHeader]
    /\ overlapped' = (overlapped \/ poller = "alive")
    /\ UNCHANGED <<clock, classifier, outbox, poller, stop_event, reports, observed, headers, frames, unspent, faults>>

ProcessLine == caller = "processing" /\ Observe("caller")

\* What process raises is its caller's.
ProcessRaises ==
    /\ caller = "processing" /\ Raises("caller")
    /\ caller' = "idle"
    /\ UNCHANGED <<poller, stop_event, calls>>

\* ... and a flush.
Processed ==
    /\ caller = "processing" /\ outbox["caller"] = <<>>
    /\ Flush("caller")
    /\ caller' = "dispatching"
    /\ UNCHANGED <<clock, buckets, poller, stop_event, calls, reports, records, overlapped>>

Return ==
    /\ caller = "dispatching" /\ outbox["caller"] = <<>>
    /\ caller' = "idle"
    /\ UNCHANGED <<clock, classifier, outbox, poller, stop_event, calls, reports, records, faults, overlapped>>

Tick ==
    /\ clock < MaxTime
    /\ clock' = clock + 1
    /\ UNCHANGED <<classifier, outbox, agent, reports, records, faults, overlapped>>

Caller == Joined \/ Processed \/ Return \/ Dispatch("caller")
Poller == PollerEnds \/ Dispatch("poller")

Next ==
    \/ Start \/ Stop \/ Process
    \/ PollLine \/ ProcessLine
    \/ PollerCrashes \/ ProcessRaises
    \/ Caller \/ Poller
    \/ Tick

\* Threads are scheduled and the sink returns (ThreadComesBack of
\* IncidentDelivery); the log owes no line, nothing has to raise and nobody has to
\* call.
Spec == Init /\ [][Next]_vars /\ WF_vars(Caller) /\ WF_vars(Poller)
-----------------------------------------------------------------------------
\* agent.py:126-127: "an incident never gets stuck in memory after shutdown".  A
\* traceback is reported once, never twice; when no thread is at work, all are,
\* whoever flushed or closed them, but for those a call that raised had closed,
\* and, until stop or process flushes the classifier, those it left open.
TracebacksAreReported ==
    /\ \A h \in Headers : reported[h] <= 1 /\ (h \in lost => reported[h] = 0)
    /\ (poller = "none" /\ caller = "idle") =>
          \A h \in 1 .. headers : reported[h] = 1 \/ h \in lost \/ (raised /\ h \in DOMAIN open)

AtWork(th) == IF th = "poller" THEN poller = "alive" ELSE caller = "processing"

\* agent.py:81-82: with one producer at a time a traceback is still open when the
\* lines after its header come, and it keeps the frames that were written with it,
\* although another logger's is open, too.
FramesAreCollected ==
    ~overlapped =>
        /\ \A th \in Threads : AtWork(th) /\ block[th] # NoHeader => block[th] \in DOMAIN open
        /\ \A h \in DOMAIN open : open[h].frames = frames[h]

\* What the correlator assumes of its incidents (Emittable): the timestamps of a
\* fingerprint do not go back, and none is behind the newest by more than the
\* time a traceback may stay open.
IncidentsKeepUp ==
    [][\A th \in Threads :
          (Dispatch(th) /\ ~overlapped) =>
              LET incident == Head(outbox[th])
              IN  /\ latest[incident.fingerprint] <= incident.at
                  /\ newest <= incident.at \/ newest < incident.at + Followup]_vars

\* A bucket fires when, and only when, enough matches that no earlier burst used
\* lie in the window.
BurstsAreExact ==
    [][\A b \in Buckets : unspent'[b] # unspent[b] =>
          (unspent'[b] = <<>>) =
              (1 + Cardinality({i \in DOMAIN unspent[b] : unspent[b][i] + Window >= clock}) >= Threshold)]_vars

\* stop comes back once the log is quiet, and process once it is fed.
CallsReturn == (caller # "idle") ~> (caller = "idle" \/ caller = "processing")
=============================================================================
