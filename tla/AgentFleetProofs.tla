--------------------------- MODULE AgentFleetProofs ---------------------------
(***************************************************************************)
(* The two files that the processes of the agent fleet race for: the bus   *)
(* of AgentBus, for any processes, any buffer and any bounds on the frames *)
(* and the faults, and the claims of BranchClaims, for one shell at a time *)
(* and any branches and agents.  The two parts share nothing.              *)
(***************************************************************************)
EXTENDS AgentBus, BranchClaims, FiniteSetTheorems, FunctionTheorems, SequenceTheorems,
        WellFoundedInduction, TLAPS

-----------------------------------------------------------------------------
(* The election. *)

\* While a process replaces the files of a dead broker, none runs.
NoneRunsMeanwhile ==
    \A p \in Procs :
        pc[p] \in {"unlinking_socket", "unlinking_pid", "binding", "recording"} => running = {}

\* A process that records its pid still owns the socket file it bound, and no
\* other listener is left.
RecorderOwnsTheSocket ==
    \A p \in Procs : pc[p] = "recording" => socket_file = p /\ listening = {p}

\* A listener that does not run yet is about to.
ListenersAreRecorded ==
    \A p \in listening \ running : pc[p] = "recording"

\* No socket file is in the way of the process that removed it.
NothingInTheWay ==
    \A p \in Procs : pc[p] \in {"unlinking_pid", "binding"} => socket_file = NoFile

Elected ==
    /\ OneBus /\ NoneRunsMeanwhile /\ RecorderOwnsTheSocket
    /\ ListenersAreRecorded /\ NothingInTheWay
-----------------------------------------------------------------------------
(* The connections. *)

\* A connection that is not cut off leads to a listener.
PeersListen ==
    \A c \in Conns :
        /\ phase[c] \in {"none", "broken"} => peer[c] = Nobody
        /\ phase[c] \notin {"none", "broken"} => peer[c] \in listening

\* A call that will connect finds a listener, unless one went or the probe was
\* misled since it began.
AttachersFindOne ==
    \A p \in Procs : pc[p] = "attaching" => troubled[p] \/ socket_file \in listening

\* The second attempt of a call does not meet a connection that was broken
\* before the call.
SecondBreakIsTrouble ==
    \A p \in Publishers :
        op[p] = "pub" /\ attempt[p] = 1 /\ phase[Pub(p)] = "broken" => troubled[p]

\* A subscriber has a connection only while it listens, and only a publisher
\* sends.
SubscribersListen ==
    /\ \A p \in Subscribers : phase[Sub(p)] # "none" => pc[p] = "listening"
    /\ \A p \in Procs : pc[p] = "sending" => op[p] = "pub"

Connected ==
    /\ PeersListen /\ AttachersFindOne /\ SecondBreakIsTrouble
    /\ FailureNeedsAFault /\ SubscribersListen
-----------------------------------------------------------------------------
(* The broadcasts. *)

\* Only what publishers sent is broadcast, by the reader thread of the broker
\* they are attached to.
PublishersCast ==
    \A c \in Conns :
        /\ up[c] # <<>> => c \in Pubs
        /\ cast[c].left \cup cast[c].dead # {} => c \in Pubs /\ phase[c] = "attached"

\* A broadcast is written to clients of its own broker.
CastIsLocal ==
    \A c \in Conns : \A t \in cast[c].left \cup cast[c].dead :
        phase[t] \in {"attached", "evicted"} /\ peer[t] = peer[c]

\* Nothing is expected of a connection that is not in the fan-out.
OthersExpectNothing ==
    \A t \in Subs : phase[t] \notin {"attached", "evicted"} => expected[t] = {}

Delivered == PublishersCast /\ CastIsLocal /\ OthersExpectNothing /\ AttachedMissNothing
-----------------------------------------------------------------------------
\* The constants and the connections made of them.
LEMMA ConnsAreDistinct ==
    /\ Nobody \notin Procs /\ NoFile \notin Procs /\ Stale \notin Procs
    /\ Subs \subseteq Conns /\ Pubs \subseteq Conns /\ Subs \cap Pubs = {}
    /\ \A p \in Subscribers : Sub(p) \in Subs
    /\ \A p \in Publishers : Pub(p) \in Pubs
    /\ \A c \in Conns : c[1] \in Procs
BY BusAssumption DEF Subs, Pubs, Conns, Sub, Pub, Procs

\* The first state satisfies the inductive invariants.
LEMMA InitInvariant == Init => TypeOK /\ Elected /\ Connected /\ Delivered
<1> SUFFICES ASSUME Init PROVE TypeOK /\ Elected /\ Connected /\ Delivered
  OBVIOUS
<1> USE BusAssumption, ConnsAreDistinct
<1>1. TypeOK
  <2>1. <<>> \in Seq(Frames)
    OBVIOUS
  <2>2. Quiet \in [frame : Seq(Frames), left : SUBSET Subs, dead : SUBSET Subs]
    BY <2>1 DEF Quiet
  <2>3. troubled \in [Procs -> BOOLEAN]
    BY Zenon DEF Init
  <2>4. /\ up \in [Conns -> Seq(Frames)] /\ down \in [Conns -> Seq(Frames)]
        /\ cast \in [Conns -> [frame : Seq(Frames), left : SUBSET Subs, dead : SUBSET Subs]]
        /\ heard \in [Procs -> Seq(Frames)] /\ expected \in [Conns -> SUBSET Frames]
    BY <2>1, <2>2 DEF Init
  <2> QED
    BY <2>3, <2>4 DEF Init, TypeOK, FilesOK, CallsOK, WiresOK
<1>2. Elected
  BY DEF Init, Elected, OneBus, NoneRunsMeanwhile, RecorderOwnsTheSocket, ListenersAreRecorded,
         NothingInTheWay
<1>3. Connected
  BY DEF Init, Connected, PeersListen, AttachersFindOne, SecondBreakIsTrouble, FailureNeedsAFault,
         SubscribersListen
<1>4. Delivered
  BY DEF Init, Delivered, PublishersCast, CastIsLocal, OthersExpectNothing,
         AttachedMissNothing, Quiet
<1> QED
  BY <1>1, <1>2, <1>3, <1>4

\* A function keeps its type when one of its values is replaced by another.
LEMMA ExceptTypes ==
    ASSUME NEW D, NEW S, NEW f \in [D -> S], NEW x, NEW e, x \in D => e \in S
    PROVE  [f EXCEPT ![x] = e] \in [D -> S]
OBVIOUS

\* The connection of a client that closes keeps its type.
LEMMA CloseTypes ==
    ASSUME WiresOK, NEW c \in Subs, Close(c), UNCHANGED <<up, heard>>
    PROVE  WiresOK'
<1> USE ConnsAreDistinct DEF WiresOK
<1>1. /\ phase' \in [Conns -> {"none", "backlog", "attached", "evicted", "broken"}]
      /\ peer' \in [Conns -> Procs \cup {Nobody}]
      /\ expected' \in [Conns -> SUBSET Frames]
  BY DEF Close
<1>2. down' \in [Conns -> Seq(Frames)]
  <2>1. <<>> \in Seq(Frames)
    OBVIOUS
  <2> QED
    BY <2>1 DEF Close
<1>3. cast' \in [Conns -> [frame : Seq(Frames), left : SUBSET Subs, dead : SUBSET Subs]]
  <2>1. \A r \in Conns : [cast[r] EXCEPT !.left = @ \ {c}, !.dead = @ \ {c}]
                             \in [frame : Seq(Frames), left : SUBSET Subs, dead : SUBSET Subs]
    <3> DEFINE Casts == [frame : Seq(Frames), left : SUBSET Subs, dead : SUBSET Subs]
    <3>1. \A x \in Casts : [x EXCEPT !.left = @ \ {c}, !.dead = @ \ {c}] \in Casts
      OBVIOUS
    <3> QED
      BY <3>1
  <2> QED
    BY <2>1 DEF Close
<1> QED
  BY <1>1, <1>2, <1>3

\* So do all connections when a listener goes.
LEMMA ListenerGoneTypes ==
    ASSUME TypeOK, NEW b \in Procs, NEW gone \in SUBSET Conns, ListenerGone(b, gone)
    PROVE  /\ phase' \in [Conns -> {"none", "backlog", "attached", "evicted", "broken"}]
           /\ peer' \in [Conns -> Procs \cup {Nobody}]
           /\ up' \in [Conns -> Seq(Frames)] /\ down' \in [Conns -> Seq(Frames)]
           /\ cast' \in [Conns -> [frame : Seq(Frames), left : SUBSET Subs, dead : SUBSET Subs]]
           /\ expected' \in [Conns -> SUBSET Frames]
           /\ troubled' \in [Procs -> BOOLEAN]
<1> DEFINE cutoff == {c \in Conns : peer[c] = b /\ phase[c] # "none"}
<1> USE DEF TypeOK, WiresOK
<1>1. /\ phase' \in [Conns -> {"none", "backlog", "attached", "evicted", "broken"}]
      /\ peer' \in [Conns -> Procs \cup {Nobody}]
      /\ expected' \in [Conns -> SUBSET Frames]
  BY DEF ListenerGone
<1>2. <<>> \in Seq(Frames)
  OBVIOUS
<1>3. up' \in [Conns -> Seq(Frames)] /\ down' \in [Conns -> Seq(Frames)]
  BY <1>2 DEF ListenerGone
<1>4. cast' \in [Conns -> [frame : Seq(Frames), left : SUBSET Subs, dead : SUBSET Subs]]
  <2>1. \A c \in Conns : [cast[c] EXCEPT !.left = @ \ gone, !.dead = @ \ gone]
                             \in [frame : Seq(Frames), left : SUBSET Subs, dead : SUBSET Subs]
    OBVIOUS
  <2>2. Quiet \in [frame : Seq(Frames), left : SUBSET Subs, dead : SUBSET Subs]
    BY <1>2 DEF Quiet
  <2> QED
    BY <2>1, <2>2 DEF ListenerGone
<1>5. troubled' \in [Procs -> BOOLEAN]
  BY Zenon DEF ListenerGone
<1> QED
  BY <1>1, <1>3, <1>4, <1>5

\* A call that leaves, or tries again, is of a process that may make it.
LEMMA LeaveTypes ==
    ASSUME CallsOK, NEW p \in Procs,
           NEW place \in {"idle", "listening", "raised"}, Leave(p, place),
           place = "listening" => p \in Subscribers,
           published' \in [Procs -> Nat], faults' \in 0 .. MaxFaults,
           troubled' \in [Procs -> BOOLEAN]
    PROVE  CallsOK'
BY DEF CallsOK, Leave

\* A process that records its pid listens already.
LEMMA StepFiles == TypeOK /\ Elected /\ [Next]_vars => FilesOK'
<1> SUFFICES ASSUME TypeOK, Elected, [Next]_vars PROVE FilesOK'
  OBVIOUS
<1> USE BusAssumption, ConnsAreDistinct
        DEF TypeOK, files, servers, calls, wires, counts, history, At, Goto
<1>1. ASSUME NEW p \in Procs, Publish(p) PROVE FilesOK'
  BY <1>1 DEF Publish, Begin, FilesOK, CallsOK
<1>2. ASSUME NEW p \in Procs, Subscribe(p) PROVE FilesOK'
  BY <1>2 DEF Subscribe, Begin, FilesOK, CallsOK
<1>3. ASSUME NEW p \in Procs, EnsureBroker(p) PROVE FilesOK'
  BY <1>3 DEF EnsureBroker, FilesOK, CallsOK
<1>4. ASSUME NEW p \in Procs, Lock(p) PROVE FilesOK'
  BY <1>4 DEF Lock, FilesOK, CallsOK
<1>5. ASSUME NEW p \in Procs, Probe(p) PROVE FilesOK'
  BY <1>5 DEF Probe, FilesOK, CallsOK
<1>6. ASSUME NEW p \in Procs, UnlinkStale(p) PROVE FilesOK'
  BY <1>6 DEF UnlinkStale, FilesOK, CallsOK
<1>7. ASSUME NEW p \in Procs, Bind(p) PROVE FilesOK'
  BY <1>7 DEF Bind, FilesOK, CallsOK
<1>8. ASSUME NEW p \in Procs, RecordPid(p) PROVE FilesOK'
  BY <1>8 DEF RecordPid, FilesOK, CallsOK, Elected, RecorderOwnsTheSocket
<1>9. ASSUME NEW p \in Procs, Attach(p) PROVE FilesOK'
  BY <1>9 DEF Attach, Retry, Return, Leave, FilesOK, CallsOK
<1>10. ASSUME NEW p \in Procs, Send(p) PROVE FilesOK'
  <2>1. pc'[p] \notin {"probing", "unlinking_socket", "unlinking_pid", "binding", "recording"}
    BY <1>10 DEF Send, Retry, Return, Leave, CallsOK
  <2>2. \A q \in Procs \ {p} : pc'[q] = pc[q]
    BY <1>10 DEF Send, Retry, Return, Leave, CallsOK
  <2> QED
    BY <1>10, <2>1, <2>2 DEF Send, FilesOK, CallsOK
<1>11. ASSUME NEW p \in Procs, Receive(p) PROVE FilesOK'
  BY <1>11 DEF Receive, FilesOK, CallsOK
<1>12. ASSUME NEW p \in Procs, EndOfStream(p) PROVE FilesOK'
  BY <1>12 DEF EndOfStream, Close, Leave, FilesOK, CallsOK
<1>13. ASSUME NEW p \in Procs, KeyboardInterrupt(p) PROVE FilesOK'
  BY <1>13 DEF KeyboardInterrupt, Close, Leave, FilesOK, CallsOK
<1>14. ASSUME NEW p \in Procs, RecordFails(p) PROVE FilesOK'
  BY <1>14 DEF RecordFails, ListenerGone, Leave, FilesOK, CallsOK
<1>15. ASSUME NEW p \in Procs, Die(p) PROVE FilesOK'
  BY <1>15 DEF Die, ListenerGone, Leave, FilesOK, CallsOK
<1>16. ASSUME NEW p \in Procs, PidReused(p) PROVE FilesOK'
  BY <1>16 DEF PidReused, FilesOK, CallsOK
<1>17. ASSUME NEW c \in Conns, Serve(c) PROVE FilesOK'
  BY <1>17 DEF Serve, Accept, Broadcast, Write, Evict, Disconnected, FilesOK, CallsOK
<1>18. CASE UNCHANGED vars
  BY <1>18 DEF vars, FilesOK, CallsOK
<1> QED
  BY <1>1, <1>2, <1>3, <1>4, <1>5, <1>6, <1>7, <1>8, <1>9, <1>10,
     <1>11, <1>12, <1>13, <1>14, <1>15, <1>16, <1>17, <1>18
     DEF Next, Step, Environment

\* Every step of a call is of a process that may make it.
LEMMA StepCalls == TypeOK /\ [Next]_vars => CallsOK'
<1> SUFFICES ASSUME TypeOK, [Next]_vars PROVE CallsOK'
  OBVIOUS
<1> USE BusAssumption, ConnsAreDistinct
        DEF TypeOK, files, servers, calls, wires, counts, history, At, Goto
<1>1. ASSUME NEW p \in Procs, Publish(p) PROVE CallsOK'
  <2>1. published' \in [Procs -> Nat]
    <3>1. published \in [Procs -> Nat] /\ published' = [published EXCEPT ![p] = @ + 1]
      BY <1>1 DEF Publish, CallsOK
    <3> QED
      BY <3>1
  <2> QED
    BY <1>1, <2>1 DEF Publish, Begin, CallsOK
<1>2. ASSUME NEW p \in Procs, Subscribe(p) PROVE CallsOK'
  BY <1>2 DEF Subscribe, Begin, CallsOK
<1>3. ASSUME NEW p \in Procs, EnsureBroker(p) PROVE CallsOK'
  BY <1>3 DEF EnsureBroker, CallsOK
<1>4. ASSUME NEW p \in Procs, Lock(p) PROVE CallsOK'
  BY <1>4 DEF Lock, CallsOK
<1>5. ASSUME NEW p \in Procs, Probe(p) PROVE CallsOK'
  <2>1. troubled' \in [Procs -> BOOLEAN]
    BY <1>5, Zenon DEF Probe, CallsOK
  <2> QED
    BY <1>5, <2>1 DEF Probe, CallsOK
<1>6. ASSUME NEW p \in Procs, UnlinkStale(p) PROVE CallsOK'
  BY <1>6 DEF UnlinkStale, CallsOK
<1>7. ASSUME NEW p \in Procs, Bind(p) PROVE CallsOK'
  BY <1>7 DEF Bind, CallsOK
<1>8. ASSUME NEW p \in Procs, RecordPid(p) PROVE CallsOK'
  BY <1>8 DEF RecordPid, CallsOK
<1>9. ASSUME NEW p \in Procs, Attach(p) PROVE CallsOK'
  <2>1. CASE Return(p)
    BY <1>9, <2>1, LeaveTypes DEF Return, Attach, CallsOK
  <2>2. CASE Retry(p)
    BY <1>9, <2>2, LeaveTypes DEF Retry, Attach, CallsOK
  <2>3. CASE Goto(p, "sending") /\ UNCHANGED troubled
    BY <1>9, <2>3 DEF Attach, CallsOK
  <2> QED
    BY <1>9, <2>1, <2>2, <2>3 DEF Attach
<1>10. ASSUME NEW p \in Procs, Send(p) PROVE CallsOK'
  <2>1. CASE Return(p)
    BY <1>10, <2>1, LeaveTypes DEF Return, Send, CallsOK
  <2>2. CASE Retry(p)
    BY <1>10, <2>2, LeaveTypes DEF Retry, Send, CallsOK
  <2> QED
    BY <1>10, <2>1, <2>2 DEF Send
<1>11. ASSUME NEW p \in Procs, Receive(p) PROVE CallsOK'
  BY <1>11 DEF Receive, CallsOK
<1>12. ASSUME NEW p \in Procs, EndOfStream(p) PROVE CallsOK'
  BY <1>12 DEF EndOfStream, Close, Leave, CallsOK
<1>13. ASSUME NEW p \in Procs, KeyboardInterrupt(p) PROVE CallsOK'
  BY <1>13 DEF KeyboardInterrupt, Close, Leave, CallsOK
<1>14. ASSUME NEW p \in Procs, RecordFails(p) PROVE CallsOK'
  <2>1. troubled' \in [Procs -> BOOLEAN]
    BY <1>14, ListenerGoneTypes DEF RecordFails
  <2>2. published' \in [Procs -> Nat] /\ faults' \in 0 .. MaxFaults
    BY <1>14 DEF RecordFails, CallsOK
  <2> QED
    BY <1>14, <2>1, <2>2, LeaveTypes DEF RecordFails
<1>15. ASSUME NEW p \in Procs, Die(p) PROVE CallsOK'
  <2>1. troubled' \in [Procs -> BOOLEAN]
    BY <1>15, ListenerGoneTypes DEF Die
  <2>2. published' \in [Procs -> Nat] /\ faults' \in 0 .. MaxFaults
    BY <1>15 DEF Die, CallsOK
  <2> QED
    BY <1>15, <2>1, <2>2, LeaveTypes DEF Die
<1>16. ASSUME NEW p \in Procs, PidReused(p) PROVE CallsOK'
  BY <1>16 DEF PidReused, CallsOK
<1>17. ASSUME NEW c \in Conns, Serve(c) PROVE CallsOK'
  BY <1>17 DEF Serve, Accept, Broadcast, Write, Evict, Disconnected, CallsOK
<1>18. CASE UNCHANGED vars
  BY <1>18 DEF vars, CallsOK
<1> QED
  BY <1>1, <1>2, <1>3, <1>4, <1>5, <1>6, <1>7, <1>8, <1>9, <1>10,
     <1>11, <1>12, <1>13, <1>14, <1>15, <1>16, <1>17, <1>18
     DEF Next, Step, Environment

\* Only frames travel, and only to subscribers.
LEMMA StepWires == TypeOK /\ [Next]_vars => WiresOK'
<1> SUFFICES ASSUME TypeOK, [Next]_vars PROVE WiresOK'
  OBVIOUS
<1> USE BusAssumption, ConnsAreDistinct
        DEF TypeOK, files, servers, calls, wires, counts, history, At, Goto
<1>1. ASSUME NEW p \in Procs, Publish(p) PROVE WiresOK'
  BY <1>1 DEF Publish, Begin, WiresOK
<1>2. ASSUME NEW p \in Procs, Subscribe(p) PROVE WiresOK'
  BY <1>2 DEF Subscribe, Begin, WiresOK
<1>3. ASSUME NEW p \in Procs, EnsureBroker(p) PROVE WiresOK'
  BY <1>3 DEF EnsureBroker, WiresOK
<1>4. ASSUME NEW p \in Procs, Lock(p) PROVE WiresOK'
  BY <1>4 DEF Lock, WiresOK
<1>5. ASSUME NEW p \in Procs, Probe(p) PROVE WiresOK'
  BY <1>5 DEF Probe, WiresOK
<1>6. ASSUME NEW p \in Procs, UnlinkStale(p) PROVE WiresOK'
  BY <1>6 DEF UnlinkStale, WiresOK
<1>7. ASSUME NEW p \in Procs, Bind(p) PROVE WiresOK'
  BY <1>7 DEF Bind, WiresOK
<1>8. ASSUME NEW p \in Procs, RecordPid(p) PROVE WiresOK'
  BY <1>8 DEF RecordPid, WiresOK
<1>9. ASSUME NEW p \in Procs, Attach(p) PROVE WiresOK'
  <2>1. socket_file \in listening => socket_file \in Procs
    BY DEF FilesOK
  <2>2. phase' \in [Conns -> {"none", "backlog", "attached", "evicted", "broken"}]
    <3>1. UNCHANGED phase \/ phase' = [phase EXCEPT ![<<p, op[p]>>] = "backlog"]
      BY <1>9 DEF Attach
    <3> QED
      BY <3>1, ExceptTypes DEF WiresOK
  <2>3. peer'  \in [Conns -> Procs \cup {Nobody}]
    BY <1>9, <2>1 DEF Attach, WiresOK
  <2> QED
    BY <1>9, <2>2, <2>3 DEF Attach, WiresOK
<1>10. ASSUME NEW p \in Procs, Send(p) PROVE WiresOK'
  <2>1. [from |-> p, n |-> published[p]] \in Frames
    BY DEF Frames, CallsOK
  <2>2. \A s \in Seq(Frames) : Append(s, [from |-> p, n |-> published[p]]) \in Seq(Frames)
    BY <2>1
  <2>3. up' \in [Conns -> Seq(Frames)]
    <3>1. \/ UNCHANGED up
          \/ up' = [up EXCEPT ![Pub(p)] = Append(@, [from |-> p, n |-> published[p]])]
      BY <1>10 DEF Send
    <3>2. Pub(p) \in Conns => Append(up[Pub(p)], [from |-> p, n |-> published[p]]) \in Seq(Frames)
      BY <2>2 DEF WiresOK
    <3> QED
      BY <3>1, <3>2, ExceptTypes DEF WiresOK
  <2> QED
    BY <1>10, <2>3 DEF Send, WiresOK
<1>11. ASSUME NEW p \in Procs, Receive(p) PROVE WiresOK'
  <2>1. down[Sub(p)] \in Seq(Frames) /\ down[Sub(p)] # <<>>
    BY <1>11 DEF Receive, WiresOK, CallsOK
  <2>2. Head(down[Sub(p)]) \in Frames /\ Tail(down[Sub(p)]) \in Seq(Frames)
    BY <2>1, HeadTailProperties
  <2>3. Append(heard[p], Head(down[Sub(p)])) \in Seq(Frames)
    BY <2>2 DEF WiresOK
  <2>4. down' \in [Conns -> Seq(Frames)] /\ heard' \in [Procs -> Seq(Frames)]
    BY <1>11, <2>2, <2>3 DEF Receive, WiresOK
  <2> QED
    BY <1>11, <2>4 DEF Receive, WiresOK
<1>12. ASSUME NEW p \in Procs, EndOfStream(p) PROVE WiresOK'
  <2>1. Sub(p) \in Subs
    BY <1>12 DEF EndOfStream, CallsOK
  <2> QED
    BY <1>12, <2>1, CloseTypes DEF EndOfStream
<1>13. ASSUME NEW p \in Procs, KeyboardInterrupt(p) PROVE WiresOK'
  <2>1. Sub(p) \in Subs
    BY <1>13 DEF KeyboardInterrupt, CallsOK
  <2> QED
    BY <1>13, <2>1, CloseTypes DEF KeyboardInterrupt
<1>14. ASSUME NEW p \in Procs, RecordFails(p) PROVE WiresOK'
  BY <1>14, ListenerGoneTypes DEF RecordFails, WiresOK
<1>15. ASSUME NEW p \in Procs, Die(p) PROVE WiresOK'
  <2>1. heard' \in [Procs -> Seq(Frames)]
    BY <1>15 DEF Die, WiresOK
  <2> QED
    BY <1>15, <2>1, ListenerGoneTypes DEF Die, WiresOK
<1>16. ASSUME NEW p \in Procs, PidReused(p) PROVE WiresOK'
  BY <1>16 DEF PidReused, WiresOK
<1>17. ASSUME NEW c \in Conns, Serve(c) PROVE WiresOK'
  <2>1. CASE Accept(c)
    BY <2>1 DEF Accept, WiresOK
  <2>2. CASE Broadcast(c)
    <3>1. Head(up[c]) \in Frames /\ Tail(up[c]) \in Seq(Frames)
      BY <2>2, HeadTailProperties DEF Broadcast, WiresOK
    <3>2. <<Head(up[c])>> \in Seq(Frames)
      BY <3>1
    <3> QED
      BY <2>2, <3>1, <3>2 DEF Broadcast, Fanout, WiresOK
  <2>3. ASSUME NEW t \in Subs, Write(c, t) PROVE WiresOK'
    <3>1. down[t] \o cast[c].frame \in Seq(Frames)
      BY ConcatProperties DEF WiresOK
    <3>2. down' \in [Conns -> Seq(Frames)]
      BY <2>3, <3>1 DEF Write, WiresOK
    <3>3. cast' \in [Conns -> [frame : Seq(Frames), left : SUBSET Subs, dead : SUBSET Subs]]
      <4>1. cast[c] \in [frame : Seq(Frames), left : SUBSET Subs, dead : SUBSET Subs]
        BY DEF WiresOK
      <4>2. \/ cast' = [cast EXCEPT ![c] = [cast[c] EXCEPT !.left = @ \ {t}]]
            \/ cast' = [cast EXCEPT ![c] = [cast[c] EXCEPT !.left = @ \ {t}, !.dead = @ \cup {t}]]
        <5>1. CASE cast' = [cast EXCEPT ![c].left = @ \ {t}]
          BY <5>1, Zenon
        <5>2. CASE cast' = [cast EXCEPT ![c] = [cast[c] EXCEPT !.left = @ \ {t}, !.dead = @ \cup {t}]]
          BY <5>2, Zenon
        <5> QED
          BY <2>3, <5>1, <5>2, Zenon DEF Write
      <4>3. /\ [cast[c] EXCEPT !.left = @ \ {t}]
                   \in [frame : Seq(Frames), left : SUBSET Subs, dead : SUBSET Subs]
            /\ [cast[c] EXCEPT !.left = @ \ {t}, !.dead = @ \cup {t}]
                   \in [frame : Seq(Frames), left : SUBSET Subs, dead : SUBSET Subs]
        BY <4>1
      <4>4. cast \in [Conns -> [frame : Seq(Frames), left : SUBSET Subs, dead : SUBSET Subs]]
        BY DEF WiresOK
      <4> QED
        BY <4>2, <4>3, <4>4
    <3> QED
      BY <2>3, <3>2, <3>3 DEF Write, WiresOK
  <2>4. CASE Evict(c)
    BY <2>4 DEF Evict, Quiet, WiresOK
  <2>5. CASE Disconnected(c)
    BY <2>5 DEF Disconnected, WiresOK
  <2> QED
    BY <1>17, <2>1, <2>2, <2>3, <2>4, <2>5 DEF Serve
<1>18. CASE UNCHANGED vars
  BY <1>18 DEF vars, WiresOK
<1> QED
  BY <1>1, <1>2, <1>3, <1>4, <1>5, <1>6, <1>7, <1>8, <1>9, <1>10,
     <1>11, <1>12, <1>13, <1>14, <1>15, <1>16, <1>17, <1>18
     DEF Next, Step, Environment

\* Every step keeps the election: the lock, the liveness check and the order of
\* the two files leave room for one broker.
LEMMA StepElection == TypeOK /\ Elected /\ [Next]_vars => Elected'
<1> SUFFICES ASSUME TypeOK, Elected, [Next]_vars PROVE Elected'
  OBVIOUS
<1> USE BusAssumption, ConnsAreDistinct
        DEF TypeOK, FilesOK, files, servers, calls, wires, counts, history, At, Goto
<1> USE DEF Elected, OneBus, NoneRunsMeanwhile, RecorderOwnsTheSocket, ListenersAreRecorded,
            NothingInTheWay
\* Two processes are not between the two ends of the election at once.
<1>1. \A p, q \in Procs :
         /\ pc[p] \in {"probing", "unlinking_socket", "unlinking_pid", "binding", "recording"}
         /\ pc[q] \in {"probing", "unlinking_socket", "unlinking_pid", "binding", "recording"}
         => p = q
  OBVIOUS
<1>2. ASSUME NEW p \in Procs, Publish(p) \/ Subscribe(p) PROVE Elected'
  <2>1. pc' = [pc EXCEPT ![p] = "ensuring"]
    BY <1>2 DEF Publish, Subscribe, Begin
  <2>2. UNCHANGED <<socket_file, pid_file, listening, running>>
    BY <1>2 DEF Publish, Subscribe, Begin
  <2>3. \A q \in Procs : pc'[q] = "ensuring" \/ pc'[q] = pc[q]
    BY <2>1 DEF CallsOK
  <2>4. pc[p] \notin {"unlinking_socket", "unlinking_pid", "binding", "recording"}
    BY <1>2 DEF Publish, Subscribe, Begin
  <2> QED
    BY <2>1, <2>2, <2>3, <2>4 DEF CallsOK
<1>3. ASSUME NEW p \in Procs, EnsureBroker(p) PROVE Elected'
  BY <1>3 DEF EnsureBroker, CallsOK
<1>4. ASSUME NEW p \in Procs, Lock(p) PROVE Elected'
  BY <1>4 DEF Lock, CallsOK
<1>5. ASSUME NEW p \in Procs, Probe(p) PROVE Elected'
  \* A broker that runs is live for the check.
  <2>1. running # {} => SocketIsLive
    BY DEF SocketIsLive
  <2> QED
    BY <1>5, <2>1 DEF Probe, CallsOK
<1>6. ASSUME NEW p \in Procs, UnlinkStale(p) PROVE Elected'
  BY <1>1, <1>6 DEF UnlinkStale, CallsOK
<1>7. ASSUME NEW p \in Procs, Bind(p) PROVE Elected'
  BY <1>1, <1>7 DEF Bind, CallsOK
<1>8. ASSUME NEW p \in Procs, RecordPid(p) PROVE Elected'
  BY <1>1, <1>8 DEF RecordPid, CallsOK
<1>9. ASSUME NEW p \in Procs, Attach(p) \/ Send(p) PROVE Elected'
  BY <1>9 DEF Attach, Send, Retry, Return, Leave, CallsOK
<1>10. ASSUME NEW p \in Procs, Receive(p) \/ EndOfStream(p) \/ KeyboardInterrupt(p) PROVE Elected'
  BY <1>10 DEF Receive, EndOfStream, KeyboardInterrupt, Leave, CallsOK
<1>11. ASSUME NEW p \in Procs, RecordFails(p) PROVE Elected'
  <2>1. running = {} /\ listening = {p}
    BY <1>11 DEF RecordFails
  <2>2. running' = {} /\ listening' = {}
    BY <1>11, <2>1 DEF RecordFails, ListenerGone
  <2>3. \A q \in Procs : pc'[q] \notin {"unlinking_pid", "binding", "recording"}
    BY <1>1, <1>11 DEF RecordFails, Leave, CallsOK
  <2> QED
    BY <2>2, <2>3
<1>12. ASSUME NEW p \in Procs, Die(p) PROVE Elected'
  <2>1. running' = running \ {p} /\ listening' = listening \ {p} /\ pid_file' = pid_file
    BY <1>12 DEF Die, ListenerGone
  <2>2. socket_file # p => socket_file' = socket_file
    BY <1>12 DEF Die
  <2>3. pc' = [pc EXCEPT ![p] = "idle"]
    BY <1>12 DEF Die, Leave
  <2>4. OneBus' /\ NoneRunsMeanwhile'
    BY <2>1, <2>2, <2>3 DEF CallsOK
  <2>5. RecorderOwnsTheSocket' /\ ListenersAreRecorded'
    BY <2>1, <2>2, <2>3 DEF CallsOK
  <2>6. NothingInTheWay'
    BY <1>12, <2>2, <2>3 DEF Die, CallsOK
  <2> QED
    BY <2>4, <2>5, <2>6
<1>13. ASSUME NEW p \in Procs, PidReused(p) PROVE Elected'
  BY <1>13 DEF PidReused
<1>14. ASSUME NEW c \in Conns, Serve(c) PROVE Elected'
  BY <1>14 DEF Serve, Accept, Broadcast, Write, Evict, Disconnected
<1>15. CASE UNCHANGED vars
  BY <1>15 DEF vars
<1> QED
  BY <1>2, <1>3, <1>4, <1>5, <1>6, <1>7, <1>8, <1>9, <1>10, <1>11, <1>12, <1>13, <1>14, <1>15
     DEF Next, Step, Environment

\* What the call of another process is unaffected by.
Others(p) ==
    \A q \in Procs \ {p} : /\ pc'[q] = pc[q] /\ op'[q] = op[q] /\ attempt'[q] = attempt[q]
                           /\ troubled[q] => troubled'[q]

\* The ends of a call, point by point.
LEMMA LeaveEffect ==
    ASSUME CallsOK, NEW p \in Procs, NEW place, Leave(p, place)
    PROVE  /\ pc'[p] = place /\ op'[p] = "none" /\ attempt'[p] = 0
           /\ \A q \in Procs \ {p} : pc'[q] = pc[q] /\ op'[q] = op[q] /\ attempt'[q] = attempt[q]
BY DEF Leave, CallsOK

LEMMA GotoEffect ==
    ASSUME CallsOK, NEW p \in Procs, NEW place, Goto(p, place)
    PROVE  /\ pc'[p] = place /\ op'[p] = op[p] /\ attempt'[p] = attempt[p]
           /\ \A q \in Procs \ {p} : pc'[q] = pc[q] /\ op'[q] = op[q] /\ attempt'[q] = attempt[q]
BY DEF Goto, CallsOK

LEMMA ReturnEffect ==
    ASSUME CallsOK, NEW p \in Procs, Return(p)
    PROVE  pc'[p] \in {"idle", "listening"} /\ op'[p] = "none" /\ Others(p)
<1>1. Leave(p, IF op[p] = "sub" THEN "listening" ELSE "idle")
  BY DEF Return
<1>2. \A q \in Procs \ {p} : troubled'[q] = troubled[q]
  BY DEF Return, CallsOK
<1> QED
  BY <1>1, <1>2, LeaveEffect DEF Others

LEMMA RetryEffect ==
    ASSUME CallsOK, NEW p \in Procs, Retry(p)
    PROVE  /\ \/ pc'[p] = "ensuring" /\ op'[p] = op[p]
              \/ pc'[p] = "raised" /\ op'[p] = "none" /\ attempt[p] = 1
           /\ Others(p) /\ troubled' = troubled
<1>1. CASE attempt[p] = 0
  BY <1>1 DEF Retry, CallsOK, Others
<1>2. CASE attempt[p] = 1
  <2>1. Leave(p, "raised") /\ troubled' = troubled
    BY <1>2 DEF Retry
  <2> QED
    BY <1>2, <2>1, LeaveEffect DEF Others
<1> QED
  BY <1>1, <1>2 DEF CallsOK

\* Every step keeps the peers: only a subscriber that is attached is evicted.
LEMMA StepPeers == TypeOK /\ Connected /\ Delivered /\ [Next]_vars => PeersListen'
<1> SUFFICES ASSUME TypeOK, Connected, Delivered, [Next]_vars PROVE PeersListen'
  OBVIOUS
<1> USE ConnsAreDistinct DEF Connected, PeersListen, TypeOK, WiresOK, servers, wires
<1>1. ASSUME NEW p \in Procs, Publish(p) \/ Subscribe(p) PROVE PeersListen'
  <2>1. UNCHANGED <<listening, phase, peer>>
    BY <1>1 DEF Publish, Subscribe, Begin
  <2> QED
    BY <2>1
<1>2. ASSUME NEW p \in Procs,
             EnsureBroker(p) \/ Lock(p) \/ Probe(p) \/ UnlinkStale(p) \/ RecordPid(p)
               \/ Receive(p) \/ PidReused(p)
      PROVE  PeersListen'
  <2>1. UNCHANGED <<listening, phase, peer>>
    BY <1>2 DEF EnsureBroker, Lock, Probe, UnlinkStale, RecordPid, Receive, PidReused
  <2> QED
    BY <2>1
<1>3. ASSUME NEW p \in Procs, Bind(p) PROVE PeersListen'
  <2>1. listening \subseteq listening' /\ UNCHANGED <<phase, peer>>
    BY <1>3 DEF Bind
  <2> QED
    BY <2>1
<1>4. ASSUME NEW p \in Procs, Attach(p) PROVE PeersListen'
  <2>1. listening' = listening
    BY <1>4 DEF Attach
  <2>2. CASE UNCHANGED <<phase, peer>>
    BY <2>1, <2>2
  <2>3. CASE /\ socket_file \in listening
             /\ phase' = [phase EXCEPT ![<<p, op[p]>>] = "backlog"]
             /\ peer' = [peer EXCEPT ![<<p, op[p]>>] = socket_file]
    BY <2>1, <2>3 DEF FilesOK
  <2> QED
    BY <1>4, <2>2, <2>3 DEF Attach
<1>5. ASSUME NEW p \in Procs, Send(p) PROVE PeersListen'
  <2>1. listening' = listening
    BY <1>5 DEF Send
  <2>2. CASE UNCHANGED <<phase, peer>>
    BY <2>1, <2>2
  <2>3. CASE /\ phase' = [phase EXCEPT ![Pub(p)] = "none"]
             /\ peer' = [peer EXCEPT ![Pub(p)] = Nobody]
    BY <2>1, <2>3
  <2> QED
    BY <1>5, <2>2, <2>3 DEF Send
<1>6. ASSUME NEW p \in Procs, EndOfStream(p) \/ KeyboardInterrupt(p) PROVE PeersListen'
  <2>1. listening' = listening /\ Close(Sub(p))
    BY <1>6 DEF EndOfStream, KeyboardInterrupt
  <2> QED
    BY <2>1 DEF Close
<1>7. ASSUME NEW p \in Procs, RecordFails(p) \/ Die(p) PROVE PeersListen'
  <2>1. PICK gone : ListenerGone(p, gone)
    BY <1>7 DEF RecordFails, Die
  <2> QED
    BY <2>1 DEF ListenerGone
<1>8. ASSUME NEW c \in Conns, Accept(c) PROVE PeersListen'
  BY <1>8 DEF Accept
<1>9. ASSUME NEW c \in Conns, Broadcast(c) \/ \E t \in Subs : Write(c, t) PROVE PeersListen'
  <2>1. UNCHANGED <<listening, phase, peer>>
    BY <1>9 DEF Broadcast, Write
  <2> QED
    BY <2>1
<1>10. ASSUME NEW c \in Conns, Evict(c) PROVE PeersListen'
  BY <1>10 DEF Evict, Delivered, CastIsLocal
<1>11. ASSUME NEW c \in Conns, Disconnected(c) PROVE PeersListen'
  BY <1>11 DEF Disconnected
<1>12. CASE UNCHANGED vars
  BY <1>12 DEF vars
<1> QED
  BY <1>1, <1>2, <1>3, <1>4, <1>5, <1>6, <1>7, <1>8, <1>9, <1>10, <1>11, <1>12
     DEF Next, Step, Environment, Serve

\* Every step keeps a subscriber without a connection from listening.
LEMMA StepSubscribers == TypeOK /\ Connected /\ Delivered /\ [Next]_vars => SubscribersListen'
<1> SUFFICES ASSUME TypeOK, Connected, Delivered, [Next]_vars PROVE SubscribersListen'
  OBVIOUS
<1> USE ConnsAreDistinct
        DEF Connected, SubscribersListen, TypeOK, files, servers, calls, wires, counts, history, At
\* A step of p that opens no connection, taken when p does not listen or at the
\* end of its connection.
<1>1. ASSUME NEW p \in Procs, Others(p),
             \A q \in Subscribers : phase'[Sub(q)] # "none" => phase[Sub(q)] # "none",
             pc[p] # "listening" \/ pc'[p] = "listening"
                \/ (p \in Subscribers => phase'[Sub(p)] = "none"),
             pc'[p] = "sending" => op'[p] = "pub"
      PROVE  SubscribersListen'
  BY <1>1 DEF Others, Procs
<1>2. ASSUME NEW p \in Procs, Publish(p) \/ Subscribe(p) PROVE SubscribersListen'
  <2>1. /\ pc' = [pc EXCEPT ![p] = "ensuring"] /\ attempt' = [attempt EXCEPT ![p] = 0]
        /\ troubled' = [troubled EXCEPT ![p] = FALSE]
        /\ \E kind \in {"pub", "sub"} : op' = [op EXCEPT ![p] = kind]
        /\ phase' = phase /\ pc[p] # "listening"
    BY <1>2 DEF Publish, Subscribe, Begin
  <2>2. Others(p) /\ pc'[p] = "ensuring"
    BY <2>1 DEF Others, CallsOK
  <2> QED
    BY <1>1, <2>1, <2>2
<1>3. ASSUME NEW p \in Procs,
             EnsureBroker(p) \/ Lock(p) \/ Probe(p) \/ UnlinkStale(p) \/ Bind(p) \/ RecordPid(p)
      PROVE  SubscribersListen'
  <2>1. PICK place \in {"locking", "probing", "unlinking_socket", "unlinking_pid", "binding",
                        "recording", "attaching"} : Goto(p, place)
    BY <1>3 DEF EnsureBroker, Lock, Probe, UnlinkStale, Bind, RecordPid
  <2>2. phase' = phase /\ pc[p] # "listening"
    BY <1>3 DEF EnsureBroker, Lock, Probe, UnlinkStale, Bind, RecordPid
  <2>3. \A q \in Procs : q # p => pc'[q] = pc[q] /\ op'[q] = op[q]
    BY <2>1, GotoEffect
  <2>4. pc'[p] # "sending"
    BY <2>1, GotoEffect
  <2> QED
    BY <2>2, <2>3, <2>4 DEF Procs
<1>4. ASSUME NEW p \in Procs, Attach(p) PROVE SubscribersListen'
  <2>1. pc[p] = "attaching" /\ op[p] \in {"pub", "sub"}
    BY <1>4 DEF Attach, CallsOK
  <2>2. CASE Goto(p, "sending") /\ UNCHANGED <<phase, troubled>>
    <3>1. op[p] = "sub" => <<p, op[p]>> = Sub(p) /\ p \in Subscribers
      BY DEF Sub, CallsOK
    <3>2. op[p] = "sub" => phase[Sub(p)] = "none"
      BY <2>1, <3>1
    <3>3. Others(p) /\ pc'[p] = "sending" /\ op'[p] = op[p]
      BY <2>2, GotoEffect DEF Others
    <3>4. CASE op[p] = "pub"
      BY <1>1, <2>1, <2>2, <3>3, <3>4
    <3>5. CASE op[p] = "sub"
      BY <1>4, <2>1, <2>2, <3>1, <3>2, <3>3, <3>5 DEF Attach, Return, Leave, Retry, CallsOK
    <3> QED
      BY <2>1, <3>4, <3>5
  <2>3. CASE op[p] = "pub" /\ Goto(p, "sending") /\ phase' = [phase EXCEPT ![Pub(p)] = "backlog"]
              /\ UNCHANGED troubled
    <3>1. Others(p) /\ pc'[p] = "sending" /\ op'[p] = op[p]
      BY <2>3, GotoEffect DEF Others
    <3>2. \A q \in Subscribers : phase'[Sub(q)] = phase[Sub(q)]
      BY <2>3 DEF WiresOK, Pub, Sub
    <3> QED
      BY <1>1, <2>1, <2>3, <3>1, <3>2
  <2>4. CASE op[p] = "sub" /\ Return(p) /\ phase' = [phase EXCEPT ![Sub(p)] = "backlog"]
    <3>1. Leave(p, "listening")
      BY <2>4 DEF Return
    <3>2. pc'[p] = "listening" /\ \A q \in Procs \ {p} : pc'[q] = pc[q] /\ op'[q] = op[q]
      BY <3>1, LeaveEffect
    <3>3. \A q \in Subscribers : q # p => phase'[Sub(q)] = phase[Sub(q)]
      BY <2>4 DEF WiresOK, Sub
    <3> QED
      BY <3>2, <3>3 DEF Procs
  <2>5. CASE Retry(p) /\ phase' = phase
    BY <1>1, <2>1, <2>5, RetryEffect
  <2> QED
    BY <1>4, <2>1, <2>2, <2>3, <2>4, <2>5 DEF Attach, Pub, Sub
<1>5. ASSUME NEW p \in Procs, Send(p) PROVE SubscribersListen'
  <2>1. \A q \in Subscribers : phase'[Sub(q)] = phase[Sub(q)]
    <3>1. phase' = phase \/ phase' = [phase EXCEPT ![Pub(p)] = "none"]
      BY <1>5 DEF Send
    <3> QED
      BY <3>1 DEF WiresOK, Pub, Sub
  <2>2. pc[p] = "sending" /\ (Retry(p) \/ Return(p))
    BY <1>5 DEF Send
  <2> QED
    BY <1>1, <2>1, <2>2, RetryEffect, ReturnEffect
<1>6. ASSUME NEW p \in Procs, EndOfStream(p) \/ KeyboardInterrupt(p) PROVE SubscribersListen'
  <2>1. Close(Sub(p)) /\ Leave(p, "idle") /\ UNCHANGED troubled
    BY <1>6 DEF EndOfStream, KeyboardInterrupt
  <2>2. Others(p) /\ pc'[p] = "idle"
    BY <2>1, LeaveEffect DEF Others
  <2>3. \A q \in Subscribers : phase'[Sub(q)] # "none" => phase[Sub(q)] # "none" /\ q # p
    BY <2>1 DEF Close, WiresOK
  <2> QED
    BY <1>1, <2>2, <2>3
<1>7. ASSUME NEW p \in Procs, NEW gone, ListenerGone(p, gone)
      PROVE  /\ \A q \in Subscribers : phase'[Sub(q)] # "none" => phase[Sub(q)] # "none" /\ Sub(q) \notin gone
             /\ \A q \in Procs : troubled[q] => troubled'[q]
  BY <1>7 DEF ListenerGone
<1>8. ASSUME NEW p \in Procs, RecordFails(p) PROVE SubscribersListen'
  <2>1. ListenerGone(p, {}) /\ Leave(p, "raised") /\ pc[p] = "recording"
    BY <1>8 DEF RecordFails
  <2>2. Others(p) /\ pc'[p] = "raised"
    BY <1>7, <2>1, LeaveEffect DEF Others
  <2> QED
    BY <1>1, <1>7, <2>1, <2>2
<1>9. ASSUME NEW p \in Procs, Die(p) PROVE SubscribersListen'
  <2>1. PICK gone : ListenerGone(p, gone) /\ (p \in Subscribers => Sub(p) \in gone)
    BY <1>9 DEF Die, Sub
  <2>2. Leave(p, "idle")
    BY <1>9 DEF Die
  <2>3. Others(p) /\ pc'[p] = "idle"
    BY <1>7, <2>1, <2>2, LeaveEffect DEF Others
  <2> QED
    BY <1>1, <1>7, <2>1, <2>3
<1>10. ASSUME UNCHANGED <<pc, op>>,
              \A q \in Subscribers : phase'[Sub(q)] # "none" => phase[Sub(q)] # "none"
       PROVE  SubscribersListen'
  BY <1>10
<1>11. ASSUME NEW p \in Procs, Receive(p) \/ PidReused(p) PROVE SubscribersListen'
  BY <1>10, <1>11 DEF Receive, PidReused
<1>12. ASSUME NEW c \in Conns, Serve(c) PROVE SubscribersListen'
  <2>1. UNCHANGED <<pc, op>>
    BY <1>12 DEF Serve, Accept, Broadcast, Write, Evict, Disconnected
  <2>2. \A q \in Subscribers : phase'[Sub(q)] # "none" => phase[Sub(q)] # "none"
    <3>1. CASE Accept(c)
      BY <3>1 DEF Accept, WiresOK
    <3>2. CASE Broadcast(c) \/ \E t \in Subs : Write(c, t)
      BY <3>2 DEF Broadcast, Write
    <3>3. CASE Evict(c)
      BY <3>3 DEF Evict, WiresOK, Delivered, CastIsLocal
    <3>4. CASE Disconnected(c)
      BY <3>4 DEF Disconnected, WiresOK
    <3> QED
      BY <1>12, <3>1, <3>2, <3>3, <3>4 DEF Serve
  <2> QED
    BY <1>10, <2>1, <2>2
<1>13. CASE UNCHANGED vars
  BY <1>10, <1>13 DEF vars
<1> QED
  BY <1>2, <1>3, <1>4, <1>5, <1>6, <1>8, <1>9, <1>11, <1>12, <1>13 DEF Next, Step, Environment

\* Every step keeps what a call knows of the listener and of its connection.
LEMMA StepConnections ==
    TypeOK /\ Elected /\ Connected /\ Delivered /\ [Next]_vars =>
        AttachersFindOne' /\ SecondBreakIsTrouble' /\ FailureNeedsAFault'
<1> DEFINE Known == AttachersFindOne /\ SecondBreakIsTrouble /\ FailureNeedsAFault
<1> SUFFICES ASSUME TypeOK, Elected, Connected, Delivered, [Next]_vars PROVE Known'
  OBVIOUS
<1> USE ConnsAreDistinct DEF TypeOK, files, servers, calls, wires, counts, history, At
<1> USE DEF Connected, AttachersFindOne, SecondBreakIsTrouble, FailureNeedsAFault
\* The broken connections are those that were.
<1> DEFINE NoneBreaks ==
             \A q \in Publishers : phase'[Pub(q)] = "broken" => phase[Pub(q)] = "broken"
\* A step of p that breaks nothing and after which the listener is there.
<1>1. ASSUME NEW p \in Procs, Others(p), NoneBreaks,
             socket_file \in listening => socket_file' \in listening',
             pc'[p] = "attaching" => troubled'[p] \/ socket_file' \in listening',
             pc'[p] = "raised" => troubled'[p],
             (op'[p] = "pub" /\ attempt'[p] = 1 /\ phase'[Pub(p)] = "broken" /\ p \in Publishers)
                => troubled'[p]
      PROVE  Known'
  BY <1>1 DEF Others, Procs
<1>2. ASSUME NEW p \in Procs, Publish(p) \/ Subscribe(p) PROVE Known'
  <2>1. /\ pc' = [pc EXCEPT ![p] = "ensuring"] /\ attempt' = [attempt EXCEPT ![p] = 0]
        /\ troubled' = [troubled EXCEPT ![p] = FALSE]
        /\ \E kind \in {"pub", "sub"} : op' = [op EXCEPT ![p] = kind]
        /\ UNCHANGED <<socket_file, listening, phase>>
    BY <1>2 DEF Publish, Subscribe, Begin
  <2>2. Others(p) /\ pc'[p] = "ensuring" /\ attempt'[p] = 0
    BY <2>1 DEF Others, CallsOK
  <2> QED
    BY <1>1, <2>1, <2>2
<1>3. ASSUME NEW p \in Procs, NEW place, place \notin {"attaching", "raised"},
             Goto(p, place), UNCHANGED <<socket_file, listening, phase, troubled>>
      PROVE  Known'
  <2>1. Others(p) /\ pc'[p] = place /\ op'[p] = op[p] /\ attempt'[p] = attempt[p]
    BY <1>3, GotoEffect DEF Others
  <2> QED
    BY <1>1, <1>3, <2>1
<1>4. ASSUME NEW p \in Procs, EnsureBroker(p) PROVE Known'
  <2>1. p \in running => socket_file \in listening
    BY DEF Elected, OneBus, FilesOK
  <2>2. UNCHANGED <<socket_file, listening, phase, troubled>>
    BY <1>4 DEF EnsureBroker
  <2>3. Goto(p, IF p \in running THEN "attaching" ELSE "locking")
    BY <1>4 DEF EnsureBroker
  <2>4. /\ Others(p) /\ op'[p] = op[p] /\ attempt'[p] = attempt[p]
        /\ pc'[p] = IF p \in running THEN "attaching" ELSE "locking"
    BY <2>2, <2>3, GotoEffect DEF Others
  <2> QED
    BY <1>1, <2>1, <2>2, <2>4
<1>5. ASSUME NEW p \in Procs, Lock(p) PROVE Known'
  BY <1>3, <1>5 DEF Lock
<1>6. ASSUME NEW p \in Procs, Probe(p) PROVE Known'
  <2>1. p \in running => socket_file \in listening
    BY DEF Elected, OneBus, FilesOK
  <2>2. PICK place \in {"attaching", "unlinking_socket"} :
           /\ Goto(p, place)
           /\ place = "attaching" => p \in running \/ SocketIsLive
    BY <1>6 DEF Probe
  <2>3. UNCHANGED <<socket_file, listening, phase>>
    BY <1>6 DEF Probe
  <2>4. /\ \A q \in Procs : troubled[q] => troubled'[q]
        /\ Misled => troubled'[p]
    BY <1>6 DEF Probe, CallsOK
  <2>5. Others(p) /\ pc'[p] = place /\ op'[p] = op[p] /\ attempt'[p] = attempt[p]
    BY <2>2, <2>4, GotoEffect DEF Others
  <2> QED
    BY <1>1, <2>1, <2>2, <2>3, <2>4, <2>5 DEF Misled
\* No listener is left when the socket file goes.
<1>7. ASSUME NEW p \in Procs, UnlinkStale(p) PROVE Known'
  <2>1. listening = {}
    BY <1>7 DEF UnlinkStale, FilesOK, Elected, NoneRunsMeanwhile, ListenersAreRecorded
  <2>2. /\ Goto(p, "unlinking_pid") \/ Goto(p, "binding")
        /\ UNCHANGED <<listening, phase, troubled>>
    BY <1>7 DEF UnlinkStale
  <2>3. Others(p) /\ pc'[p] \in {"unlinking_pid", "binding"} /\ op'[p] = op[p] /\ attempt'[p] = attempt[p]
    BY <2>2, GotoEffect DEF Others
  <2> QED
    BY <1>1, <2>1, <2>2, <2>3
<1>8. ASSUME NEW p \in Procs, Bind(p) PROVE Known'
  <2>1. socket_file = NoFile /\ NoFile \notin listening
    BY <1>8 DEF Bind, FilesOK, Elected, NothingInTheWay
  <2>2. Goto(p, "recording") /\ UNCHANGED <<phase, troubled>>
    BY <1>8, <2>1 DEF Bind
  <2>3. Others(p) /\ pc'[p] = "recording" /\ op'[p] = op[p] /\ attempt'[p] = attempt[p]
    BY <2>2, GotoEffect DEF Others
  <2> QED
    BY <1>1, <2>1, <2>2, <2>3
<1>9. ASSUME NEW p \in Procs, RecordPid(p) PROVE Known'
  <2>1. socket_file = p /\ p \in listening
    BY <1>9 DEF RecordPid, Elected, RecorderOwnsTheSocket
  <2>2. Goto(p, "attaching") /\ UNCHANGED <<socket_file, listening, phase, troubled>>
    BY <1>9 DEF RecordPid
  <2>3. Others(p) /\ pc'[p] = "attaching" /\ op'[p] = op[p] /\ attempt'[p] = attempt[p]
    BY <2>2, GotoEffect DEF Others
  <2> QED
    BY <1>1, <2>1, <2>2, <2>3
<1>10. ASSUME NEW p \in Procs, Attach(p) PROVE Known'
  <2>1. UNCHANGED <<socket_file, listening>> /\ pc[p] = "attaching"
    BY <1>10 DEF Attach
  <2>2. NoneBreaks
    <3>1. phase' = phase \/ phase' = [phase EXCEPT ![<<p, op[p]>>] = "backlog"]
      BY <1>10 DEF Attach
    <3> QED
      BY <3>1 DEF WiresOK
  <2>3. CASE Goto(p, "sending") /\ UNCHANGED troubled
    <3>1. Others(p) /\ pc'[p] = "sending" /\ op'[p] = op[p] /\ attempt'[p] = attempt[p]
      BY <2>3, GotoEffect DEF Others
    <3> QED
      BY <1>1, <2>1, <2>2, <2>3, <3>1
  <2>4. CASE Return(p)
    BY <1>1, <2>1, <2>2, <2>4, ReturnEffect
  <2>5. CASE Retry(p) /\ socket_file \notin listening /\ phase[<<p, op[p]>>] = "none" /\ phase' = phase
    <3>1. op[p] = "pub" => phase[Pub(p)] = "none"
      BY <2>5 DEF Pub
    <3>2. troubled[p]
      BY <2>1, <2>5
    <3> QED
      BY <1>1, <2>1, <2>2, <2>5, <3>1, <3>2, RetryEffect
  <2> QED
    BY <1>10, <2>3, <2>4, <2>5 DEF Attach
<1>11. ASSUME NEW p \in Procs, Send(p) PROVE Known'
  <2>1. UNCHANGED <<socket_file, listening>> /\ pc[p] = "sending"
    BY <1>11 DEF Send
  <2>2. CASE /\ Retry(p) /\ phase[Pub(p)] = "broken" /\ phase' = [phase EXCEPT ![Pub(p)] = "none"]
    <3>1. NoneBreaks /\ (p \in Publishers => phase'[Pub(p)] = "none")
      BY <2>2 DEF WiresOK
    <3>2. p \in Publishers /\ op[p] = "pub"
      BY <2>1 DEF CallsOK, SubscribersListen
    <3> QED
      BY <1>1, <2>1, <2>2, <3>1, <3>2, RetryEffect
  <2>3. CASE Return(p) /\ phase' = phase
    BY <1>1, <2>1, <2>3, ReturnEffect
  <2> QED
    BY <1>11, <2>2, <2>3 DEF Send
<1>12. ASSUME NEW p \in Procs, EndOfStream(p) \/ KeyboardInterrupt(p) PROVE Known'
  <2>1. /\ Close(Sub(p)) /\ Leave(p, "idle")
        /\ UNCHANGED <<socket_file, listening, troubled>>
    BY <1>12 DEF EndOfStream, KeyboardInterrupt
  <2>2. NoneBreaks
    BY <2>1 DEF Close, WiresOK
  <2>3. Others(p) /\ pc'[p] = "idle" /\ op'[p] = "none"
    BY <2>1, LeaveEffect DEF Others
  <2> QED
    BY <1>1, <2>1, <2>2, <2>3
<1>13. ASSUME NEW p \in Procs, NEW gone, ListenerGone(p, gone)
       PROVE  /\ \A q \in Procs : troubled[q] => troubled'[q]
              /\ p \in listening => \A q \in Procs : op[q] # "none" => troubled'[q]
              /\ p \notin listening => listening' = listening /\ NoneBreaks
  <2>1. \A q \in Procs : troubled'[q] = (troubled[q] \/ (p \in listening /\ op[q] # "none"))
    BY <1>13 DEF ListenerGone
  <2>2. p \notin listening => listening' = listening /\ NoneBreaks
    BY <1>13 DEF ListenerGone, PeersListen
  <2> QED
    BY <2>1, <2>2
<1>14. ASSUME NEW p \in Procs, RecordFails(p) PROVE Known'
  <2>1. p \in listening /\ op[p] # "none"
    BY <1>14 DEF RecordFails, CallsOK, Elected, RecorderOwnsTheSocket
  <2>2. ListenerGone(p, {}) /\ Leave(p, "raised")
    BY <1>14 DEF RecordFails
  <2>3. \A q \in Procs : pc'[q] = "attaching" => op[q] # "none"
    BY <2>2, LeaveEffect DEF CallsOK
  <2>4. \A q \in Procs : op'[q] = "pub" => op[q] # "none"
    BY <2>2, LeaveEffect
  <2>5. \A q \in Procs : pc'[q] = "raised" => pc[q] = "raised" \/ q = p
    BY <2>2, LeaveEffect
  <2> QED
    BY <1>13, <2>1, <2>2, <2>3, <2>4, <2>5 DEF Procs
<1>15. ASSUME NEW p \in Procs, Die(p) PROVE Known'
  <2>1. Leave(p, "idle") /\ \E gone : ListenerGone(p, gone)
    BY <1>15 DEF Die
  <2>2. CASE p \in listening
    <3>1. \A q \in Procs : pc'[q] = "attaching" => op[q] # "none"
      BY <2>1, LeaveEffect DEF CallsOK
    <3>2. \A q \in Procs : op'[q] = "pub" => op[q] # "none"
      BY <2>1, LeaveEffect
    <3>3. \A q \in Procs : pc'[q] = "raised" => pc[q] = "raised"
      BY <2>1, LeaveEffect
    <3> QED
      BY <1>13, <2>1, <2>2, <3>1, <3>2, <3>3 DEF Procs
  <2>3. CASE p \notin listening
    <3>1. socket_file \in listening => socket_file' \in listening'
      BY <1>13, <1>15, <2>1, <2>3 DEF Die
    <3>2. Others(p) /\ pc'[p] = "idle" /\ op'[p] = "none"
      BY <1>13, <2>1, LeaveEffect DEF Others
    <3> QED
      BY <1>1, <1>13, <2>1, <2>3, <3>1, <3>2
  <2> QED
    BY <2>2, <2>3
<1>16. ASSUME UNCHANGED <<pc, op, attempt, socket_file, listening, troubled>>, NoneBreaks PROVE Known'
  BY <1>16
<1>17. ASSUME NEW p \in Procs, Receive(p) \/ PidReused(p) PROVE Known'
  BY <1>16, <1>17 DEF Receive, PidReused
<1>18. ASSUME NEW c \in Conns, Serve(c) PROVE Known'
  <2>1. UNCHANGED <<pc, op, attempt, socket_file, listening, troubled>>
    BY <1>18 DEF Serve, Accept, Broadcast, Write, Evict, Disconnected
  <2>2. NoneBreaks
    BY <1>18 DEF Serve, Accept, Broadcast, Write, Evict, Disconnected, WiresOK
  <2> QED
    BY <1>16, <2>1, <2>2
<1>19. CASE UNCHANGED vars
  BY <1>16, <1>19 DEF vars
<1> HIDE DEF Known
<1> QED
  BY <1>2, <1>4, <1>5, <1>6, <1>7, <1>8, <1>9, <1>10, <1>11, <1>12, <1>14, <1>15,
     <1>17, <1>18, <1>19
     DEF Next, Step, Environment

\* What a sequence holds once it is extended or loses its head.
LEMMA RangeOfAppend ==
    ASSUME NEW S, NEW s \in Seq(S), NEW e \in S
    PROVE  Range(Append(s, e)) = Range(s) \cup {e}
<1>1. \A x \in Range(s) \cup {e} : x \in Range(Append(s, e))
  <2>1. Append(s, e)[Len(s) + 1] = e /\ Len(s) + 1 \in DOMAIN Append(s, e)
    OBVIOUS
  <2>2. \A i \in DOMAIN s : i \in DOMAIN Append(s, e) /\ Append(s, e)[i] = s[i]
    OBVIOUS
  <2> QED
    BY <2>1, <2>2 DEF Range
<1>2. \A x \in Range(Append(s, e)) : x \in Range(s) \cup {e}
  BY DEF Range
<1> QED
  BY <1>1, <1>2

LEMMA RangeOfConcat ==
    ASSUME NEW S, NEW s \in Seq(S), NEW u \in Seq(S)
    PROVE  /\ Range(s) \subseteq Range(s \o u)
           /\ \A e : u = <<e>> => e \in Range(s \o u)
<1>1. \A i \in DOMAIN s : i \in DOMAIN (s \o u) /\ (s \o u)[i] = s[i]
  OBVIOUS
<1>2. ASSUME NEW e, u = <<e>> PROVE Len(s) + 1 \in DOMAIN (s \o u) /\ (s \o u)[Len(s) + 1] = e
  BY <1>2
<1> QED
  BY <1>1, <1>2 DEF Range

LEMMA RangeOfTail ==
    ASSUME NEW S, NEW s \in Seq(S), s # <<>>
    PROVE  Range(s) \subseteq Range(Tail(s)) \cup {Head(s)}
<1>1. \A i \in DOMAIN s : i = 1 \/ (i - 1 \in DOMAIN Tail(s) /\ Tail(s)[i - 1] = s[i])
  OBVIOUS
<1>2. Head(s) = s[1]
  OBVIOUS
<1> QED
  BY <1>1, <1>2 DEF Range

\* What is known of a frame that client t is owed.
Owed(p, f) ==
    \/ f \in Range(heard[p]) \cup Range(down[Sub(p)])
    \/ \E c \in Conns :
          \/ Sub(p) \in cast[c].dead
          \/ Sub(p) \in cast[c].left /\ cast[c].frame = <<f>>

\* AttachedMissNothing, with the debt named.
LEMMA AttachedAreOwed ==
    AttachedMissNothing <=>
        \A p \in Subscribers : phase[Sub(p)] = "attached" =>
            \A f \in expected[Sub(p)] : Owed(p, f)
BY DEF AttachedMissNothing, Owed

\* A broadcast that leaves out some clients.
LEMMA CastWithout ==
    ASSUME NEW x \in [frame : Seq(Frames), left : SUBSET Subs, dead : SUBSET Subs], NEW S
    PROVE  /\ [x EXCEPT !.left = @ \ S, !.dead = @ \ S].left = x.left \ S
           /\ [x EXCEPT !.left = @ \ S, !.dead = @ \ S].dead = x.dead \ S
           /\ [x EXCEPT !.left = @ \ S, !.dead = @ \ S].frame = x.frame
OBVIOUS

\* One in which client t was written to, or is marked.
LEMMA CastWritten ==
    ASSUME NEW x \in [frame : Seq(Frames), left : SUBSET Subs, dead : SUBSET Subs], NEW t
    PROVE  /\ [x EXCEPT !.left = @ \ {t}].left = x.left \ {t}
           /\ [x EXCEPT !.left = @ \ {t}].dead = x.dead
           /\ [x EXCEPT !.left = @ \ {t}].frame = x.frame
           /\ [x EXCEPT !.left = @ \ {t}, !.dead = @ \cup {t}].left = x.left \ {t}
           /\ [x EXCEPT !.left = @ \ {t}, !.dead = @ \cup {t}].dead = x.dead \cup {t}
           /\ [x EXCEPT !.left = @ \ {t}, !.dead = @ \cup {t}].frame = x.frame
OBVIOUS

\* What Close does, point by point.
LEMMA CloseEffect ==
    ASSUME WiresOK, NEW c \in Conns, Close(c)
    PROVE  /\ \A r \in Conns : r # c =>
                 phase'[r] = phase[r] /\ peer'[r] = peer[r] /\ expected'[r] = expected[r]
                   /\ down'[r] = down[r]
           /\ \A r \in Conns : /\ cast'[r].left = cast[r].left \ {c}
                               /\ cast'[r].dead = cast[r].dead \ {c}
                               /\ cast'[r].frame = cast[r].frame
           /\ phase'[c] = "none" /\ expected'[c] = {}
<1>1. /\ phase' = [phase EXCEPT ![c] = "none"] /\ peer' = [peer EXCEPT ![c] = Nobody]
      /\ expected' = [expected EXCEPT ![c] = {}] /\ down' = [down EXCEPT ![c] = <<>>]
  BY DEF Close
<1>2. /\ \A r \in Conns : r # c =>
            phase'[r] = phase[r] /\ peer'[r] = peer[r] /\ expected'[r] = expected[r]
              /\ down'[r] = down[r]
      /\ phase'[c] = "none" /\ expected'[c] = {}
  BY <1>1 DEF WiresOK
<1>3. ASSUME NEW r \in Conns
      PROVE  /\ cast'[r].left = cast[r].left \ {c}
             /\ cast'[r].dead = cast[r].dead \ {c}
             /\ cast'[r].frame = cast[r].frame
  <2>1. cast[r] \in [frame : Seq(Frames), left : SUBSET Subs, dead : SUBSET Subs]
    BY DEF WiresOK
  <2>2. cast'[r] = [cast[r] EXCEPT !.left = @ \ {c}, !.dead = @ \ {c}]
    BY Zenon DEF Close
  <2> QED
    BY <2>1, <2>2, CastWithout
<1> QED
  BY <1>2, <1>3

LEMMA QuietIsEmpty == Quiet.left = {} /\ Quiet.dead = {}
BY DEF Quiet

\* What Write does, point by point.
LEMMA WriteEffect ==
    ASSUME WiresOK, NEW c \in Conns, NEW t \in Subs, Write(c, t)
    PROVE  /\ t \in cast[c].left
           /\ cast'[c].left = cast[c].left \ {t} /\ cast'[c].frame = cast[c].frame
           /\ \/ cast'[c].dead = cast[c].dead
                 /\ down' = [down EXCEPT ![t] = @ \o cast[c].frame]
              \/ cast'[c].dead = cast[c].dead \cup {t} /\ down' = down
           /\ \A r \in Conns \ {c} : cast'[r] = cast[r]
<1> DEFINE fits == phase[t] = "attached" /\ Len(down[t]) < Buffer
<1>1. cast[c] \in [frame : Seq(Frames), left : SUBSET Subs, dead : SUBSET Subs]
  BY DEF WiresOK
<1>2. CASE fits
  <2>1. cast' = [cast EXCEPT ![c].left = @ \ {t}]
    BY <1>2, Zenon DEF Write
  <2>2. cast' = [cast EXCEPT ![c] = [cast[c] EXCEPT !.left = @ \ {t}]]
    BY <2>1, Zenon
  <2>3. cast'[c] = [cast[c] EXCEPT !.left = @ \ {t}] /\ \A r \in Conns \ {c} : cast'[r] = cast[r]
    BY <2>2 DEF WiresOK
  <2>4. t \in cast[c].left /\ down' = [down EXCEPT ![t] = @ \o cast[c].frame]
    BY <1>2, Zenon DEF Write
  <2> QED
    BY <1>1, <2>3, <2>4, CastWritten
<1>3. CASE ~fits
  <2>1. cast' = [cast EXCEPT ![c] = [cast[c] EXCEPT !.left = @ \ {t}, !.dead = @ \cup {t}]]
    BY <1>3, Zenon DEF Write
  <2>2. /\ cast'[c] = [cast[c] EXCEPT !.left = @ \ {t}, !.dead = @ \cup {t}]
        /\ \A r \in Conns \ {c} : cast'[r] = cast[r]
    BY <2>1 DEF WiresOK
  <2>3. t \in cast[c].left /\ down' = down
    BY <1>3, Zenon DEF Write
  <2> QED
    BY <1>1, <2>2, <2>3, CastWritten
<1> QED
  BY <1>2, <1>3

\* Every step keeps the broadcasts among the clients of one broker.
LEMMA StepCasts ==
    TypeOK /\ Connected /\ Delivered /\ [Next]_vars =>
        PublishersCast' /\ CastIsLocal' /\ OthersExpectNothing'
<1> DEFINE Local == PublishersCast /\ CastIsLocal /\ OthersExpectNothing
<1> SUFFICES ASSUME TypeOK, Connected, Delivered, [Next]_vars PROVE Local'
  OBVIOUS
<1> USE ConnsAreDistinct
        DEF Delivered, PublishersCast, CastIsLocal, OthersExpectNothing, TypeOK, WiresOK,
            files, servers, calls, wires, counts, history, At
<1>1. ASSUME UNCHANGED <<phase, peer, up, cast, expected>> PROVE Local'
  BY <1>1
<1>2. ASSUME NEW p \in Procs, Publish(p) \/ Subscribe(p) PROVE Local'
  <2>1. UNCHANGED <<phase, peer, up, cast, expected>>
    BY <1>2 DEF Publish, Subscribe, Begin
  <2> QED
    BY <1>1, <2>1
<1>3. ASSUME NEW p \in Procs,
             EnsureBroker(p) \/ Lock(p) \/ Probe(p) \/ UnlinkStale(p) \/ Bind(p) \/ RecordPid(p)
               \/ Receive(p) \/ PidReused(p)
      PROVE  Local'
  <2>1. UNCHANGED <<phase, peer, up, cast, expected>>
    BY <1>3 DEF EnsureBroker, Lock, Probe, UnlinkStale, Bind, RecordPid, Receive, PidReused
  <2> QED
    BY <1>1, <2>1
\* Connections that are not in the fan-out are in no broadcast.
<1>4. ASSUME NEW c \in Conns, phase[c] \in {"none", "broken"},
             \A r \in Conns \ {c} : phase'[r] = phase[r] /\ peer'[r] = peer[r],
             phase'[c] \in {"none", "broken", "backlog"},
             UNCHANGED <<cast, expected>>,
             \A r \in Conns : up'[r] # <<>> => r \in Pubs
      PROVE  Local'
  <2>1. cast[c].left \cup cast[c].dead = {}
    BY <1>4
  <2>2. \A r \in Conns : c \notin cast[r].left \cup cast[r].dead
    BY <1>4
  <2>3. PublishersCast'
    BY <1>4, <2>1
  <2>4. CastIsLocal'
    <3>1. ASSUME NEW r \in Conns, NEW t \in cast[r].left \cup cast[r].dead
          PROVE  phase'[t] \in {"attached", "evicted"} /\ peer'[t] = peer'[r]
      <4>1. r # c /\ t # c
        BY <2>1, <2>2, <3>1
      <4>2. phase[t] \in {"attached", "evicted"} /\ peer[t] = peer[r] /\ t \in Conns
        BY <3>1
      <4>3. phase'[t] = phase[t] /\ peer'[t] = peer[t] /\ peer'[r] = peer[r]
        BY <1>4, <4>1, <4>2
      <4> QED
        BY <4>2, <4>3
    <3>2. cast' = cast
      BY <1>4
    <3> QED
      BY <3>1, <3>2
  <2>5. OthersExpectNothing'
    BY <1>4
  <2> QED
    BY <2>3, <2>4, <2>5
<1>5. ASSUME NEW p \in Procs, Attach(p) PROVE Local'
  <2>1. UNCHANGED <<up, cast, expected>>
    BY <1>5 DEF Attach
  <2>2. CASE UNCHANGED <<phase, peer>>
    BY <1>1, <2>1, <2>2
  <2>3. CASE /\ phase[<<p, op[p]>>] = "none"
             /\ phase' = [phase EXCEPT ![<<p, op[p]>>] = "backlog"]
             /\ peer' = [peer EXCEPT ![<<p, op[p]>>] = socket_file]
    <3>1. CASE <<p, op[p]>> \in Conns
      <4>1. \A r \in Conns \ {<<p, op[p]>>} : phase'[r] = phase[r] /\ peer'[r] = peer[r]
        BY <2>3
      <4>2. phase'[<<p, op[p]>>] = "backlog" /\ \A r \in Conns : up'[r] # <<>> => r \in Pubs
        BY <2>1, <2>3, <3>1
      <4> QED
        BY <1>4, <2>1, <2>3, <3>1, <4>1, <4>2
    <3>2. CASE <<p, op[p]>> \notin Conns
      BY <1>1, <2>1, <2>3, <3>2
    <3> QED
      BY <3>1, <3>2
  <2> QED
    BY <1>5, <2>2, <2>3 DEF Attach
<1>6. ASSUME NEW p \in Procs, Send(p) PROVE Local'
  <2>1. Pub(p) \in Pubs
    BY <1>6 DEF Send, Connected, SubscribersListen, CallsOK
  <2>2. UNCHANGED <<cast, expected>>
    BY <1>6 DEF Send
  <2>3. CASE /\ phase[Pub(p)] = "broken" /\ phase' = [phase EXCEPT ![Pub(p)] = "none"]
             /\ peer' = [peer EXCEPT ![Pub(p)] = Nobody] /\ up' = up
    <3>1. \A r \in Conns \ {Pub(p)} : phase'[r] = phase[r] /\ peer'[r] = peer[r]
      BY <2>3
    <3>2. phase'[Pub(p)] = "none" /\ Pub(p) \in Conns /\ \A r \in Conns : up'[r] # <<>> => r \in Pubs
      BY <2>1, <2>3
    <3> QED
      BY <1>4, <2>2, <2>3, <3>1, <3>2
  <2>4. CASE /\ up' = [up EXCEPT ![Pub(p)] = Append(@, [from |-> p, n |-> published[p]])]
             /\ UNCHANGED <<phase, peer>>
    BY <2>1, <2>2, <2>4
  <2> QED
    BY <1>6, <2>3, <2>4 DEF Send
<1>7. ASSUME NEW p \in Procs, EndOfStream(p) \/ KeyboardInterrupt(p) PROVE Local'
  <2>1. Close(Sub(p)) /\ up' = up /\ Sub(p) \in Subs
    BY <1>7 DEF EndOfStream, KeyboardInterrupt, CallsOK
  <2>2. \A r \in Conns : /\ cast'[r].left = cast[r].left \ {Sub(p)}
                         /\ cast'[r].dead = cast[r].dead \ {Sub(p)}
    BY <2>1, CloseEffect
  <2>3. \A r \in Conns : r # Sub(p) => phase'[r] = phase[r] /\ peer'[r] = peer[r] /\ expected'[r] = expected[r]
    BY <2>1, CloseEffect
  <2>4. cast[Sub(p)].left \cup cast[Sub(p)].dead = {} /\ expected'[Sub(p)] = {}
    BY <2>1, CloseEffect
  <2>5. PublishersCast'
    BY <2>1, <2>2, <2>3, <2>4
  <2>6. CastIsLocal'
    BY <2>1, <2>2, <2>3, <2>4
  <2>7. OthersExpectNothing'
    BY <2>3, <2>4
  <2> QED
    BY <2>5, <2>6, <2>7
<1>8. ASSUME NEW p \in Procs, NEW gone, ListenerGone(p, gone),
             \A c \in gone \cap Pubs : peer[c] = p \/ phase[c] = "broken"
      PROVE  Local'
  <2> DEFINE cutoff == {c \in Conns : peer[c] = p /\ phase[c] # "none"}
  <2>1. \A c \in cutoff : cast'[c] = Quiet /\ up'[c] = <<>>
    BY <1>8 DEF ListenerGone
  <2>2. \A c \in Conns \ cutoff : /\ cast'[c].left = cast[c].left \ gone
                                  /\ cast'[c].dead = cast[c].dead \ gone
                                  /\ up'[c] = up[c]
    <3>1. ASSUME NEW c \in Conns \ cutoff
          PROVE  cast'[c].left = cast[c].left \ gone /\ cast'[c].dead = cast[c].dead \ gone
      <4>1. cast'[c] = [cast[c] EXCEPT !.left = @ \ gone, !.dead = @ \ gone]
        BY <1>8, <3>1, Zenon DEF ListenerGone
      <4>2. cast[c] \in [frame : Seq(Frames), left : SUBSET Subs, dead : SUBSET Subs]
        BY <3>1
      <4> QED
        BY <4>1, <4>2, CastWithout
    <3>2. \A c \in Conns \ cutoff : up'[c] = up[c]
      BY <1>8 DEF ListenerGone
    <3> QED
      BY <3>1, <3>2
  <2>3. \A c \in Conns \ (gone \cup cutoff) :
            phase'[c] = phase[c] /\ peer'[c] = peer[c] /\ expected'[c] = expected[c]
    BY <1>8 DEF ListenerGone
  <2>4. \A c \in Conns \cap (gone \cup cutoff) : expected'[c] = {}
    BY <1>8 DEF ListenerGone
  <2>5. \A c \in Conns \ cutoff : cast[c].left \cup cast[c].dead # {} => c \notin gone
    BY <1>8
  <2>6. \A c \in Conns \ cutoff : \A t \in cast[c].left \cup cast[c].dead : t \notin cutoff
    <3>1. ASSUME NEW c \in Conns \ cutoff, NEW t \in cast[c].left \cup cast[c].dead PROVE t \notin cutoff
      <4>1. phase[c] = "attached" /\ peer[t] = peer[c]
        BY <3>1
      <4> QED
        BY <4>1
    <3> QED
      BY <3>1
  <2>7. Quiet.left = {} /\ Quiet.dead = {}
    BY QuietIsEmpty
  <2>8. PublishersCast'
    BY <2>1, <2>2, <2>3, <2>5, <2>7
  <2>9. CastIsLocal'
    <3>1. ASSUME NEW c \in Conns, NEW t \in cast'[c].left \cup cast'[c].dead
          PROVE  phase'[t] \in {"attached", "evicted"} /\ peer'[t] = peer'[c]
      <4>1. c \notin cutoff
        BY <2>1, <2>7, <3>1
      <4>2. t \in cast[c].left \cup cast[c].dead /\ t \notin gone
        BY <2>2, <3>1, <4>1
      <4>3. c \notin gone
        BY <2>5, <2>7, <4>1, <4>2
      <4>4. t \in Conns /\ t \notin cutoff
        BY <2>6, <4>1, <4>2
      <4> QED
        BY <2>3, <4>1, <4>2, <4>3, <4>4
    <3> QED
      BY <3>1
  <2>10. OthersExpectNothing'
    BY <2>3, <2>4
  <2> QED
    BY <2>8, <2>9, <2>10
<1>9. ASSUME NEW p \in Procs, RecordFails(p) PROVE Local'
  BY <1>8, <1>9 DEF RecordFails
<1>10. ASSUME NEW p \in Procs, Die(p) PROVE Local'
  BY <1>8, <1>10 DEF Die
<1>11. ASSUME NEW c \in Conns, Accept(c) PROVE Local'
  BY <1>11 DEF Accept, Quiet
<1>12. ASSUME NEW c \in Conns, Broadcast(c) PROVE Local'
  <2>1. c \in Pubs /\ phase[c] = "attached"
    BY <1>12 DEF Broadcast
  <2>2. UNCHANGED <<phase, peer>> /\ \A r \in Conns \ {c} : up'[r] = up[r] /\ cast'[r] = cast[r]
    BY <1>12 DEF Broadcast
  <2>3. cast'[c].left = Fanout(peer[c]) \ {c} /\ cast'[c].dead = {}
    BY <1>12 DEF Broadcast
  <2>4. \A t \in Fanout(peer[c]) : phase[t] = "attached" /\ peer[t] = peer[c]
    BY DEF Fanout
  <2>5. \A t \in Subs : phase[t] # "attached" => expected'[t] = expected[t]
    BY <1>12, <2>4 DEF Broadcast
  <2>6. PublishersCast'
    BY <1>12, <2>1, <2>2, <2>3 DEF Broadcast
  <2>7. CastIsLocal'
    BY <2>2, <2>3, <2>4
  <2>8. OthersExpectNothing'
    BY <2>2, <2>5
  <2> QED
    BY <2>6, <2>7, <2>8
<1>13. ASSUME NEW c \in Conns, NEW t \in Subs, Write(c, t) PROVE Local'
  <2>1. UNCHANGED <<phase, peer, up, expected>>
    BY <1>13 DEF Write
  <2>2. /\ t \in cast[c].left /\ cast'[c].left = cast[c].left \ {t}
        /\ cast'[c].dead = cast[c].dead \/ cast'[c].dead = cast[c].dead \cup {t}
        /\ \A r \in Conns \ {c} : cast'[r] = cast[r]
    <3> HIDE DEF WiresOK
    <3> QED
      BY <1>13, WriteEffect
  <2>3. \A r \in Conns : cast'[r].left \cup cast'[r].dead \subseteq cast[r].left \cup cast[r].dead
    <3>1. cast'[c].left \cup cast'[c].dead \subseteq cast[c].left \cup cast[c].dead
      BY <2>2
    <3> QED
      BY <2>2, <3>1
  <2>4. PublishersCast'
    BY <2>1, <2>3
  <2>5. CastIsLocal'
    BY <2>1, <2>3
  <2>6. OthersExpectNothing'
    BY <2>1
  <2> QED
    BY <2>4, <2>5, <2>6
<1>14. ASSUME NEW c \in Conns, Evict(c) PROVE Local'
  <2>1. /\ \A t \in cast[c].dead : phase'[t] = "evicted" /\ phase[t] \in {"attached", "evicted"}
        /\ \A t \in Conns \ cast[c].dead : phase'[t] = phase[t]
        /\ \A r \in Conns \ {c} : cast'[r] = cast[r]
        /\ cast'[c] = Quiet /\ UNCHANGED <<peer, up, expected>>
    BY <1>14 DEF Evict
  <2>2. \A r \in Conns : cast'[r].left \subseteq cast[r].left /\ cast'[r].dead \subseteq cast[r].dead
    BY <2>1, QuietIsEmpty
  <2>3. cast[c].dead \subseteq Subs
    BY DEF WiresOK
  <2>4. PublishersCast'
    <3> SUFFICES ASSUME NEW r \in Conns
                 PROVE  /\ up[r] # <<>> => r \in Pubs
                        /\ cast'[r].left \cup cast'[r].dead # {}
                              => r \in Pubs /\ phase'[r] = "attached"
      BY <2>1
    <3> HIDE DEF CastIsLocal, OthersExpectNothing
    <3>1. r \in Pubs => phase'[r] = phase[r]
      BY <2>1, <2>3
    <3> QED
      BY <2>2, <3>1
  <2>5. CastIsLocal'
    <3> SUFFICES ASSUME NEW r \in Conns, NEW t \in cast'[r].left \cup cast'[r].dead
                 PROVE  phase'[t] \in {"attached", "evicted"} /\ peer[t] = peer[r]
      BY <2>1
    <3> HIDE DEF PublishersCast, OthersExpectNothing
    <3>1. /\ phase[t] \in {"attached", "evicted"} /\ peer[t] = peer[r]
          /\ t \in Conns
      BY <2>2 DEF WiresOK
    <3> QED
      BY <2>1, <3>1
  <2>6. OthersExpectNothing'
    <3> HIDE DEF PublishersCast, CastIsLocal
    <3> QED
      BY <2>1
  <2> QED
    BY <2>4, <2>5, <2>6
<1>15. ASSUME NEW c \in Conns, Disconnected(c) PROVE Local'
  <2>1. c \in Pubs /\ cast[c] = Quiet /\ phase'[c] = "none" /\ UNCHANGED <<up, cast, expected>>
    BY <1>15 DEF Disconnected
  <2>2. \A r \in Conns \ {c} : phase'[r] = phase[r] /\ peer'[r] = peer[r]
    BY <1>15 DEF Disconnected
  <2>3. cast[c].left = {} /\ cast[c].dead = {}
    BY <2>1, QuietIsEmpty
  <2>4. PublishersCast'
    BY <2>1, <2>2, <2>3
  <2>5. CastIsLocal'
    <3>1. ASSUME NEW r \in Conns, NEW t \in cast[r].left \cup cast[r].dead
          PROVE  phase'[t] \in {"attached", "evicted"} /\ peer'[t] = peer'[r]
      <4>1. r # c /\ t # c
        BY <2>1, <2>3, <3>1
      <4>2. phase[t] \in {"attached", "evicted"} /\ peer[t] = peer[r] /\ t \in Conns
        BY <3>1
      <4>3. phase'[t] = phase[t] /\ peer'[t] = peer[t] /\ peer'[r] = peer[r]
        BY <2>2, <4>1, <4>2
      <4> QED
        BY <4>2, <4>3
    <3>2. cast' = cast
      BY <2>1
    <3> QED
      BY <3>1, <3>2
  <2>6. OthersExpectNothing'
    <3>1. \A t \in Subs : phase'[t] = phase[t] /\ expected'[t] = expected[t]
      BY <2>1, <2>2
    <3> QED
      BY <3>1
  <2> QED
    BY <2>4, <2>5, <2>6
<1>16. CASE UNCHANGED vars
  BY <1>1, <1>16 DEF vars
<1> HIDE DEF Local
<1> QED
  BY <1>2, <1>3, <1>5, <1>6, <1>7, <1>9, <1>10, <1>11, <1>12, <1>13, <1>14, <1>15, <1>16
     DEF Next, Step, Environment, Serve

\* Every step keeps the debts of the broker: a frame leaves the wires of a
\* client that stays only for what the client heard.
LEMMA StepDebts == TypeOK /\ Connected /\ Delivered /\ [Next]_vars => AttachedMissNothing'
<1> DEFINE attached(p) == phase[Sub(p)] = "attached"
<1> DEFINE Debts ==
       \A p \in Subscribers : attached(p) => \A f \in expected[Sub(p)] : Owed(p, f)
<1> SUFFICES ASSUME TypeOK, Connected, Delivered, [Next]_vars PROVE Debts'
  BY DEF AttachedMissNothing, Owed
<1>0. Debts
  BY AttachedAreOwed DEF Delivered
<1> USE <1>0, ConnsAreDistinct DEF TypeOK, files, servers, calls, wires, counts, history, At
\* Unless a subscriber is attached, written to, marked or reads, nothing changes.
<1>1. ASSUME UNCHANGED <<down, cast, heard, expected>>,
             \A p \in Subscribers : attached(p)' => attached(p)
      PROVE  Debts'
  BY <1>1 DEF Owed
<1>2. ASSUME NEW p \in Procs, Publish(p) \/ Subscribe(p) PROVE Debts'
  <2>1. UNCHANGED <<phase, down, cast, heard, expected>>
    BY <1>2 DEF Publish, Subscribe, Begin
  <2> QED
    BY <1>1, <2>1
<1>3. ASSUME NEW p \in Procs,
             EnsureBroker(p) \/ Lock(p) \/ Probe(p) \/ UnlinkStale(p) \/ Bind(p) \/ RecordPid(p)
               \/ PidReused(p)
      PROVE  Debts'
  <2>1. UNCHANGED <<phase, down, cast, heard, expected>>
    BY <1>3 DEF EnsureBroker, Lock, Probe, UnlinkStale, Bind, RecordPid, PidReused
  <2> QED
    BY <1>1, <2>1
<1>4. ASSUME NEW p \in Procs, Attach(p) \/ Send(p) PROVE Debts'
  <2>1. UNCHANGED <<down, cast, heard, expected>>
    BY <1>4 DEF Attach, Send
  <2>2. \/ phase' = phase
        \/ phase' = [phase EXCEPT ![<<p, op[p]>>] = "backlog"]
        \/ phase' = [phase EXCEPT ![Pub(p)] = "none"]
    BY <1>4 DEF Attach, Send
  <2>3. \A q \in Subscribers : attached(q)' => attached(q)
    BY <2>2 DEF WiresOK
  <2> QED
    BY <1>1, <2>1, <2>3
<1>5. ASSUME NEW p \in Procs, Receive(p) PROVE Debts'
  <2>1. /\ p \in Subscribers /\ down[Sub(p)] \in Seq(Frames) /\ down[Sub(p)] # <<>>
        /\ heard[p] \in Seq(Frames) /\ UNCHANGED <<phase, cast, expected>>
    BY <1>5 DEF Receive, CallsOK, WiresOK
  <2>2. /\ down'[Sub(p)] = Tail(down[Sub(p)]) /\ heard'[p] = Append(heard[p], Head(down[Sub(p)]))
        /\ \A q \in Subscribers \ {p} : down'[Sub(q)] = down[Sub(q)] /\ heard'[q] = heard[q]
    BY <1>5, <2>1 DEF Receive, WiresOK, Sub, Procs
  <2>3. Head(down[Sub(p)]) \in Frames
    BY <2>1, HeadTailProperties
  <2>4. Range(heard'[p]) = Range(heard[p]) \cup {Head(down[Sub(p)])}
    BY <2>1, <2>2, <2>3, RangeOfAppend
  <2>5. Range(down[Sub(p)]) \subseteq Range(down'[Sub(p)]) \cup {Head(down[Sub(p)])}
    BY <2>1, <2>2, RangeOfTail
  <2>6. ASSUME NEW q \in Subscribers, NEW f, Owed(q, f) PROVE Owed(q, f)'
    <3>1. CASE q = p
      BY <2>1, <2>4, <2>5, <2>6, <3>1 DEF Owed
    <3>2. CASE q # p
      BY <2>1, <2>2, <2>6, <3>2 DEF Owed
    <3> QED
      BY <3>1, <3>2
  <2> QED
    BY <2>1, <2>6
<1>6. ASSUME NEW p \in Procs, EndOfStream(p) \/ KeyboardInterrupt(p) PROVE Debts'
  <2>1. Close(Sub(p)) /\ heard' = heard /\ Sub(p) \in Conns
    BY <1>6 DEF EndOfStream, KeyboardInterrupt, CallsOK
  <2>2. ASSUME NEW q \in Subscribers, NEW f, Owed(q, f), q # p PROVE Owed(q, f)'
    <3>1. Sub(q) # Sub(p)
      BY <2>2 DEF Sub
    <3> QED
      BY <2>1, <2>2, <3>1, CloseEffect DEF Owed
  <2>3. \A q \in Subscribers : attached(q)' => q # p /\ attached(q) /\ expected'[Sub(q)] = expected[Sub(q)]
    <3>1. \A q \in Subscribers : q # p => Sub(q) # Sub(p) /\ Sub(q) \in Conns
      BY DEF Sub
    <3> QED
      BY <2>1, <3>1, CloseEffect
  <2> QED
    BY <2>2, <2>3
<1>7. ASSUME NEW p \in Procs, NEW gone, ListenerGone(p, gone),
             \A q \in Subscribers : Sub(q) \notin gone => heard'[q] = heard[q]
      PROVE  Debts'
  <2> DEFINE cutoff == {c \in Conns : peer[c] = p /\ phase[c] # "none"}
  <2>1. \A q \in Subscribers : attached(q)' => Sub(q) \notin gone /\ Sub(q) \notin cutoff
    BY <1>7 DEF ListenerGone
  <2>2. ASSUME NEW q \in Subscribers, attached(q)'
        PROVE  /\ attached(q) /\ expected'[Sub(q)] = expected[Sub(q)]
               /\ down'[Sub(q)] = down[Sub(q)] /\ heard'[q] = heard[q]
    BY <1>7, <2>1, <2>2 DEF ListenerGone
  <2>3. ASSUME NEW q \in Subscribers, attached(q)', NEW c \in Conns,
               Sub(q) \in cast[c].left \cup cast[c].dead
        PROVE  c \notin cutoff
    <3>1. phase[c] = "attached" /\ peer[Sub(q)] = peer[c]
      BY <2>3 DEF Delivered, PublishersCast, CastIsLocal
    <3> QED
      BY <2>1, <2>2, <2>3, <3>1
  <2>4. ASSUME NEW c \in Conns \ cutoff
        PROVE  /\ cast'[c].left = cast[c].left \ gone /\ cast'[c].dead = cast[c].dead \ gone
               /\ cast'[c].frame = cast[c].frame
    <3>1. cast'[c] = [cast[c] EXCEPT !.left = @ \ gone, !.dead = @ \ gone]
      BY <1>7, <2>4, Zenon DEF ListenerGone
    <3>2. cast[c] \in [frame : Seq(Frames), left : SUBSET Subs, dead : SUBSET Subs]
      BY <2>4 DEF WiresOK
    <3> QED
      BY <3>1, <3>2, CastWithout
  <2>5. ASSUME NEW q \in Subscribers, attached(q)', NEW f, Owed(q, f) PROVE Owed(q, f)'
    <3>1. CASE f \in Range(heard[q]) \cup Range(down[Sub(q)])
      BY <2>2, <2>5, <3>1 DEF Owed
    <3>2. ASSUME NEW c \in Conns,
                 Sub(q) \in cast[c].dead \/ (Sub(q) \in cast[c].left /\ cast[c].frame = <<f>>)
          PROVE  Owed(q, f)'
      <4>1. c \in Conns \ cutoff /\ Sub(q) \notin gone
        BY <2>1, <2>3, <2>5, <3>2
      <4> QED
        BY <2>4, <3>2, <4>1 DEF Owed
    <3> QED
      BY <2>5, <3>1, <3>2 DEF Owed
  <2> QED
    BY <2>2, <2>5
<1>8. ASSUME NEW p \in Procs, RecordFails(p) PROVE Debts'
  BY <1>7, <1>8 DEF RecordFails
<1>9. ASSUME NEW p \in Procs, Die(p) PROVE Debts'
  <2>1. PICK gone : ListenerGone(p, gone) /\ (p \in Subscribers => Sub(p) \in gone)
    BY <1>9 DEF Die, Sub
  <2>2. \A q \in Subscribers : q # p => heard'[q] = heard[q]
    BY <1>9 DEF Die, WiresOK, Procs
  <2> QED
    BY <1>7, <2>1, <2>2
<1>10. ASSUME NEW c \in Conns, Accept(c) PROVE Debts'
  <2>1. /\ phase[c] = "backlog" /\ UNCHANGED <<down, cast, heard, expected>>
        /\ \A r \in Conns \ {c} : phase'[r] = phase[r]
    BY <1>10 DEF Accept, WiresOK
  <2>2. c \in Subs => expected[c] = {}
    BY <2>1 DEF Delivered, OthersExpectNothing
  <2> QED
    BY <2>1, <2>2 DEF Owed
<1>11. ASSUME NEW c \in Conns, Broadcast(c) PROVE Debts'
  <2>1. /\ UNCHANGED <<phase, down, heard>> /\ cast[c] = Quiet
        /\ \A r \in Conns \ {c} : cast'[r] = cast[r]
        /\ cast'[c].frame = <<Head(up[c])>> /\ cast'[c].left = Fanout(peer[c]) \ {c}
    BY <1>11 DEF Broadcast, WiresOK
  <2>2. \A t \in Conns : expected'[t] = IF t \in Fanout(peer[c]) \ {c}
                                        THEN expected[t] \cup {Head(up[c])} ELSE expected[t]
    BY <1>11 DEF Broadcast
  <2>3. ASSUME NEW q \in Subscribers, NEW f, Owed(q, f) PROVE Owed(q, f)'
    <3>1. CASE f \in Range(heard[q]) \cup Range(down[Sub(q)])
      BY <2>1, <3>1 DEF Owed
    <3>2. ASSUME NEW r \in Conns,
                 Sub(q) \in cast[r].dead \/ (Sub(q) \in cast[r].left /\ cast[r].frame = <<f>>)
          PROVE  Owed(q, f)'
      <4>1. r # c
        BY <2>1, <3>2, QuietIsEmpty
      <4> QED
        BY <2>1, <3>2, <4>1 DEF Owed
    <3> QED
      BY <2>3, <3>1, <3>2 DEF Owed
  <2>4. ASSUME NEW q \in Subscribers, Sub(q) \in Fanout(peer[c]) \ {c}, NEW f, f = Head(up[c])
        PROVE  Owed(q, f)'
    BY <2>1, <2>4 DEF Owed
  <2>5. ASSUME NEW q \in Subscribers, attached(q)', NEW f \in expected'[Sub(q)] PROVE Owed(q, f)'
    <3>1. attached(q) /\ Sub(q) \in Conns
      BY <2>1, <2>5
    <3>2. CASE f \in expected[Sub(q)]
      BY <2>3, <3>1, <3>2
    <3>3. CASE f \notin expected[Sub(q)]
      BY <2>2, <2>4, <2>5, <3>1, <3>3
    <3> QED
      BY <3>2, <3>3
  <2> QED
    BY <2>5
<1>12. ASSUME NEW c \in Conns, NEW t \in Subs, Write(c, t) PROVE Debts'
  <2>1. UNCHANGED <<phase, heard, expected>>
    BY <1>12 DEF Write
  <2>2. /\ t \in cast[c].left
        /\ cast'[c].left = cast[c].left \ {t} /\ cast'[c].frame = cast[c].frame
        /\ \/ cast'[c].dead = cast[c].dead /\ down' = [down EXCEPT ![t] = @ \o cast[c].frame]
           \/ cast'[c].dead = cast[c].dead \cup {t} /\ down' = down
        /\ \A r \in Conns \ {c} : cast'[r] = cast[r]
    BY <1>12, WriteEffect
  <2>3. down[t] \in Seq(Frames) /\ cast[c].frame \in Seq(Frames) /\ t \in Conns
    BY DEF WiresOK
  <2>4. /\ \A r \in Conns : Range(down[r]) \subseteq Range(down'[r])
        /\ \A f : cast[c].frame = <<f>> => f \in Range(down'[t]) \/ t \in cast'[c].dead
    <3>1. CASE cast'[c].dead = cast[c].dead \cup {t} /\ down' = down
      BY <3>1
    <3>2. CASE down' = [down EXCEPT ![t] = @ \o cast[c].frame]
      <4>1. down'[t] = down[t] \o cast[c].frame /\ \A r \in Conns \ {t} : down'[r] = down[r]
        BY <2>3, <3>2 DEF WiresOK
      <4> QED
        BY <2>3, <4>1, RangeOfConcat
    <3> QED
      BY <2>2, <3>1, <3>2
  <2>5. ASSUME NEW q \in Subscribers, NEW f, Owed(q, f) PROVE Owed(q, f)'
    <3>1. CASE f \in Range(heard[q]) \cup Range(down[Sub(q)])
      BY <2>1, <2>4, <3>1 DEF Owed
    <3>2. ASSUME NEW r \in Conns,
                 Sub(q) \in cast[r].dead \/ (Sub(q) \in cast[r].left /\ cast[r].frame = <<f>>)
          PROVE  Owed(q, f)'
      <4>1. CASE r # c
        BY <2>2, <3>2, <4>1 DEF Owed
      <4>2. CASE r = c
        BY <2>2, <2>4, <3>2, <4>2 DEF Owed
      <4> QED
        BY <4>1, <4>2
    <3> QED
      BY <2>5, <3>1, <3>2 DEF Owed
  <2> QED
    BY <2>1, <2>5
<1>13. ASSUME NEW c \in Conns, Evict(c) PROVE Debts'
  <2>1. /\ \A t \in cast[c].dead : t \in Conns => phase'[t] = "evicted"
        /\ \A t \in Conns \ cast[c].dead : phase'[t] = phase[t]
        /\ \A r \in Conns \ {c} : cast'[r] = cast[r]
        /\ cast[c].left = {} /\ UNCHANGED <<down, heard, expected>>
    BY <1>13 DEF Evict, WiresOK
  <2>2. ASSUME NEW q \in Subscribers, attached(q)', NEW f, Owed(q, f) PROVE Owed(q, f)'
    <3>1. CASE f \in Range(heard[q]) \cup Range(down[Sub(q)])
      BY <2>1, <3>1 DEF Owed
    <3>2. ASSUME NEW r \in Conns,
                 Sub(q) \in cast[r].dead \/ (Sub(q) \in cast[r].left /\ cast[r].frame = <<f>>)
          PROVE  Owed(q, f)'
      <4>1. r # c
        BY <2>1, <2>2, <3>2
      <4> QED
        BY <2>1, <3>2, <4>1 DEF Owed
    <3> QED
      BY <2>2, <3>1, <3>2 DEF Owed
  <2>3. \A q \in Subscribers : attached(q)' => attached(q)
    BY <2>1
  <2> QED
    BY <2>1, <2>2, <2>3
<1>14. ASSUME NEW c \in Conns, Disconnected(c) PROVE Debts'
  <2>1. UNCHANGED <<down, cast, heard, expected>>
    BY <1>14 DEF Disconnected
  <2>2. \A q \in Subscribers : attached(q)' => attached(q)
    BY <1>14 DEF Disconnected, WiresOK
  <2> QED
    BY <1>1, <2>1, <2>2
<1>15. CASE UNCHANGED vars
  BY <1>1, <1>15 DEF vars
<1> HIDE DEF Debts
<1> QED
  BY <1>2, <1>3, <1>4, <1>5, <1>6, <1>8, <1>9, <1>10, <1>11, <1>12, <1>13, <1>14, <1>15
     DEF Next, Step, Environment, Serve
-----------------------------------------------------------------------------
\* The inductive invariant holds in every reachable state.
LEMMA InductiveInvariant == Spec => [](TypeOK /\ Elected /\ Connected /\ Delivered)
<1>1. TypeOK /\ Elected /\ Connected /\ Delivered /\ [Next]_vars
          => (TypeOK /\ Elected /\ Connected /\ Delivered)'
  <2> SUFFICES ASSUME TypeOK, Elected, Connected, Delivered, [Next]_vars
               PROVE  TypeOK' /\ Elected' /\ Connected' /\ Delivered'
    OBVIOUS
  <2>1. TypeOK'
    BY StepFiles, StepCalls, StepWires DEF TypeOK
  <2>2. Elected'
    BY StepElection
  <2>3. Connected'
    BY StepPeers, StepConnections, StepSubscribers DEF Connected
  <2>4. Delivered'
    BY StepCasts, StepDebts DEF Delivered
  <2> QED
    BY <2>1, <2>2, <2>3, <2>4
<1> QED
  BY <1>1, InitInvariant, PTL DEF Spec

\* Type correctness: in particular one process at a time is inside the election,
\* and a process that dies there leaves the lock free (bus.py:474-483).
THEOREM TypeCorrect == Spec => []TypeOK
BY InductiveInvariant, PTL

\* The broker that runs is the one both files name, for any number of processes
\* that are elected and die in any order (bus.py:202-206, 474-483).
THEOREM OneBusTheorem == Spec => []OneBus
<1>1. Elected => OneBus
  BY DEF Elected
<1> QED
  BY <1>1, InductiveInvariant, PTL

\* A call of publish or subscribe raises only if a listener went during it or a
\* dead broker's pid was another process's (bus.py:12).
THEOREM FailureNeedsAFaultTheorem == Spec => []FailureNeedsAFault
<1>1. Connected => FailureNeedsAFault
  BY DEF Connected
<1> QED
  BY <1>1, InductiveInvariant, PTL

\* A subscriber that stays in the fan-out is never skipped, for any number of
\* concurrent broadcasts and any buffer (bus.py:362-400).
THEOREM AttachedMissNothingTheorem == Spec => []AttachedMissNothing
<1>1. Delivered => AttachedMissNothing
  BY DEF Delivered
<1> QED
  BY <1>1, InductiveInvariant, PTL
-----------------------------------------------------------------------------
(* The order of the frames.  A frame of publisher q goes from the end of    *)
(* its connection, through one broadcast, to the end of what each           *)
(* subscriber gets; its number is above those of all frames ahead of it.    *)

\* The frames of one publisher are in the order of its calls.
Ordered(s) ==
    \A i, j \in DOMAIN s : i < j /\ s[i].from = s[j].from => s[i].n < s[j].n

\* The last frame q may have sent.
LastSent(q) == IF op[q] = "pub" THEN published[q] - 1 ELSE published[q]

\* What a connection of q still holds is q's, in order.
SentInOrder ==
    \A c \in Conns :
        /\ Ordered(up[c])
        /\ \A f \in Range(up[c]) : f.from = c[1] /\ f.n <= LastSent(c[1])

\* The frame of a broadcast is ahead of those its connection still holds.
CastInOrder ==
    \A c \in Conns : cast[c].left # {} =>
        \E f \in Frames :
            /\ cast[c].frame = <<f>> /\ f.from = c[1] /\ f.n <= LastSent(c[1])
            /\ \A g \in Range(up[c]) : f.n < g.n

Got(p) == Range(heard[p]) \cup Range(down[Sub(p)])

\* What a subscriber got is ahead of what it will be written.
GotInOrder ==
    /\ \A p \in Procs : Ordered(heard[p])
    /\ \A p \in Subscribers :
         /\ Ordered(down[Sub(p)])
         /\ \A f \in Range(heard[p]), g \in Range(down[Sub(p)]) : f.from = g.from => f.n < g.n
         /\ \A g \in Got(p) :
              /\ g.n <= LastSent(g.from)
              /\ \A c \in Conns : c[1] = g.from =>
                   /\ \A f \in Range(up[c]) : g.n < f.n
                   /\ \A f \in Frames : Sub(p) \in cast[c].left /\ cast[c].frame = <<f>> => g.n < f.n

InOrder == SentInOrder /\ CastInOrder /\ GotInOrder

\* A frame above those before it may follow them; the first of an ordered
\* sequence is below the rest.
LEMMA OrderedAppend ==
    ASSUME NEW s \in Seq(Frames), NEW f \in Frames, Ordered(s),
           \A g \in Range(s) : g.from = f.from => g.n < f.n
    PROVE  Ordered(Append(s, f))
<1>1. \A i \in DOMAIN s : s[i] \in Range(s)
  BY DEF Range
<1>2. /\ DOMAIN Append(s, f) = 1 .. Len(s) + 1 /\ Append(s, f)[Len(s) + 1] = f
      /\ DOMAIN s = 1 .. Len(s) /\ Len(s) \in Nat
      /\ \A i \in 1 .. Len(s) : Append(s, f)[i] = s[i]
  OBVIOUS
<1> SUFFICES ASSUME NEW i \in 1 .. Len(s) + 1, NEW j \in 1 .. Len(s) + 1, i < j,
                    Append(s, f)[i].from = Append(s, f)[j].from
             PROVE  Append(s, f)[i].n < Append(s, f)[j].n
  BY <1>2 DEF Ordered
<1>3. i \in 1 .. Len(s)
  BY <1>2
<1>4. CASE j = Len(s) + 1
  BY <1>1, <1>2, <1>3, <1>4
<1>5. CASE j \in 1 .. Len(s)
  BY <1>2, <1>3, <1>5 DEF Ordered
<1> QED
  BY <1>2, <1>4, <1>5

LEMMA OrderedTail ==
    ASSUME NEW s \in Seq(Frames), s # <<>>, Ordered(s)
    PROVE  /\ Ordered(Tail(s))
           /\ Head(s) \in Frames /\ Head(s) \in Range(s)
           /\ Range(Tail(s)) \subseteq Range(s)
           /\ \A g \in Range(Tail(s)) : g.from = Head(s).from => Head(s).n < g.n
<1>1. /\ DOMAIN Tail(s) = 1 .. Len(s) - 1 /\ DOMAIN s = 1 .. Len(s) /\ Len(s) \in Nat \ {0}
      /\ Head(s) = s[1]
      /\ \A i \in 1 .. Len(s) - 1 : Tail(s)[i] = s[i + 1]
  OBVIOUS
<1>2. Ordered(Tail(s))
  <2> SUFFICES ASSUME NEW i \in 1 .. Len(s) - 1, NEW j \in 1 .. Len(s) - 1, i < j,
                      Tail(s)[i].from = Tail(s)[j].from
               PROVE  Tail(s)[i].n < Tail(s)[j].n
    BY <1>1 DEF Ordered
  <2>1. /\ Tail(s)[i] = s[i + 1] /\ Tail(s)[j] = s[j + 1]
        /\ i + 1 \in DOMAIN s /\ j + 1 \in DOMAIN s /\ i + 1 < j + 1
    BY <1>1
  <2> QED
    BY <2>1 DEF Ordered
<1>3. ASSUME NEW g \in Range(Tail(s))
      PROVE  g \in Range(s) /\ (g.from = Head(s).from => Head(s).n < g.n)
  <2>1. PICK i \in 1 .. Len(s) - 1 : g = s[i + 1]
    BY <1>1 DEF Range
  <2>2. i + 1 \in DOMAIN s /\ 1 \in DOMAIN s /\ 1 < i + 1
    BY <1>1
  <2> QED
    BY <1>1, <2>1, <2>2 DEF Ordered, Range
<1>4. Head(s) \in Frames /\ Head(s) \in Range(s)
  <2>1. s[1] \in Frames /\ 1 \in DOMAIN s
    BY <1>1
  <2> QED
    BY <1>1, <2>1 DEF Range
<1> QED
  BY <1>2, <1>3, <1>4

LEMMA EmptyIsOrdered == Ordered(<<>>) /\ Range(<<>>) = {}
BY DEF Ordered, Range

\* The elements of a sequence of frames are frames.
LEMMA RangeIsTyped ==
    ASSUME NEW s \in Seq(Frames)
    PROVE  Range(s) \subseteq Frames
BY DEF Range

\* A step that sends, broadcasts, writes and delivers nothing.
Quietly ==
    /\ \A q \in Procs : LastSent(q) <= LastSent(q)'
    /\ \A c \in Conns :
         /\ up'[c] \in {up[c], <<>>} /\ down'[c] \in {down[c], <<>>}
         /\ cast'[c].left \subseteq cast[c].left
         /\ cast'[c].frame = cast[c].frame \/ cast'[c].left = {}
    /\ \A p \in Procs : heard'[p] \in {heard[p], <<>>}

\* Such a step loses nothing of the order.
LEMMA QuietlyInOrder ==
    ASSUME TypeOK, TypeOK', InOrder, Quietly
    PROVE  InOrder'
<1> USE ConnsAreDistinct, EmptyIsOrdered
<1>1. \A q \in Procs : LastSent(q) \in Int /\ LastSent(q)' \in Int /\ LastSent(q) <= LastSent(q)'
  BY DEF TypeOK, CallsOK, LastSent, Quietly
<1>2. \A c \in Conns : /\ up'[c] \in {up[c], <<>>} /\ Range(up'[c]) \subseteq Range(up[c])
                       /\ down'[c] \in {down[c], <<>>} /\ Range(down'[c]) \subseteq Range(down[c])
                       /\ cast'[c].left \subseteq cast[c].left
                       /\ cast'[c].frame = cast[c].frame \/ cast'[c].left = {}
  BY DEF Quietly
<1>3. \A p \in Procs : heard'[p] \in {heard[p], <<>>} /\ Range(heard'[p]) \subseteq Range(heard[p])
  BY DEF Quietly
<1>4. \A c \in Conns : \A f \in Range(up[c]) \cup Range(down[c]) : f \in Frames
  BY RangeIsTyped DEF TypeOK, WiresOK
<1>5. \A p \in Procs : \A f \in Range(heard[p]) : f \in Frames
  BY RangeIsTyped DEF TypeOK, WiresOK
<1> HIDE DEF LastSent
<1>6. SentInOrder'
  <2> SUFFICES ASSUME NEW c \in Conns
               PROVE  Ordered(up'[c]) /\ \A f \in Range(up'[c]) : f.from = c[1] /\ f.n <= LastSent(c[1])'
    BY DEF SentInOrder
  <2>1. Ordered(up'[c])
    BY <1>2 DEF InOrder, SentInOrder
  <2>2. ASSUME NEW f \in Range(up'[c]) PROVE f.from = c[1] /\ f.n <= LastSent(c[1])'
    <3>1. f \in Frames /\ f.from = c[1] /\ f.n <= LastSent(c[1])
      BY <1>2, <1>4 DEF InOrder, SentInOrder
    <3>2. c[1] \in Procs /\ f.n \in Nat
      BY <3>1 DEF Frames
    <3> QED
      BY <1>1, <3>1, <3>2
  <2> QED
    BY <2>1, <2>2
<1>7. CastInOrder'
  <2> SUFFICES ASSUME NEW c \in Conns, cast'[c].left # {}
               PROVE  \E f \in Frames :
                         /\ cast'[c].frame = <<f>> /\ f.from = c[1] /\ f.n <= LastSent(c[1])'
                         /\ \A g \in Range(up'[c]) : f.n < g.n
    BY DEF CastInOrder
  <2>1. PICK f \in Frames : /\ cast[c].frame = <<f>> /\ f.from = c[1] /\ f.n <= LastSent(c[1])
                            /\ \A g \in Range(up[c]) : f.n < g.n
    BY <1>2 DEF InOrder, CastInOrder
  <2>2. c[1] \in Procs /\ f.n \in Nat
    BY <2>1 DEF Frames
  <2>3. f.n <= LastSent(c[1])'
    BY <1>1, <2>1, <2>2
  <2> QED
    BY <1>2, <2>1, <2>3
<1>8. GotInOrder'
  <2>1. \A p \in Procs : Ordered(heard'[p])
    BY <1>3 DEF InOrder, GotInOrder
  <2>2. ASSUME NEW p \in Subscribers
        PROVE  /\ Ordered(down'[Sub(p)])
               /\ \A f \in Range(heard'[p]), g \in Range(down'[Sub(p)]) :
                     f.from = g.from => f.n < g.n
    BY <1>2, <1>3 DEF InOrder, GotInOrder, Procs
  <2>3. ASSUME NEW p \in Subscribers, NEW g \in Got(p)'
        PROVE  /\ g.n <= LastSent(g.from)'
               /\ \A c \in Conns : c[1] = g.from =>
                    /\ \A f \in Range(up'[c]) : g.n < f.n
                    /\ \A f \in Frames : Sub(p) \in cast'[c].left /\ cast'[c].frame = <<f>> => g.n < f.n
    <3>1. g \in Got(p) /\ g \in Frames
      BY <1>2, <1>3, <1>4, <1>5 DEF Got, Procs
    <3>2. g.n \in Nat /\ g.from \in Procs /\ g.n <= LastSent(g.from)
      BY <3>1 DEF Frames, InOrder, GotInOrder
    <3>3. g.n <= LastSent(g.from)'
      BY <1>1, <3>2
    <3>4. ASSUME NEW c \in Conns, c[1] = g.from
          PROVE  /\ \A f \in Range(up'[c]) : g.n < f.n
                 /\ \A f \in Frames : Sub(p) \in cast'[c].left /\ cast'[c].frame = <<f>> => g.n < f.n
      BY <1>2, <3>1, <3>4 DEF InOrder, GotInOrder
    <3> QED
      BY <3>3, <3>4
  <2> QED
    BY <2>1, <2>2, <2>3 DEF GotInOrder
<1> QED
  BY <1>6, <1>7, <1>8 DEF InOrder

\* What a call may still send only grows.
LEMMA LastGrows ==
    ASSUME CallsOK, NEW p \in Procs, published' = published,
           op'[p] = op[p] \/ op'[p] = "none",
           \A q \in Procs \ {p} : op'[q] = op[q]
    PROVE  \A q \in Procs : LastSent(q) <= LastSent(q)'
BY DEF CallsOK, LastSent

\* A publisher's frame joins the end of its connection.
LEMMA SendInOrder ==
    ASSUME TypeOK, TypeOK', Connected, Delivered, InOrder, NEW p \in Procs, Send(p)
    PROVE  InOrder'
<1> USE ConnsAreDistinct DEF TypeOK
<1>1. /\ UNCHANGED <<down, cast, heard, published>> /\ pc[p] = "sending" /\ op[p] = "pub"
      /\ p \in Publishers /\ Pub(p) \in Conns /\ published[p] \in Nat
  BY DEF Send, At, files, servers, counts, Connected, SubscribersListen, CallsOK
<1>2. Retry(p) \/ Return(p)
  BY DEF Send
<1>3. (op'[p] = op[p] \/ op'[p] = "none") /\ \A q \in Procs \ {p} : op'[q] = op[q]
  BY <1>2, RetryEffect, ReturnEffect DEF Others
<1>4. \A q \in Procs : LastSent(q) <= LastSent(q)'
  BY <1>1, <1>3, LastGrows
<1>5. CASE up' = up
  BY <1>1, <1>4, <1>5, QuietlyInOrder DEF Quietly
<1>6. CASE up' = [up EXCEPT ![Pub(p)] = Append(@, [from |-> p, n |-> published[p]])] /\ Return(p)
  <2> DEFINE c == Pub(p)
             f == [from |-> p, n |-> published[p]]
  <2>1. /\ f \in Frames /\ f.from = p /\ f.n = published[p] /\ c[1] = p
        /\ up[c] \in Seq(Frames)
    BY <1>1 DEF Frames, Pub, WiresOK
  <2>2. LastSent(p) = published[p] - 1 /\ LastSent(p)' = published[p]
    BY <1>1, <1>6, ReturnEffect DEF LastSent
  <2>3. /\ up'[c] = Append(up[c], f)
        /\ \A r \in Conns \ {c} : up'[r] = up[r]
    BY <1>1, <1>6 DEF WiresOK
  <2> HIDE DEF f
  <2>4. Range(up'[c]) = Range(up[c]) \cup {f}
    BY <2>1, <2>3, RangeOfAppend
  <2>5. \A g \in Range(up[c]) : g \in Frames /\ g.from = p /\ g.n <= LastSent(p)
    BY <1>1, <2>1, RangeIsTyped DEF InOrder, SentInOrder
  <2>6. \A g \in Range(up[c]) : g.n \in Nat /\ g.n < f.n
    BY <1>1, <2>1, <2>2, <2>5 DEF Frames
  <2>7. Ordered(up'[c])
    BY <1>1, <2>1, <2>3, <2>6, OrderedAppend DEF InOrder, SentInOrder
  \* The connections of other processes, and frames of others, are as they were.
  <2>8. \A r \in Conns \ {c} : up[r] # <<>> => r[1] # p
    BY <1>1 DEF Delivered, PublishersCast, Pubs, Pub
  <2>9. \A q \in Procs \ {p} : LastSent(q)' = LastSent(q)
    BY <1>1, <1>3 DEF LastSent
  <2>10. SentInOrder'
    <3>1. \A r \in Conns \ {c} : Range(up[r]) # {} => r[1] # p
      BY <2>8, EmptyIsOrdered
    <3>2. ASSUME NEW r \in Conns \ {c}
          PROVE  Ordered(up'[r]) /\ \A g \in Range(up'[r]) : g.from = r[1] /\ g.n <= LastSent(r[1])'
      BY <2>3, <2>9, <3>1, <3>2 DEF InOrder, SentInOrder
    <3>3. \A g \in Range(up'[c]) : g.from = c[1] /\ g.n <= LastSent(c[1])'
      BY <1>1, <2>1, <2>2, <2>4, <2>5, <2>6
    <3> QED
      BY <2>7, <3>2, <3>3 DEF SentInOrder
  <2>11. CastInOrder'
    <3> SUFFICES ASSUME NEW r \in Conns, cast[r].left # {}
                 PROVE  \E g \in Frames :
                           /\ cast[r].frame = <<g>> /\ g.from = r[1] /\ g.n <= LastSent(r[1])'
                           /\ \A h \in Range(up'[r]) : g.n < h.n
      BY <1>1 DEF CastInOrder
    <3>1. PICK g \in Frames : /\ cast[r].frame = <<g>> /\ g.from = r[1] /\ g.n <= LastSent(r[1])
                              /\ \A h \in Range(up[r]) : g.n < h.n
      BY DEF InOrder, CastInOrder
    <3>2. g.n \in Nat /\ r[1] \in Procs
      BY DEF Frames
    <3>3. g.n <= LastSent(r[1])'
      BY <1>1, <2>2, <2>9, <3>1, <3>2
    <3>4. CASE r = c
      <4>1. g.n < f.n
        BY <1>1, <2>1, <2>2, <3>1, <3>2, <3>4
      <4> QED
        BY <2>4, <3>1, <3>3, <3>4, <4>1
    <3>5. CASE r # c
      BY <2>3, <3>1, <3>3, <3>5
    <3> QED
      BY <3>4, <3>5
  <2>12. GotInOrder'
    <3>1. ASSUME NEW q \in Subscribers, NEW g \in Got(q)
          PROVE  /\ g.n <= LastSent(g.from)'
                 /\ \A r \in Conns : r[1] = g.from =>
                      /\ \A h \in Range(up'[r]) : g.n < h.n
                      /\ \A h \in Frames : Sub(q) \in cast[r].left /\ cast[r].frame = <<h>> => g.n < h.n
      <4>1. g \in Frames
        BY RangeIsTyped DEF Got, WiresOK, Procs
      <4>2. g.n \in Nat /\ g.from \in Procs /\ g.n <= LastSent(g.from)
        BY <4>1 DEF Frames, InOrder, GotInOrder
      <4>3. g.n <= LastSent(g.from)'
        BY <1>1, <2>2, <2>9, <4>2
      <4>4. ASSUME NEW r \in Conns, r[1] = g.from, NEW h \in Range(up'[r]) PROVE g.n < h.n
        <5>1. CASE h \in Range(up[r])
          BY <4>4, <5>1 DEF InOrder, GotInOrder
        <5>2. CASE h \notin Range(up[r])
          <6>1. r = c /\ h = f
            BY <2>3, <2>4, <4>4, <5>2
          <6> QED
            BY <1>1, <2>1, <2>2, <4>2, <4>4, <6>1
        <5> QED
          BY <5>1, <5>2
      <4>5. ASSUME NEW r \in Conns, r[1] = g.from, NEW h \in Frames,
                   Sub(q) \in cast[r].left, cast[r].frame = <<h>>
            PROVE  g.n < h.n
        BY <4>5 DEF InOrder, GotInOrder
      <4> QED
        BY <4>3, <4>4, <4>5
    <3> QED
      BY <1>1, <3>1 DEF InOrder, GotInOrder, Got
  <2> QED
    BY <2>10, <2>11, <2>12 DEF InOrder
<1> QED
  BY <1>5, <1>6 DEF Send

\* A broadcast takes the first frame of a connection.
LEMMA BroadcastInOrder ==
    ASSUME TypeOK, TypeOK', Delivered, InOrder, NEW c \in Conns, Broadcast(c)
    PROVE  InOrder'
<1> USE ConnsAreDistinct DEF TypeOK
<1> DEFINE f == Head(up[c])
<1>1. /\ UNCHANGED <<down, heard, published, op>> /\ up[c] \in Seq(Frames) /\ up[c] # <<>>
      /\ up'[c] = Tail(up[c]) /\ cast'[c].frame = <<f>>
      /\ \A r \in Conns \ {c} : up'[r] = up[r] /\ cast'[r] = cast[r]
  BY DEF Broadcast, calls, counts, WiresOK
<1>2. /\ Ordered(up'[c]) /\ f \in Frames /\ f \in Range(up[c])
      /\ Range(up'[c]) \subseteq Range(up[c])
      /\ \A g \in Range(up'[c]) : g.from = f.from => f.n < g.n
  BY <1>1, OrderedTail DEF InOrder, SentInOrder
<1>3. \A g \in Range(up[c]) : g.from = c[1] /\ g.n <= LastSent(c[1])
  BY DEF InOrder, SentInOrder
<1>4. \A q \in Procs : LastSent(q)' = LastSent(q)
  BY <1>1 DEF LastSent
<1> HIDE DEF f, LastSent
<1>5. SentInOrder'
  BY <1>1, <1>2, <1>4 DEF InOrder, SentInOrder
<1>6. CastInOrder'
  <2>1. /\ f.from = c[1] /\ f.n <= LastSent(c[1])'
        /\ \A g \in Range(up'[c]) : f.n < g.n
    BY <1>2, <1>3, <1>4
  <2> QED
    BY <1>1, <1>2, <1>4, <2>1 DEF InOrder, CastInOrder
<1>7. GotInOrder'
  <2>1. ASSUME NEW q \in Subscribers, NEW g \in Got(q)
        PROVE  /\ g.n <= LastSent(g.from)'
               /\ \A r \in Conns : r[1] = g.from =>
                    /\ \A h \in Range(up'[r]) : g.n < h.n
                    /\ \A h \in Frames : Sub(q) \in cast'[r].left /\ cast'[r].frame = <<h>> => g.n < h.n
    <3>1. g \in Frames
      BY RangeIsTyped DEF Got, WiresOK, Procs
    <3>2. g.n <= LastSent(g.from)'
      BY <1>4, <3>1 DEF Frames, InOrder, GotInOrder
    <3>3. ASSUME NEW r \in Conns, r[1] = g.from
          PROVE  /\ \A h \in Range(up'[r]) : g.n < h.n
                 /\ \A h \in Frames : Sub(q) \in cast'[r].left /\ cast'[r].frame = <<h>> => g.n < h.n
      <4>1. CASE r # c
        BY <1>1, <3>3, <4>1 DEF InOrder, GotInOrder
      <4>2. CASE r = c
        <5>1. \A h \in Range(up[c]) : g.n < h.n
          BY <3>3, <4>2 DEF InOrder, GotInOrder
        <5>2. \A h \in Frames : cast'[r].frame = <<h>> => h = f
          BY <1>1, <4>2
        <5> QED
          BY <1>2, <4>2, <5>1, <5>2
      <4> QED
        BY <4>1, <4>2
    <3> QED
      BY <3>2, <3>3
  <2> QED
    BY <1>1, <2>1 DEF InOrder, GotInOrder, Got
<1> QED
  BY <1>5, <1>6, <1>7 DEF InOrder

\* A write puts the frame of a broadcast behind what the subscriber has.
LEMMA WriteInOrder ==
    ASSUME TypeOK, TypeOK', Delivered, InOrder, NEW c \in Conns, NEW t \in Subs, Write(c, t)
    PROVE  InOrder'
<1> USE ConnsAreDistinct DEF TypeOK
<1>1. UNCHANGED <<up, heard, published, op>>
  BY DEF Write, calls, counts, history
<1>2. /\ t \in cast[c].left
      /\ cast'[c].left = cast[c].left \ {t} /\ cast'[c].frame = cast[c].frame
      /\ down' = down \/ down' = [down EXCEPT ![t] = @ \o cast[c].frame]
      /\ \A r \in Conns \ {c} : cast'[r] = cast[r]
  BY WriteEffect
<1>3. \A q \in Procs : LastSent(q)' = LastSent(q) /\ LastSent(q) \in Int
  BY <1>1 DEF LastSent, CallsOK
<1> HIDE DEF LastSent
<1>4. CASE down' = down
  <2>1. Quietly
    BY <1>1, <1>2, <1>3, <1>4 DEF Quietly
  <2> QED
    BY <2>1, QuietlyInOrder
<1>5. CASE down' = [down EXCEPT ![t] = @ \o cast[c].frame]
  <2>1. PICK f \in Frames : /\ cast[c].frame = <<f>> /\ f.from = c[1] /\ f.n <= LastSent(c[1])
                            /\ \A g \in Range(up[c]) : f.n < g.n
    BY <1>2 DEF InOrder, CastInOrder
  <2>2. PICK p \in Subscribers : t = Sub(p)
    BY DEF Subs
  <2>3. /\ down[t] \in Seq(Frames) /\ t \in Conns
        /\ down'[t] = Append(down[t], f)
        /\ \A r \in Conns \ {t} : down'[r] = down[r]
    BY <1>5, <2>1 DEF WiresOK
  <2>4. Range(down'[t]) = Range(down[t]) \cup {f}
    BY <2>3, RangeOfAppend
  <2>5. \A g \in Got(p) : g.from = f.from => g.n < f.n
    BY <1>2, <2>1, <2>2 DEF InOrder, GotInOrder
  <2>6. Ordered(down'[t])
    <3>1. Ordered(down[t])
      BY <2>2 DEF InOrder, GotInOrder
    <3> QED
      BY <2>2, <2>3, <2>5, <3>1, OrderedAppend DEF Got
  <2>7. \A q \in Subscribers \ {p} : Sub(q) \in Conns /\ Sub(q) # t
    BY <2>2 DEF Sub
  <2>8. /\ SentInOrder' /\ CastInOrder'
    BY <1>1, <1>2, <1>3 DEF InOrder, SentInOrder, CastInOrder
  <2>9. \A q \in Subscribers :
          /\ Ordered(down'[Sub(q)])
          /\ \A g \in Range(heard[q]), h \in Range(down'[Sub(q)]) : g.from = h.from => g.n < h.n
    <3>1. ASSUME NEW q \in Subscribers \ {p}
          PROVE  /\ Ordered(down'[Sub(q)])
                 /\ \A g \in Range(heard[q]), h \in Range(down'[Sub(q)]) : g.from = h.from => g.n < h.n
      BY <2>3, <2>7, <3>1 DEF InOrder, GotInOrder
    <3>2. \A g \in Range(heard[p]), h \in Range(down'[t]) : g.from = h.from => g.n < h.n
      BY <2>2, <2>4, <2>5 DEF InOrder, GotInOrder, Got
    <3> QED
      BY <2>2, <2>6, <3>1, <3>2
  <2>10. ASSUME NEW q \in Subscribers, NEW g \in Got(q)'
         PROVE  /\ g.n <= LastSent(g.from)'
                /\ \A r \in Conns : r[1] = g.from =>
                     /\ \A h \in Range(up[r]) : g.n < h.n
                     /\ \A h \in Frames : Sub(q) \in cast'[r].left /\ cast'[r].frame = <<h>> => g.n < h.n
    <3>1. CASE g \in Got(q)
      <4>1. g \in Frames
        BY <3>1, RangeIsTyped DEF Got, WiresOK, Procs
      <4>2. g.n <= LastSent(g.from)'
        BY <1>3, <3>1, <4>1 DEF Frames, InOrder, GotInOrder
      <4> QED
        BY <1>2, <3>1, <4>2 DEF InOrder, GotInOrder
    <3>2. CASE g \notin Got(q)
      <4>1. q = p /\ g = f
        <5>1. Got(q)' = Range(heard[q]) \cup Range(down'[Sub(q)])
          BY <1>1 DEF Got
        <5>2. CASE q # p
          BY <2>3, <2>7, <2>10, <3>2, <5>1, <5>2 DEF Got
        <5>3. CASE q = p
          BY <2>2, <2>4, <2>10, <3>2, <5>1, <5>3 DEF Got
        <5> QED
          BY <5>2, <5>3
      <4>2. c \in Pubs
        BY <1>2 DEF Delivered, PublishersCast
      <4>3. ASSUME NEW r \in Conns, r[1] = f.from, r # c
            PROVE  up[r] = <<>> /\ cast[r].left = {}
        BY <2>1, <4>2, <4>3 DEF Delivered, PublishersCast, Pubs, Pub
      <4>4. ASSUME NEW r \in Conns, r[1] = f.from, r # c
            PROVE  Range(up[r]) = {} /\ cast'[r].left = {}
        BY <1>2, <4>3, <4>4, EmptyIsOrdered
      <4>5. t \notin cast'[c].left
        BY <1>2
      <4> QED
        BY <1>3, <2>1, <2>2, <4>1, <4>4, <4>5
    <3> QED
      BY <3>1, <3>2
  <2>11. GotInOrder'
    <3>1. \A q \in Procs : Ordered(heard'[q])
      BY <1>1 DEF InOrder, GotInOrder
    <3> HIDE DEF InOrder, SentInOrder, CastInOrder
    <3> QED
      BY <1>1, <2>9, <2>10, <3>1 DEF GotInOrder
  <2> QED
    BY <2>8, <2>11 DEF InOrder
<1> QED
  BY <1>2, <1>4, <1>5

\* A subscriber hears the first frame it was written.
LEMMA ReceiveInOrder ==
    ASSUME TypeOK, TypeOK', InOrder, NEW p \in Procs, Receive(p)
    PROVE  InOrder'
<1> USE ConnsAreDistinct DEF TypeOK
<1> DEFINE t == Sub(p)
           f == Head(down[t])
<1>1. /\ UNCHANGED <<up, cast, published, op>>
      /\ p \in Subscribers /\ t \in Conns /\ down[t] \in Seq(Frames) /\ down[t] # <<>>
      /\ heard[p] \in Seq(Frames)
  BY DEF Receive, At, calls, counts, CallsOK, WiresOK
<1>2. /\ down'[t] = Tail(down[t]) /\ heard'[p] = Append(heard[p], f)
      /\ \A r \in Conns \ {t} : down'[r] = down[r]
      /\ \A q \in Procs \ {p} : heard'[q] = heard[q]
  BY <1>1 DEF Receive, WiresOK
<1>3. /\ Ordered(down'[t]) /\ f \in Frames /\ f \in Range(down[t])
      /\ Range(down'[t]) \subseteq Range(down[t])
      /\ \A g \in Range(down'[t]) : g.from = f.from => f.n < g.n
  BY <1>1, <1>2, OrderedTail DEF InOrder, GotInOrder
<1> HIDE DEF f
<1>4. /\ Range(heard'[p]) = Range(heard[p]) \cup {f}
      /\ \A g \in Range(heard[p]) : g.from = f.from => g.n < f.n
  BY <1>1, <1>2, <1>3, RangeOfAppend DEF InOrder, GotInOrder
<1>5. Ordered(heard'[p])
  BY <1>1, <1>2, <1>3, <1>4, OrderedAppend DEF InOrder, GotInOrder
<1>6. \A q \in Procs : LastSent(q)' = LastSent(q)
  BY <1>1 DEF LastSent
<1>7. \A q \in Subscribers \ {p} : Sub(q) \in Conns /\ Sub(q) # t /\ q \in Procs
  BY DEF Sub, Procs
<1> HIDE DEF LastSent
<1>8. SentInOrder' /\ CastInOrder'
  BY <1>1, <1>6 DEF InOrder, SentInOrder, CastInOrder
<1>9. \A q \in Subscribers : Got(q)' \subseteq Got(q)
  BY <1>2, <1>3, <1>4, <1>7 DEF Got
<1>10. \A q \in Procs : Ordered(heard'[q])
  BY <1>2, <1>5 DEF InOrder, GotInOrder
<1>11. ASSUME NEW q \in Subscribers
       PROVE  /\ Ordered(down'[Sub(q)])
              /\ \A g \in Range(heard'[q]), h \in Range(down'[Sub(q)]) : g.from = h.from => g.n < h.n
  <2>1. CASE q = p
    BY <1>1, <1>3, <1>4, <2>1 DEF InOrder, GotInOrder
  <2>2. CASE q # p
    BY <1>2, <1>7, <2>2 DEF InOrder, GotInOrder
  <2> QED
    BY <2>1, <2>2
<1>12. ASSUME NEW q \in Subscribers, NEW g \in Got(q)
       PROVE  /\ g.n <= LastSent(g.from)'
              /\ \A c \in Conns : c[1] = g.from =>
                   /\ \A h \in Range(up'[c]) : g.n < h.n
                   /\ \A h \in Frames : Sub(q) \in cast'[c].left /\ cast'[c].frame = <<h>> => g.n < h.n
  <2>1. g \in Frames
    BY RangeIsTyped DEF Got, WiresOK, Procs
  <2>2. g.from \in Procs
    BY <2>1 DEF Frames
  <2> QED
    BY <1>1, <1>6, <2>1, <2>2 DEF InOrder, GotInOrder
<1>13. GotInOrder'
  BY <1>9, <1>10, <1>11, <1>12 DEF GotInOrder
<1> QED
  BY <1>8, <1>13 DEF InOrder

\* Every step keeps the order.
LEMMA StepInOrder ==
    TypeOK /\ TypeOK' /\ Connected /\ Delivered /\ InOrder /\ [Next]_vars => InOrder'
<1> SUFFICES ASSUME TypeOK, TypeOK', Connected, Delivered, InOrder, [Next]_vars PROVE InOrder'
  OBVIOUS
<1> USE ConnsAreDistinct DEF TypeOK, files, servers, calls, wires, counts, history, At
<1>1. CASE Quietly
  BY <1>1, QuietlyInOrder
<1>2. ASSUME UNCHANGED <<up, down, cast, heard>>, \A q \in Procs : LastSent(q) <= LastSent(q)'
      PROVE  InOrder'
  <2>1. Quietly
    BY <1>2 DEF Quietly
  <2> QED
    BY <1>1, <2>1
<1>3. ASSUME UNCHANGED <<up, down, cast, heard, published, op>> PROVE InOrder'
  <2>1. \A q \in Procs : LastSent(q) <= LastSent(q)'
    BY <1>3 DEF LastSent, CallsOK
  <2> QED
    BY <1>2, <1>3, <2>1
<1>4. ASSUME NEW p \in Procs, Publish(p) PROVE InOrder'
  <2>1. /\ UNCHANGED <<up, down, cast, heard>> /\ op[p] = "none"
        /\ op' = [op EXCEPT ![p] = "pub"] /\ published' = [published EXCEPT ![p] = @ + 1]
    BY <1>4 DEF Publish, Begin, CallsOK
  <2>2. \A q \in Procs : LastSent(q) <= LastSent(q)'
    <3>1. LastSent(p) = published[p] /\ LastSent(p)' = published[p] /\ published[p] \in Nat
      BY <2>1 DEF LastSent, CallsOK
    <3>2. \A q \in Procs \ {p} : LastSent(q)' = LastSent(q) /\ LastSent(q) \in Int
      BY <2>1 DEF LastSent, CallsOK
    <3> HIDE DEF LastSent
    <3> QED
      BY <3>1, <3>2
  <2> QED
    BY <1>2, <2>1, <2>2
<1>5. ASSUME NEW p \in Procs, Subscribe(p) PROVE InOrder'
  <2>1. /\ UNCHANGED <<up, down, cast, heard, published>> /\ op[p] = "none"
        /\ op' = [op EXCEPT ![p] = "sub"]
    BY <1>5 DEF Subscribe, Begin, CallsOK
  <2>2. \A q \in Procs : LastSent(q) <= LastSent(q)'
    BY <2>1 DEF LastSent, CallsOK
  <2> QED
    BY <1>2, <2>1, <2>2
<1>6. ASSUME NEW p \in Procs,
             EnsureBroker(p) \/ Lock(p) \/ Probe(p) \/ UnlinkStale(p) \/ Bind(p) \/ RecordPid(p)
               \/ PidReused(p)
      PROVE  InOrder'
  <2>1. UNCHANGED <<up, down, cast, heard, published, op>>
    BY <1>6 DEF EnsureBroker, Lock, Probe, UnlinkStale, Bind, RecordPid, PidReused, Goto
  <2> QED
    BY <1>3, <2>1
<1>7. ASSUME NEW p \in Procs, Attach(p) PROVE InOrder'
  <2>1. UNCHANGED <<up, down, cast, heard, published>>
    BY <1>7 DEF Attach
  <2>2. \E place : Goto(p, place) \/ Return(p) \/ Retry(p)
    BY <1>7 DEF Attach
  <2>3. (op'[p] = op[p] \/ op'[p] = "none") /\ \A q \in Procs \ {p} : op'[q] = op[q]
    BY <2>2, GotoEffect, RetryEffect, ReturnEffect DEF Others
  <2> QED
    BY <1>2, <2>1, <2>3, LastGrows
<1>8. ASSUME NEW p \in Procs, Send(p) PROVE InOrder'
  BY <1>8, SendInOrder
<1>9. ASSUME NEW p \in Procs, Receive(p) PROVE InOrder'
  BY <1>9, ReceiveInOrder
<1>10. ASSUME NEW p \in Procs, EndOfStream(p) \/ KeyboardInterrupt(p) PROVE InOrder'
  <2>1. /\ Close(Sub(p)) /\ Sub(p) \in Conns /\ UNCHANGED <<up, heard, published>>
        /\ Leave(p, "idle")
    BY <1>10 DEF EndOfStream, KeyboardInterrupt, CallsOK
  <2>2. \A q \in Procs : LastSent(q) <= LastSent(q)'
    BY <2>1, LeaveEffect, LastGrows
  <2>3. down' = [down EXCEPT ![Sub(p)] = <<>>]
    BY <2>1 DEF Close
  <2>4. Quietly
    BY <2>1, <2>2, <2>3, CloseEffect DEF Quietly, WiresOK
  <2> QED
    BY <1>1, <2>4
<1>11. ASSUME NEW p \in Procs, NEW gone, ListenerGone(p, gone), published' = published,
              \E place : Leave(p, place),
              \A q \in Procs : heard'[q] \in {heard[q], <<>>}
       PROVE  InOrder'
  <2> DEFINE cutoff == {c \in Conns : peer[c] = p /\ phase[c] # "none"}
  <2>1. \A q \in Procs : LastSent(q) <= LastSent(q)'
    BY <1>11, LeaveEffect, LastGrows
  <2>2. \A c \in Conns : up'[c] \in {up[c], <<>>} /\ down'[c] \in {down[c], <<>>}
    BY <1>11 DEF ListenerGone
  <2>3. ASSUME NEW c \in Conns
        PROVE  /\ cast'[c].left \subseteq cast[c].left
               /\ cast'[c].frame = cast[c].frame \/ cast'[c].left = {}
    <3>1. CASE c \in cutoff
      <4>1. cast'[c] = Quiet
        BY <1>11, <3>1, Zenon DEF ListenerGone
      <4> QED
        BY <4>1, QuietIsEmpty
    <3>2. CASE c \notin cutoff
      <4>1. cast'[c] = [cast[c] EXCEPT !.left = @ \ gone, !.dead = @ \ gone]
        BY <1>11, <3>2, Zenon DEF ListenerGone
      <4>2. cast[c] \in [frame : Seq(Frames), left : SUBSET Subs, dead : SUBSET Subs]
        BY DEF WiresOK
      <4> QED
        BY <4>1, <4>2, CastWithout
    <3> QED
      BY <3>1, <3>2
  <2>4. Quietly
    BY <1>11, <2>1, <2>2, <2>3 DEF Quietly
  <2> QED
    BY <1>1, <2>4
<1>12. ASSUME NEW p \in Procs, RecordFails(p) PROVE InOrder'
  BY <1>11, <1>12 DEF RecordFails
<1>13. ASSUME NEW p \in Procs, Die(p) PROVE InOrder'
  <2>1. \A q \in Procs : heard'[q] \in {heard[q], <<>>}
    BY <1>13 DEF Die, WiresOK
  <2> QED
    BY <1>11, <1>13, <2>1 DEF Die
<1>14. ASSUME NEW c \in Conns, Accept(c) \/ Disconnected(c) PROVE InOrder'
  <2>1. UNCHANGED <<up, down, cast, heard, published, op>>
    BY <1>14 DEF Accept, Disconnected
  <2> QED
    BY <1>3, <2>1
<1>15. ASSUME NEW c \in Conns, Broadcast(c) PROVE InOrder'
  BY <1>15, BroadcastInOrder
<1>16. ASSUME NEW c \in Conns, NEW t \in Subs, Write(c, t) PROVE InOrder'
  BY <1>16, WriteInOrder
<1>17. ASSUME NEW c \in Conns, Evict(c) PROVE InOrder'
  <2>1. /\ UNCHANGED <<up, down, heard, published, op>> /\ cast'[c] = Quiet
        /\ \A r \in Conns \ {c} : cast'[r] = cast[r]
    BY <1>17 DEF Evict, WiresOK
  <2>2. \A q \in Procs : LastSent(q) <= LastSent(q)'
    BY <2>1 DEF LastSent, CallsOK
  <2>3. Quietly
    BY <2>1, <2>2, QuietIsEmpty DEF Quietly
  <2> QED
    BY <1>1, <2>3
<1>18. CASE UNCHANGED vars
  BY <1>3, <1>18 DEF vars
<1> QED
  BY <1>4, <1>5, <1>6, <1>7, <1>8, <1>9, <1>10, <1>12, <1>13, <1>14, <1>15, <1>16, <1>17, <1>18
     DEF Next, Step, Environment, Serve

\* A subscriber gets each publisher's frames in order and none twice, for any
\* number of processes, retries and elections (bus.py:362-400, 630-667).
THEOREM EachPublisherInOrderTheorem == Spec => []EachPublisherInOrder
<1>1. Init => InOrder
  <2> SUFFICES ASSUME Init PROVE InOrder
    OBVIOUS
  <2>1. /\ \A c \in Conns : up[c] = <<>> /\ down[c] = <<>> /\ cast[c].left = {}
        /\ \A p \in Procs : heard[p] = <<>>
    BY QuietIsEmpty DEF Init
  <2>2. \A p \in Subscribers : Sub(p) \in Conns /\ p \in Procs
    BY ConnsAreDistinct DEF Procs
  <2>3. SentInOrder /\ CastInOrder
    BY <2>1, EmptyIsOrdered DEF SentInOrder, CastInOrder
  <2>4. GotInOrder
    BY <2>1, <2>2, EmptyIsOrdered DEF GotInOrder, Got
  <2> QED
    BY <2>3, <2>4 DEF InOrder
<1>2. InOrder => EachPublisherInOrder
  BY DEF InOrder, GotInOrder, Ordered, EachPublisherInOrder
<1> QED
  BY <1>1, <1>2, InductiveInvariant, StepInOrder, PTL DEF Spec
-----------------------------------------------------------------------------
(* The branch claims.  What a table of lines says. *)

Records == [branch : Branches, agent : Agents]

\* A set of natural numbers has a least element, and a bounded one a largest.
LEMMA SmallestOf ==
    ASSUME NEW T, T \subseteq Nat, T # {}
    PROVE  \E x \in T : \A y \in T : x <= y
<1> DEFINE less == OpToRel(<, Nat)
<1>1. \A x, y \in Nat : x < y => <<x, y>> \in less
  BY DEF OpToRel
<1>2. IsWellFoundedOn(less, Nat)
  BY NatLessThanWellFounded
<1> HIDE DEF less
<1>3. PICK x \in T : \A y \in T : ~(<<y, x>> \in less)
  BY <1>2, WFMin
<1>4. \A y \in T : ~(y < x)
  BY <1>1, <1>3, Zenon
<1> QED
  BY <1>4

LEMMA LargestOf ==
    ASSUME NEW n \in Nat, NEW T \in SUBSET (1 .. n), T # {}
    PROVE  Max(T) \in T /\ \A y \in T : y <= Max(T)
<1> DEFINE below == {m \in Nat : \E x \in T : m = n - x}
<1>1. below \subseteq Nat /\ below # {}
  <2>1. PICK x \in T : TRUE
    OBVIOUS
  <2>2. n - x \in Nat
    BY <2>1
  <2> QED
    BY <2>1, <2>2
<1>2. PICK d \in below : \A e \in below : d <= e
  <2> HIDE DEF below
  <2> QED
    BY <1>1, SmallestOf
<1>3. PICK x \in T : d = n - x
  BY <1>2
<1>4. \A y \in T : x >= y
  <2> SUFFICES ASSUME NEW y \in T PROVE x >= y
    OBVIOUS
  <2>1. n - x <= n - y
    BY <1>2, <1>3
  <2> QED
    BY <2>1
<1>5. Max(T) \in T /\ \A y \in T : Max(T) >= y
  BY <1>4, Zenon DEF Max
<1> QED
  BY <1>5

\* The last line of a branch names its holder.
LEMMA HolderIs ==
    ASSUME NEW lines \in Seq(Records), NEW i \in 1 .. Len(lines),
           \A j \in 1 .. Len(lines) : i < j => lines[j].branch # lines[i].branch
    PROVE  Holder(lines, lines[i].branch) = lines[i].agent
<1> DEFINE b == lines[i].branch
           T == Positions(lines, b)
<1>1. DOMAIN lines = 1 .. Len(lines) /\ Len(lines) \in Nat
  OBVIOUS
<1>2. T \in SUBSET (1 .. Len(lines)) /\ i \in T
  BY <1>1 DEF Positions
<1>3. Max(T) \in T /\ \A y \in T : y <= Max(T)
  <2> HIDE DEF T
  <2> QED
    BY <1>1, <1>2, LargestOf
<1>4. Max(T) = i
  <2>1. Max(T) \in 1 .. Len(lines) /\ lines[Max(T)].branch = b
    BY <1>3 DEF Positions
  <2> HIDE DEF T
  <2> QED
    BY <1>1, <1>2, <1>3, <2>1
<1> QED
  BY <1>2, <1>4 DEF Holder

\* A branch that does not occur has no holder.
LEMMA HolderNone ==
    ASSUME NEW lines \in Seq(Records), NEW b, \A i \in 1 .. Len(lines) : lines[i].branch # b
    PROVE  Holder(lines, b) = NoAgent
<1>1. DOMAIN lines = 1 .. Len(lines)
  OBVIOUS
<1> QED
  BY <1>1 DEF Holder, Positions

\* A branch that occurs has a first line and a last.
LEMMA FirstAndLast ==
    ASSUME NEW lines \in Seq(Records), NEW b,
           \E k \in 1 .. Len(lines) : lines[k].branch = b
    PROVE  /\ \E i \in 1 .. Len(lines) :
                 /\ lines[i].branch = b
                 /\ \A j \in 1 .. i - 1 : lines[j].branch # b
           /\ \E i \in 1 .. Len(lines) :
                 /\ lines[i].branch = b
                 /\ \A j \in 1 .. Len(lines) : i < j => lines[j].branch # b
<1> DEFINE T == {i \in 1 .. Len(lines) : lines[i].branch = b}
<1>1. T \in SUBSET (1 .. Len(lines)) /\ T # {} /\ Len(lines) \in Nat /\ T \subseteq Nat
  OBVIOUS
<1>2. PICK low \in T : \A y \in T : low <= y
  <2> HIDE DEF T
  <2> QED
    BY <1>1, SmallestOf
<1>3. Max(T) \in T /\ \A y \in T : y <= Max(T)
  <2> HIDE DEF T
  <2> QED
    BY <1>1, LargestOf
<1>4. \A j \in 1 .. low - 1 : lines[j].branch # b
  <2> SUFFICES ASSUME NEW j \in 1 .. low - 1, lines[j].branch = b
               PROVE  FALSE
    OBVIOUS
  <2>1. j \in T /\ j < low
    BY <1>1, <1>2
  <2> QED
    BY <1>1, <1>2, <2>1
<1>5. \A j \in 1 .. Len(lines) : Max(T) < j => lines[j].branch # b
  <2> SUFFICES ASSUME NEW j \in 1 .. Len(lines), Max(T) < j, lines[j].branch = b
               PROVE  FALSE
    OBVIOUS
  <2>1. j \in T /\ Max(T) \in 1 .. Len(lines)
    BY <1>3
  <2>2. j <= Max(T)
    BY <1>3, <2>1
  <2> HIDE DEF T
  <2> QED
    BY <1>1, <2>1, <2>2
<1>6. low \in 1 .. Len(lines) /\ lines[low].branch = b
  BY <1>2
<1>7. Max(T) \in 1 .. Len(lines) /\ lines[Max(T)].branch = b
  BY <1>3
<1> HIDE DEF T
<1> QED
  BY <1>4, <1>5, <1>6, <1>7

\* A holder is an agent.
LEMMA HolderType ==
    ASSUME NEW lines \in Seq(Records), NEW b
    PROVE  /\ Holder(lines, b) \in Agents \cup {NoAgent}
           /\ Holder(lines, b) = NoAgent <=> \A i \in 1 .. Len(lines) : lines[i].branch # b
<1>1. CASE \E k \in 1 .. Len(lines) : lines[k].branch = b
  <2>1. PICK k \in 1 .. Len(lines) : lines[k].branch = b
    BY <1>1
  <2>2. PICK i \in 1 .. Len(lines) :
           /\ lines[i].branch = b
           /\ \A j \in 1 .. Len(lines) : i < j => lines[j].branch # b
    BY <1>1, FirstAndLast, Zenon
  <2>3. Holder(lines, b) = lines[i].agent
    BY <2>2, HolderIs
  <2>4. lines[i] \in Records
    OBVIOUS
  <2> QED
    BY <2>1, <2>3, <2>4, NoAgentIsNoAgent DEF Records
<1>2. CASE ~ \E k \in 1 .. Len(lines) : lines[k].branch = b
  BY <1>2, HolderNone
<1> QED
  BY <1>1, <1>2

\* No branch occurs twice.
IsDict(table) == \A i, j \in 1 .. Len(table) : i # j => table[i].branch # table[j].branch

\* A line that is appended changes the holder of its branch.
LEMMA AppendHolds ==
    ASSUME NEW lines \in Seq(Records), NEW b \in Branches, NEW a \in Agents
    PROVE  /\ Append(lines, Line(b, a)) \in Seq(Records)
           /\ \A c : Holder(Append(lines, Line(b, a)), c) = IF c = b THEN a ELSE Holder(lines, c)
<1> DEFINE longer == Append(lines, Line(b, a))
<1>1. Line(b, a) \in Records /\ Line(b, a).branch = b /\ Line(b, a).agent = a
  BY DEF Line, Records
<1>2. /\ longer \in Seq(Records) /\ Len(longer) = Len(lines) + 1 /\ Len(lines) \in Nat
      /\ \A i \in 1 .. Len(lines) : longer[i] = lines[i]
      /\ longer[Len(lines) + 1] = Line(b, a)
  BY <1>1
<1> HIDE DEF longer
<1>3. Holder(longer, b) = a
  <2>1. Len(lines) + 1 \in 1 .. Len(longer)
    BY <1>2
  <2>2. \A j \in 1 .. Len(longer) : ~(Len(lines) + 1 < j)
    BY <1>2
  <2> QED
    BY <1>1, <1>2, <2>1, <2>2, HolderIs
<1>4. ASSUME NEW c, c # b
      PROVE  Holder(longer, c) = Holder(lines, c)
  <2>1. \A j \in 1 .. Len(longer) : j \in 1 .. Len(lines) \/ j = Len(lines) + 1
    BY <1>2
  <2>2. CASE \A i \in 1 .. Len(lines) : lines[i].branch # c
    <3>1. \A i \in 1 .. Len(longer) : longer[i].branch # c
      BY <1>1, <1>2, <1>4, <2>1, <2>2
    <3> QED
      BY <1>2, <2>2, <3>1, HolderNone
  <2>3. CASE \E k \in 1 .. Len(lines) : lines[k].branch = c
    <3>1. PICK i \in 1 .. Len(lines) :
             /\ lines[i].branch = c
             /\ \A j \in 1 .. Len(lines) : i < j => lines[j].branch # c
      BY <2>3, FirstAndLast
    <3>2. /\ i \in 1 .. Len(longer) /\ longer[i].branch = c
          /\ \A j \in 1 .. Len(longer) : i < j => longer[j].branch # c
      BY <1>1, <1>2, <1>4, <2>1, <3>1
    <3>3. Holder(longer, c) = longer[i].agent
      BY <1>2, <3>2, HolderIs
    <3>4. Holder(lines, c) = lines[i].agent
      BY <3>1, HolderIs
    <3> QED
      BY <1>2, <3>3, <3>4
  <2> QED
    BY <2>2, <2>3
<1> QED
  BY <1>2, <1>3, <1>4 DEF longer

\* A branch of a dict has one line, and that names the holder.
LEMMA HolderOfDict ==
    ASSUME NEW table \in Seq(Records), IsDict(table), NEW i \in 1 .. Len(table)
    PROVE  Holder(table, table[i].branch) = table[i].agent
<1>1. \A j \in 1 .. Len(table) : i < j => table[j].branch # table[i].branch
  BY DEF IsDict
<1> QED
  BY <1>1, HolderIs

\* Setting a key of the dict.
LEMMA PutHolds ==
    ASSUME NEW table \in Seq(Records), IsDict(table), NEW b \in Branches, NEW a \in Agents
    PROVE  /\ Put(table, Line(b, a)) \in Seq(Records)
           /\ IsDict(Put(table, Line(b, a)))
           /\ \A c : Holder(Put(table, Line(b, a)), c) = IF c = b THEN a ELSE Holder(table, c)
<1>1. Line(b, a) \in Records /\ Line(b, a).branch = b /\ Line(b, a).agent = a
  BY DEF Line, Records
<1>2. DOMAIN table = 1 .. Len(table) /\ Len(table) \in Nat
  OBVIOUS
<1>3. CASE Positions(table, b) = {}
  <2>1. Put(table, Line(b, a)) = Append(table, Line(b, a))
    BY <1>1, <1>3 DEF Put
  <2>2. IsDict(Append(table, Line(b, a)))
    <3>1. \A i \in 1 .. Len(table) : table[i].branch # b
      BY <1>2, <1>3 DEF Positions
    <3> DEFINE longer == Append(table, Line(b, a))
    <3>2. \A i \in 1 .. Len(longer) : i \in 1 .. Len(table) \/ i = Len(table) + 1
      BY <1>1, <1>2
    <3>3. /\ \A i \in 1 .. Len(table) : longer[i] = table[i] /\ i # Len(table) + 1
          /\ longer[Len(table) + 1].branch = b
      BY <1>1, <1>2
    <3> HIDE DEF longer
    <3>4. IsDict(longer)
      BY <3>1, <3>2, <3>3 DEF IsDict
    <3> QED
      BY <3>4 DEF longer
  <2> QED
    BY <2>1, <2>2, AppendHolds
<1>4. CASE Positions(table, b) # {}
  <2> DEFINE new == [i \in DOMAIN table |-> IF table[i].branch = b THEN Line(b, a) ELSE table[i]]
  <2>1. Put(table, Line(b, a)) = new
    BY <1>1, <1>4 DEF Put
  <2>2. new \in Seq(Records) /\ Len(new) = Len(table) /\ DOMAIN new = DOMAIN table
    <3>1. \A i \in 1 .. Len(table) : table[i] \in Records
      OBVIOUS
    <3>2. new \in [1 .. Len(table) -> Records]
      BY <1>1, <1>2, <3>1
    <3> QED
      BY <1>2, <3>2
  <2>3. \A i \in 1 .. Len(table) :
           /\ new[i].branch = table[i].branch
           /\ table[i].branch = b => new[i].agent = a
           /\ table[i].branch # b => new[i] = table[i]
    BY <1>1, <1>2
  <2> HIDE DEF new
  <2>4. IsDict(new)
    BY <2>2, <2>3 DEF IsDict
  <2>5. ASSUME NEW c
        PROVE  Holder(new, c) = IF c = b THEN a ELSE Holder(table, c)
    <3>1. Positions(new, c) = Positions(table, c)
      BY <1>2, <2>2, <2>3 DEF Positions
    <3>2. CASE Positions(table, c) = {}
      BY <1>4, <3>1, <3>2 DEF Holder
    <3>3. CASE Positions(table, c) # {}
      <4>1. Positions(table, c) \in SUBSET (1 .. Len(table))
        BY <1>2 DEF Positions
      <4>2. Max(Positions(table, c)) \in Positions(table, c)
        BY <1>2, <3>3, <4>1, LargestOf
      <4>3. Max(Positions(table, c)) \in 1 .. Len(table) /\ table[Max(Positions(table, c))].branch = c
        BY <4>1, <4>2 DEF Positions
      <4> QED
        BY <2>3, <3>1, <3>3, <4>3 DEF Holder
    <3> QED
      BY <3>2, <3>3
  <2> QED
    BY <2>1, <2>2, <2>4, <2>5
<1> QED
  BY <1>3, <1>4

\* Taking a key out of the dict.
LEMMA PopHolds ==
    ASSUME NEW table \in Seq(Records), IsDict(table), NEW b, Holder(table, b) # NoAgent
    PROVE  /\ Pop(table, b) \in Seq(Records)
           /\ IsDict(Pop(table, b))
           /\ \A c : Holder(Pop(table, b), c) = IF c = b THEN NoAgent ELSE Holder(table, c)
<1>1. DOMAIN table = 1 .. Len(table) /\ Len(table) \in Nat
  OBVIOUS
<1>2. Positions(table, b) # {} /\ Positions(table, b) \in SUBSET (1 .. Len(table))
  BY <1>1 DEF Holder, Positions
<1> DEFINE at_b == Max(Positions(table, b))
           less == Pop(table, b)
<1>3. at_b \in 1 .. Len(table) /\ table[at_b].branch = b
  <2>1. at_b \in Positions(table, b)
    BY <1>1, <1>2, LargestOf
  <2> HIDE DEF at_b
  <2> QED
    BY <1>1, <2>1 DEF Positions
<1>4. less = RemoveAt(table, at_b)
  BY DEF Pop
<1> HIDE DEF at_b, less
<1> DEFINE old(k) == IF k < at_b THEN k ELSE k + 1
<1>5. /\ less \in Seq(Records) /\ Len(less) = Len(table) - 1
      /\ \A k \in 1 .. Len(less) : less[k] = table[old(k)]
  <2> DEFINE left == SubSeq(table, 1, at_b - 1)
             right == SubSeq(table, at_b + 1, Len(table))
  <2>1. /\ left \in Seq(Records) /\ Len(left) = at_b - 1
        /\ \A k \in 1 .. at_b - 1 : left[k] = table[k]
    BY <1>1, <1>3
  <2>2. /\ right \in Seq(Records) /\ Len(right) = Len(table) - at_b
        /\ \A k \in 1 .. Len(table) - at_b : right[k] = table[at_b + k]
    <3>1. at_b + 1 \in Int /\ Len(table) \in Int /\ \A i \in at_b + 1 .. Len(table) : table[i] \in Records
      BY <1>1, <1>3
    <3>2. /\ right \in Seq(Records)
          /\ Len(right) = IF at_b + 1 <= Len(table) THEN Len(table) - (at_b + 1) + 1 ELSE 0
          /\ \A i \in 1 .. Len(table) - (at_b + 1) + 1 : right[i] = table[(at_b + 1) + i - 1]
      BY <3>1, SubSeqProperties
    <3> HIDE DEF right
    <3>3. at_b \in Nat /\ at_b <= Len(table)
      BY <1>1, <1>3
    <3>4. Len(right) = Len(table) - at_b
      <4>1. \A m, n \in Nat : m <= n => (IF m + 1 <= n THEN n - (m + 1) + 1 ELSE 0) = n - m
        OBVIOUS
      <4>2. Len(right) = IF at_b + 1 <= Len(table) THEN Len(table) - (at_b + 1) + 1 ELSE 0
        BY <3>2
      <4> QED
        BY <1>1, <3>3, <4>1, <4>2, Zenon
    <3>5. ASSUME NEW k \in 1 .. Len(table) - at_b
          PROVE  right[k] = table[at_b + k]
      <4>1. k \in 1 .. Len(table) - (at_b + 1) + 1 /\ (at_b + 1) + k - 1 = at_b + k
        BY <1>1, <3>3
      <4> QED
        BY <3>2, <4>1, Zenon
    <3> QED
      BY <3>2, <3>4, <3>5
  <2>3. less = left \o right
    BY <1>4 DEF RemoveAt
  <2> HIDE DEF left, right
  <2>4. /\ less \in Seq(Records) /\ Len(less) = Len(table) - 1
        /\ \A k \in 1 .. Len(less) : less[k] = IF k <= Len(left) THEN left[k] ELSE right[k - Len(left)]
    <3>1. /\ less \in Seq(Records) /\ Len(less) = Len(left) + Len(right)
          /\ \A k \in 1 .. Len(left) + Len(right) :
                less[k] = IF k <= Len(left) THEN left[k] ELSE right[k - Len(left)]
      BY <2>1, <2>2, <2>3, ConcatProperties
    <3> QED
      BY <1>1, <1>3, <2>1, <2>2, <3>1
  <2>5. ASSUME NEW k \in 1 .. Len(less)
        PROVE  less[k] = table[old(k)]
    <3>1. CASE k < at_b
      BY <1>1, <1>3, <2>1, <2>4, <3>1
    <3>2. CASE ~(k < at_b)
      <4>1. k - (at_b - 1) \in 1 .. Len(table) - at_b /\ at_b + (k - (at_b - 1)) = k + 1
        BY <1>1, <1>3, <2>4, <3>2
      <4> QED
        BY <1>1, <1>3, <2>1, <2>2, <2>4, <3>2, <4>1
    <3> QED
      BY <3>1, <3>2
  <2> QED
    BY <2>4, <2>5
<1>6. /\ \A k \in 1 .. Len(less) : old(k) \in 1 .. Len(table) /\ old(k) # at_b
      /\ \A k, m \in 1 .. Len(less) : k # m => old(k) # old(m)
      /\ \A i \in 1 .. Len(table) : i # at_b => \E k \in 1 .. Len(less) : old(k) = i
  <2>1. \A k \in 1 .. Len(less) : old(k) \in 1 .. Len(table) /\ old(k) # at_b
    BY <1>1, <1>3, <1>5
  <2>2. \A k, m \in 1 .. Len(less) : k # m => old(k) # old(m)
    BY <1>1, <1>3, <1>5
  <2>3. ASSUME NEW i \in 1 .. Len(table), i # at_b
        PROVE  \E k \in 1 .. Len(less) : old(k) = i
    <3>1. CASE i < at_b
      <4>1. i \in 1 .. Len(less) /\ old(i) = i
        BY <1>1, <1>3, <1>5, <3>1
      <4> QED
        BY <4>1
    <3>2. CASE i > at_b
      <4>1. i - 1 \in 1 .. Len(less) /\ old(i - 1) = i
        BY <1>1, <1>3, <1>5, <3>2
      <4> QED
        BY <4>1
    <3> QED
      BY <1>1, <1>3, <2>3, <3>1, <3>2
  <2> QED
    BY <2>1, <2>2, <2>3
<1> HIDE DEF old
<1>7. IsDict(less)
  BY <1>5, <1>6 DEF IsDict
<1>8. ASSUME NEW c
      PROVE  Holder(less, c) = IF c = b THEN NoAgent ELSE Holder(table, c)
  <2>1. CASE \E i \in 1 .. Len(table) : i # at_b /\ table[i].branch = c
    <3>1. PICK i \in 1 .. Len(table) : i # at_b /\ table[i].branch = c
      BY <2>1
    <3>2. PICK k \in 1 .. Len(less) : old(k) = i
      BY <1>6, <3>1
    <3>3. less[k] = table[i]
      BY <1>5, <3>2
    <3>4. Holder(less, c) = table[i].agent
      BY <1>5, <1>7, <3>1, <3>3, HolderOfDict
    <3>5. Holder(table, c) = table[i].agent
      BY <3>1, HolderOfDict
    <3>6. c # b
      BY <1>3, <3>1 DEF IsDict
    <3> QED
      BY <3>4, <3>5, <3>6
  <2>2. CASE \A i \in 1 .. Len(table) : i # at_b => table[i].branch # c
    <3>1. \A k \in 1 .. Len(less) : less[k].branch # c
      BY <1>5, <1>6, <2>2
    <3>2. Holder(less, c) = NoAgent
      BY <1>5, <3>1, HolderNone
    <3>3. c # b => \A i \in 1 .. Len(table) : table[i].branch # c
      BY <1>3, <2>2
    <3>4. c # b => Holder(table, c) = NoAgent
      BY <3>3, HolderNone
    <3> QED
      BY <3>2, <3>4
  <2> QED
    BY <2>1, <2>2
<1> QED
  BY <1>5, <1>7, <1>8 DEF less
-----------------------------------------------------------------------------
(* What a new command loads. *)

\* The members of a set of numbers have the ranks from 1 to its size.
LEMMA RanksAre ==
    ASSUME NEW n \in Nat, NEW T \in SUBSET (1 .. n)
    PROVE  LET Rank(i) == Cardinality({j \in T : j <= i})
           IN  /\ Cardinality(T) \in Nat
               /\ \A i \in T : Rank(i) \in 1 .. Cardinality(T)
               /\ \A i, j \in T : Rank(i) = Rank(j) => i = j
               /\ \A k \in 1 .. Cardinality(T) : \E i \in T : Rank(i) = k
<1> DEFINE size == Cardinality(T)
           below(i) == {j \in T : j <= i}
           rank == [i \in T |-> Cardinality(below(i))]
<1>1. \A i \in T : i \in Nat
  OBVIOUS
<1>2. IsFiniteSet(T) /\ size \in Nat
  <2>1. IsFiniteSet(T)
    <3>1. IsFiniteSet(1 .. n)
      BY FS_Interval
    <3> QED
      BY <3>1, FS_Subset
  <2> QED
    BY <2>1, FS_CardinalityType
<1>3. \A i \in T : IsFiniteSet(below(i)) /\ rank[i] \in 1 .. size
  <2> TAKE i \in T
  <2>1. below(i) \in SUBSET T /\ i \in below(i)
    BY <1>1
  <2>2. IsFiniteSet(below(i)) /\ Cardinality(below(i)) <= size
    BY <1>2, <2>1, FS_Subset
  <2>3. Cardinality(below(i)) \in Nat /\ Cardinality(below(i)) # 0
    BY <2>1, <2>2, FS_CardinalityType, FS_EmptySet
  <2> QED
    BY <1>2, <2>2, <2>3
<1>4. ASSUME NEW i \in T, NEW j \in T, i < j
      PROVE  rank[i] < rank[j]
  <2>1. below(i) \in SUBSET below(j) /\ j \in below(j) /\ j \notin below(i)
    <3>1. (\A h \in T : h <= i => h <= j) /\ j <= j /\ ~(j <= i)
      BY <1>1, <1>4
    <3> QED
      BY <3>1
  <2>2. Cardinality(below(i)) <= Cardinality(below(j)) /\ Cardinality(below(i)) # Cardinality(below(j))
    BY <1>3, <2>1, FS_Subset
  <2> QED
    BY <1>3, <2>2
<1>5. \A i, j \in T : rank[i] = rank[j] => i = j
  <2> SUFFICES ASSUME NEW i \in T, NEW j \in T, i # j PROVE rank[i] # rank[j]
    OBVIOUS
  <2>1. rank[i] \in Nat /\ rank[j] \in Nat
    BY <1>3
  <2>2. CASE i < j
    BY <1>4, <2>1, <2>2
  <2>3. CASE j < i
    BY <1>4, <2>1, <2>3
  <2> QED
    BY <1>1, <2>2, <2>3
<1>6. rank \in Surjection(T, 1 .. size)
  <2>1. rank \in [T -> 1 .. size]
    BY <1>3
  <2>2. IsFiniteSet(1 .. size) /\ Cardinality(1 .. size) = size
    BY <1>2, FS_Interval
  <2> HIDE DEF rank, size
  <2>3. rank \in Injection(T, 1 .. size)
    BY <1>5, <2>1, Fun_IsInj
  <2>4. Cardinality(T) = Cardinality(1 .. size)
    BY <2>2 DEF size
  <2> QED
    BY <2>2, <2>3, <2>4, FS_Injection
<1>7. \A k \in 1 .. size : \E i \in T : rank[i] = k
  BY <1>6 DEF Surjection
<1> QED
  BY <1>2, <1>3, <1>5, <1>7

\* What is loaded is a dict with the holders of the lines.
LEMMA LoadedHolds ==
    ASSUME NEW lines \in Seq(Records)
    PROVE  /\ Loaded(lines) \in Seq(Records)
           /\ IsDict(Loaded(lines))
           /\ \A b : Holder(Loaded(lines), b) = Holder(lines, b)
<1> DEFINE firsts == {i \in DOMAIN lines : \A j \in 1 .. i - 1 : lines[j].branch # lines[i].branch}
           size == Cardinality(firsts)
           rank(i) == Cardinality({j \in firsts : j <= i})
           Nth(k) == CHOOSE i \in firsts : rank(i) = k
           table == [k \in 1 .. size |-> Line(lines[Nth(k)].branch, Holder(lines, lines[Nth(k)].branch))]
<1>1. DOMAIN lines = 1 .. Len(lines) /\ Len(lines) \in Nat /\ \A i \in 1 .. Len(lines) : lines[i] \in Records
  OBVIOUS
<1>2. Loaded(lines) = table
  BY DEF Loaded
<1>3. firsts \in SUBSET (1 .. Len(lines))
  BY <1>1
<1>4. ASSUME NEW i \in firsts, NEW j \in firsts, lines[i].branch = lines[j].branch
      PROVE  i = j
  <2>1. i \in Nat /\ j \in Nat /\ i > 0 /\ j > 0
    BY <1>1
  <2>2. \A k \in 1 .. i - 1 : lines[k].branch # lines[i].branch
    OBVIOUS
  <2>3. \A k \in 1 .. j - 1 : lines[k].branch # lines[j].branch
    OBVIOUS
  <2>4. ~(i \in 1 .. j - 1) /\ ~(j \in 1 .. i - 1)
    BY <1>4, <2>2, <2>3
  <2> QED
    BY <2>1, <2>4
<1>5. \A k \in 1 .. Len(lines) : \E i \in firsts : lines[i].branch = lines[k].branch
  <2> TAKE k \in 1 .. Len(lines)
  <2>1. PICK i \in 1 .. Len(lines) :
           /\ lines[i].branch = lines[k].branch
           /\ \A j \in 1 .. i - 1 : lines[j].branch # lines[k].branch
    BY FirstAndLast, Zenon
  <2> QED
    BY <1>1, <2>1
<1> HIDE DEF firsts
<1>6. /\ size \in Nat
      /\ \A i \in firsts : rank(i) \in 1 .. size
      /\ \A i, j \in firsts : rank(i) = rank(j) => i = j
      /\ \A k \in 1 .. size : \E i \in firsts : rank(i) = k
  BY <1>1, <1>3, RanksAre
<1> HIDE DEF rank, size
<1>7. \A k \in 1 .. size : Nth(k) \in firsts /\ rank(Nth(k)) = k
  BY <1>6
<1>8. \A i \in firsts : Nth(rank(i)) = i
  BY <1>6, <1>7
<1> HIDE DEF Nth
<1>9. \A k \in 1 .. size : /\ Nth(k) \in 1 .. Len(lines)
                           /\ table[k].branch = lines[Nth(k)].branch
                           /\ table[k].agent = Holder(lines, lines[Nth(k)].branch)
                           /\ table[k] \in Records
  <2> TAKE k \in 1 .. size
  <2>1. Nth(k) \in 1 .. Len(lines)
    BY <1>3, <1>7
  <2>2. lines[Nth(k)].branch \in Branches
    BY <1>1, <2>1 DEF Records
  <2>3. Holder(lines, lines[Nth(k)].branch) \in Agents
    BY <2>1, HolderType
  <2> QED
    BY <2>1, <2>2, <2>3 DEF Line, Records
<1>10. table \in Seq(Records) /\ Len(table) = size
  <2>1. table \in [1 .. size -> Records]
    <3>1. \A k \in 1 .. size : table[k] \in Records
      BY <1>9
    <3> QED
      BY <3>1
  <2> QED
    BY <1>6, <2>1
<1> HIDE DEF table
<1>11. IsDict(table)
  <2> SUFFICES ASSUME NEW k \in 1 .. size, NEW m \in 1 .. size, table[k].branch = table[m].branch
               PROVE  k = m
    BY <1>10 DEF IsDict
  <2>1. lines[Nth(k)].branch = lines[Nth(m)].branch
    BY <1>9
  <2>2. Nth(k) = Nth(m)
    BY <1>4, <1>7, <2>1
  <2> QED
    BY <1>7, <2>2
<1>12. ASSUME NEW b
       PROVE  Holder(table, b) = Holder(lines, b)
  <2>1. CASE \E k \in 1 .. Len(lines) : lines[k].branch = b
    <3>1. PICK i \in firsts : lines[i].branch = b
      BY <1>5, <2>1
    <3>2. rank(i) \in 1 .. size /\ Nth(rank(i)) = i
      BY <1>6, <1>8
    <3>3. table[rank(i)].branch = b /\ table[rank(i)].agent = Holder(lines, b)
      BY <1>9, <3>1, <3>2
    <3> QED
      BY <1>10, <1>11, <3>2, <3>3, HolderOfDict
  <2>2. CASE \A k \in 1 .. Len(lines) : lines[k].branch # b
    <3>1. \A k \in 1 .. Len(table) : table[k].branch # b
      BY <1>9, <1>10, <2>2
    <3> QED
      BY <1>10, <2>2, <3>1, HolderNone
  <2> QED
    BY <2>1, <2>2
<1> QED
  BY <1>2, <1>10, <1>11, <1>12

\* There is an inode for a new file: each shell has one open at most.
LEMMA NewInodeIsUnused ==
    ASSUME path = File!NoInode \/ tmp = File!NoInode
    PROVE  /\ File!NewInode \in Inodes
           /\ File!NewInode \notin {path, tmp}
           /\ \A s \in Shells : fd[s] # File!NewInode
<1> DEFINE held == {i \in Inodes : \E s \in Shells : fd[s] = i}
           user == [i \in held |-> CHOOSE s \in Shells : fd[s] = i]
           named == {path, tmp} \cap Inodes
<1>1. IsFiniteSet(held) /\ Cardinality(held) <= Cardinality(Shells)
  <2>1. \A i \in held : user[i] \in Shells /\ fd[user[i]] = i
    OBVIOUS
  <2>2. user \in [held -> Shells] /\ \A i, j \in held : user[i] = user[j] => i = j
    BY <2>1
  <2> HIDE DEF user, held
  <2>3. user \in Injection(held, Shells)
    BY <2>2, Fun_IsInj
  <2> QED
    BY <2>3, EnoughInodes, FS_Injection
<1>2. IsFiniteSet(named) /\ Cardinality(named) <= 1
  <2>1. \E i : named \subseteq {i}
    BY EnoughInodes
  <2>2. PICK i : named \in SUBSET {i}
    BY <2>1
  <2>3. IsFiniteSet({i}) /\ Cardinality({i}) = 1
    BY FS_Singleton
  <2> HIDE DEF named
  <2> QED
    BY <2>2, <2>3, FS_Subset
<1>3. IsFiniteSet(held \cup named) /\ Cardinality(held \cup named) < Cardinality(Inodes)
  <2> HIDE DEF held, named
  <2>1. /\ IsFiniteSet(held \cup named)
        /\ Cardinality(held \cup named) = Cardinality(held) + Cardinality(named) - Cardinality(held \cap named)
    BY <1>1, <1>2, FS_Union
  <2>2. IsFiniteSet(held \cap named)
    BY <1>1, FS_Subset
  <2>3. /\ Cardinality(held) \in Nat /\ Cardinality(named) \in Nat /\ Cardinality(Shells) \in Nat
        /\ Cardinality(held \cap named) \in Nat /\ Cardinality(Inodes) \in Nat
    BY <1>1, <1>2, <2>2, EnoughInodes, FS_CardinalityType
  <2> QED
    BY <1>1, <1>2, <2>1, <2>3, EnoughInodes
<1>4. held \cup named # Inodes
  <2> HIDE DEF held, named
  <2>1. Cardinality(Inodes) \in Nat
    BY EnoughInodes, FS_CardinalityType
  <2> QED
    BY <1>3, <2>1
<1>5. \E i \in Inodes : i \notin {path, tmp} /\ \A s \in Shells : fd[s] # i
  BY <1>4
<1>6. File!Unused # {}
  BY <1>5 DEF File!Unused
<1>7. File!NewInode \in File!Unused
  BY <1>6 DEF File!NewInode
<1> QED
  BY <1>7 DEF File!Unused
-----------------------------------------------------------------------------
(* The file and the commands: the invariant of a lone shell. *)

\* The file and its ".tmp" are different files of lines.
FileType ==
    /\ path \in Inodes \cup {File!NoInode} /\ tmp \in Inodes \cup {File!NoInode}
    /\ path \in Inodes => path # tmp
    /\ data \in [Inodes -> Seq(Records)]
    /\ fd \in [Shells -> Inodes \cup {File!NoInode}]

Answers == [command : {"none", "claim", "release"},
            branch : Branches \cup {NoAgent}, agent : Agents \cup {NoAgent}]

CommandType ==
    /\ claims \in [Shells -> Seq(Records)] /\ \A s \in Shells : IsDict(claims[s])
    /\ at \in [Shells -> {"prompt", "loaded", "opened", "written"}]
    /\ answer \in [Shells -> Answers]

\* Who holds the branch when the command is done.
Answered(s) == IF answer[s].command = "claim" THEN answer[s].agent ELSE NoAgent

\* Whoever is at the prompt left the file as it answered.
AtPrompt(s) ==
    at[s] = "prompt" /\ answer[s].command # "none" =>
        answer[s].branch \in Branches /\ Holder(File!Lines, answer[s].branch) = Answered(s)

\* The table that was loaded is the one on disk.
HasLoaded(s) ==
    at[s] = "loaded" =>
        /\ answer[s] = NoAnswer
        /\ \A b \in Branches : Holder(claims[s], b) = Holder(File!Lines, b)

\* A command that rewrites the file changes one branch, to what it answers.
Rewrites(s) ==
    at[s] \in {"opened", "written"} =>
        /\ answer[s].command # "none" /\ answer[s].branch \in Branches
        /\ \A b \in Branches : b # answer[s].branch => Holder(claims[s], b) = Holder(File!Lines, b)
        /\ Holder(claims[s], answer[s].branch) = Answered(s)
        /\ answer[s].agent = Holder(File!Lines, answer[s].branch)

\* And it rewrites the ".tmp" file, which nobody else has.
HasTmp(s) ==
    /\ at[s] = "opened" => tmp \in Inodes /\ fd[s] = tmp /\ data[tmp] = <<>>
    /\ at[s] = "written" => tmp \in Inodes /\ data[tmp] = claims[s]

\* What a command that runs may rely on.
Kept(s) == HasLoaded(s) /\ Rewrites(s) /\ HasTmp(s)

ClaimsInv == FileType /\ CommandType /\ \A s \in Shells : Kept(s)

\* One shell.
Alone == \A r, s \in Shells : r = s

\* No command runs while another does: where two overlap, the run branch_race has
\* one lose the claim of the other.
OneAtATime == \A r, s \in Shells : at[r] # "prompt" /\ at[s] # "prompt" => r = s
-----------------------------------------------------------------------------
(* What the file operations do. *)

\* What is in the file is a table of lines.
LEMMA LinesType ==
    ASSUME FileType
    PROVE  File!Lines \in Seq(Records)
BY DEF FileType, File!Lines

\* open("a") puts one line behind those of the file.
LEMMA AppendLineHolds ==
    ASSUME FileType, NEW line \in Records, File!AppendLine(line)
    PROVE  FileType' /\ File!Lines' = Append(File!Lines, line)
<1> USE DEF FileType
<1> DEFINE i == IF path = File!NoInode THEN File!NewInode ELSE path
           longer == Append(File!Lines, line)
<1>1. i \in Inodes /\ i # tmp
  BY NewInodeIsUnused
<1>2. longer \in Seq(Records)
  BY LinesType
<1>3. path' = i /\ data' = [data EXCEPT ![i] = longer] /\ tmp' = tmp /\ fd' = fd
  BY DEF File!AppendLine
<1> HIDE DEF i, longer
<1>4. data' \in [Inodes -> Seq(Records)] /\ data'[i] = longer
  BY <1>1, <1>2, <1>3
<1>5. File!Lines' = longer
  BY <1>1, <1>3, <1>4, EnoughInodes DEF File!Lines
<1> QED
  BY <1>1, <1>3, <1>4, <1>5 DEF longer

\* tmp.open("w") leaves the file alone and an empty ".tmp" file open.
LEMMA OpenTmpHolds ==
    ASSUME FileType, NEW s \in Shells, File!OpenTmp(s)
    PROVE  /\ FileType' /\ File!Lines' = File!Lines
           /\ tmp' \in Inodes /\ fd'[s] = tmp' /\ data'[tmp'] = <<>>
<1> USE DEF FileType
<1> DEFINE i == IF tmp = File!NoInode THEN File!NewInode ELSE tmp
<1>1. i \in Inodes /\ i # path
  BY EnoughInodes, NewInodeIsUnused
<1>2. path' = path /\ data' = [data EXCEPT ![i] = <<>>] /\ tmp' = i /\ fd' = [fd EXCEPT ![s] = i]
  BY DEF File!OpenTmp
<1> HIDE DEF i
<1>3. /\ data' \in [Inodes -> Seq(Records)] /\ data'[i] = <<>>
      /\ fd' \in [Shells -> Inodes \cup {File!NoInode}] /\ fd'[s] = i
      /\ path \in Inodes => data'[path] = data[path]
  BY <1>1, <1>2
<1>4. File!Lines' = File!Lines
  BY <1>2, <1>3 DEF File!Lines
<1> QED
  BY <1>1, <1>2, <1>3, <1>4

\* Closing an empty ".tmp" file leaves the table there, and the file alone.
LEMMA CloseTmpHolds ==
    ASSUME FileType, NEW s \in Shells, NEW table \in Seq(Records),
           tmp \in Inodes, fd[s] = tmp, data[tmp] = <<>>, File!CloseTmp(s, table)
    PROVE  FileType' /\ File!Lines' = File!Lines /\ tmp' = tmp /\ data'[tmp] = table
<1> USE DEF FileType
<1>1. SubSeq(data[fd[s]], Len(table) + 1, Len(data[fd[s]])) = <<>>
  BY SubSeqEmpty
<1>2. PICK kept \in {<<>>} : data' = [data EXCEPT ![fd[s]] = table \o kept]
  BY <1>1 DEF File!CloseTmp
<1>3. table \o kept = table
  BY ConcatEmptySeq
<1>4. path' = path /\ tmp' = tmp /\ fd' = [fd EXCEPT ![s] = File!NoInode]
  BY DEF File!CloseTmp
<1>5. /\ data' \in [Inodes -> Seq(Records)] /\ data'[tmp] = table
      /\ fd' \in [Shells -> Inodes \cup {File!NoInode}]
      /\ path \in Inodes => data'[path] = data[path]
  BY <1>2, <1>3, <1>4
<1>6. File!Lines' = File!Lines
  BY <1>4, <1>5 DEF File!Lines
<1> QED
  BY <1>4, <1>5, <1>6

\* After the rename the file is what ".tmp" was.
LEMMA ReplaceTmpHolds ==
    ASSUME FileType, tmp \in Inodes, File!ReplaceTmp
    PROVE  FileType' /\ File!Lines' = data[tmp]
<1>1. path' = tmp /\ tmp' = File!NoInode /\ data' = data /\ fd' = fd
  BY EnoughInodes DEF File!ReplaceTmp
<1>2. tmp # File!NoInode
  BY EnoughInodes
<1> QED
  BY <1>1, <1>2 DEF FileType, File!Lines

\* The death of a shell changes no file.
LEMMA CloseUnwrittenHolds ==
    ASSUME FileType, NEW s \in Shells, File!CloseUnwritten(s)
    PROVE  FileType' /\ File!Lines' = File!Lines
BY DEF FileType, File!Lines, File!CloseUnwritten
-----------------------------------------------------------------------------
(* The commands keep the invariant. *)

\* At the start nobody holds anything.
LEMMA InitHolds == ClaimsInit => ClaimsInv
<1> SUFFICES ASSUME ClaimsInit PROVE ClaimsInv
  OBVIOUS
<1> USE DEF ClaimsInit, File!FileInit
<1>1. FileType
  BY EnoughInodes DEF FileType
<1>2. CommandType
  <2>1. NoAnswer \in Answers
    BY DEF NoAnswer, Answers
  <2>2. claims \in [Shells -> Seq(Records)] /\ \A s \in Shells : IsDict(claims[s])
    BY DEF IsDict
  <2> QED
    BY <2>1, <2>2 DEF CommandType
<1>3. \A s \in Shells : Kept(s)
  BY DEF Kept, HasLoaded, Rewrites, HasTmp
<1> QED
  BY <1>1, <1>2, <1>3 DEF ClaimsInv

\* The owners by the lines of the file.
HasHolders == [b \in Branches |-> Holder(File!Lines, b)]

\* A new command would load the holders of the lines.
LEMMA OnDiskIs == FileType => OnDisk = HasHolders
BY LinesType, LoadedHolds DEF OnDisk, HasHolders

\* A step that changes no holder, and one that changes the holder of a branch.
SameHolders == \A c \in Branches : Holder(File!Lines, c)' = Holder(File!Lines, c)
Hands(b, holder) ==
    \A c \in Branches : Holder(File!Lines, c)' = IF c = b THEN holder ELSE Holder(File!Lines, c)

\* A command that starts.
LEMMA LoadKeeps ==
    ASSUME FileType, CommandType, NEW s \in Shells, Kept(s), Load(s)
    PROVE  FileType' /\ CommandType' /\ Kept(s)' /\ AtPrompt(s)' /\ SameHolders
<1> USE DEF CommandType
<1>1. /\ path' = path /\ tmp' = tmp /\ data' = data /\ fd' = fd
      /\ claims' = [claims EXCEPT ![s] = Loaded(File!Lines)]
      /\ at' = [at EXCEPT ![s] = "loaded"] /\ answer' = [answer EXCEPT ![s] = NoAnswer]
  BY DEF Load, MoveTo, file
<1>2. FileType' /\ File!Lines' = File!Lines
  BY <1>1 DEF FileType, File!Lines
<1>3. /\ Loaded(File!Lines) \in Seq(Records) /\ IsDict(Loaded(File!Lines))
      /\ \A b : Holder(Loaded(File!Lines), b) = Holder(File!Lines, b)
  BY LinesType, LoadedHolds
<1>4. NoAnswer \in Answers
  BY DEF NoAnswer, Answers
<1>5. /\ claims'[s] = Loaded(File!Lines) /\ at'[s] = "loaded" /\ answer'[s] = NoAnswer
      /\ claims' \in [Shells -> Seq(Records)]
      /\ \A t \in Shells : t # s => claims'[t] = claims[t]
      /\ at' \in [Shells -> {"prompt", "loaded", "opened", "written"}] /\ answer' \in [Shells -> Answers]
  BY <1>1, <1>3, <1>4
<1>6. CommandType'
  BY <1>3, <1>5
<1>7. Kept(s)' /\ AtPrompt(s)'
  BY <1>2, <1>3, <1>5 DEF Kept, AtPrompt, HasLoaded, Rewrites, HasTmp
<1>8. SameHolders
  BY <1>2 DEF SameHolders
<1> QED
  BY <1>2, <1>6, <1>7, <1>8

\* A command that ends with nothing done.
LEMMA RefusalKeeps ==
    ASSUME FileType, CommandType, NEW s \in Shells, Kept(s),
           at[s] = "loaded", MoveTo(s, "prompt"), UNCHANGED <<file, claims, answer>>
    PROVE  FileType' /\ CommandType' /\ Kept(s)' /\ AtPrompt(s)' /\ SameHolders
<1> USE DEF CommandType
<1>1. /\ path' = path /\ tmp' = tmp /\ data' = data /\ fd' = fd
      /\ claims' = claims /\ answer' = answer /\ at' = [at EXCEPT ![s] = "prompt"]
  BY DEF MoveTo, file
<1>2. FileType' /\ File!Lines' = File!Lines
  BY <1>1 DEF FileType, File!Lines
<1>3. at'[s] = "prompt" /\ at' \in [Shells -> {"prompt", "loaded", "opened", "written"}]
  BY <1>1
<1>4. answer[s] = NoAnswer
  BY DEF Kept, HasLoaded
<1>5. answer'[s].command = "none"
  BY <1>1, <1>4 DEF NoAnswer
<1>6. CommandType'
  BY <1>1, <1>3
<1>7. Kept(s)' /\ AtPrompt(s)'
  BY <1>3, <1>5 DEF Kept, AtPrompt, HasLoaded, Rewrites, HasTmp
<1> QED
  BY <1>2, <1>6, <1>7 DEF SameHolders

\* What claim() does before it writes.
LEMMA GrantHolds ==
    ASSUME CommandType, NEW s \in Shells, NEW b \in Branches, NEW a \in Agents, Granted(s, b, a),
           NEW place \in {"prompt", "loaded", "opened", "written"}, MoveTo(s, place)
    PROVE  /\ CommandType' /\ at'[s] = place
           /\ answer'[s].command = "claim" /\ answer'[s].branch = b /\ answer'[s].agent = a
           /\ \A c : Holder(claims'[s], c) = IF c = b THEN a ELSE Holder(claims[s], c)
<1> USE DEF CommandType
<1> DEFINE said == [command |-> "claim", branch |-> b, agent |-> a]
           table == Put(claims[s], Line(b, a))
<1>1. said \in Answers /\ said.command = "claim" /\ said.branch = b /\ said.agent = a
  BY DEF Answers
<1>2. table \in Seq(Records) /\ IsDict(table)
      /\ \A c : Holder(table, c) = IF c = b THEN a ELSE Holder(claims[s], c)
  BY PutHolds
<1>3. /\ claims' = [claims EXCEPT ![s] = table] /\ answer' = [answer EXCEPT ![s] = said]
      /\ at' = [at EXCEPT ![s] = place]
  BY DEF Granted, MoveTo
<1> HIDE DEF said, table
<1>4. /\ claims'[s] = table /\ at'[s] = place /\ answer'[s] = said
      /\ claims' \in [Shells -> Seq(Records)]
      /\ \A t \in Shells : t # s => claims'[t] = claims[t]
      /\ at' \in [Shells -> {"prompt", "loaded", "opened", "written"}] /\ answer' \in [Shells -> Answers]
  BY <1>1, <1>2, <1>3
<1>5. CommandType'
  BY <1>2, <1>4
<1> QED
  BY <1>1, <1>2, <1>4, <1>5

\* A claim of a free branch.
LEMMA ClaimFreeKeeps ==
    ASSUME FileType, CommandType, NEW s \in Shells, Kept(s),
           NEW b \in Branches, NEW a \in Agents, ClaimFree(s, b, a)
    PROVE  /\ FileType' /\ CommandType' /\ Kept(s)' /\ AtPrompt(s)'
           /\ Holder(File!Lines, b) = NoAgent /\ Hands(b, a)
<1>1. /\ at[s] = "loaded" /\ Holder(claims[s], b) = NoAgent
      /\ Granted(s, b, a) /\ File!AppendLine(Line(b, a)) /\ MoveTo(s, "prompt")
  BY DEF ClaimFree
<1>2. /\ CommandType' /\ at'[s] = "prompt"
      /\ answer'[s].command = "claim" /\ answer'[s].branch = b /\ answer'[s].agent = a
  BY <1>1, GrantHolds
<1>3. Line(b, a) \in Records
  BY DEF Line, Records
<1>4. FileType' /\ File!Lines' = Append(File!Lines, Line(b, a))
  BY <1>1, <1>3, AppendLineHolds
<1>5. \A c : Holder(File!Lines', c) = IF c = b THEN a ELSE Holder(File!Lines, c)
  BY <1>4, LinesType, AppendHolds
<1>6. Holder(File!Lines, b) = NoAgent
  BY <1>1 DEF Kept, HasLoaded
<1>7. Kept(s)' /\ AtPrompt(s)'
  BY <1>2, <1>5 DEF Kept, AtPrompt, HasLoaded, Rewrites, HasTmp, Answered
<1> QED
  BY <1>2, <1>4, <1>5, <1>6, <1>7 DEF Hands

\* A claim by the holder.
LEMMA ClaimAgainKeeps ==
    ASSUME FileType, CommandType, NEW s \in Shells, Kept(s),
           NEW b \in Branches, NEW a \in Agents, ClaimAgain(s, b, a)
    PROVE  FileType' /\ CommandType' /\ Kept(s)' /\ AtPrompt(s)' /\ SameHolders
<1>1. /\ at[s] = "loaded" /\ Holder(claims[s], b) = a
      /\ Granted(s, b, a) /\ File!OpenTmp(s) /\ MoveTo(s, "opened")
  BY DEF ClaimAgain
<1>2. /\ CommandType' /\ at'[s] = "opened"
      /\ answer'[s].command = "claim" /\ answer'[s].branch = b /\ answer'[s].agent = a
      /\ \A c : Holder(claims'[s], c) = IF c = b THEN a ELSE Holder(claims[s], c)
  BY <1>1, GrantHolds
<1>3. FileType' /\ File!Lines' = File!Lines /\ tmp' \in Inodes /\ fd'[s] = tmp' /\ data'[tmp'] = <<>>
  BY <1>1, OpenTmpHolds
<1>4. \A c \in Branches : Holder(claims[s], c) = Holder(File!Lines, c)
  BY <1>1 DEF Kept, HasLoaded
<1>5. Kept(s)' /\ AtPrompt(s)'
  BY <1>1, <1>2, <1>3, <1>4 DEF Kept, AtPrompt, HasLoaded, Rewrites, HasTmp, Answered
<1> QED
  BY <1>2, <1>3, <1>5 DEF SameHolders

\* A release.
LEMMA ReleaseKeeps ==
    ASSUME FileType, CommandType, NEW s \in Shells, Kept(s), NEW b \in Branches, Release(s, b)
    PROVE  FileType' /\ CommandType' /\ Kept(s)' /\ AtPrompt(s)' /\ SameHolders
<1> DEFINE said == [command |-> "release", branch |-> b, agent |-> Holder(claims[s], b)]
           table == Pop(claims[s], b)
<1>1. /\ at[s] = "loaded" /\ Holder(claims[s], b) # NoAgent
      /\ claims' = [claims EXCEPT ![s] = table] /\ answer' = [answer EXCEPT ![s] = said]
      /\ File!OpenTmp(s) /\ at' = [at EXCEPT ![s] = "opened"]
  BY DEF Release, MoveTo
<1>2. claims[s] \in Seq(Records) /\ IsDict(claims[s])
  BY DEF CommandType
<1>3. said \in Answers /\ said.command = "release" /\ said.branch = b /\ said.agent = Holder(claims[s], b)
  BY <1>2, HolderType DEF Answers
<1>4. /\ table \in Seq(Records) /\ IsDict(table)
      /\ \A c : Holder(table, c) = IF c = b THEN NoAgent ELSE Holder(claims[s], c)
  BY <1>1, <1>2, PopHolds
<1> HIDE DEF said, table
<1>5. /\ claims'[s] = table /\ at'[s] = "opened" /\ answer'[s] = said
      /\ claims' \in [Shells -> Seq(Records)]
      /\ \A t \in Shells : t # s => claims'[t] = claims[t]
      /\ at' \in [Shells -> {"prompt", "loaded", "opened", "written"}] /\ answer' \in [Shells -> Answers]
  BY <1>1, <1>3, <1>4 DEF CommandType
<1>6. CommandType'
  BY <1>4, <1>5 DEF CommandType
<1>7. FileType' /\ File!Lines' = File!Lines /\ tmp' \in Inodes /\ fd'[s] = tmp' /\ data'[tmp'] = <<>>
  BY <1>1, OpenTmpHolds
<1>8. \A c \in Branches : Holder(claims[s], c) = Holder(File!Lines, c)
  BY <1>1 DEF Kept, HasLoaded
<1>9. Kept(s)' /\ AtPrompt(s)'
  BY <1>3, <1>4, <1>5, <1>7, <1>8 DEF Kept, AtPrompt, HasLoaded, Rewrites, HasTmp, Answered
<1> QED
  BY <1>6, <1>7, <1>9 DEF SameHolders

\* The rewrite is flushed.
LEMMA WriteTableKeeps ==
    ASSUME FileType, CommandType, NEW s \in Shells, Kept(s), WriteTable(s)
    PROVE  FileType' /\ CommandType' /\ Kept(s)' /\ AtPrompt(s)' /\ SameHolders
<1>1. /\ at[s] = "opened" /\ File!CloseTmp(s, claims[s])
      /\ at' = [at EXCEPT ![s] = "written"] /\ claims' = claims /\ answer' = answer
  BY DEF WriteTable, MoveTo
<1>2. tmp \in Inodes /\ fd[s] = tmp /\ data[tmp] = <<>> /\ claims[s] \in Seq(Records)
  BY <1>1 DEF Kept, HasTmp, CommandType
<1>3. FileType' /\ File!Lines' = File!Lines /\ tmp' = tmp /\ data'[tmp] = claims[s]
  BY <1>1, <1>2, CloseTmpHolds
<1>4. at'[s] = "written" /\ CommandType'
  BY <1>1 DEF CommandType
<1>5. Kept(s)' /\ AtPrompt(s)'
  BY <1>1, <1>2, <1>3, <1>4 DEF Kept, AtPrompt, HasLoaded, Rewrites, HasTmp, Answered
<1> QED
  BY <1>3, <1>4, <1>5 DEF SameHolders

\* The rewrite takes effect.
LEMMA ReplaceKeeps ==
    ASSUME FileType, CommandType, NEW s \in Shells, Kept(s), Replace(s)
    PROVE  /\ FileType' /\ CommandType' /\ Kept(s)' /\ AtPrompt(s)'
           /\ answer[s].branch \in Branches /\ Hands(answer[s].branch, Answered(s))
           /\ \/ Answered(s) = Holder(File!Lines, answer[s].branch)
              \/ Answered(s) = NoAgent
<1>1. /\ at[s] = "written" /\ File!ReplaceTmp
      /\ at' = [at EXCEPT ![s] = "prompt"] /\ claims' = claims /\ answer' = answer
  BY DEF Replace, MoveTo
<1>2. tmp \in Inodes /\ data[tmp] = claims[s]
  BY <1>1 DEF Kept, HasTmp
<1>3. FileType' /\ File!Lines' = claims[s]
  BY <1>1, <1>2, ReplaceTmpHolds
<1>4. at'[s] = "prompt" /\ CommandType'
  BY <1>1 DEF CommandType
<1>5. /\ answer[s].branch \in Branches
      /\ \A b \in Branches : b # answer[s].branch => Holder(claims[s], b) = Holder(File!Lines, b)
      /\ Holder(claims[s], answer[s].branch) = Answered(s)
      /\ answer[s].agent = Holder(File!Lines, answer[s].branch)
  BY <1>1 DEF Kept, Rewrites
<1>6. Kept(s)' /\ AtPrompt(s)'
  BY <1>1, <1>3, <1>4, <1>5 DEF Kept, AtPrompt, HasLoaded, Rewrites, HasTmp, Answered
<1>7. Hands(answer[s].branch, Answered(s))
  BY <1>3, <1>5 DEF Hands
<1> QED
  BY <1>3, <1>4, <1>5, <1>6, <1>7 DEF Answered

\* A shell that dies.
LEMMA CrashKeeps ==
    ASSUME FileType, CommandType, NEW s \in Shells, Kept(s), Crash(s)
    PROVE  FileType' /\ CommandType' /\ Kept(s)' /\ AtPrompt(s)' /\ SameHolders
<1> USE DEF CommandType
<1>1. /\ File!CloseUnwritten(s) /\ at' = [at EXCEPT ![s] = "prompt"]
      /\ claims' = [claims EXCEPT ![s] = <<>>] /\ answer' = [answer EXCEPT ![s] = NoAnswer]
  BY DEF Crash, MoveTo
<1>2. FileType' /\ File!Lines' = File!Lines
  BY <1>1, CloseUnwrittenHolds
<1>3. NoAnswer \in Answers /\ NoAnswer.command = "none" /\ <<>> \in Seq(Records) /\ IsDict(<<>>)
  BY DEF NoAnswer, Answers, IsDict
<1>4. /\ claims'[s] = <<>> /\ at'[s] = "prompt" /\ answer'[s] = NoAnswer
      /\ claims' \in [Shells -> Seq(Records)]
      /\ \A t \in Shells : t # s => claims'[t] = claims[t]
      /\ at' \in [Shells -> {"prompt", "loaded", "opened", "written"}] /\ answer' \in [Shells -> Answers]
  BY <1>1, <1>3
<1>5. CommandType'
  BY <1>3, <1>4
<1>6. Kept(s)' /\ AtPrompt(s)'
  BY <1>3, <1>4 DEF Kept, AtPrompt, HasLoaded, Rewrites, HasTmp
<1> QED
  BY <1>2, <1>5, <1>6 DEF SameHolders

\* The steps of the commands on the table of owners.
TableStep ==
    \/ SameHolders
    \/ \E b \in Branches, a \in Agents : Holder(File!Lines, b) = NoAgent /\ Hands(b, a)
    \/ \E b \in Branches : Holder(File!Lines, b) # NoAgent /\ Hands(b, NoAgent)

\* Every step of a command keeps the file and the command right.
LEMMA CommandKeeps ==
    ASSUME FileType, CommandType, NEW s \in Shells, Kept(s), Command(s)
    PROVE  FileType' /\ CommandType' /\ Kept(s)' /\ AtPrompt(s)' /\ TableStep
<1>1. CASE Load(s)
  BY <1>1, LoadKeeps DEF TableStep
<1>2. CASE \E b \in Branches, a \in Agents : Refuse(s, b, a)
  BY <1>2, RefusalKeeps DEF Refuse, TableStep
<1>3. CASE \E b \in Branches, a \in Agents : ClaimFree(s, b, a)
  BY <1>3, ClaimFreeKeeps DEF TableStep
<1>4. CASE \E b \in Branches, a \in Agents : ClaimAgain(s, b, a)
  BY <1>4, ClaimAgainKeeps DEF TableStep
<1>5. CASE \E b \in Branches : Release(s, b)
  BY <1>5, ReleaseKeeps DEF TableStep
<1>6. CASE \E b \in Branches : NotHeld(s, b)
  BY <1>6, RefusalKeeps DEF NotHeld, TableStep
<1>7. CASE WriteTable(s)
  BY <1>7, WriteTableKeeps DEF TableStep
<1>8. CASE Replace(s)
  <2>1. /\ FileType' /\ CommandType' /\ Kept(s)' /\ AtPrompt(s)'
        /\ answer[s].branch \in Branches /\ Hands(answer[s].branch, Answered(s))
        /\ \/ Answered(s) = Holder(File!Lines, answer[s].branch)
           \/ Answered(s) = NoAgent
    BY <1>8, ReplaceKeeps
  <2>2. CASE Answered(s) = Holder(File!Lines, answer[s].branch)
    <3>1. SameHolders
      BY <2>1, <2>2 DEF Hands, SameHolders
    <3> QED
      BY <2>1, <3>1 DEF TableStep
  <2>3. CASE Answered(s) = NoAgent /\ Answered(s) # Holder(File!Lines, answer[s].branch)
    BY <2>1, <2>3 DEF TableStep
  <2> QED
    BY <2>1, <2>2, <2>3
<1>9. CASE Crash(s)
  BY <1>9, CrashKeeps DEF TableStep
<1> QED
  BY <1>1, <1>2, <1>3, <1>4, <1>5, <1>6, <1>7, <1>8, <1>9 DEF Command

\* A step of a shell moves no other, and belongs to a command that runs before
\* the step or after it.
LEMMA OthersStay ==
    ASSUME CommandType, NEW s \in Shells, Command(s)
    PROVE  \A t \in Shells : t # s => at'[t] = at[t]
<1>1. \E place \in {"prompt", "loaded", "opened", "written"} : at' = [at EXCEPT ![s] = place]
  BY DEF Command, MoveTo, Load, Refuse, ClaimFree, ClaimAgain, Release, NotHeld, WriteTable, Replace, Crash
<1> QED
  BY <1>1 DEF CommandType

LEMMA CommandRuns ==
    ASSUME CommandType, NEW s \in Shells, Command(s)
    PROVE  at[s] # "prompt" \/ at'[s] # "prompt"
BY DEF CommandType, Command, MoveTo, Load, Refuse, ClaimFree, ClaimAgain, Release, NotHeld, WriteTable,
       Replace, Crash

\* A step of one command at a time keeps the invariant and the table of owners.
LEMMA StepHolds ==
    ASSUME OneAtATime, OneAtATime', ClaimsInv, [ClaimsNext]_claimsVars
    PROVE  ClaimsInv' /\ [Table!TableNext]_OnDisk
<1> USE DEF ClaimsInv
<1>1. CASE UNCHANGED claimsVars
  <2>1. UNCHANGED <<path, tmp, data, fd, claims, at, answer>>
    BY <1>1 DEF claimsVars, file
  <2>2. File!Lines' = File!Lines /\ OnDisk' = OnDisk
    BY <2>1 DEF File!Lines, OnDisk
  <2>3. FileType' /\ CommandType'
    BY <2>1 DEF FileType, CommandType
  <2>4. \A s \in Shells : Kept(s)'
    BY <2>1, <2>2 DEF Kept, HasLoaded, Rewrites, HasTmp, Answered
  <2> QED
    BY <2>2, <2>3, <2>4
<1>2. CASE ClaimsNext
  <2>1. PICK s \in Shells : Command(s)
    BY <1>2 DEF ClaimsNext
  <2>2. FileType' /\ CommandType' /\ Kept(s)' /\ TableStep
    BY <2>1, CommandKeeps
  <2>3. \A t \in Shells : t # s => at'[t] = at[t]
    BY <2>1, OthersStay
  <2>4. ASSUME NEW t \in Shells, t # s
        PROVE  at'[t] = "prompt"
    <3>1. at[s] # "prompt" \/ at'[s] # "prompt"
      BY <2>1, CommandRuns
    <3> QED
      BY <2>3, <2>4, <3>1 DEF OneAtATime
  <2>5. ClaimsInv'
    BY <2>2, <2>4 DEF Kept, HasLoaded, Rewrites, HasTmp
  <2>6. /\ OnDisk = [b \in Branches |-> Holder(File!Lines, b)]
        /\ OnDisk' = [b \in Branches |-> Holder(File!Lines, b)']
    <3>1. File!Lines \in Seq(Records) /\ File!Lines' \in Seq(Records)
      BY <2>2, LinesType DEF FileType, File!Lines
    <3> QED
      BY <3>1, LoadedHolds DEF OnDisk
  <2>7. CASE SameHolders
    <3>1. OnDisk' = OnDisk
      BY <2>6, <2>7 DEF SameHolders
    <3> QED
      BY <2>5, <3>1
  <2>8. CASE \E b \in Branches, a \in Agents : Holder(File!Lines, b) = NoAgent /\ Hands(b, a)
    <3>1. PICK b \in Branches, a \in Agents : Holder(File!Lines, b) = NoAgent /\ Hands(b, a)
      BY <2>8
    <3>2. OnDisk[b] = NoAgent /\ OnDisk' = [OnDisk EXCEPT ![b] = a]
      BY <2>6, <3>1 DEF Hands
    <3> QED
      BY <2>5, <3>2 DEF Table!TableNext, Table!Claim
  <2>9. CASE \E b \in Branches : Holder(File!Lines, b) # NoAgent /\ Hands(b, NoAgent)
    <3>1. PICK b \in Branches : Holder(File!Lines, b) # NoAgent /\ Hands(b, NoAgent)
      BY <2>9
    <3>2. OnDisk[b] # NoAgent /\ OnDisk' = [OnDisk EXCEPT ![b] = NoAgent]
      BY <2>6, <3>1 DEF Hands
    <3> QED
      BY <2>5, <3>2 DEF Table!TableNext, Table!Release
  <2> QED
    BY <2>2, <2>7, <2>8, <2>9 DEF TableStep
<1> QED
  BY <1>1, <1>2

\* What a lone shell leaves at the prompt.
LEMMA PromptHolds ==
    ASSUME Alone, ClaimsInv, \A s \in Shells : AtPrompt(s), [ClaimsNext]_claimsVars
    PROVE  \A s \in Shells : AtPrompt(s)'
<1>1. CASE UNCHANGED claimsVars
  <2>1. UNCHANGED <<path, data, at, answer>>
    BY <1>1 DEF claimsVars, file
  <2> QED
    BY <2>1 DEF AtPrompt, Answered, File!Lines
<1>2. CASE ClaimsNext
  <2>1. PICK s \in Shells : Command(s)
    BY <1>2 DEF ClaimsNext
  <2>2. AtPrompt(s)'
    BY <2>1, CommandKeeps DEF ClaimsInv
  <2>3. \A t \in Shells : t = s
    BY DEF Alone
  <2> QED
    BY <2>2, <2>3
<1> QED
  BY <1>1, <1>2

\* A lone shell, whatever it runs and however often it dies, finds on disk what
\* its last finished command answered.
THEOREM AnswerLasts ==
    ASSUME Alone
    PROVE  ClaimsSpec => []AnswerIsOnDisk
<1> DEFINE Answering == \A s \in Shells : AtPrompt(s)
<1>1. ClaimsInit => Answering
  BY DEF ClaimsInit, AtPrompt, NoAnswer
<1>2. ClaimsInv /\ [ClaimsNext]_claimsVars => ClaimsInv'
  <2>1. OneAtATime /\ OneAtATime'
    BY DEF Alone, OneAtATime
  <2> QED
    BY <2>1, StepHolds
<1>3. ClaimsInv /\ Answering /\ [ClaimsNext]_claimsVars => Answering'
  BY PromptHolds
<1>4. ClaimsInv /\ Answering => AnswerIsOnDisk
  <2> SUFFICES ASSUME ClaimsInv, Answering, NEW s \in Shells, at[s] = "prompt", answer[s].command # "none"
               PROVE  OnDisk[answer[s].branch] = IF answer[s].command = "claim" THEN answer[s].agent ELSE NoAgent
    BY DEF AnswerIsOnDisk
  <2>1. answer[s].branch \in Branches /\ Holder(File!Lines, answer[s].branch) = Answered(s)
    BY DEF AtPrompt
  <2>2. OnDisk[answer[s].branch] = Holder(File!Lines, answer[s].branch)
    BY <2>1, OnDiskIs DEF ClaimsInv, HasHolders
  <2> QED
    BY <2>1, <2>2 DEF Answered
<1> QED
  BY <1>1, <1>2, <1>3, <1>4, InitHolds, PTL DEF ClaimsSpec

\* Any number of shells change the owners as the docstring promises, that is, a
\* branch changes hands only through a release, as long as no two commands
\* overlap: the lock that claim() does not take is all that is missing.
THEOREM KeepsTableOneAtATime == ClaimsSpec /\ []OneAtATime => KeepsTable
<1>1. ClaimsInv /\ OneAtATime /\ OneAtATime' /\ [ClaimsNext]_claimsVars
          => ClaimsInv' /\ [Table!TableNext]_OnDisk
  BY StepHolds
<1>2. ClaimsInit => Table!TableInit
  <2> SUFFICES ASSUME ClaimsInit PROVE OnDisk = [b \in Branches |-> NoAgent]
    BY DEF Table!TableInit, Table!Free
  <2>1. FileType /\ File!Lines = <<>>
    BY InitHolds DEF ClaimsInv, ClaimsInit, File!FileInit, File!Lines
  <2>2. \A b : Holder(<<>>, b) = NoAgent
    BY DEF Holder, Positions
  <2> QED
    BY <2>1, <2>2, OnDiskIs DEF HasHolders
<1> QED
  BY <1>1, <1>2, InitHolds, PTL DEF ClaimsSpec, KeepsTable, Table!TableSpec

\* So does a lone shell, whenever it dies.
THEOREM OneShellKeepsTheTable ==
    ASSUME Alone
    PROVE  ClaimsSpec => KeepsTable
<1>1. OneAtATime
  BY DEF Alone, OneAtATime
<1> QED
  BY <1>1, KeepsTableOneAtATime, PTL
=============================================================================
