------------------------------ MODULE AgentBus ------------------------------
(***************************************************************************)
(* The bus of app/agents/bus.py: processes that publish and subscribe over *)
(* a Unix socket, one of which has elected itself broker.                  *)
(*                                                                         *)
(* Each process has one thread that publishes or subscribes; its broker's  *)
(* accept loop and reader threads run beside it.  Nothing but its death    *)
(* ends a broker, for no code outside the tests stops one.  What is        *)
(* written to a publisher's connection is drained and left out, and the    *)
(* read and write limits of a frame with it.                               *)
(***************************************************************************)
EXTENDS Naturals, Sequences, FiniteSets, SequencesExt

CONSTANTS
    Publishers, Subscribers,    \* the processes that publish, that subscribe
    Nobody,
    MaxFrames,    \* bound on the publish calls
    MaxFaults,    \* bound on deaths and failed PID file writes
    Buffer        \* how many frames a subscriber's socket buffer holds

Procs == Publishers \cup Subscribers

NoFile == "none"
Stale == "stale"    \* a socket file whose listener is closed

ASSUME BusAssumption ==
    /\ IsFiniteSet(Procs) /\ {Nobody, NoFile, Stale} \cap Procs = {}
    /\ MaxFrames \in Nat /\ MaxFaults \in Nat /\ Buffer \in Nat \ {0}

Pub(p) == <<p, "pub">>
Sub(p) == <<p, "sub">>
Subs == {Sub(p) : p \in Subscribers}
Pubs == {Pub(p) : p \in Publishers}
Conns == Pubs \cup Subs
Frames == [from : Procs, n : Nat]

VARIABLES
    alive,
    socket_file,  \* the process that bound the socket file, Stale or NoFile
    pid_file,     \* the pid in the sidecar file, or NoFile
    flock,        \* the holder of the election lock, or Nobody
    listening,    \* processes with a listener bound
    running,      \* processes whose BusServer is running
    pc, op, attempt,
    phase, peer,  \* of each connection, and the broker at its other end
    up, down,     \* frames on their way to the broker, and from it
    cast,         \* the broadcast each connection's reader thread is in
    published,    \* how many frames each process published
    faults,
    heard,        \* history: the frames a process's subscriptions yielded
    expected,     \* history: the frames broadcast to a connection
    troubled      \* history: a listener went, or the probe was misled, meanwhile

files == <<socket_file, pid_file, flock>>
servers == <<listening, running>>
calls == <<pc, op, attempt>>
wires == <<phase, peer, up, down, cast>>
counts == <<alive, published, faults>>
history == <<heard, expected, troubled>>
vars == <<files, servers, calls, wires, counts, history>>

Quiet == [frame |-> <<>>, left |-> {}, dead |-> {}]

Init ==
    /\ alive = Procs
    /\ socket_file = NoFile /\ pid_file = NoFile /\ flock = Nobody
    /\ listening = {} /\ running = {}
    /\ pc = [p \in Procs |-> "idle"] /\ op = [p \in Procs |-> "none"]
    /\ attempt = [p \in Procs |-> 0]
    /\ phase = [c \in Conns |-> "none"] /\ peer = [c \in Conns |-> Nobody]
    /\ up = [c \in Conns |-> <<>>] /\ down = [c \in Conns |-> <<>>]
    /\ cast = [c \in Conns |-> Quiet]
    /\ published = [p \in Procs |-> 0] /\ faults = 0
    /\ heard = [p \in Procs |-> <<>>] /\ expected = [c \in Conns |-> {}]
    /\ troubled = [p \in Procs |-> FALSE]

At(p, place) == p \in alive /\ pc[p] = place
Goto(p, place) == pc' = [pc EXCEPT ![p] = place] /\ UNCHANGED <<op, attempt>>
-----------------------------------------------------------------------------
(* publish and subscribe: begin, elect, attach, send or listen. *)

Begin(p, kind) ==
    /\ At(p, "idle") \/ At(p, "raised")
    /\ pc' = [pc EXCEPT ![p] = "ensuring"] /\ op' = [op EXCEPT ![p] = kind]
    /\ attempt' = [attempt EXCEPT ![p] = 0]
    /\ troubled' = [troubled EXCEPT ![p] = FALSE]
    /\ UNCHANGED <<alive, faults, files, servers, wires, heard, expected>>

Publish(p) ==
    /\ p \in Publishers
    /\ FoldFunction(+, 0, published) < MaxFrames
    /\ Begin(p, "pub")
    /\ published' = [published EXCEPT ![p] = @ + 1]

Subscribe(p) == p \in Subscribers /\ Begin(p, "sub") /\ UNCHANGED published

EnsureBroker(p) ==
    /\ At(p, "ensuring")
    /\ Goto(p, IF p \in running THEN "attaching" ELSE "locking")
    /\ UNCHANGED <<files, servers, wires, counts, history>>

Lock(p) ==
    /\ At(p, "locking") /\ flock = Nobody
    /\ flock' = p
    /\ Goto(p, "probing")
    /\ UNCHANGED <<socket_file, pid_file, servers, wires, counts, history>>

(* _socket_is_live: the file is there and the recorded pid is somebody's. *)
SocketIsLive == socket_file # NoFile /\ pid_file \in alive

(* History: somebody's, but not a listener's. *)
Misled == SocketIsLive /\ socket_file \notin listening

(* Mutant of Probe: a process that finds a live broker keeps the lock. *)
KeepsLock(p) ==
    /\ At(p, "probing")
    /\ Goto(p, IF p \in running \/ SocketIsLive THEN "attaching" ELSE "unlinking_socket")
    /\ troubled' = [troubled EXCEPT ![p] = @ \/ Misled]
    /\ UNCHANGED <<files, servers, wires, counts, heard, expected>>

(* Under the lock, for another process may just have been elected. *)
Probe(p) ==
    /\ At(p, "probing")
    /\ IF p \in running \/ SocketIsLive
       THEN flock' = Nobody /\ Goto(p, "attaching")
       ELSE UNCHANGED flock /\ Goto(p, "unlinking_socket")
    /\ troubled' = [troubled EXCEPT ![p] = @ \/ Misled]
    /\ UNCHANGED <<socket_file, pid_file, servers, wires, counts, heard, expected>>

(* _unlink_stale. *)
UnlinkStale(p) ==
    /\ \/ /\ At(p, "unlinking_socket") /\ Goto(p, "unlinking_pid")
          /\ socket_file' = NoFile /\ UNCHANGED pid_file
       \/ /\ At(p, "unlinking_pid") /\ Goto(p, "binding")
          /\ pid_file' = NoFile /\ UNCHANGED socket_file
    /\ UNCHANGED <<flock, servers, wires, counts, history>>

(* A socket file in the way is another broker's: attach to that one. *)
Bind(p) ==
    /\ At(p, "binding")
    /\ IF socket_file = NoFile
       THEN /\ socket_file' = p /\ listening' = listening \cup {p}
            /\ Goto(p, "recording") /\ UNCHANGED flock
       ELSE /\ flock' = Nobody /\ Goto(p, "attaching")
            /\ UNCHANGED <<socket_file, listening>>
    /\ UNCHANGED <<pid_file, running, wires, counts, history>>

(* Only a broker that has written its pid accepts. *)
RecordPid(p) ==
    /\ At(p, "recording")
    /\ pid_file' = p /\ running' = running \cup {p} /\ flock' = Nobody
    /\ Goto(p, "attaching")
    /\ UNCHANGED <<socket_file, listening, wires, counts, history>>

Leave(p, place) ==
    /\ pc' = [pc EXCEPT ![p] = place]
    /\ op' = [op EXCEPT ![p] = "none"] /\ attempt' = [attempt EXCEPT ![p] = 0]

(* The call did what it was for. *)
Return(p) ==
    /\ Leave(p, IF op[p] = "sub" THEN "listening" ELSE "idle")
    /\ troubled' = [troubled EXCEPT ![p] = FALSE]

(* Mutant of Retry: the first failure is raised. *)
NeverRetries(p) == Leave(p, "raised") /\ UNCHANGED troubled

(* A failed connect or send is tried once more, from the election on. *)
Retry(p) ==
    /\ IF attempt[p] = 0
       THEN /\ attempt' = [attempt EXCEPT ![p] = 1]
            /\ pc' = [pc EXCEPT ![p] = "ensuring"] /\ UNCHANGED op
       ELSE Leave(p, "raised")
    /\ UNCHANGED troubled

Attach(p) ==
    LET c == <<p, op[p]>> IN
    /\ At(p, "attaching")
    /\ IF phase[c] # "none"
       THEN Goto(p, "sending") /\ UNCHANGED <<phase, peer, troubled>>
       ELSE IF socket_file \in listening
       THEN /\ phase' = [phase EXCEPT ![c] = "backlog"]
            /\ peer' = [peer EXCEPT ![c] = socket_file]
            /\ IF op[p] = "pub" THEN Goto(p, "sending") /\ UNCHANGED troubled ELSE Return(p)
       ELSE Retry(p) /\ UNCHANGED <<phase, peer>>
    /\ UNCHANGED <<up, down, cast, files, servers, counts, heard, expected>>

(* Mutant of Send: the second attempt is made whatever became of the first. *)
SendsTwice(p) ==
    LET c == Pub(p) IN
    /\ At(p, "sending")
    /\ IF phase[c] = "broken"
       THEN /\ phase' = [phase EXCEPT ![c] = "none"] /\ peer' = [peer EXCEPT ![c] = Nobody]
            /\ Retry(p) /\ UNCHANGED up
       ELSE /\ up' = [up EXCEPT ![c] = Append(@, [from |-> p, n |-> published[p]])]
            /\ IF attempt[p] = 0 THEN Retry(p) ELSE Return(p)
            /\ UNCHANGED <<phase, peer>>
    /\ UNCHANGED <<down, cast, files, servers, counts, heard, expected>>

Send(p) ==
    LET c == Pub(p) IN
    /\ At(p, "sending")
    /\ IF phase[c] = "broken"
       THEN /\ phase' = [phase EXCEPT ![c] = "none"] /\ peer' = [peer EXCEPT ![c] = Nobody]
            /\ Retry(p) /\ UNCHANGED up
       ELSE /\ up' = [up EXCEPT ![c] = Append(@, [from |-> p, n |-> published[p]])]
            /\ Return(p) /\ UNCHANGED <<phase, peer>>
    /\ UNCHANGED <<down, cast, files, servers, counts, heard, expected>>
-----------------------------------------------------------------------------
(* The broker: the accept loop and one reader thread per connection. *)

Accept(c) ==
    /\ phase[c] = "backlog" /\ peer[c] \in running
    /\ phase' = [phase EXCEPT ![c] = "attached"]
    /\ UNCHANGED <<peer, up, down, cast, files, servers, calls, counts, history>>

Fanout(b) == {c \in Subs : phase[c] = "attached" /\ peer[c] = b}

(* The clients are listed under the lock and written to outside it. *)
Broadcast(c) ==
    LET targets == Fanout(peer[c]) \ {c} IN
    /\ phase[c] = "attached" /\ up[c] # <<>> /\ cast[c] = Quiet
    /\ up' = [up EXCEPT ![c] = Tail(@)]
    /\ cast' = [cast EXCEPT ![c] = [frame |-> <<Head(up[c])>>, left |-> targets, dead |-> {}]]
    /\ expected' = [t \in Conns |->
                      IF t \in targets THEN expected[t] \cup {Head(up[c])} ELSE expected[t]]
    /\ UNCHANGED <<phase, peer, down, files, servers, calls, counts, heard, troubled>>

(* Mutant of Write: a subscriber whose buffer is full loses the frame only. *)
SkipsTheSlow(c, t) ==
    /\ t \in cast[c].left
    /\ cast' = [cast EXCEPT ![c].left = @ \ {t}]
    /\ down' = IF phase[t] = "attached" /\ Len(down[t]) < Buffer
               THEN [down EXCEPT ![t] = @ \o cast[c].frame] ELSE down
    /\ UNCHANGED <<phase, peer, up, files, servers, calls, counts, history>>

(* A write that would block, or fails, marks the subscriber for eviction. *)
Write(c, t) ==
    /\ t \in cast[c].left
    /\ IF phase[t] = "attached" /\ Len(down[t]) < Buffer
       THEN /\ down' = [down EXCEPT ![t] = @ \o cast[c].frame]
            /\ cast' = [cast EXCEPT ![c].left = @ \ {t}]
       ELSE /\ cast' = [cast EXCEPT ![c] = [cast[c] EXCEPT !.left = @ \ {t}, !.dead = @ \cup {t}]]
            /\ UNCHANGED down
    /\ UNCHANGED <<phase, peer, up, files, servers, calls, counts, history>>

Evict(c) ==
    /\ cast[c] # Quiet /\ cast[c].left = {}
    /\ phase' = [t \in Conns |-> IF t \in cast[c].dead THEN "evicted" ELSE phase[t]]
    /\ cast' = [cast EXCEPT ![c] = Quiet]
    /\ UNCHANGED <<peer, up, down, files, servers, calls, counts, history>>

(* The reader has read what a dead publisher left behind. *)
Disconnected(c) ==
    /\ c \in Pubs /\ c[1] \notin alive
    /\ phase[c] = "attached" /\ up[c] = <<>> /\ cast[c] = Quiet
    /\ phase' = [phase EXCEPT ![c] = "none"] /\ peer' = [peer EXCEPT ![c] = Nobody]
    /\ UNCHANGED <<up, down, cast, files, servers, calls, counts, history>>
-----------------------------------------------------------------------------
(* The subscriber's iterator. *)

Receive(p) ==
    LET c == Sub(p) IN
    /\ At(p, "listening") /\ down[c] # <<>>
    /\ down' = [down EXCEPT ![c] = Tail(@)]
    /\ heard' = [heard EXCEPT ![p] = Append(@, Head(down[c]))]
    /\ UNCHANGED <<phase, peer, up, cast, files, servers, calls, counts, expected, troubled>>

(* The client of c closes it, and the broker finds out. *)
Close(c) ==
    /\ phase' = [phase EXCEPT ![c] = "none"] /\ peer' = [peer EXCEPT ![c] = Nobody]
    /\ expected' = [expected EXCEPT ![c] = {}]
    /\ down' = [down EXCEPT ![c] = <<>>]
    /\ cast' = [r \in Conns |-> [cast[r] EXCEPT !.left = @ \ {c}, !.dead = @ \ {c}]]

EndOfStream(p) ==
    /\ At(p, "listening") /\ phase[Sub(p)] = "broken" /\ down[Sub(p)] = <<>>
    /\ Close(Sub(p)) /\ Leave(p, "idle")
    /\ UNCHANGED <<up, files, servers, counts, heard, troubled>>

KeyboardInterrupt(p) ==
    /\ At(p, "listening")
    /\ Close(Sub(p)) /\ Leave(p, "idle")
    /\ UNCHANGED <<up, files, servers, counts, heard, troubled>>
-----------------------------------------------------------------------------
(* Faults. *)

(* The listener of b is closed and its reader threads gone: the clients    *)
(* are cut off, and those in gone are gone with it.                        *)
ListenerGone(b, gone) ==
    LET cutoff == {c \in Conns : peer[c] = b /\ phase[c] # "none"} IN
    /\ listening' = listening \ {b} /\ running' = running \ {b}
    /\ phase' = [c \in Conns |-> IF c \in gone THEN "none"
                                 ELSE IF c \in cutoff THEN "broken" ELSE phase[c]]
    /\ up' = [c \in Conns |-> IF c \in cutoff THEN <<>> ELSE up[c]]
    /\ down' = [c \in Conns |-> IF c \in gone THEN <<>> ELSE down[c]]
    /\ cast' = [c \in Conns |-> IF c \in cutoff THEN Quiet ELSE
                  [cast[c] EXCEPT !.left = @ \ gone, !.dead = @ \ gone]]
    /\ peer' = [c \in Conns |-> IF c \in gone \cup cutoff THEN Nobody ELSE peer[c]]
    /\ troubled' = [p \in Procs |-> troubled[p] \/ (b \in listening /\ op[p] # "none")]
    /\ expected' = [c \in Conns |-> IF c \in gone \cup cutoff THEN {} ELSE expected[c]]

(* Mutant of RecordFails: a broker without its pid file goes on. *)
SwallowsFailure(p) ==
    /\ At(p, "recording") /\ faults < MaxFaults
    /\ faults' = faults + 1
    /\ running' = running \cup {p} /\ flock' = Nobody
    /\ Goto(p, "attaching")
    /\ UNCHANGED <<socket_file, pid_file, listening, wires, alive, published, history>>

(* _write_pid_file_atomic fails: listener and socket file are taken back. *)
RecordFails(p) ==
    /\ At(p, "recording") /\ faults < MaxFaults
    /\ faults' = faults + 1
    /\ ListenerGone(p, {})
    /\ socket_file' = NoFile /\ flock' = Nobody
    /\ Leave(p, "raised")
    /\ UNCHANGED <<pid_file, alive, published, heard>>

Die(p) ==
    /\ p \in alive /\ faults < MaxFaults
    /\ faults' = faults + 1 /\ alive' = alive \ {p}
    /\ ListenerGone(p, {c \in Conns : c[1] = p /\ (c \in Subs \/ peer[c] = p \/ phase[c] = "broken")})
    /\ socket_file' = IF socket_file = p THEN Stale ELSE socket_file
    /\ flock' = IF flock = p THEN Nobody ELSE flock
    /\ Leave(p, "idle")
    /\ heard' = [heard EXCEPT ![p] = <<>>]
    /\ UNCHANGED <<pid_file, published>>

(* A new process has the pid, some time after. *)
PidReused(p) ==
    /\ p \notin alive /\ \A c \in Conns : c[1] = p => phase[c] = "none"
    /\ alive' = alive \cup {p}
    /\ UNCHANGED <<files, servers, calls, wires, published, faults, history>>
-----------------------------------------------------------------------------
Step(p) ==
    \/ EnsureBroker(p) \/ Lock(p) \/ Probe(p) \/ UnlinkStale(p) \/ Bind(p) \/ RecordPid(p)
    \/ Attach(p) \/ Send(p) \/ Receive(p) \/ EndOfStream(p)

Serve(c) == Accept(c) \/ Broadcast(c) \/ (\E t \in Subs : Write(c, t)) \/ Evict(c) \/ Disconnected(c)

Environment(p) ==
    Publish(p) \/ Subscribe(p) \/ KeyboardInterrupt(p) \/ RecordFails(p) \/ Die(p) \/ PidReused(p)

Next ==
    \/ \E p \in Procs : Step(p) \/ Environment(p)
    \/ \E c \in Conns : Serve(c)

(* Every thread runs, and a waiter gets the lock in its turn. *)
Fairness ==
    /\ \A p \in Procs : WF_vars(Step(p)) /\ SF_vars(Lock(p))
    /\ \A c \in Conns : WF_vars(Serve(c))

Spec == Init /\ [][Next]_vars /\ Fairness
-----------------------------------------------------------------------------
(* The lock is held by the process between the two ends of the election.   *)
FilesOK ==
    /\ alive \subseteq Procs /\ running \subseteq listening /\ listening \subseteq alive
    /\ socket_file \in Procs \cup {NoFile, Stale} /\ pid_file \in Procs \cup {NoFile}
    /\ flock \in alive \cup {Nobody}
    /\ \A p \in Procs : flock = p <=>
          pc[p] \in {"probing", "unlinking_socket", "unlinking_pid", "binding", "recording"}

(* Each call is of a process that may make it. *)
CallsOK ==
    /\ pc \in [Procs -> {"idle", "ensuring", "locking", "probing", "unlinking_socket",
                         "unlinking_pid", "binding", "recording", "attaching", "sending",
                         "listening", "raised"}]
    /\ op \in [Procs -> {"pub", "sub", "none"}] /\ attempt \in [Procs -> {0, 1}]
    /\ \A p \in Procs :
          /\ op[p] = "none" <=> pc[p] \in {"idle", "listening", "raised"}
          /\ op[p] = "pub" => p \in Publishers
          /\ op[p] = "sub" \/ pc[p] = "listening" => p \in Subscribers
    /\ published \in [Procs -> Nat] /\ faults \in 0 .. MaxFaults
    /\ troubled \in [Procs -> BOOLEAN]

WiresOK ==
    /\ phase \in [Conns -> {"none", "backlog", "attached", "evicted", "broken"}]
    /\ peer \in [Conns -> Procs \cup {Nobody}]
    /\ up \in [Conns -> Seq(Frames)] /\ down \in [Conns -> Seq(Frames)]
    /\ cast \in [Conns -> [frame : Seq(Frames), left : SUBSET Subs, dead : SUBSET Subs]]
    /\ heard \in [Procs -> Seq(Frames)] /\ expected \in [Conns -> SUBSET Frames]

(* Every variable keeps its type. *)
TypeOK == FilesOK /\ CallsOK /\ WiresOK

(* The broker that runs is the one the two files name: no second process   *)
(* binds beside it and none unlinks its files, whoever dies in the middle  *)
(* of an election (bus.py:474-483 and 202-206, "silently split the bus").  *)
OneBus == \A p \in running : socket_file = p /\ pid_file = p

(* publish and subscribe raise only when a broker died during the call or  *)
(* the dead broker's pid had been given to another process (bus.py:12, "if *)
(* the broker dies, the next operation re-elects").                        *)
FailureNeedsAFault == \A p \in Procs : pc[p] = "raised" => troubled[p]

(* A subscriber in the fan-out has, or will be written, every frame that   *)
(* was broadcast since it attached, or is about to be evicted: a frame is  *)
(* never skipped for one that stays.                                       *)
AttachedMissNothing ==
    \A p \in Subscribers : phase[Sub(p)] = "attached" =>
        \A f \in expected[Sub(p)] :
            \/ f \in Range(heard[p]) \cup Range(down[Sub(p)])
            \/ \E c \in Conns :
                  \/ Sub(p) \in cast[c].dead
                  \/ Sub(p) \in cast[c].left /\ cast[c].frame = <<f>>

(* A subscriber gets the frames of one publisher in the order of the calls *)
(* and none of them twice, whatever brokers died and however often publish *)
(* was retried.                                                            *)
EachPublisherInOrder ==
    \A p \in Procs : \A i, j \in DOMAIN heard[p] :
        i < j /\ heard[p][i].from = heard[p][j].from => heard[p][i].n < heard[p][j].n

(* Every call of publish returns, and every call of subscribe gets to its  *)
(* stream or raises: no election waits forever for a lock that a dead or   *)
(* defeated process left behind.                                           *)
CallsGetThrough ==
    \A p \in Procs : At(p, "ensuring") ~> pc[p] \in {"idle", "listening", "raised"}
=============================================================================
