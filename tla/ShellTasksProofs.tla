-------------------------- MODULE ShellTasksProofs --------------------------
(***************************************************************************)
(* The background tasks of ShellTasks for any number of shells, tasks and  *)
(* registries: every verdict is earned and stands, and the shell that      *)
(* wrote last has its records on disk.                                     *)
(***************************************************************************)
EXTENDS ShellTasks, SequenceTheorems, TLAPS

\* Which shell holds a registry, and what is done for registries that are held.
Ownership ==
    /\ \A s \in Shells : registry[s] # 0 => home[registry[s]] = s
    /\ \A s \in Shells : command[s].at # "idle" => registry[s] # 0
    /\ \A r \in Registries : home[r] # Nobody => r <= opened /\ registry[home[r]] # 0
    /\ \A s \in Shells : command[s].at = "loading" =>
          \A r \in Registries : home[r] = s => r = registry[s]
    /\ \A h \in Threads : saving[h] # 0 => home[saving[h]] # Nobody
    /\ last <= opened
    /\ \A t \in Tasks : creator[t] <= opened
    /\ \A t \in Tasks : watcher[t] # "none" => creator[t] # 0 /\ home[creator[t]] # Nobody

\* Who holds a persist lock has that registry to save.
LocksSave ==
    /\ \A r \in Registries : locked[r] # Nobody => saving[locked[r]] = r
    /\ \A s \in Shells : command[s].at = "cancelling" => saving[s] = 0

\* A task that was not created yet is in no list and has no history.
ListsAreCreated ==
    /\ \A r \in Registries : \A i \in DOMAIN tasks[r] : creator[tasks[r][i]] # 0
    /\ \A r \in Registries : \A i \in DOMAIN payload[r] : creator[payload[r][i].task] # 0
    /\ \A i \in DOMAIN disk : creator[disk[i].task] # 0
    /\ \A s \in Shells : \A i \in DOMAIN command[s].rest : creator[command[s].rest[i]] # 0

NothingBeforeCreation ==
    \A t \in Tasks : creator[t] = 0 =>
        /\ child[t] = "none" /\ watcher[t] = "none"
        /\ \A r \in Registries : status[r][t] = "pending"

\* What a command knows of the task it works on.
StartingOrCancelling ==
    \A s \in Shells :
        LET t == command[s].task
        IN  /\ command[s].at \in {"created", "running", "spawned"} =>
                  t \in Tasks /\ creator[t] = registry[s] /\ watcher[t] = "none"
            /\ command[s].at = "created" => child[t] = "none" /\ status[registry[s]][t] = "pending"
            /\ command[s].at = "running" => child[t] = "none" /\ status[registry[s]][t] = "running"
            /\ command[s].at = "spawned" => child[t] # "none"
            /\ command[s].at = "cancelling" =>
                  t \in Tasks /\ creator[t] # 0 /\ (creator[t] = registry[s] => cancel[t])

\* What a watcher knows of its task.
Watching ==
    \A t \in Tasks :
        /\ watcher[t] # "none" => child[t] # "none"
        /\ watcher[t] \in {"exited", "terminated"} => child[t] # "alive" \/ t \in unreaped
        /\ watcher[t] = "exited" => child[t] # "alive"
        /\ watcher[t] \in {"expired", "terminating", "draining", "terminated"} \/ t \in timed_out => cancel[t]

Earned == Ownership /\ LocksSave /\ ListsAreCreated /\ NothingBeforeCreation
          /\ StartingOrCancelling /\ Watching /\ VerdictIsEarned

View(r) == [i \in DOMAIN tasks[r] |-> ToDict(r, tasks[r][i])]
Loading(r) == command[home[r]].at = "loading"

\* What is being written is up to date, or another thread writes after it.
PayloadIsCurrent ==
    \A r \in Registries :
        (home[r] # Nobody /\ ~Loading(r) /\ locked[r] # Nobody /\ Saves(r) = {locked[r]})
           => payload[r] = View(r)

IInv == Earned /\ PayloadIsCurrent /\ LastWriterIsOnDisk
-----------------------------------------------------------------------------
(* Facts about the operators. *)

\* The newest records of a list are at most MaxHeld of that list's elements.
LEMMA MostRecentIsPart ==
    ASSUME NEW S, NEW seq \in Seq(S)
    PROVE  /\ MostRecent(seq) \in Seq(S)
           /\ \A i \in DOMAIN MostRecent(seq) : \E j \in DOMAIN seq : MostRecent(seq)[i] = seq[j]
<1>1. CASE Len(seq) <= MaxHeld
  BY <1>1 DEF MostRecent
<1>2. CASE ~(Len(seq) <= MaxHeld)
  <2> DEFINE first == Len(seq) - MaxHeld + 1
  <2>1. first \in Int /\ Len(seq) \in Int /\ first >= 1
    BY <1>2, TasksAssumption
  <2>2. \A i \in first .. Len(seq) : i \in DOMAIN seq /\ seq[i] \in S
    BY <2>1, ElementOfSeq
  <2>3. /\ SubSeq(seq, first, Len(seq)) \in Seq(S)
        /\ Len(SubSeq(seq, first, Len(seq))) = IF first <= Len(seq) THEN Len(seq) - first + 1 ELSE 0
        /\ \A i \in 1 .. Len(seq) - first + 1 : SubSeq(seq, first, Len(seq))[i] = seq[first + i - 1]
    BY <2>1, <2>2, SubSeqProperties
  <2>4. MostRecent(seq) = SubSeq(seq, first, Len(seq))
    BY <1>2 DEF MostRecent
  <2> HIDE DEF first
  <2>5. ASSUME NEW i \in DOMAIN SubSeq(seq, first, Len(seq))
        PROVE  \E j \in DOMAIN seq : SubSeq(seq, first, Len(seq))[i] = seq[j]
    <3>1. i \in 1 .. Len(seq) - first + 1
      BY <2>1, <2>3
    <3>2. first + i - 1 \in DOMAIN seq
      BY <2>1, <3>1
    <3> QED
      BY <2>3, <3>1, <3>2
  <2> QED
    BY <2>3, <2>4, <2>5
<1> QED
  BY <1>1, <1>2

\* The head and the rest of a list that has one.
LEMMA RestIsPart ==
    ASSUME NEW S, NEW seq \in Seq(S), seq # <<>>
    PROVE  /\ Head(seq) \in S /\ Tail(seq) \in Seq(S)
           /\ 1 \in DOMAIN seq /\ Head(seq) = seq[1]
           /\ \A i \in DOMAIN Tail(seq) : \E j \in DOMAIN seq : Tail(seq)[i] = seq[j]
<1>1. Head(seq) \in S /\ Tail(seq) \in Seq(S) /\ Len(Tail(seq)) = Len(seq) - 1
      /\ \A i \in 1 .. Len(Tail(seq)) : Tail(seq)[i] = seq[i + 1]
  BY HeadTailProperties
<1>2. Len(seq) \in Nat \ {0} /\ Head(seq) = seq[1]
  BY EmptySeq, LenProperties
<1>3. ASSUME NEW i \in DOMAIN Tail(seq) PROVE i + 1 \in DOMAIN seq /\ Tail(seq)[i] = seq[i + 1]
  BY <1>1, <1>2
<1> QED
  BY <1>1, <1>2, <1>3

\* The end of a list that grew.
LEMMA LongerIsPart ==
    ASSUME NEW S, NEW seq \in Seq(S), NEW e \in S
    PROVE  /\ Append(seq, e) \in Seq(S)
           /\ \A i \in DOMAIN Append(seq, e) :
                 Append(seq, e)[i] = e \/ \E j \in DOMAIN seq : Append(seq, e)[i] = seq[j]
<1>1. /\ Append(seq, e) \in Seq(S) /\ Len(Append(seq, e)) = Len(seq) + 1
      /\ \A i \in 1 .. Len(seq) : Append(seq, e)[i] = seq[i]
      /\ Append(seq, e)[Len(seq) + 1] = e
  BY AppendProperties
<1>2. ASSUME NEW i \in DOMAIN Append(seq, e)
      PROVE  i = Len(seq) + 1 \/ i \in DOMAIN seq
  BY <1>1
<1> QED
  BY <1>1, <1>2

\* A snapshot of the records is a list of lines.
LEMMA ViewIsTyped ==
    ASSUME RecordsOK, NEW r \in Registries
    PROVE  View(r) \in Seq(Lines) /\ DOMAIN View(r) = DOMAIN tasks[r]
           /\ \A i \in DOMAIN tasks[r] : View(r)[i].task = tasks[r][i]
<1>1. tasks[r] \in Seq(Tasks) /\ DOMAIN tasks[r] = 1 .. Len(tasks[r]) /\ Len(tasks[r]) \in Nat
  BY DEF RecordsOK
<1>2. ASSUME NEW i \in DOMAIN tasks[r] PROVE ToDict(r, tasks[r][i]) \in Lines
  <2>1. tasks[r][i] \in Tasks
    BY <1>1, ElementOfSeq
  <2> QED
    BY <2>1 DEF ToDict, Lines, RecordsOK
<1>3. View(r) \in [1 .. Len(tasks[r]) -> Lines]
  BY <1>1, <1>2 DEF View
<1> QED
  BY <1>1, <1>3, IsASeq DEF View, ToDict

\* Threads are shells and tasks, and Nobody is none of them.
LEMMA Names ==
    /\ Nobody \notin Threads /\ Shells \subseteq Threads /\ Tasks \subseteq Threads
    /\ Shells \cap Tasks = {} /\ 0 \notin Tasks /\ 0 \notin Registries
    /\ Registries \subseteq 0 .. MaxRegistries
BY TasksAssumption DEF Threads, Tasks, Registries
-----------------------------------------------------------------------------
(* Type correctness, one part of the state after the other. *)

\* The steps of the system, one action per line.
Acts ==
    \/ \E h \in Threads : Save(h)
    \/ \E s \in Shells :
          \/ Open(s) \/ Load(s) \/ Reset(s) \/ Close(s)
          \/ Create(s) \/ MarkRunning(s) \/ Spawn(s) \/ Watched(s)
          \/ Refresh(s) \/ Cancel(s) \/ Cancelled(s)
    \/ \E t \in Tasks :
          \/ Poll(t) \/ Expire(t) \/ Expired(t) \/ CheckCancel(t) \/ Terminate(t)
          \/ Drain(t) \/ Conclude(t) \/ ChildExits(t) \/ DescendantExits(t)

LEMMA NextActs == Next => Acts
BY DEF Next, Acts, Command, Watch

\* A new registry gets the next number.
LEMMA NewRegistryIsTyped ==
    ASSUME ShellsOK, NEW s \in Shells, NewRegistry(s)
    PROVE  /\ opened + 1 \in Registries /\ opened' = opened + 1 /\ opened' \in 0 .. MaxRegistries
           /\ home' \in [Registries -> Shells \cup {Nobody}]
           /\ registry' \in [Shells -> 0 .. MaxRegistries]
BY TasksAssumption DEF ShellsOK, NewRegistry, Registries

\* What a shell reads from the file are created tasks with a status.
LEMMA LoadedIsTyped ==
    ASSUME StoreOK
    PROVE  LET loaded == MostRecent(disk)
           IN  /\ loaded \in Seq(Lines)
               /\ \A i \in DOMAIN loaded :
                     /\ loaded[i] \in Lines
                     /\ \E j \in DOMAIN disk : loaded[i] = disk[j]
               /\ [i \in DOMAIN loaded |-> loaded[i].task] \in Seq(Tasks)
<1> DEFINE loaded == MostRecent(disk)
<1>1. disk \in Seq(Lines)
  BY DEF StoreOK
<1>2. loaded \in Seq(Lines) /\ \A i \in DOMAIN loaded : \E j \in DOMAIN disk : loaded[i] = disk[j]
  BY <1>1, MostRecentIsPart
<1> HIDE DEF loaded
<1>3. \A i \in DOMAIN loaded : loaded[i] \in Lines
  BY <1>2, ElementOfSeq
<1>4. DOMAIN loaded = 1 .. Len(loaded) /\ Len(loaded) \in Nat
  BY <1>2
<1>5. [i \in DOMAIN loaded |-> loaded[i].task] \in [1 .. Len(loaded) -> Tasks]
  BY <1>3, <1>4 DEF Lines
<1>6. [i \in DOMAIN loaded |-> loaded[i].task] \in Seq(Tasks)
  BY <1>4, <1>5
<1> QED
  BY <1>2, <1>3, <1>6 DEF loaded

\* The statuses that a shell reads.
LEMMA OpenedStatus ==
    ASSUME ShellsOK, RecordsOK, StoreOK, NEW s \in Shells, Open(s)
    PROVE  /\ status' \in [Registries -> [Tasks -> Statuses]]
           /\ \A r \in Registries : r # opened + 1 => status'[r] = status[r]
           /\ \A t \in Tasks :
                 \/ status'[opened + 1][t] = status[opened + 1][t]
                 \/ \E i \in DOMAIN disk : disk[i].task = t
<1> DEFINE loaded == MostRecent(disk)
           of(t) == CHOOSE i \in DOMAIN loaded : loaded[i].task = t
           found == {loaded[i].task : i \in DOMAIN loaded}
           read == [t \in Tasks |-> IF t \in found THEN loaded[of(t)].status
                                                   ELSE status[opened + 1][t]]
<1>1. opened + 1 \in Registries
  BY NewRegistryIsTyped DEF Open
<1>2. status' = [status EXCEPT ![opened + 1] =
                    [t \in Tasks |-> IF t \in found THEN loaded[of(t)].status ELSE @[t]]]
  BY DEF Open
<1>3. status' = [status EXCEPT ![opened + 1] = read]
  BY <1>1, <1>2 DEF RecordsOK
<1>4. /\ \A i \in DOMAIN loaded :
            /\ loaded[i] \in Lines
            /\ \E j \in DOMAIN disk : loaded[i] = disk[j]
  BY LoadedIsTyped
<1> HIDE DEF loaded
<1>5. ASSUME NEW t \in Tasks, t \in found
      PROVE  of(t) \in DOMAIN loaded /\ loaded[of(t)].task = t
  BY <1>5
<1> HIDE DEF of
<1>6. ASSUME NEW t \in Tasks PROVE read[t] \in Statuses
  <2>1. CASE t \in found
    BY <2>1, <1>4, <1>5 DEF Lines
  <2>2. CASE t \notin found
    BY <2>2, <1>1 DEF RecordsOK
  <2> QED
    BY <2>1, <2>2
<1>7. ASSUME NEW t \in Tasks, t \in found PROVE \E i \in DOMAIN disk : disk[i].task = t
  BY <1>7, <1>4
<1>8. read \in [Tasks -> Statuses] /\ \A t \in Tasks : t \notin found => read[t] = status[opened + 1][t]
  BY <1>6
<1> HIDE DEF read, found
<1>9. status'[opened + 1] = read /\ \A r \in Registries : r # opened + 1 => status'[r] = status[r]
  BY <1>1, <1>3 DEF RecordsOK
<1> QED
  BY <1>1, <1>3, <1>7, <1>8, <1>9 DEF RecordsOK

\* SetStatus and Mark, point by point.
LEMMA StatusEffect ==
    ASSUME RecordsOK, StoreOK, NEW r \in 0 .. MaxRegistries, NEW t, NEW st \in Statuses, SetStatus(r, t, st)
    PROVE  /\ status' \in [Registries -> [Tasks -> Statuses]]
           /\ \A q \in Registries, u \in Tasks :
                 status'[q][u] = IF q = r /\ u = t THEN st ELSE status[q][u]
BY DEF RecordsOK, SetStatus

LEMMA PersistEffect ==
    ASSUME StoreOK, NEW h \in Threads, NEW r \in 0 .. MaxRegistries, Persist(h, r)
    PROVE  /\ saving' \in [Threads -> 0 .. MaxRegistries]
           /\ saving'[h] = r /\ \A g \in Threads : g # h => saving'[g] = saving[g]
BY DEF StoreOK, Persist

LEMMA MarkEffect ==
    ASSUME RecordsOK, StoreOK, NEW h \in Threads, NEW r \in Registries, NEW t \in Tasks, NEW st \in Statuses,
           Mark(h, r, t, st)
    PROVE  /\ status' \in [Registries -> [Tasks -> Statuses]]
           /\ saving' \in [Threads -> 0 .. MaxRegistries]
           /\ \A g \in Threads : g # h => saving'[g] = saving[g]
           /\ \A q \in Registries, u \in Tasks : ~(q = r /\ u = t) => status'[q][u] = status[q][u]
           /\ \/ status[r][t] \in Final /\ UNCHANGED <<status, saving>>
              \/ status[r][t] \notin Final /\ status'[r][t] = st /\ saving'[h] = r
<1>1. CASE status[r][t] \in Final
  BY <1>1 DEF Mark, RecordsOK, StoreOK
<1>2. CASE status[r][t] \notin Final
  <2>1. SetStatus(r, t, st) /\ Persist(h, r)
    BY <1>2 DEF Mark
  <2>2. r \in 0 .. MaxRegistries
    BY Names
  <2>3. /\ status' \in [Registries -> [Tasks -> Statuses]]
        /\ \A q \in Registries, u \in Tasks :
                 status'[q][u] = IF q = r /\ u = t THEN st ELSE status[q][u]
    BY <2>1, <2>2, StatusEffect
  <2> QED
    BY <1>2, <2>1, <2>2, <2>3, PersistEffect
<1> QED
  BY <1>1, <1>2

\* A shell that is busy has a registry, and so has a task that is watched.
LEMMA ShellHolds ==
    ASSUME ShellsOK, Ownership, NEW s \in Shells, registry[s] # 0 \/ command[s].at # "idle"
    PROVE  registry[s] \in Registries /\ home[registry[s]] = s /\ registry[s] # 0
BY DEF ShellsOK, Ownership, Registries

LEMMA WatcherHolds ==
    ASSUME RecordsOK, Ownership, NEW t \in Tasks, watcher[t] # "none"
    PROVE  creator[t] \in Registries /\ home[creator[t]] # Nobody
BY DEF RecordsOK, Ownership, Registries

\* The task a command works on.
LEMMA CommandHolds ==
    ASSUME StartingOrCancelling, ShellsOK, NEW s \in Shells,
           command[s].at \in {"created", "running", "spawned", "cancelling"}
    PROVE  command[s].task \in Tasks
BY DEF StartingOrCancelling, ShellsOK

LEMMA ShellsKeepType ==
    ASSUME TypeOK, Earned, Acts
    PROVE  ShellsOK'
<1> USE DEF TypeOK
<1>1. ASSUME NEW h \in Threads, Save(h) PROVE ShellsOK'
  BY <1>1 DEF Save, ShellsOK, shells
<1>2. ASSUME NEW s \in Shells, Open(s) PROVE ShellsOK'
  <2> DEFINE loaded == MostRecent(disk)
  <2>1. [i \in DOMAIN loaded |-> loaded[i].task] \in Seq(Tasks)
    BY LoadedIsTyped
  <2>2. command' = [command EXCEPT ![s] =
           [at |-> "loading", task |-> 0, rest |-> [i \in DOMAIN loaded |-> loaded[i].task]]]
    BY <1>2 DEF Open
  <2>3. /\ home' \in [Registries -> Shells \cup {Nobody}]
        /\ registry' \in [Shells -> 0 .. MaxRegistries]
        /\ opened' \in 0 .. MaxRegistries
    BY <1>2, NewRegistryIsTyped DEF Open
  <2> HIDE DEF loaded
  <2> QED
    BY <2>1, <2>2, <2>3 DEF ShellsOK
<1>3. ASSUME NEW s \in Shells, Load(s) PROVE ShellsOK'
  <2>1. CASE command' = [command EXCEPT ![s].rest = Tail(command[s].rest)] /\ command[s].rest # <<>>
    <3>1. Tail(command[s].rest) \in Seq(Tasks)
      BY <2>1, RestIsPart DEF ShellsOK
    <3> QED
      BY <1>3, <2>1, <3>1 DEF Load, ShellsOK, shells
  <2>2. CASE command' = [command EXCEPT ![s] = Idle]
    BY <1>3, <2>2 DEF Load, ShellsOK, shells, Idle
  <2>3. CASE UNCHANGED command
    BY <1>3, <2>3 DEF Load, ShellsOK, shells
  <2> QED
    BY <1>3, <2>1, <2>2, <2>3 DEF Load
<1>4. ASSUME NEW s \in Shells, Reset(s) PROVE ShellsOK'
  BY <1>4, NewRegistryIsTyped DEF Reset, ShellsOK
<1>5. ASSUME NEW s \in Shells, Close(s) PROVE ShellsOK'
  <2>1. home' \in [Registries -> Shells \cup {Nobody}]
    BY <1>5 DEF Close, ShellsOK
  <2>2. registry' = [registry EXCEPT ![s] = 0] /\ command' = [command EXCEPT ![s] = Idle] /\ opened' = opened
    BY <1>5 DEF Close
  <2> QED
    BY <2>1, <2>2, TasksAssumption DEF ShellsOK, Idle
<1>6. ASSUME NEW s \in Shells, Create(s) PROVE ShellsOK'
  BY <1>6 DEF Create, ShellsOK, shells, Doing
<1>7. ASSUME NEW s \in Shells, MarkRunning(s) \/ Spawn(s) \/ Watched(s) \/ Cancel(s) \/ Cancelled(s)
      PROVE  ShellsOK'
  <2>1. CASE MarkRunning(s)
    BY <2>1, CommandHolds DEF MarkRunning, ShellsOK, shells, Doing, Earned
  <2>2. CASE Spawn(s)
    <3>1. UNCHANGED shells
      BY <2>2 DEF Spawn
    <3>2. command[s].task \in Tasks
      BY <2>2, CommandHolds DEF Spawn, Earned
    <3>3. \/ command' = [command EXCEPT ![s] = Doing("spawned", command[s].task)]
          \/ command' = [command EXCEPT ![s] = Idle]
      BY <2>2 DEF Spawn
    <3>4. CASE command' = [command EXCEPT ![s] = Doing("spawned", command[s].task)]
      BY <3>1, <3>2, <3>4 DEF ShellsOK, shells, Doing
    <3>5. CASE command' = [command EXCEPT ![s] = Idle]
      BY <3>1, <3>5 DEF ShellsOK, shells, Idle
    <3> QED
      BY <3>3, <3>4, <3>5
  <2>3. CASE Watched(s)
    BY <2>3 DEF Watched, ShellsOK, shells, Idle
  <2>4. CASE Cancel(s)
    <3>1. PICK t \in Held(s) : command' = [command EXCEPT ![s] = Doing("cancelling", t)]
      BY <2>4 DEF Cancel
    <3>2. registry[s] \in Registries
      BY <2>4, ShellHolds DEF Cancel, Free, Earned
    <3>3. t \in Tasks
      BY <3>1, <3>2, ElementOfSeq DEF Held, RecordsOK
    <3> QED
      BY <2>4, <3>1, <3>3 DEF Cancel, ShellsOK, shells, Doing
  <2>5. CASE Cancelled(s)
    BY <2>5 DEF Cancelled, ShellsOK, shells, Idle
  <2> QED
    BY <1>7, <2>1, <2>2, <2>3, <2>4, <2>5
<1>8. ASSUME NEW s \in Shells, Refresh(s) PROVE ShellsOK'
  BY <1>8 DEF Refresh, ShellsOK, shells
<1>9. ASSUME NEW t \in Tasks, Poll(t) \/ Expire(t) \/ Expired(t) \/ CheckCancel(t) \/ Terminate(t)
                              \/ Drain(t) \/ Conclude(t) \/ ChildExits(t) \/ DescendantExits(t)
      PROVE  ShellsOK'
  BY <1>9 DEF Poll, Expire, Expired, CheckCancel, Terminate, Drain, Conclude, ChildExits,
              DescendantExits, ShellsOK, shells
<1> QED
  BY <1>1, <1>2, <1>3, <1>4, <1>5, <1>6, <1>7, <1>8, <1>9 DEF Acts

\* Stopping a process changes a status as Mark does.
LEMMA StopEffect ==
    ASSUME TypeOK, NEW h \in Threads, NEW r \in Registries, NEW t \in Tasks, StopProcess(h, r, t)
    PROVE  /\ status' \in [Registries -> [Tasks -> Statuses]]
           /\ saving' \in [Threads -> 0 .. MaxRegistries]
           /\ signalled' \subseteq Tasks
           /\ \A g \in Threads : g # h => saving'[g] = saving[g]
           /\ \A q \in Registries, u \in Tasks : ~(q = r /\ u = t) => status'[q][u] = status[q][u]
           /\ \/ UNCHANGED status /\ saving'[h] = r
              \/ /\ status[r][t] \notin Final /\ ~(creator[t] = r /\ Alive(t))
                 /\ status'[r][t] = "cancelled" /\ saving'[h] = r
<1> USE DEF TypeOK
<1>1. CASE creator[t] = r /\ Alive(t)
  <2>1. Persist(h, r) /\ UNCHANGED status /\ signalled' = signalled \cup {t}
    BY <1>1 DEF StopProcess
  <2> QED
    BY <2>1, PersistEffect, Names DEF RecordsOK, ProcessesOK
<1>2. CASE ~(creator[t] = r /\ Alive(t))
  <2> DEFINE st == IF status[r][t] = "running" THEN "cancelled" ELSE status[r][t]
  <2>1. SetStatus(r, t, st) /\ Persist(h, r) /\ UNCHANGED signalled
    BY <1>2 DEF StopProcess
  <2>2. st \in Statuses /\ r \in 0 .. MaxRegistries
    BY Names DEF RecordsOK, Statuses, Final
  <2>3. st = status[r][t] \/ (status[r][t] \notin Final /\ st = "cancelled")
    BY DEF Final
  <2> HIDE DEF st
  <2>4. /\ status' \in [Registries -> [Tasks -> Statuses]]
        /\ \A q \in Registries, u \in Tasks :
                 status'[q][u] = IF q = r /\ u = t THEN st ELSE status[q][u]
    BY <2>1, <2>2, StatusEffect
  <2>5. /\ saving' \in [Threads -> 0 .. MaxRegistries]
        /\ saving'[h] = r /\ \A g \in Threads : g # h => saving'[g] = saving[g]
    BY <2>1, <2>2, PersistEffect
  <2>6. CASE st = status[r][t]
    <3>1. ASSUME NEW q \in Registries
          PROVE  status'[q] = status[q]
      <4>1. /\ status'[q] \in [Tasks -> Statuses] /\ status[q] \in [Tasks -> Statuses]
            /\ \A u \in Tasks : status'[q][u] = status[q][u]
        BY <2>4, <2>6 DEF RecordsOK
      <4> QED
        BY <4>1
    <3>2. UNCHANGED status
      <4>1. status' \in [Registries -> [Tasks -> Statuses]] /\ status \in [Registries -> [Tasks -> Statuses]]
        BY <2>4 DEF RecordsOK
      <4> HIDE DEF Statuses, Tasks, Registries
      <4> QED
        BY <3>1, <4>1
    <3> QED
      BY <2>1, <2>4, <2>5, <3>2 DEF ProcessesOK
  <2>7. CASE status[r][t] \notin Final /\ st = "cancelled"
    BY <1>2, <2>1, <2>4, <2>5, <2>7 DEF ProcessesOK
  <2> QED
    BY <2>3, <2>6, <2>7
<1> QED
  BY <1>1, <1>2

LEMMA RecordsKeepType ==
    ASSUME TypeOK, Earned, Acts
    PROVE  RecordsOK'
<1> USE DEF TypeOK
<1> DEFINE Kept == UNCHANGED <<tasks, pid, creator, kind, cancel>>
<1>1. ASSUME NEW h \in Threads, Save(h) PROVE RecordsOK'
  BY <1>1 DEF Save, RecordsOK, records
<1>2. ASSUME NEW s \in Shells, Open(s) PROVE RecordsOK'
  <2>1. status' \in [Registries -> [Tasks -> Statuses]]
    BY <1>2, OpenedStatus
  <2>2. opened + 1 \in Registries
    BY <1>2, NewRegistryIsTyped DEF Open
  <2>3. PICK got \in [Tasks -> BOOLEAN] :
           pid' = [t \in Tasks |-> IF got[t] THEN pid[t] \cup {opened + 1} ELSE pid[t]]
    <3> DEFINE loaded == MostRecent(disk)
               of(t) == CHOOSE i \in DOMAIN loaded : loaded[i].task = t
               found == {loaded[i].task : i \in DOMAIN loaded}
               got == [t \in Tasks |-> t \in found /\ loaded[of(t)].pid]
    <3>1. pid' = [t \in Tasks |-> IF t \in found /\ loaded[of(t)].pid THEN pid[t] \cup {opened + 1} ELSE pid[t]]
      BY <1>2 DEF Open
    <3> HIDE DEF loaded, of, found
    <3>2. got \in [Tasks -> {TRUE, FALSE}]
      BY Zenon
    <3>3. pid' = [t \in Tasks |-> IF got[t] THEN pid[t] \cup {opened + 1} ELSE pid[t]]
      BY <3>1
    <3> QED
      BY <3>2, <3>3
  <2>4. pid' \in [Tasks -> SUBSET Registries]
    BY <2>2, <2>3 DEF RecordsOK
  <2>5. UNCHANGED <<tasks, creator, kind, cancel>>
    BY <1>2 DEF Open
  <2> QED
    BY <2>1, <2>4, <2>5 DEF RecordsOK
<1>3. ASSUME NEW s \in Shells, Load(s) PROVE RecordsOK'
  <2> DEFINE r == registry[s]
             rest == command[s].rest
  <2>1. r \in 0 .. MaxRegistries /\ rest \in Seq(Tasks) /\ UNCHANGED <<pid, creator, kind, cancel>>
    BY <1>3 DEF Load, ShellsOK
  <2>2. CASE SetStatus(r, Head(rest), "completed") /\ UNCHANGED tasks
    <3>1. status' \in [Registries -> [Tasks -> Statuses]]
      BY <2>1, <2>2, StatusEffect DEF Statuses, Final
    <3> QED
      BY <2>1, <2>2, <3>1 DEF RecordsOK
  <2>3. CASE rest # <<>> /\ tasks' = [tasks EXCEPT ![r] = Append(@, Head(rest))] /\ UNCHANGED status
    <3>1. Head(rest) \in Tasks
      BY <2>1, <2>3, RestIsPart
    <3>2. r \in Registries => Append(tasks[r], Head(rest)) \in Seq(Tasks)
      BY <3>1, LongerIsPart DEF RecordsOK
    <3>3. tasks' = [tasks EXCEPT ![r] = Append(tasks[r], Head(rest))]
      BY <2>3
    <3> HIDE DEF r, rest
    <3>4. tasks' \in [Registries -> Seq(Tasks)]
      BY <3>2, <3>3 DEF RecordsOK
    <3> QED
      BY <2>1, <2>3, <3>4 DEF RecordsOK
  <2>4. CASE UNCHANGED <<tasks, status>>
    BY <2>1, <2>4 DEF RecordsOK
  <2> QED
    BY <1>3, <2>2, <2>3, <2>4 DEF Load
<1>4. ASSUME NEW s \in Shells, Reset(s) PROVE RecordsOK'
  BY <1>4 DEF Reset, RecordsOK, records
<1>5. ASSUME NEW s \in Shells, Close(s) PROVE RecordsOK'
  <2> DEFINE gone == {r \in Registries : home[r] = s}
  <2>1. /\ tasks' = [r \in Registries |-> IF r \in gone THEN <<>> ELSE tasks[r]]
        /\ status' = [r \in Registries |-> IF r \in gone THEN NoRecords ELSE status[r]]
        /\ pid' = [t \in Tasks |-> pid[t] \ gone]
        /\ kind' = [t \in Tasks |-> IF creator[t] \in gone THEN "none" ELSE kind[t]]
        /\ cancel' = [t \in Tasks |-> cancel[t] /\ ~(creator[t] \in gone)]
        /\ UNCHANGED creator
    BY <1>5 DEF Close
  <2> HIDE DEF gone
  <2>2. tasks' \in [Registries -> Seq(Tasks)]
    BY <2>1, EmptySeq DEF RecordsOK
  <2>3. status' \in [Registries -> [Tasks -> Statuses]]
    BY <2>1 DEF RecordsOK, NoRecords, Statuses
  <2>4. cancel' \in [Tasks -> BOOLEAN]
    BY <2>1, Zenon DEF RecordsOK
  <2> QED
    BY <2>1, <2>2, <2>3, <2>4 DEF RecordsOK
<1>6. ASSUME NEW s \in Shells, Create(s) PROVE RecordsOK'
  <2>1. registry[s] \in Registries /\ registry[s] \in 0 .. MaxRegistries
    BY <1>6, ShellHolds, Names DEF Create, Free, Earned
  <2>2. PICK t \in Tasks, k \in Kinds :
           /\ creator' = [creator EXCEPT ![t] = registry[s]]
           /\ kind' = [kind EXCEPT ![t] = k]
           /\ tasks' = [tasks EXCEPT ![registry[s]] = MostRecent(Append(@, t))]
    BY <1>6 DEF Create
  <2>3. MostRecent(Append(tasks[registry[s]], t)) \in Seq(Tasks)
    BY <2>1, MostRecentIsPart, LongerIsPart DEF RecordsOK
  <2>4. UNCHANGED <<status, pid, cancel>>
    BY <1>6 DEF Create
  <2>5. creator' \in [Tasks -> 0 .. MaxRegistries] /\ kind' \in [Tasks -> Kinds \cup {"none"}]
    BY <2>1, <2>2 DEF RecordsOK
  <2>6. tasks' \in [Registries -> Seq(Tasks)]
    BY <2>1, <2>2, <2>3 DEF RecordsOK
  <2> QED
    BY <2>4, <2>5, <2>6 DEF RecordsOK
<1>7. ASSUME NEW s \in Shells, MarkRunning(s) PROVE RecordsOK'
  <2>1. Mark(s, registry[s], command[s].task, "running") /\ Kept
    BY <1>7 DEF MarkRunning
  <2>2. registry[s] \in Registries /\ command[s].task \in Tasks /\ s \in Threads /\ "running" \in Statuses
    BY <1>7, ShellHolds, CommandHolds, Names DEF MarkRunning, Earned, Statuses
  <2>3. status' \in [Registries -> [Tasks -> Statuses]]
    BY <2>1, <2>2, MarkEffect
  <2> QED
    BY <2>1, <2>3 DEF RecordsOK
<1>8. ASSUME NEW s \in Shells, Spawn(s) PROVE RecordsOK'
  <2>1. registry[s] \in Registries /\ command[s].task \in Tasks /\ s \in Threads /\ "failed" \in Statuses
    BY <1>8, ShellHolds, CommandHolds, Names DEF Spawn, Earned, Statuses, Final
  <2>2. UNCHANGED <<tasks, creator, kind, cancel>>
    BY <1>8 DEF Spawn
  <2>3. CASE pid' = [pid EXCEPT ![command[s].task] = @ \cup {registry[s]}] /\ UNCHANGED status
    BY <2>1, <2>2, <2>3 DEF RecordsOK
  <2>4. CASE Mark(s, registry[s], command[s].task, "failed") /\ UNCHANGED pid
    <3>1. status' \in [Registries -> [Tasks -> Statuses]]
      BY <2>1, <2>4, MarkEffect
    <3> QED
      BY <2>2, <2>4, <3>1 DEF RecordsOK
  <2> QED
    BY <1>8, <2>3, <2>4 DEF Spawn
<1>9. ASSUME NEW s \in Shells, Watched(s) PROVE RecordsOK'
  BY <1>9 DEF Watched, RecordsOK, records
<1>10. ASSUME NEW s \in Shells, Refresh(s) PROVE RecordsOK'
  <2>1. PICK t \in Held(s) : SetStatus(registry[s], t, "completed")
    BY <1>10 DEF Refresh
  <2>2. Kept /\ registry[s] \in 0 .. MaxRegistries
    BY <1>10 DEF Refresh, ShellsOK
  <2>3. status' \in [Registries -> [Tasks -> Statuses]]
    BY <2>1, <2>2, StatusEffect DEF Statuses, Final
  <2> QED
    BY <2>2, <2>3 DEF RecordsOK
<1>11. ASSUME NEW s \in Shells, Cancel(s) PROVE RecordsOK'
  <2>1. PICK t \in Held(s) : cancel' = [cancel EXCEPT ![t] = @ \/ creator[t] = registry[s]]
    BY <1>11 DEF Cancel
  <2>2. cancel' \in [Tasks -> BOOLEAN]
    <3>1. (cancel[t] \/ creator[t] = registry[s]) \in BOOLEAN
      BY Zenon
    <3> QED
      BY <2>1, <3>1 DEF RecordsOK
  <2>3. UNCHANGED <<tasks, status, pid, creator, kind>>
    BY <1>11 DEF Cancel
  <2> QED
    BY <2>2, <2>3 DEF RecordsOK
<1>12. ASSUME NEW s \in Shells, Cancelled(s) PROVE RecordsOK'
  <2>1. StopProcess(s, registry[s], command[s].task) /\ Kept
    BY <1>12 DEF Cancelled
  <2>2. registry[s] \in Registries /\ command[s].task \in Tasks /\ s \in Threads
    BY <1>12, ShellHolds, CommandHolds, Names DEF Cancelled, Earned
  <2>3. status' \in [Registries -> [Tasks -> Statuses]]
    BY <2>1, <2>2, StopEffect
  <2> QED
    BY <2>1, <2>3 DEF RecordsOK
<1>13. ASSUME NEW t \in Tasks, Poll(t) \/ CheckCancel(t) \/ Terminate(t) \/ Drain(t)
           \/ ChildExits(t) \/ DescendantExits(t) PROVE RecordsOK'
  BY <1>13 DEF Poll, CheckCancel, Terminate, Drain, ChildExits, DescendantExits, RecordsOK, records
<1>14. ASSUME NEW t \in Tasks, Expire(t) PROVE RecordsOK'
  BY <1>14 DEF Expire, RecordsOK
<1>15. ASSUME NEW t \in Tasks, Expired(t) PROVE RecordsOK'
  <2>1. StopProcess(t, creator[t], t) /\ Kept
    BY <1>15 DEF Expired
  <2>2. creator[t] \in Registries /\ t \in Threads
    BY <1>15, WatcherHolds, Names DEF Expired, At, Earned
  <2>3. status' \in [Registries -> [Tasks -> Statuses]]
    BY <2>1, <2>2, StopEffect
  <2> QED
    BY <2>1, <2>3 DEF RecordsOK
<1>16. ASSUME NEW t \in Tasks, Conclude(t) PROVE RecordsOK'
  <2>1. Mark(t, creator[t], t, Verdict(t)) /\ Kept
    BY <1>16 DEF Conclude
  <2>2. creator[t] \in Registries /\ t \in Threads
    BY <1>16, WatcherHolds, Names DEF Conclude, At, Earned
  <2>3. Verdict(t) \in Statuses
    BY DEF Verdict, Statuses, Final
  <2>4. status' \in [Registries -> [Tasks -> Statuses]]
    BY <2>1, <2>2, <2>3, MarkEffect
  <2> QED
    BY <2>1, <2>4 DEF RecordsOK
<1> QED
  BY <1>1, <1>2, <1>3, <1>4, <1>5, <1>6, <1>7, <1>8, <1>9, <1>10, <1>11, <1>12, <1>13, <1>14, <1>15, <1>16
     DEF Acts

LEMMA ProcessesKeepType ==
    ASSUME TypeOK, Earned, Acts
    PROVE  ProcessesOK'
<1> USE DEF TypeOK
<1>1. ASSUME NEW h \in Threads, Save(h) PROVE ProcessesOK'
  BY <1>1 DEF Save, ProcessesOK, processes, pipes
<1>2. ASSUME NEW s \in Shells, Open(s) \/ Load(s) \/ Reset(s) \/ Create(s) \/ MarkRunning(s) \/ Refresh(s)
                               \/ Cancel(s)
      PROVE  ProcessesOK'
  BY <1>2 DEF Open, Load, Reset, Create, MarkRunning, Refresh, Cancel, ProcessesOK, processes, pipes
<1>3. ASSUME NEW s \in Shells, Close(s) PROVE ProcessesOK'
  <2> DEFINE gone == {r \in Registries : home[r] = s}
  <2>1. /\ watcher' = [t \in Tasks |-> IF creator[t] \in gone THEN "none" ELSE watcher[t]]
        /\ signalled' = {t \in signalled : ~(creator[t] \in gone)}
        /\ timed_out' = {t \in timed_out : ~(creator[t] \in gone)}
        /\ held' = {t \in held : ~(creator[t] \in gone)}
        /\ unreaped' = {t \in unreaped : ~(creator[t] \in gone)}
        /\ UNCHANGED child
    BY <1>3 DEF Close
  <2> HIDE DEF gone
  <2> QED
    BY <2>1 DEF ProcessesOK
<1>4. ASSUME NEW s \in Shells, Spawn(s) PROVE ProcessesOK'
  <2>1. UNCHANGED <<signalled, watcher, timed_out, held, unreaped>>
        /\ (child' = [child EXCEPT ![command[s].task] = "alive"] \/ UNCHANGED child)
    BY <1>4 DEF Spawn, pipes
  <2> QED
    BY <2>1 DEF ProcessesOK
<1>5. ASSUME NEW s \in Shells, Watched(s) PROVE ProcessesOK'
  BY <1>5 DEF Watched, ProcessesOK, pipes
<1>6. ASSUME NEW s \in Shells, Cancelled(s) PROVE ProcessesOK'
  <2>1. StopProcess(s, registry[s], command[s].task) /\ UNCHANGED <<child, watcher, timed_out, held, unreaped>>
    BY <1>6 DEF Cancelled, pipes
  <2>2. registry[s] \in Registries /\ command[s].task \in Tasks /\ s \in Threads
    BY <1>6, ShellHolds, CommandHolds, Names DEF Cancelled, Earned
  <2>3. signalled' \subseteq Tasks
    BY <2>1, <2>2, StopEffect
  <2> QED
    BY <2>1, <2>3 DEF ProcessesOK
<1>7. ASSUME NEW t \in Tasks, Poll(t) \/ CheckCancel(t) \/ Terminate(t) \/ Drain(t) \/ Expire(t) \/ Conclude(t)
      PROVE  ProcessesOK'
  BY <1>7 DEF Poll, CheckCancel, Terminate, Drain, Expire, Conclude, Goto, ProcessesOK, pipes
<1>8. ASSUME NEW t \in Tasks, Expired(t) PROVE ProcessesOK'
  <2>1. StopProcess(t, creator[t], t) /\ Goto(t, "terminating") /\ UNCHANGED <<child, timed_out, held, unreaped>>
    BY <1>8 DEF Expired, pipes
  <2>2. creator[t] \in Registries /\ t \in Threads
    BY <1>8, WatcherHolds, Names DEF Expired, At, Earned
  <2>3. signalled' \subseteq Tasks
    BY <2>1, <2>2, StopEffect
  <2> QED
    BY <2>1, <2>3 DEF ProcessesOK, Goto
<1>9. ASSUME NEW t \in Tasks, ChildExits(t) \/ DescendantExits(t) PROVE ProcessesOK'
  BY <1>9 DEF ChildExits, DescendantExits, ProcessesOK
<1> QED
  BY <1>1, <1>2, <1>3, <1>4, <1>5, <1>6, <1>7, <1>8, <1>9 DEF Acts

LEMMA StoreKeepsType ==
    ASSUME TypeOK, Earned, Acts
    PROVE  StoreOK'
<1> USE DEF TypeOK
<1> DEFINE Written == UNCHANGED <<locked, payload, disk, last>>
<1>1. ASSUME NEW h \in Threads, Save(h) PROVE StoreOK'
  <2>1. saving[h] \in Registries
    BY <1>1 DEF Save, StoreOK, Registries
  <2>2. CASE TakeSnapshot(h, saving[h]) /\ UNCHANGED <<disk, last>>
    <3>1. View(saving[h]) \in Seq(Lines)
      BY <2>1, ViewIsTyped
    <3>2. /\ locked' = [locked EXCEPT ![saving[h]] = h]
          /\ payload' = [payload EXCEPT ![saving[h]] = View(saving[h])]
          /\ UNCHANGED saving
      BY <2>2 DEF TakeSnapshot, View
    <3> QED
      BY <2>1, <2>2, <3>1, <3>2 DEF StoreOK
  <2>3. CASE ReplaceFile(h, saving[h])
    <3>1. payload[saving[h]] \in Seq(Lines) /\ <<>> \in Seq(Lines)
      BY <2>1, EmptySeq DEF StoreOK
    <3>2. saving[h] \in 0 .. MaxRegistries
      BY DEF StoreOK
    <3> DEFINE r == saving[h]
    <3>3. /\ disk' = payload[r] /\ last' = r
          /\ locked' = [locked EXCEPT ![r] = Nobody]
          /\ payload' = [payload EXCEPT ![r] = <<>>]
          /\ saving' = [saving EXCEPT ![h] = 0]
      BY <2>3 DEF ReplaceFile
    <3> HIDE DEF r
    <3>4. payload' \in [Registries -> Seq(Lines)]
      BY <3>1, <3>3 DEF StoreOK
    <3>5. saving' \in [Threads -> 0 .. MaxRegistries] /\ locked' \in [Registries -> Threads \cup {Nobody}]
      <4>1. saving' \in [Threads -> 0 .. MaxRegistries]
        BY <3>3, TasksAssumption DEF StoreOK
      <4>2. locked' \in [Registries -> Threads \cup {Nobody}]
        BY <3>3 DEF StoreOK
      <4> QED
        BY <4>1, <4>2
    <3> QED
      BY <3>1, <3>2, <3>3, <3>4, <3>5 DEF StoreOK, r
  <2> QED
    BY <1>1, <2>2, <2>3 DEF Save
<1>2. ASSUME NEW s \in Shells, Open(s) \/ Reset(s) \/ Watched(s) \/ Cancel(s) PROVE StoreOK'
  BY <1>2 DEF Open, Reset, Watched, Cancel, StoreOK, store
<1>3. ASSUME NEW s \in Shells, Load(s) \/ Create(s) \/ Refresh(s) PROVE StoreOK'
  <2>1. Written /\ (Persist(s, registry[s]) \/ UNCHANGED saving)
    BY <1>3 DEF Load, Create, Refresh, store
  <2>2. s \in Threads /\ registry[s] \in 0 .. MaxRegistries
    BY Names DEF ShellsOK
  <2>3. saving' \in [Threads -> 0 .. MaxRegistries]
    BY <2>1, <2>2, PersistEffect DEF StoreOK
  <2> QED
    BY <2>1, <2>3 DEF StoreOK
<1>4. ASSUME NEW s \in Shells, Close(s) PROVE StoreOK'
  <2> DEFINE gone == {r \in Registries : home[r] = s}
  <2>1. /\ saving' = [h \in Threads |-> IF saving[h] \in gone THEN 0 ELSE saving[h]]
        /\ locked' = [r \in Registries |-> IF r \in gone THEN Nobody ELSE locked[r]]
        /\ payload' = [r \in Registries |-> IF r \in gone THEN <<>> ELSE payload[r]]
        /\ UNCHANGED <<disk, last>>
    BY <1>4 DEF Close
  <2> HIDE DEF gone
  <2>2. <<>> \in Seq(Lines) /\ 0 \in 0 .. MaxRegistries
    BY EmptySeq, TasksAssumption
  <2>3. payload' \in [Registries -> Seq(Lines)]
    BY <2>1, <2>2 DEF StoreOK
  <2> QED
    BY <2>1, <2>2, <2>3 DEF StoreOK
<1>5. ASSUME NEW s \in Shells, MarkRunning(s) \/ Spawn(s) PROVE StoreOK'
  <2>1. registry[s] \in Registries /\ command[s].task \in Tasks /\ s \in Threads
        /\ "running" \in Statuses /\ "failed" \in Statuses
    BY <1>5, ShellHolds, CommandHolds, Names DEF MarkRunning, Spawn, Earned, Statuses, Final
  <2>2. Written
    BY <1>5 DEF MarkRunning, Spawn, store
  <2>3. \/ Mark(s, registry[s], command[s].task, "running")
        \/ Mark(s, registry[s], command[s].task, "failed")
        \/ Persist(s, registry[s])
    BY <1>5 DEF MarkRunning, Spawn
  <2>4. saving' \in [Threads -> 0 .. MaxRegistries]
    BY <2>1, <2>3, MarkEffect, PersistEffect, Names
  <2> QED
    BY <2>2, <2>4 DEF StoreOK
<1>6. ASSUME NEW s \in Shells, Cancelled(s) PROVE StoreOK'
  <2>1. registry[s] \in Registries /\ command[s].task \in Tasks /\ s \in Threads
    BY <1>6, ShellHolds, CommandHolds, Names DEF Cancelled, Earned
  <2>2. StopProcess(s, registry[s], command[s].task) /\ Written
    BY <1>6 DEF Cancelled, store
  <2>3. saving' \in [Threads -> 0 .. MaxRegistries]
    BY <2>1, <2>2, StopEffect
  <2> QED
    BY <2>2, <2>3 DEF StoreOK
<1>7. ASSUME NEW t \in Tasks, Poll(t) \/ Expire(t) \/ CheckCancel(t) \/ Terminate(t) \/ Drain(t)
           \/ ChildExits(t) \/ DescendantExits(t)
      PROVE  StoreOK'
  BY <1>7 DEF Poll, Expire, CheckCancel, Terminate, Drain, ChildExits, DescendantExits, StoreOK, store
<1>8. ASSUME NEW t \in Tasks, Expired(t) \/ Conclude(t) PROVE StoreOK'
  <2>1. creator[t] \in Registries /\ t \in Threads /\ Verdict(t) \in Statuses
    BY <1>8, WatcherHolds, Names DEF Expired, Conclude, At, Earned, Verdict, Statuses, Final
  <2>2. Written /\ (StopProcess(t, creator[t], t) \/ Mark(t, creator[t], t, Verdict(t)))
    BY <1>8 DEF Expired, Conclude, store
  <2>3. saving' \in [Threads -> 0 .. MaxRegistries]
    BY <2>1, <2>2, StopEffect, MarkEffect
  <2> QED
    BY <2>2, <2>3 DEF StoreOK
<1> QED
  BY <1>1, <1>2, <1>3, <1>4, <1>5, <1>6, <1>7, <1>8 DEF Acts

LEMMA InitIsTyped == Init => TypeOK
<1> SUFFICES ASSUME Init PROVE TypeOK
  OBVIOUS
<1>1. <<>> \in Seq(Tasks) /\ <<>> \in Seq(Lines) /\ 0 \in 0 .. MaxRegistries
  BY EmptySeq, TasksAssumption
<1>2. ShellsOK
  BY <1>1 DEF Init, ShellsOK, Idle
<1>3. RecordsOK
  BY <1>1 DEF Init, RecordsOK, NoRecords, Statuses
<1>4. ProcessesOK
  BY DEF Init, ProcessesOK
<1>5. StoreOK
  BY <1>1 DEF Init, StoreOK
<1> QED
  BY <1>2, <1>3, <1>4, <1>5 DEF TypeOK
-----------------------------------------------------------------------------
(* What the steps do to the registries. *)

SameRecords(q) ==
    /\ tasks'[q] = tasks[q] /\ status'[q] = status[q]
    /\ \A t \in Tasks : (q \in pid'[t]) = (q \in pid[t])

\* Thread h works on registry r: it has nothing to save, and what it changes it
\* has to save, unless its shell is still loading.
Works(h, r) ==
    /\ saving[h] = 0
    /\ \A g \in Threads \ {h} : saving'[g] = saving[g]
    /\ \A q \in Registries \ {r} : SameRecords(q) /\ (home[q] # Nobody => Loading(q)' = Loading(q))
    /\ \/ saving'[h] = r
       \/ saving'[h] = 0 /\ SameRecords(r) /\ Loading(r)' = Loading(r)
       \/ saving'[h] = 0 /\ Loading(r)'
    /\ UNCHANGED <<shells, store>>

\* The other steps of a shell and a watcher leave all of that alone.
Rests ==
    /\ UNCHANGED <<shells, tasks, status, pid, saving, store>>
    /\ \A s \in Shells : (command'[s].at = "loading") = (command[s].at = "loading")

\* A command that goes from one place to another, both beyond the loading.
LEMMA StillNotLoading ==
    ASSUME ShellsOK, NEW s \in Shells, NEW c, command' = [command EXCEPT ![s] = c],
           command[s].at # "loading", c.at # "loading", UNCHANGED shells
    PROVE  /\ \A q \in Registries : home[q] # Nobody => Loading(q)' = Loading(q)
           /\ \A u \in Shells : (command'[u].at = "loading") = (command[u].at = "loading")
<1>1. \A u \in Shells : (command'[u].at = "loading") = (command[u].at = "loading")
  BY DEF ShellsOK
<1>2. ASSUME NEW q \in Registries, home[q] # Nobody PROVE home[q] \in Shells /\ home'[q] = home[q]
  BY <1>2 DEF ShellsOK, shells
<1> QED
  BY <1>1, <1>2 DEF Loading

LEMMA SameCommands ==
    ASSUME UNCHANGED <<shells, command>>
    PROVE  /\ \A q \in Registries : Loading(q)' = Loading(q)
           /\ \A u \in Shells : (command'[u].at = "loading") = (command[u].at = "loading")
BY DEF Loading, shells

LEMMA MarkWorks ==
    ASSUME TypeOK, NEW h \in Threads, NEW r \in Registries, NEW t \in Tasks, NEW st \in Statuses,
           Mark(h, r, t, st) \/ StopProcess(h, r, t),
           saving[h] = 0, UNCHANGED <<shells, store, tasks, pid>>,
           \A q \in Registries : home[q] # Nobody => Loading(q)' = Loading(q),
           home[r] # Nobody
    PROVE  Works(h, r)
<1> USE DEF TypeOK
<1>1. /\ status' \in [Registries -> [Tasks -> Statuses]]
      /\ \A g \in Threads : g # h => saving'[g] = saving[g]
      /\ \A q \in Registries, u \in Tasks : ~(q = r /\ u = t) => status'[q][u] = status[q][u]
      /\ saving'[h] = r \/ UNCHANGED <<status, saving>>
  BY MarkEffect, StopEffect
<1>2. ASSUME NEW q \in Registries, q # r PROVE status'[q] = status[q]
  BY <1>1, <1>2 DEF RecordsOK
<1> QED
  BY <1>1, <1>2 DEF Works, SameRecords

LEMMA LoadWorks ==
    ASSUME TypeOK, Earned, NEW s \in Shells, Load(s), NEW r, r = registry[s]
    PROVE  Works(s, r)
<1> USE DEF TypeOK, Earned
<1> DEFINE rest == command[s].rest
<1>1. r \in Registries /\ home[r] = s /\ s \in Threads /\ r \in 0 .. MaxRegistries
  BY ShellHolds, Names DEF Load
<1>2. command[s].at = "loading" /\ saving[s] = 0 /\ UNCHANGED <<shells, pid, store>> /\ s # Nobody
  BY TasksAssumption DEF Load
<1>3. ASSUME NEW q \in Registries, q # r, home[q] # Nobody PROVE home[q] # s /\ home[q] \in Shells
  BY <1>2, <1>3 DEF Ownership, ShellsOK
<1>4. CASE SetStatus(r, Head(rest), "completed") /\ Persist(s, r) /\ UNCHANGED <<tasks, command>>
  <2>1. \A q \in Registries, u \in Tasks : q # r => status'[q][u] = status[q][u]
    BY <1>1, <1>4, StatusEffect DEF Statuses, Final
  <2>2. status' \in [Registries -> [Tasks -> Statuses]]
    BY <1>1, <1>4, StatusEffect DEF Statuses, Final
  <2>3. \A q \in Registries \ {r} : status'[q] = status[q]
    BY <2>1, <2>2 DEF RecordsOK
  <2>4. saving'[s] = r /\ \A g \in Threads \ {s} : saving'[g] = saving[g]
    BY <1>1, <1>4, PersistEffect
  <2> QED
    BY <1>2, <1>4, <2>3, <2>4, SameCommands DEF Works, SameRecords
<1>5. CASE /\ tasks' = [tasks EXCEPT ![r] = Append(@, Head(rest))]
           /\ command' = [command EXCEPT ![s].rest = Tail(rest)]
           /\ UNCHANGED <<status, saving>>
  <2>1. \A q \in Registries \ {r} : tasks'[q] = tasks[q]
    BY <1>5 DEF RecordsOK
  <2>2. \A u \in Shells : command'[u].at = command[u].at
    BY <1>5 DEF ShellsOK
  <2>3. \A q \in Registries : home[q] # Nobody => home[q] \in Shells /\ home'[q] = home[q]
    BY <1>2 DEF ShellsOK, shells
  <2>4. \A q \in Registries : home[q] # Nobody => Loading(q)' = Loading(q)
    BY <2>2, <2>3 DEF Loading
  <2>5. Loading(r)'
    BY <1>1, <1>2, <2>2, <2>3 DEF Loading
  <2> QED
    BY <1>2, <1>5, <2>1, <2>4, <2>5 DEF Works, SameRecords
<1>6. CASE Persist(s, r) /\ command' = [command EXCEPT ![s] = Idle] /\ UNCHANGED <<tasks, status>>
  <2>1. saving'[s] = r /\ \A g \in Threads \ {s} : saving'[g] = saving[g]
    BY <1>1, <1>6, PersistEffect
  <2>2. \A u \in Shells \ {s} : command'[u] = command[u]
    BY <1>6 DEF ShellsOK
  <2>3. \A q \in Registries \ {r} : home[q] # Nobody => Loading(q)' = Loading(q)
    BY <1>2, <1>3, <2>2 DEF Loading, shells
  <2> QED
    BY <1>2, <1>6, <2>1, <2>3 DEF Works, SameRecords
<1> QED
  BY <1>4, <1>5, <1>6 DEF Load

LEMMA CommandWorks ==
    ASSUME TypeOK, Earned, NEW s \in Shells, NEW r, r = registry[s],
           Create(s) \/ MarkRunning(s) \/ Spawn(s) \/ Refresh(s) \/ Cancelled(s)
    PROVE  Works(s, r)
<1> USE DEF TypeOK, Earned
<1>1. r \in Registries /\ home[r] = s /\ s \in Threads /\ r \in 0 .. MaxRegistries /\ s # Nobody
  BY ShellHolds, Names DEF Create, MarkRunning, Spawn, Refresh, Cancelled, Free
<1>2. saving[s] = 0 /\ UNCHANGED <<shells, store>>
  BY DEF Create, MarkRunning, Spawn, Refresh, Cancelled, Free, LocksSave
<1>3. \A q \in Registries : home[q] # Nobody => Loading(q)' = Loading(q)
  <2>1. CASE Refresh(s)
    BY <2>1, SameCommands DEF Refresh
  <2>2. CASE Create(s) \/ MarkRunning(s) \/ Spawn(s) \/ Cancelled(s)
    <3>1. /\ command[s].at # "loading"
          /\ \E c : c.at # "loading" /\ command' = [command EXCEPT ![s] = c]
      <4> USE DEF Doing, Idle
      <4>1. CASE Create(s)
        BY <4>1 DEF Create, Free
      <4>2. CASE MarkRunning(s)
        BY <4>2 DEF MarkRunning
      <4>3. CASE Spawn(s)
        BY <4>3 DEF Spawn
      <4>4. CASE Cancelled(s)
        BY <4>4 DEF Cancelled
      <4> QED
        BY <2>2, <4>1, <4>2, <4>3, <4>4
    <3> QED
      BY <1>2, <3>1, StillNotLoading
  <2> QED
    BY <2>1, <2>2
<1>4. CASE Create(s)
  <2>1. saving'[s] = r /\ \A g \in Threads \ {s} : saving'[g] = saving[g]
    BY <1>1, <1>4, PersistEffect DEF Create
  <2>2. UNCHANGED <<status, pid>> /\ \E t \in Tasks : tasks' = [tasks EXCEPT ![r] = MostRecent(Append(@, t))]
    BY <1>4 DEF Create
  <2>3. \A q \in Registries \ {r} : tasks'[q] = tasks[q]
    BY <2>2 DEF RecordsOK
  <2> QED
    BY <1>2, <1>3, <2>1, <2>2, <2>3 DEF Works, SameRecords
<1>5. CASE MarkRunning(s)
  <2>1. command[s].task \in Tasks /\ "running" \in Statuses
    BY <1>5, CommandHolds DEF MarkRunning, Statuses
  <2> QED
    BY <1>1, <1>2, <1>3, <1>5, <2>1, MarkWorks DEF MarkRunning
<1>6. CASE Spawn(s)
  <2>1. command[s].task \in Tasks /\ "failed" \in Statuses
    BY <1>6, CommandHolds DEF Spawn, Statuses, Final
  <2>2. CASE Mark(s, r, command[s].task, "failed") /\ UNCHANGED pid
    BY <1>1, <1>2, <1>3, <1>6, <2>1, <2>2, MarkWorks DEF Spawn
  <2>3. CASE pid' = [pid EXCEPT ![command[s].task] = @ \cup {r}] /\ Persist(s, r) /\ UNCHANGED status
    <3>1. saving'[s] = r /\ \A g \in Threads \ {s} : saving'[g] = saving[g]
      BY <1>1, <2>3, PersistEffect
    <3>2. \A q \in Registries \ {r} : \A t \in Tasks : (q \in pid'[t]) = (q \in pid[t])
      BY <2>3 DEF RecordsOK
    <3>3. UNCHANGED <<tasks, status>>
      BY <1>6, <2>3 DEF Spawn
    <3> QED
      BY <1>2, <1>3, <3>1, <3>2, <3>3 DEF Works, SameRecords
  <2> QED
    BY <1>6, <2>2, <2>3 DEF Spawn
<1>7. CASE Refresh(s)
  <2>1. PICK t \in Held(s) : SetStatus(r, t, "completed")
    BY <1>7 DEF Refresh
  <2>2. /\ status' \in [Registries -> [Tasks -> Statuses]]
        /\ \A q \in Registries, u \in Tasks : q # r => status'[q][u] = status[q][u]
    <3>1. "completed" \in Statuses
      BY DEF Statuses, Final
    <3>2. \A q \in Registries, u \in Tasks :
             status'[q][u] = IF q = r /\ u = t THEN "completed" ELSE status[q][u]
      BY <1>1, <2>1, <3>1, StatusEffect
    <3> QED
      BY <1>1, <2>1, <3>1, <3>2, StatusEffect
  <2>3. \A q \in Registries \ {r} : status'[q] = status[q]
    BY <2>2 DEF RecordsOK
  <2>4. saving'[s] = r /\ \A g \in Threads \ {s} : saving'[g] = saving[g]
    BY <1>1, <1>7, PersistEffect DEF Refresh
  <2> QED
    BY <1>2, <1>3, <1>7, <2>3, <2>4 DEF Works, SameRecords, Refresh
<1>8. CASE Cancelled(s)
  <2>1. command[s].task \in Tasks /\ "failed" \in Statuses
    BY <1>8, CommandHolds DEF Cancelled, Statuses, Final
  <2> QED
    BY <1>1, <1>2, <1>3, <1>8, <2>1, MarkWorks DEF Cancelled
<1> QED
  BY <1>4, <1>5, <1>6, <1>7, <1>8

LEMMA WatcherWorks ==
    ASSUME TypeOK, Earned, NEW t \in Tasks, NEW r, r = creator[t], Expired(t) \/ Conclude(t)
    PROVE  Works(t, r)
<1> USE DEF TypeOK, Earned
<1>1. r \in Registries /\ home[r] # Nobody /\ t \in Threads /\ saving[t] = 0
  BY WatcherHolds, Names DEF Expired, Conclude, At
<1>2. UNCHANGED <<shells, store, tasks, pid, command>>
  BY DEF Expired, Conclude
<1>3. Verdict(t) \in Statuses
  BY DEF Verdict, Statuses, Final
<1> QED
  BY <1>1, <1>2, <1>3, SameCommands, MarkWorks DEF Expired, Conclude

LEMMA OthersRest ==
    ASSUME TypeOK, Earned, NEW s \in Shells, NEW t \in Tasks,
           \/ Watched(s) \/ Cancel(s)
           \/ Poll(t) \/ Expire(t) \/ CheckCancel(t) \/ Terminate(t) \/ Drain(t)
           \/ ChildExits(t) \/ DescendantExits(t)
    PROVE  Rests
<1> USE DEF TypeOK, Earned
<1>1. CASE Watched(s)
  BY <1>1, StillNotLoading DEF Watched, Rests, Idle, records
<1>2. CASE Cancel(s)
  <2>1. \E u : command' = [command EXCEPT ![s] = Doing("cancelling", u)]
    BY <1>2 DEF Cancel
  <2>2. command[s].at # "loading" /\ \A u : Doing("cancelling", u).at # "loading"
    BY <1>2 DEF Cancel, Free, Doing
  <2> QED
    BY <1>2, <2>1, <2>2, StillNotLoading DEF Cancel, Rests
<1>3. CASE Poll(t) \/ Expire(t) \/ CheckCancel(t) \/ Terminate(t) \/ Drain(t)
           \/ ChildExits(t) \/ DescendantExits(t)
  BY <1>3 DEF Poll, Expire, CheckCancel, Terminate, Drain, ChildExits, DescendantExits, Rests, records
<1> QED
  BY <1>1, <1>2, <1>3

\* Every step saves, begins or ends a registry, works on one, or rests.
StepKinds ==
    \/ \E h \in Threads : Save(h)
    \/ \E s \in Shells : Open(s) \/ Reset(s) \/ Close(s)
    \/ \E h \in Threads, r \in Registries : home[r] # Nobody /\ Works(h, r)
    \/ Rests

LEMMA ActsAreKinds ==
    ASSUME TypeOK, Earned, Acts
    PROVE  StepKinds
<1> USE DEF TypeOK, Earned
<1>1. ASSUME NEW s \in Shells,
             Load(s) \/ Create(s) \/ MarkRunning(s) \/ Spawn(s) \/ Refresh(s) \/ Cancelled(s)
      PROVE  StepKinds
  <2>1. registry[s] \in Registries /\ home[registry[s]] = s /\ s \in Threads /\ s # Nobody
    BY <1>1, ShellHolds, Names DEF Load, Create, MarkRunning, Spawn, Refresh, Cancelled, Free
  <2>2. Works(s, registry[s])
    <3> DEFINE r == registry[s]
    <3>1. PICK q : q = r
      OBVIOUS
    <3>2. Works(s, q)
      BY <1>1, <3>1, LoadWorks, CommandWorks
    <3> QED
      BY <3>1, <3>2
  <2> QED
    BY <2>1, <2>2 DEF StepKinds
<1>2. ASSUME NEW t \in Tasks, Expired(t) \/ Conclude(t) PROVE StepKinds
  <2>1. PICK q : q = creator[t]
    OBVIOUS
  <2>2. Works(t, q)
    BY <1>2, <2>1, WatcherWorks
  <2>3. q \in Registries /\ home[q] # Nobody /\ t \in Threads
    BY <1>2, <2>1, WatcherHolds, Names DEF Expired, Conclude, At
  <2> QED
    BY <2>2, <2>3 DEF StepKinds
<1>3. \E t : t \in Tasks
  BY TasksAssumption DEF Tasks
<1>4. ASSUME NEW s \in Shells, Watched(s) \/ Cancel(s) PROVE StepKinds
  BY <1>3, <1>4, OthersRest DEF StepKinds
<1>5. ASSUME NEW t \in Tasks, Poll(t) \/ Expire(t) \/ CheckCancel(t) \/ Terminate(t) \/ Drain(t)
           \/ ChildExits(t) \/ DescendantExits(t)
      PROVE  Rests
  BY <1>5 DEF Poll, Expire, CheckCancel, Terminate, Drain, ChildExits, DescendantExits, Rests, records
<1> QED
  BY <1>1, <1>2, <1>4, <1>5 DEF Acts, StepKinds
-----------------------------------------------------------------------------
(* Registries have their shells, and locks their threads. *)

HomesAreHeld ==
    /\ \A s \in Shells : registry[s] # 0 => home[registry[s]] = s
    /\ \A s \in Shells : command[s].at # "idle" => registry[s] # 0
    /\ \A r \in Registries : home[r] # Nobody => r <= opened /\ registry[home[r]] # 0
    /\ \A s \in Shells : command[s].at = "loading" =>
          \A r \in Registries : home[r] = s => r = registry[s]

SavesAreHeld ==
    /\ \A h \in Threads : saving[h] # 0 => home[saving[h]] # Nobody
    /\ last <= opened

TasksAreHeld ==
    /\ \A t \in Tasks : creator[t] <= opened
    /\ \A t \in Tasks : watcher[t] # "none" => creator[t] # 0 /\ home[creator[t]] # Nobody

LEMMA OwnershipParts == Ownership <=> (HomesAreHeld /\ SavesAreHeld /\ TasksAreHeld)
BY DEF Ownership, HomesAreHeld, SavesAreHeld, TasksAreHeld

\* A new registry is held by its shell and nothing else changes hands.
LEMMA NewRegistryEffect ==
    ASSUME ShellsOK, Ownership, NEW s \in Shells, NewRegistry(s)
    PROVE  /\ opened + 1 \in Registries /\ opened \in Nat /\ opened' = opened + 1
           /\ home[opened + 1] = Nobody /\ home'[opened + 1] = s
           /\ registry'[s] = opened + 1 /\ s # Nobody
           /\ \A r \in Registries : r # opened + 1 => home'[r] = home[r]
           /\ \A u \in Shells : u # s => registry'[u] = registry[u]
<1>1. opened + 1 \in Registries /\ opened \in Nat
  BY NewRegistryIsTyped DEF ShellsOK
<1>2. home[opened + 1] = Nobody
  BY <1>1 DEF Ownership
<1> QED
  BY <1>1, <1>2, TasksAssumption DEF NewRegistry, ShellsOK

LEMMA RegistryIds ==
    ASSUME ShellsOK
    PROVE  /\ \A u \in Shells : registry[u] \in Registries \/ registry[u] = 0
           /\ \A r \in Registries : home[r] \in Shells \/ home[r] = Nobody
           /\ opened \in Nat /\ Nobody \notin Shells
           /\ \A r \in Registries : r \in Nat /\ r # 0
BY TasksAssumption DEF ShellsOK, Registries

\* A shell that is closed holds nothing.
LEMMA CloseEffect ==
    ASSUME TypeOK, NEW s \in Shells, Close(s)
    PROVE  /\ \A r \in Registries : home'[r] = IF home[r] = s THEN Nobody ELSE home[r]
           /\ \A r \in Registries : home[r] # s =>
                 SameRecords(r) /\ locked'[r] = locked[r] /\ payload'[r] = payload[r]
           /\ \A r \in Registries : home[r] = s =>
                 tasks'[r] = <<>> /\ locked'[r] = Nobody /\ payload'[r] = <<>> /\ status'[r] = NoRecords
           /\ \A h \in Threads : saving'[h] = IF saving[h] \in Registries /\ home[saving[h]] = s
                                              THEN 0 ELSE saving[h]
           /\ \A t \in Tasks : IF creator[t] \in Registries /\ home[creator[t]] = s
                               THEN watcher'[t] = "none"
                               ELSE watcher'[t] = watcher[t] /\ cancel'[t] = cancel[t]
           /\ registry' = [registry EXCEPT ![s] = 0] /\ command' = [command EXCEPT ![s] = Idle]
           /\ UNCHANGED <<opened, creator, child, disk, last>>
<1> DEFINE gone == {r \in Registries : home[r] = s}
<1>1. /\ home' = [r \in Registries |-> IF r \in gone THEN Nobody ELSE home[r]]
      /\ tasks' = [r \in Registries |-> IF r \in gone THEN <<>> ELSE tasks[r]]
      /\ status' = [r \in Registries |-> IF r \in gone THEN NoRecords ELSE status[r]]
      /\ pid' = [t \in Tasks |-> pid[t] \ gone]
      /\ cancel' = [t \in Tasks |-> cancel[t] /\ ~(creator[t] \in gone)]
      /\ watcher' = [t \in Tasks |-> IF creator[t] \in gone THEN "none" ELSE watcher[t]]
      /\ saving' = [h \in Threads |-> IF saving[h] \in gone THEN 0 ELSE saving[h]]
      /\ locked' = [r \in Registries |-> IF r \in gone THEN Nobody ELSE locked[r]]
      /\ payload' = [r \in Registries |-> IF r \in gone THEN <<>> ELSE payload[r]]
      /\ registry' = [registry EXCEPT ![s] = 0] /\ command' = [command EXCEPT ![s] = Idle]
      /\ UNCHANGED <<opened, creator, child, disk, last>>
  BY DEF Close
<1>2. /\ \A r \in Registries : r \in gone <=> home[r] = s
      /\ \A t \in Tasks : creator[t] \in gone <=> (creator[t] \in Registries /\ home[creator[t]] = s)
      /\ \A h \in Threads : saving[h] \in gone <=> (saving[h] \in Registries /\ home[saving[h]] = s)
  OBVIOUS
<1> HIDE DEF gone
<1>3. \A t \in Tasks : creator[t] \notin gone => cancel'[t] = cancel[t]
  BY <1>1, Zenon DEF TypeOK, RecordsOK
<1>4. \A r \in Registries : r \notin gone => SameRecords(r)
  BY <1>1 DEF SameRecords
<1> QED
  BY <1>1, <1>2, <1>3, <1>4

LEMMA HomesStayHeld ==
    ASSUME TypeOK, Earned, Acts
    PROVE  HomesAreHeld'
<1> USE DEF TypeOK, Earned
<1>0. HomesAreHeld
  BY OwnershipParts
<1>a. /\ \A u \in Shells : registry[u] \in Registries \/ registry[u] = 0
      /\ \A r \in Registries : home[r] \in Shells \/ home[r] = Nobody
      /\ opened \in Nat /\ Nobody \notin Shells
      /\ \A r \in Registries : r \in Nat /\ r # 0
  BY RegistryIds
<1>1. ASSUME NEW s \in Shells, Open(s) PROVE HomesAreHeld'
  <2>1. /\ NewRegistry(s) /\ \A r \in Registries : home[r] # s
        /\ \A u \in Shells : u # s => command'[u] = command[u]
    <3>1. registry[s] = 0 /\ NewRegistry(s)
      BY <1>1 DEF Open
    <3>2. \A r \in Registries : home[r] # s
      BY <1>0, <1>a, <3>1 DEF HomesAreHeld
    <3>3. \A u \in Shells : u # s => command'[u] = command[u]
      BY <1>1 DEF Open, ShellsOK
    <3> QED
      BY <3>1, <3>2, <3>3
  <2>2. /\ opened + 1 \in Registries /\ opened' = opened + 1
        /\ home[opened + 1] = Nobody /\ home'[opened + 1] = s
        /\ registry'[s] = opened + 1
        /\ \A r \in Registries : r # opened + 1 => home'[r] = home[r]
        /\ \A u \in Shells : u # s => registry'[u] = registry[u]
    BY <2>1, NewRegistryEffect
  <2>3. ASSUME NEW u \in Shells, registry'[u] # 0 PROVE home'[registry'[u]] = u
    BY <1>0, <1>a, <2>2, <2>3 DEF HomesAreHeld
  <2>4. ASSUME NEW u \in Shells, command'[u].at # "idle" PROVE registry'[u] # 0
    BY <1>0, <1>a, <2>1, <2>2, <2>4 DEF HomesAreHeld
  <2>5. ASSUME NEW r \in Registries, home'[r] # Nobody
        PROVE  r <= opened' /\ registry'[home'[r]] # 0
    BY <1>0, <1>a, <2>2, <2>5 DEF HomesAreHeld
  <2>6. ASSUME NEW u \in Shells, command'[u].at = "loading", NEW r \in Registries, home'[r] = u
        PROVE  r = registry'[u]
    BY <1>0, <1>a, <2>1, <2>2, <2>6 DEF HomesAreHeld
  <2> QED
    BY <2>3, <2>4, <2>5, <2>6 DEF HomesAreHeld
<1>2. ASSUME NEW s \in Shells, Reset(s) PROVE HomesAreHeld'
  <2>1. NewRegistry(s) /\ command[s].at = "idle" /\ UNCHANGED command
    BY <1>2 DEF Reset, Free
  <2>2. /\ opened + 1 \in Registries /\ opened' = opened + 1
        /\ home[opened + 1] = Nobody /\ home'[opened + 1] = s
        /\ registry'[s] = opened + 1
        /\ \A r \in Registries : r # opened + 1 => home'[r] = home[r]
        /\ \A u \in Shells : u # s => registry'[u] = registry[u]
    BY <2>1, NewRegistryEffect
  <2>3. ASSUME NEW u \in Shells, registry'[u] # 0 PROVE home'[registry'[u]] = u
    BY <1>0, <1>a, <2>2, <2>3 DEF HomesAreHeld
  <2>4. ASSUME NEW u \in Shells, command'[u].at # "idle" PROVE registry'[u] # 0
    BY <1>0, <1>a, <2>1, <2>2, <2>4 DEF HomesAreHeld
  <2>5. ASSUME NEW r \in Registries, home'[r] # Nobody
        PROVE  r <= opened' /\ registry'[home'[r]] # 0
    BY <1>0, <1>a, <2>2, <2>5 DEF HomesAreHeld
  <2>6. ASSUME NEW u \in Shells, command'[u].at = "loading", NEW r \in Registries, home'[r] = u
        PROVE  r = registry'[u]
    BY <1>0, <1>a, <2>1, <2>2, <2>6 DEF HomesAreHeld
  <2> QED
    BY <2>3, <2>4, <2>5, <2>6 DEF HomesAreHeld
<1>3. ASSUME NEW s \in Shells, Close(s) PROVE HomesAreHeld'
  <2>1. /\ \A r \in Registries : home'[r] = IF home[r] = s THEN Nobody ELSE home[r]
        /\ registry'[s] = 0 /\ command'[s].at = "idle" /\ opened' = opened
        /\ \A u \in Shells : u # s => registry'[u] = registry[u] /\ command'[u] = command[u]
    BY <1>3, CloseEffect DEF ShellsOK, Idle
  <2>2. ASSUME NEW u \in Shells, registry'[u] # 0 PROVE home'[registry'[u]] = u
    BY <1>0, <1>a, <2>1, <2>2 DEF HomesAreHeld
  <2>3. ASSUME NEW u \in Shells, command'[u].at # "idle" PROVE registry'[u] # 0
    BY <1>0, <1>a, <2>1, <2>3 DEF HomesAreHeld
  <2>4. ASSUME NEW r \in Registries, home'[r] # Nobody
        PROVE  r <= opened' /\ registry'[home'[r]] # 0
    BY <1>0, <1>a, <2>1, <2>4 DEF HomesAreHeld
  <2>5. ASSUME NEW u \in Shells, command'[u].at = "loading", NEW r \in Registries, home'[r] = u
        PROVE  r = registry'[u]
    BY <1>0, <1>a, <2>1, <2>5 DEF HomesAreHeld
  <2> QED
    BY <2>2, <2>3, <2>4, <2>5 DEF HomesAreHeld
<1>4. CASE /\ UNCHANGED shells
           /\ \A u \in Shells : command'[u].at # "idle" => registry[u] # 0
           /\ \A u \in Shells : command'[u].at = "loading" => command[u].at = "loading"
  BY <1>0, <1>4 DEF HomesAreHeld, ShellsOK, shells
<1>5. ASSUME NEW s \in Shells, NEW c, command' = [command EXCEPT ![s] = c],
             c.at = "loading" => command[s].at = "loading", registry[s] # 0, UNCHANGED shells
      PROVE  HomesAreHeld'
  BY <1>0, <1>4, <1>5 DEF HomesAreHeld, ShellsOK
<1>6. ASSUME NEW s \in Shells, Load(s) PROVE HomesAreHeld'
  <2>1. command[s].at = "loading" /\ registry[s] # 0 /\ UNCHANGED shells
    BY <1>6, ShellHolds DEF Load
  <2>2. CASE UNCHANGED command
    BY <1>0, <1>4, <2>1, <2>2 DEF HomesAreHeld
  <2>3. CASE command' = [command EXCEPT ![s] = Idle]
    BY <1>5, <2>1, <2>3
  <2>4. CASE command' = [command EXCEPT ![s].rest = Tail(command[s].rest)]
    <3>1. \A u \in Shells : command'[u].at = command[u].at
      BY <2>4 DEF ShellsOK
    <3> QED
      BY <1>0, <1>4, <2>1, <3>1 DEF HomesAreHeld
  <2> QED
    BY <1>6, <2>2, <2>3, <2>4 DEF Load
<1>7. ASSUME NEW s \in Shells, \/ Create(s) \/ MarkRunning(s) \/ Spawn(s) \/ Watched(s)
                               \/ Cancel(s) \/ Cancelled(s)
      PROVE  HomesAreHeld'
  <2>1. registry[s] # 0 /\ UNCHANGED shells
    BY <1>7, ShellHolds DEF Create, MarkRunning, Spawn, Watched, Cancel, Cancelled, Free
  <2>2. \E c : c.at # "loading" /\ command' = [command EXCEPT ![s] = c]
    <3> USE DEF Doing, Idle
    <3>1. CASE Create(s)
      BY <3>1 DEF Create
    <3>2. CASE MarkRunning(s)
      BY <3>2 DEF MarkRunning
    <3>3. CASE Spawn(s)
      BY <3>3 DEF Spawn
    <3>4. CASE Watched(s)
      BY <3>4 DEF Watched
    <3>5. CASE Cancel(s)
      BY <3>5 DEF Cancel
    <3>6. CASE Cancelled(s)
      BY <3>6 DEF Cancelled
    <3> QED
      BY <1>7, <3>1, <3>2, <3>3, <3>4, <3>5, <3>6
  <2> QED
    BY <1>5, <2>1, <2>2
<1>10. ASSUME NEW h \in Threads, Save(h) PROVE HomesAreHeld'
  BY <1>0, <1>4, <1>10 DEF Save, HomesAreHeld
<1>9. ASSUME NEW t \in Tasks, \/ Poll(t) \/ Expire(t) \/ Expired(t) \/ CheckCancel(t)
                               \/ Terminate(t) \/ Drain(t) \/ Conclude(t) \/ ChildExits(t) \/ DescendantExits(t)
       PROVE  HomesAreHeld'
  <2>1. UNCHANGED <<shells, command>>
    BY <1>9 DEF Poll, Expire, Expired, CheckCancel, Terminate, Drain, Conclude, ChildExits, DescendantExits
  <2> QED
    BY <1>0, <1>4, <2>1 DEF HomesAreHeld
<1>8. ASSUME NEW s \in Shells, Refresh(s) PROVE HomesAreHeld'
  BY <1>0, <1>4, <1>8 DEF Refresh, HomesAreHeld
<1> QED
  BY <1>1, <1>2, <1>3, <1>6, <1>7, <1>10, <1>9, <1>8 DEF Acts

\* The steps of Save, point by point.
LEMMA SaveEffect ==
    ASSUME TypeOK, NEW h \in Threads, Save(h)
    PROVE  \E r \in Registries :
              /\ saving[h] = r /\ UNCHANGED <<shells, records, processes, command>>
              /\ \/ /\ locked[r] = Nobody /\ locked'[r] = h /\ payload'[r] = View(r)
                    /\ \A q \in Registries : q # r => locked'[q] = locked[q] /\ payload'[q] = payload[q]
                    /\ UNCHANGED <<saving, disk, last>>
                 \/ /\ locked[r] = h /\ locked'[r] = Nobody /\ payload'[r] = <<>>
                    /\ \A q \in Registries : q # r => locked'[q] = locked[q] /\ payload'[q] = payload[q]
                    /\ disk' = payload[r] /\ last' = r
                    /\ saving'[h] = 0 /\ \A g \in Threads : g # h => saving'[g] = saving[g]
<1> USE DEF TypeOK
<1>1. PICK r \in Registries : r = saving[h]
  BY DEF Save, StoreOK, Registries
<1>2. UNCHANGED <<shells, records, processes, command>>
  BY DEF Save
<1>3. CASE TakeSnapshot(h, r) /\ UNCHANGED <<disk, last>>
  <2>1. /\ locked[r] = Nobody /\ locked' = [locked EXCEPT ![r] = h]
        /\ payload' = [payload EXCEPT ![r] = View(r)] /\ UNCHANGED saving
    BY <1>3 DEF TakeSnapshot, View
  <2> QED
    BY <1>1, <1>2, <1>3, <2>1 DEF StoreOK
<1>4. CASE ReplaceFile(h, r)
  <2>1. /\ locked[r] = h /\ disk' = payload[r] /\ last' = r
        /\ locked' = [locked EXCEPT ![r] = Nobody]
        /\ payload' = [payload EXCEPT ![r] = <<>>]
        /\ saving' = [saving EXCEPT ![h] = 0]
    BY <1>4 DEF ReplaceFile
  <2> QED
    BY <1>1, <1>2, <2>1 DEF StoreOK
<1> QED
  BY <1>1, <1>3, <1>4 DEF Save

LEMMA OpenedStore ==
    ASSUME NEW s \in Shells, Open(s) \/ Reset(s)
    PROVE  /\ NewRegistry(s) /\ UNCHANGED <<tasks, creator, cancel, processes, saving, store>>
           /\ saving[s] = 0 \/ registry[s] = 0
BY DEF Open, Reset, Free, records

LEMMA SavesStayHeld ==
    ASSUME TypeOK, Earned, Acts
    PROVE  SavesAreHeld'
<1> USE DEF TypeOK, Earned
<1>0. SavesAreHeld /\ HomesAreHeld /\ StepKinds
  BY OwnershipParts, ActsAreKinds
<1>a. /\ \A r \in Registries : r \in Nat /\ r # 0
      /\ opened \in Nat /\ last \in Nat
      /\ \A h \in Threads : saving[h] \in Registries \/ saving[h] = 0
  BY RegistryIds DEF StoreOK, Registries
<1>1. ASSUME NEW h \in Threads, Save(h) PROVE SavesAreHeld'
  <2>1. PICK r \in Registries :
              /\ saving[h] = r /\ UNCHANGED <<home, opened>>
              /\ last' = r \/ last' = last
              /\ \A g \in Threads : saving'[g] = 0 \/ saving'[g] = saving[g]
    BY <1>1, SaveEffect DEF shells
  <2>2. r <= opened
    BY <1>0, <1>a, <1>1, <2>1 DEF SavesAreHeld, HomesAreHeld
  <2> QED
    BY <1>0, <1>a, <2>1, <2>2 DEF SavesAreHeld
<1>2. ASSUME NEW s \in Shells, Open(s) \/ Reset(s) PROVE SavesAreHeld'
  <2>1. NewRegistry(s) /\ UNCHANGED <<saving, last>>
    BY <1>2, OpenedStore DEF store
  <2>2. /\ opened' = opened + 1 /\ home'[opened + 1] # Nobody
        /\ \A r \in Registries : r # opened + 1 => home'[r] = home[r]
    BY <2>1, NewRegistryEffect
  <2> QED
    BY <1>0, <1>a, <2>1, <2>2 DEF SavesAreHeld
<1>3. ASSUME NEW s \in Shells, Close(s) PROVE SavesAreHeld'
  <2>1. /\ \A r \in Registries : home'[r] = IF home[r] = s THEN Nobody ELSE home[r]
        /\ \A h \in Threads : saving'[h] = IF saving[h] \in Registries /\ home[saving[h]] = s
                                           THEN 0 ELSE saving[h]
        /\ UNCHANGED <<opened, last>>
    BY <1>3, CloseEffect
  <2> QED
    BY <1>0, <1>a, <2>1 DEF SavesAreHeld
<1>4. ASSUME NEW h \in Threads, NEW r \in Registries, home[r] # Nobody, Works(h, r)
      PROVE  SavesAreHeld'
  <2>1. /\ UNCHANGED <<home, opened, last>>
        /\ \A g \in Threads : g # h => saving'[g] = saving[g]
        /\ saving'[h] = r \/ saving'[h] = 0
    BY <1>4 DEF Works, shells, store
  <2> QED
    BY <1>0, <1>a, <1>4, <2>1 DEF SavesAreHeld
<1>5. CASE Rests
  BY <1>0, <1>5 DEF Rests, SavesAreHeld, shells, store
<1> QED
  BY <1>0, <1>1, <1>2, <1>3, <1>4, <1>5 DEF StepKinds

LEMMA TasksStayHeld ==
    ASSUME TypeOK, Earned, Acts
    PROVE  TasksAreHeld'
<1> USE DEF TypeOK, Earned
<1>0. TasksAreHeld /\ HomesAreHeld
  BY OwnershipParts
<1>a. /\ \A r \in Registries : r \in Nat /\ r # 0
      /\ opened \in Nat
      /\ \A t \in Tasks : creator[t] \in Registries \/ creator[t] = 0
  BY RegistryIds DEF RecordsOK, Registries
<1>1. ASSUME NEW s \in Shells, Open(s) \/ Reset(s) PROVE TasksAreHeld'
  <2>1. NewRegistry(s) /\ UNCHANGED <<creator, watcher>>
    BY <1>1, OpenedStore DEF processes
  <2>2. /\ opened' = opened + 1 /\ home'[opened + 1] # Nobody
        /\ \A r \in Registries : r # opened + 1 => home'[r] = home[r]
    BY <2>1, NewRegistryEffect
  <2> QED
    BY <1>0, <1>a, <2>1, <2>2 DEF TasksAreHeld
<1>2. ASSUME NEW s \in Shells, Close(s) PROVE TasksAreHeld'
  <2>1. /\ \A r \in Registries : home'[r] = IF home[r] = s THEN Nobody ELSE home[r]
        /\ \A t \in Tasks : IF creator[t] \in Registries /\ home[creator[t]] = s
                            THEN watcher'[t] = "none" ELSE watcher'[t] = watcher[t]
        /\ UNCHANGED <<opened, creator>>
    BY <1>2, CloseEffect
  <2> QED
    BY <1>0, <1>a, <2>1 DEF TasksAreHeld
<1>3. ASSUME NEW s \in Shells, Create(s) PROVE TasksAreHeld'
  <2>1. PICK t \in Tasks : creator[t] = 0 /\ creator' = [creator EXCEPT ![t] = registry[s]]
    BY <1>3 DEF Create
  <2>2. registry[s] \in Registries /\ home[registry[s]] = s /\ s # Nobody
    BY <1>3, ShellHolds, RegistryIds DEF Create, Free
  <2>3. registry[s] <= opened
    BY <1>0, <2>2 DEF HomesAreHeld
  <2>4. UNCHANGED <<home, opened, watcher>>
    BY <1>3 DEF Create, shells, processes
  <2>5. \A u \in Tasks : creator'[u] = IF u = t THEN registry[s] ELSE creator[u]
    BY <2>1 DEF RecordsOK
  <2> QED
    BY <1>0, <1>a, <2>1, <2>2, <2>3, <2>4, <2>5 DEF TasksAreHeld
<1>4. ASSUME NEW s \in Shells, Watched(s) PROVE TasksAreHeld'
  <2>1. command[s].task \in Tasks /\ creator[command[s].task] = registry[s]
    BY <1>4 DEF Watched, StartingOrCancelling
  <2>2. registry[s] \in Registries /\ home[registry[s]] = s /\ s # Nobody
    BY <1>4, ShellHolds, RegistryIds DEF Watched
  <2>3. UNCHANGED <<home, opened, creator>> /\ watcher' = [watcher EXCEPT ![command[s].task] = "polling"]
    BY <1>4 DEF Watched, shells, records
  <2> QED
    BY <1>0, <1>a, <2>1, <2>2, <2>3 DEF TasksAreHeld, ProcessesOK
<1>5. ASSUME NEW t \in Tasks, \/ Poll(t) \/ Expire(t) \/ Expired(t) \/ CheckCancel(t)
                              \/ Terminate(t) \/ Drain(t) \/ Conclude(t) \/ ChildExits(t) \/ DescendantExits(t)
      PROVE  TasksAreHeld'
  <2>1. /\ UNCHANGED <<home, opened, creator>>
        /\ UNCHANGED watcher \/ (watcher[t] # "none" /\ \E place : Goto(t, place))
    BY <1>5 DEF Poll, Expire, Expired, CheckCancel, Terminate, Drain, Conclude, ChildExits,
                DescendantExits, At, shells, records
  <2> QED
    BY <1>0, <2>1 DEF TasksAreHeld, ProcessesOK, Goto
<1>6. CASE UNCHANGED <<home, opened, creator, watcher>>
  BY <1>0, <1>6 DEF TasksAreHeld
<1>7. ASSUME NEW s \in Shells, \/ Load(s) \/ MarkRunning(s) \/ Spawn(s) \/ Refresh(s)
                               \/ Cancel(s) \/ Cancelled(s)
      PROVE  UNCHANGED <<home, opened, creator, watcher>>
  BY <1>7 DEF Load, MarkRunning, Spawn, Refresh, Cancel, Cancelled, shells, processes
<1>8. ASSUME NEW h \in Threads, Save(h) PROVE UNCHANGED <<home, opened, creator, watcher>>
  BY <1>8 DEF Save, shells, records, processes
<1> QED
  BY <1>1, <1>2, <1>3, <1>4, <1>5, <1>6, <1>7, <1>8 DEF Acts

LEMMA LocksStayWithSavers ==
    ASSUME TypeOK, Earned, Acts
    PROVE  \A q \in Registries : locked'[q] # Nobody => saving'[locked'[q]] = q
<1> USE DEF TypeOK, Earned
<1>0. StepKinds
  BY ActsAreKinds
<1>a. /\ 0 \notin Registries
      /\ \A q \in Registries : locked[q] # Nobody => locked[q] \in Threads /\ saving[locked[q]] = q
  BY Names DEF StoreOK, LocksSave
<1> SUFFICES ASSUME NEW q \in Registries, locked'[q] # Nobody PROVE saving'[locked'[q]] = q
  OBVIOUS
<1>1. ASSUME NEW h \in Threads, Save(h) PROVE saving'[locked'[q]] = q
  BY <1>a, <1>1, SaveEffect
<1>2. ASSUME NEW s \in Shells, Open(s) \/ Reset(s) PROVE saving'[locked'[q]] = q
  BY <1>a, <1>2, OpenedStore DEF store
<1>3. ASSUME NEW s \in Shells, Close(s) PROVE saving'[locked'[q]] = q
  <2>1. /\ home[q] = s => locked'[q] = Nobody
        /\ home[q] # s => locked'[q] = locked[q]
        /\ \A h \in Threads : saving'[h] = IF saving[h] \in Registries /\ home[saving[h]] = s
                                           THEN 0 ELSE saving[h]
    BY <1>3, CloseEffect
  <2> QED
    BY <1>a, <2>1
<1>4. ASSUME NEW h \in Threads, NEW r \in Registries, Works(h, r) PROVE saving'[locked'[q]] = q
  <2>1. /\ locked' = locked /\ saving[h] = 0
        /\ \A g \in Threads : g # h => saving'[g] = saving[g]
    BY <1>4 DEF Works, store
  <2> QED
    BY <1>a, <2>1
<1>5. CASE Rests
  BY <1>a, <1>5 DEF Rests, store
<1> QED
  BY <1>0, <1>1, <1>2, <1>3, <1>4, <1>5 DEF StepKinds

LEMMA LocksStaySaving ==
    ASSUME TypeOK, Earned, Acts
    PROVE  LocksSave'
<1> USE DEF TypeOK, Earned
<1> SUFFICES ASSUME NEW u \in Shells, command'[u].at = "cancelling" PROVE saving'[u] = 0
  BY LocksStayWithSavers DEF LocksSave
<1>0. u \in Threads /\ Shells \cap Tasks = {} /\ (command[u].at = "cancelling" => saving[u] = 0)
  BY Names DEF LocksSave
<1>1. ASSUME NEW h \in Threads, Save(h) PROVE saving'[u] = 0
  <2>1. command' = command /\ saving[h] # 0 /\ \A g \in Threads : g # h => saving'[g] = saving[g]
    BY <1>1, SaveEffect DEF Save
  <2> QED
    BY <1>0, <2>1
<1>2. ASSUME NEW s \in Shells, Open(s) \/ Reset(s) PROVE saving'[u] = 0
  <2>1. UNCHANGED saving /\ (u # s => command'[u] = command[u])
    BY <1>2, OpenedStore DEF Open, Reset, ShellsOK
  <2>2. command'[s].at # "cancelling"
    BY <1>2 DEF Open, Reset, Free, ShellsOK
  <2> QED
    BY <1>0, <2>1, <2>2
<1>3. ASSUME NEW s \in Shells, Close(s) PROVE saving'[u] = 0
  <2>1. /\ command' = [command EXCEPT ![s] = Idle]
        /\ saving'[u] = 0 \/ saving'[u] = saving[u]
    BY <1>0, <1>3, CloseEffect
  <2> QED
    BY <1>0, <2>1 DEF ShellsOK, Idle
<1>4. ASSUME NEW s \in Shells,
             \/ Load(s) \/ Create(s) \/ MarkRunning(s) \/ Spawn(s) \/ Cancelled(s)
      PROVE  command'[s].at # "cancelling" /\ \A v \in Shells : v # s => command'[v] = command[v]
  <2> USE DEF Doing, Idle, ShellsOK
  <2>1. CASE Load(s)
    <3>1. /\ command[s].at = "loading"
          /\ \/ UNCHANGED command
             \/ command' = [command EXCEPT ![s].rest = Tail(command[s].rest)]
             \/ command' = [command EXCEPT ![s] = Idle]
      BY <2>1 DEF Load
    <3>2. command'[s].at # "cancelling"
      <4>1. CASE command' = [command EXCEPT ![s].rest = Tail(command[s].rest)]
        <5>1. command'[s].at = command[s].at
          BY <4>1
        <5> QED
          BY <3>1, <5>1
      <4>2. CASE command' = [command EXCEPT ![s] = Idle] \/ UNCHANGED command
        BY <3>1, <4>2
      <4> QED
        BY <3>1, <4>1, <4>2
    <3> QED
      BY <3>1, <3>2
  <2>2. CASE Create(s)
    BY <2>2 DEF Create
  <2>3. CASE MarkRunning(s)
    BY <2>3 DEF MarkRunning
  <2>4. CASE Spawn(s)
    BY <2>4 DEF Spawn
  <2>5. CASE Cancelled(s)
    BY <2>5 DEF Cancelled
  <2> QED
    BY <1>4, <2>1, <2>2, <2>3, <2>4, <2>5
<1>5. ASSUME NEW s \in Shells, NEW r, r = registry[s],
             \/ Load(s) \/ Create(s) \/ MarkRunning(s) \/ Spawn(s) \/ Refresh(s) \/ Cancelled(s)
      PROVE  \A g \in Threads : g # s => saving'[g] = saving[g]
  BY <1>5, LoadWorks, CommandWorks DEF Works
<1>6. ASSUME NEW s \in Shells,
             \/ Load(s) \/ Create(s) \/ MarkRunning(s) \/ Spawn(s) \/ Cancelled(s)
      PROVE  saving'[u] = 0
  BY <1>0, <1>4, <1>5, <1>6
<1>7. ASSUME NEW s \in Shells, Refresh(s) PROVE saving'[u] = 0
  <2>1. UNCHANGED command /\ command[s].at = "idle"
    BY <1>7 DEF Refresh, Free
  <2>2. \A g \in Threads : g # s => saving'[g] = saving[g]
    BY <1>5, <1>7
  <2> QED
    BY <1>0, <2>1, <2>2
<1>8. ASSUME NEW s \in Shells, Watched(s) PROVE saving'[u] = 0
  BY <1>0, <1>8 DEF Watched, Idle, ShellsOK
<1>9. ASSUME NEW s \in Shells, Cancel(s) PROVE saving'[u] = 0
  <2>1. saving[s] = 0 /\ UNCHANGED saving /\ (u # s => command'[u] = command[u])
    BY <1>9 DEF Cancel, Free, ShellsOK
  <2> QED
    BY <1>0, <2>1
<1>10. ASSUME NEW t \in Tasks, Expired(t) \/ Conclude(t) PROVE saving'[u] = 0
  <2>1. UNCHANGED command
    BY <1>10 DEF Expired, Conclude
  <2>2. \E r : r = creator[t]
    OBVIOUS
  <2>3. \A g \in Threads : g # t => saving'[g] = saving[g]
    BY <1>10, <2>2, WatcherWorks DEF Works
  <2> QED
    BY <1>0, <2>1, <2>3
<1>11. ASSUME NEW t \in Tasks, Poll(t) \/ Expire(t) \/ CheckCancel(t) \/ Terminate(t) \/ Drain(t)
           \/ ChildExits(t) \/ DescendantExits(t)
       PROVE  saving'[u] = 0
  BY <1>0, <1>11 DEF Poll, Expire, CheckCancel, Terminate, Drain, ChildExits, DescendantExits
<1> QED
  BY <1>1, <1>2, <1>3, <1>6, <1>7, <1>8, <1>9, <1>10, <1>11 DEF Acts
-----------------------------------------------------------------------------
(* What the last writer wrote. *)

\* A snapshot depends on the records of its registry alone.
LEMMA SameView ==
    ASSUME RecordsOK, NEW q \in Registries, SameRecords(q)
    PROVE  View(q)' = View(q)
<1>1. tasks[q] \in Seq(Tasks) /\ tasks'[q] = tasks[q]
  BY DEF RecordsOK, SameRecords
<1>2. ASSUME NEW i \in DOMAIN tasks[q] PROVE ToDict(q, tasks[q][i])' = ToDict(q, tasks[q][i])
  <2>1. tasks[q][i] \in Tasks
    BY <1>1, ElementOfSeq
  <2> QED
    BY <1>1, <2>1 DEF ToDict, SameRecords
<1> QED
  BY <1>1, <1>2 DEF View

\* The two halves of the invariant, for one registry.
Current(q) ==
    (home[q] # Nobody /\ ~Loading(q)) =>
        /\ (locked[q] # Nobody /\ Saves(q) = {locked[q]}) => payload[q] = View(q)
        /\ (last = q /\ Saves(q) = {}) => disk = View(q)

LEMMA CurrentParts ==
    /\ (PayloadIsCurrent /\ LastWriterIsOnDisk) <=> \A q \in Registries : Current(q)
    /\ (PayloadIsCurrent /\ LastWriterIsOnDisk)' <=> \A q \in Registries : Current(q)'
BY DEF PayloadIsCurrent, LastWriterIsOnDisk, Current, View, Loading

\* Whose records, saves and file are as before has them on disk as before.
LEMMA StaysCurrent ==
    ASSUME RecordsOK, NEW q \in Registries, Current(q), SameRecords(q),
           home'[q] = home[q], home[q] # Nobody => Loading(q)' = Loading(q),
           \A h \in Threads : (saving'[h] = q) = (saving[h] = q),
           locked'[q] = locked[q], payload'[q] = payload[q], UNCHANGED <<disk, last>>
    PROVE  Current(q)'
<1>1. Saves(q)' = Saves(q)
  BY DEF Saves
<1>2. View(q)' = View(q)
  BY SameView
<1> QED
  BY <1>1, <1>2 DEF Current

LEMMA FileStaysCurrent ==
    ASSUME TypeOK, Earned, Acts, PayloadIsCurrent, LastWriterIsOnDisk
    PROVE  (PayloadIsCurrent /\ LastWriterIsOnDisk)'
<1> USE DEF TypeOK, Earned
<1>0. StepKinds
  BY ActsAreKinds
<1>a. /\ 0 \notin Registries /\ Nobody \notin Threads
      /\ \A q \in Registries : locked[q] # Nobody => locked[q] \in Threads /\ saving[locked[q]] = q
  BY Names DEF StoreOK, LocksSave
<1>b. \A q \in Registries : Current(q)
  BY CurrentParts
<1> SUFFICES ASSUME NEW q \in Registries PROVE Current(q)'
  BY CurrentParts
<1>1. ASSUME NEW h \in Threads, Save(h) PROVE Current(q)'
  <2>1. PICK r \in Registries :
              /\ saving[h] = r /\ UNCHANGED <<shells, records, processes, command>>
              /\ \/ /\ locked[r] = Nobody /\ locked'[r] = h /\ payload'[r] = View(r)
                    /\ \A p \in Registries : p # r => locked'[p] = locked[p] /\ payload'[p] = payload[p]
                    /\ UNCHANGED <<saving, disk, last>>
                 \/ /\ locked[r] = h /\ locked'[r] = Nobody /\ payload'[r] = <<>>
                    /\ \A p \in Registries : p # r => locked'[p] = locked[p] /\ payload'[p] = payload[p]
                    /\ disk' = payload[r] /\ last' = r
                    /\ saving'[h] = 0 /\ \A g \in Threads : g # h => saving'[g] = saving[g]
    BY <1>1, SaveEffect
  <2>2. SameRecords(q) /\ home'[q] = home[q] /\ Loading(q)' = Loading(q) /\ View(q)' = View(q)
    BY <2>1, SameView DEF SameRecords, Loading, records, shells
  <2>3. CASE locked[r] = Nobody
    <3>1. Saves(q)' = Saves(q) /\ UNCHANGED <<disk, last>>
      BY <1>a, <2>1, <2>3 DEF Saves
    <3>2. CASE q = r
      BY <1>b, <2>1, <2>2, <2>3, <3>1, <3>2, <1>a DEF Current
    <3>3. CASE q # r
      BY <1>b, <2>1, <2>2, <2>3, <3>1, <3>3 DEF Current
    <3> QED
      BY <3>2, <3>3
  <2>4. CASE locked[r] = h
    <3>1. h # Nobody
      BY <1>a
    <3>2. CASE q = r
      <4>1. Saves(q)' = {} => Saves(q) = {h}
        BY <2>1, <2>4, <3>1, <3>2 DEF Saves
      <4> QED
        BY <1>b, <2>1, <2>2, <2>4, <3>1, <3>2, <4>1 DEF Current
    <3>3. CASE q # r
      <4>1. Saves(q)' = Saves(q)
        BY <1>a, <2>1, <2>4, <3>1, <3>3 DEF Saves
      <4> QED
        BY <1>b, <2>1, <2>2, <2>4, <3>1, <3>3, <4>1 DEF Current
    <3> QED
      BY <3>2, <3>3
  <2> QED
    BY <2>1, <2>3, <2>4
<1>2. ASSUME NEW s \in Shells, Open(s) \/ Reset(s) PROVE Current(q)'
  <2>1. NewRegistry(s) /\ UNCHANGED <<tasks, saving, store>>
    BY <1>2, OpenedStore
  <2>2. /\ opened + 1 \in Registries /\ opened \in Nat
        /\ home[opened + 1] = Nobody
        /\ \A r \in Registries : r # opened + 1 => home'[r] = home[r]
        /\ \A u \in Shells : u # s => registry'[u] = registry[u]
    BY <2>1, NewRegistryEffect
  <2>3. CASE q = opened + 1
    <3>1. locked[q] = Nobody /\ last # q
      BY <1>a, <2>2, <2>3 DEF Ownership, StoreOK
    <3> QED
      BY <2>1, <3>1 DEF Current, store
  <2>4. CASE q # opened + 1
    <3>1. SameRecords(q)
      <4>1. CASE Reset(s)
        BY <4>1 DEF Reset, SameRecords, records
      <4>2. CASE Open(s)
        <5>1. status'[q] = status[q] /\ tasks'[q] = tasks[q]
          BY <2>1, <2>4, <4>2, OpenedStatus
        <5>2. PICK got \in [Tasks -> {TRUE, FALSE}] :
                 pid' = [t \in Tasks |-> IF got[t] THEN pid[t] \cup {opened + 1} ELSE pid[t]]
          <6> DEFINE loaded == MostRecent(disk)
                     of(t) == CHOOSE i \in DOMAIN loaded : loaded[i].task = t
                     found == {loaded[i].task : i \in DOMAIN loaded}
                     got == [t \in Tasks |-> t \in found /\ loaded[of(t)].pid]
          <6>1. pid' = [t \in Tasks |-> IF t \in found /\ loaded[of(t)].pid
                                        THEN pid[t] \cup {opened + 1} ELSE pid[t]]
            BY <4>2 DEF Open
          <6> HIDE DEF loaded, of, found
          <6>2. got \in [Tasks -> {TRUE, FALSE}]
            BY Zenon
          <6>3. pid' = [t \in Tasks |-> IF got[t] THEN pid[t] \cup {opened + 1} ELSE pid[t]]
            BY <6>1
          <6> QED
            BY <6>2, <6>3
        <5>3. \A t \in Tasks : (q \in pid'[t]) = (q \in pid[t])
          BY <2>4, <5>2
        <5> QED
          BY <5>1, <5>3 DEF SameRecords
      <4> QED
        BY <1>2, <4>1, <4>2
    <3>2. home'[q] = home[q] /\ (home[q] # Nobody => Loading(q)' = Loading(q))
      <4>1. CASE Reset(s)
        BY <2>2, <2>4, <4>1 DEF Loading, Reset
      <4>2. CASE Open(s)
        <5>1. home[q] # Nobody => home[q] # s /\ home[q] \in Shells
          BY <4>2, RegistryIds DEF Open, Ownership
        <5>2. \A u \in Shells : u # s => command'[u] = command[u]
          BY <4>2 DEF Open, ShellsOK
        <5> QED
          BY <2>2, <2>4, <5>1, <5>2 DEF Loading
      <4> QED
        BY <1>2, <4>1, <4>2
    <3> QED
      BY <1>b, <2>1, <3>1, <3>2, StaysCurrent DEF store
  <2> QED
    BY <2>3, <2>4
<1>3. ASSUME NEW s \in Shells, Close(s) PROVE Current(q)'
  <2>1. /\ home'[q] = IF home[q] = s THEN Nobody ELSE home[q]
        /\ home[q] # s => SameRecords(q) /\ locked'[q] = locked[q] /\ payload'[q] = payload[q]
        /\ \A h \in Threads : saving'[h] = IF saving[h] \in Registries /\ home[saving[h]] = s
                                           THEN 0 ELSE saving[h]
        /\ command' = [command EXCEPT ![s] = Idle] /\ UNCHANGED <<disk, last>>
    BY <1>3, CloseEffect
  <2>2. CASE home[q] = s
    BY <2>1, <2>2 DEF Current
  <2>3. CASE home[q] # s
    <3>1. home[q] # Nobody => Loading(q)' = Loading(q)
      BY <2>1, <2>3 DEF Loading, ShellsOK
    <3>2. \A h \in Threads : (saving'[h] = q) = (saving[h] = q)
      BY <1>a, <2>1, <2>3
    <3> QED
      BY <1>b, <2>1, <2>3, <3>1, <3>2, StaysCurrent
  <2> QED
    BY <2>2, <2>3
<1>4. ASSUME NEW h \in Threads, NEW r \in Registries, home[r] # Nobody, Works(h, r)
      PROVE  Current(q)'
  <2>1. /\ saving[h] = 0 /\ UNCHANGED <<shells, store>>
        /\ \A g \in Threads : g # h => saving'[g] = saving[g]
        /\ saving'[h] = r \/ saving'[h] = 0
    BY <1>4 DEF Works
  <2>2. CASE q # r
    <3>1. SameRecords(q) /\ (home[q] # Nobody => Loading(q)' = Loading(q))
      BY <1>4, <2>2 DEF Works
    <3>2. \A g \in Threads : (saving'[g] = q) = (saving[g] = q)
      BY <1>a, <2>1, <2>2
    <3> QED
      BY <1>b, <2>1, <3>1, <3>2, StaysCurrent DEF shells, store
  <2>3. CASE q = r /\ saving'[h] = r
    <3>1. h \in Saves(q)'
      BY <2>3 DEF Saves
    <3>2. locked'[q] = locked[q] /\ (locked[q] # Nobody => locked[q] # h)
      BY <1>a, <2>1 DEF store
    <3> QED
      BY <3>1, <3>2 DEF Current
  <2>4. CASE q = r /\ saving'[h] = 0 /\ SameRecords(r) /\ Loading(r)' = Loading(r)
    <3>1. \A g \in Threads : (saving'[g] = q) = (saving[g] = q)
      BY <1>a, <2>1, <2>4
    <3> QED
      BY <1>b, <2>1, <2>4, <3>1, StaysCurrent DEF shells, store
  <2>5. CASE q = r /\ Loading(r)'
    BY <2>5 DEF Current
  <2> QED
    BY <1>4, <2>2, <2>3, <2>4, <2>5 DEF Works
<1>5. CASE Rests
  <2>1. SameRecords(q) /\ home'[q] = home[q]
    BY <1>5 DEF Rests, SameRecords, shells
  <2>2. home[q] # Nobody => Loading(q)' = Loading(q)
    BY <1>5 DEF Rests, Loading, shells, ShellsOK
  <2> QED
    BY <1>b, <1>5, <2>1, <2>2, StaysCurrent DEF Rests, store
<1> QED
  BY <1>0, <1>1, <1>2, <1>3, <1>4, <1>5 DEF StepKinds
-----------------------------------------------------------------------------
(* How a status changes. *)

StatusChange(q, t) ==
    \/ \E s \in Shells : Open(s) /\ q = opened + 1 /\ \E i \in DOMAIN disk : disk[i].task = t
    \/ \E s \in Shells : Close(s) /\ home[q] = s /\ status'[q][t] = "pending"
    \/ \E s \in Shells : (Load(s) \/ Refresh(s)) /\ q = registry[s] /\ Stale(q, t)
    \/ /\ status[q][t] \notin Final
       /\ \/ \E s \in Shells :
                /\ q = registry[s] /\ t = command[s].task
                /\ \/ MarkRunning(s) /\ status'[q][t] = "running"
                   \/ Spawn(s) /\ status'[q][t] = "failed" /\ UNCHANGED child
                   \/ /\ Cancelled(s) /\ status'[q][t] = "cancelled"
                      /\ ~(creator[t] = q /\ Alive(t))
          \/ /\ q = creator[t]
             /\ \/ Expired(t) /\ status'[q][t] = "cancelled" /\ ~Alive(t)
                \/ Conclude(t) /\ status'[q][t] = Verdict(t)

LEMMA StatusSteps ==
    ASSUME TypeOK, Earned, Acts, NEW q \in Registries, NEW t \in Tasks, status'[q][t] # status[q][t]
    PROVE  StatusChange(q, t)
<1> USE DEF TypeOK, Earned
<1>1. ASSUME NEW s \in Shells, Open(s) PROVE StatusChange(q, t)
  <2>1. q = opened + 1
    BY <1>1, OpenedStatus
  <2>2. \E i \in DOMAIN disk : disk[i].task = t
    BY <1>1, <2>1, OpenedStatus
  <2> QED
    BY <1>1, <2>1, <2>2 DEF StatusChange
<1>2. ASSUME NEW s \in Shells, Close(s) PROVE StatusChange(q, t)
  <2>1. /\ home[q] = s => status'[q] = NoRecords
        /\ home[q] # s => SameRecords(q)
    BY <1>2, CloseEffect
  <2>2. home[q] = s /\ status'[q][t] = "pending"
    BY <2>1 DEF SameRecords, NoRecords
  <2> QED
    BY <1>2, <2>2 DEF StatusChange
<1>3. ASSUME NEW s \in Shells, Load(s) PROVE StatusChange(q, t)
  <2> DEFINE rest == command[s].rest
  <2>1. Stale(registry[s], Head(rest)) /\ SetStatus(registry[s], Head(rest), "completed")
    BY <1>3 DEF Load
  <2>2. registry[s] \in 0 .. MaxRegistries /\ "completed" \in Statuses
    BY DEF ShellsOK, Statuses, Final
  <2> HIDE DEF rest
  <2>3. \E u : /\ SetStatus(registry[s], u, "completed")
               /\ u = Head(rest)
    BY <2>1
  <2>4. q = registry[s] /\ t = Head(rest)
    BY <2>2, <2>3, StatusEffect
  <2> QED
    BY <1>3, <2>1, <2>4 DEF StatusChange
<1>4. ASSUME NEW s \in Shells, Refresh(s) PROVE StatusChange(q, t)
  <2>1. PICK u \in Held(s) : Stale(registry[s], u) /\ SetStatus(registry[s], u, "completed")
    BY <1>4 DEF Refresh
  <2>2. registry[s] \in 0 .. MaxRegistries /\ "completed" \in Statuses
    BY DEF ShellsOK, Statuses, Final
  <2>3. q = registry[s] /\ t = u
    BY <2>1, <2>2, StatusEffect
  <2> QED
    BY <1>4, <2>1, <2>3 DEF StatusChange
<1>5. ASSUME NEW h \in Threads, NEW r \in Registries, NEW u \in Tasks, NEW st \in Statuses, Mark(h, r, u, st)
      PROVE  q = r /\ t = u /\ status[q][t] \notin Final /\ status'[q][t] = st
  BY <1>5, MarkEffect
<1>6. ASSUME NEW h \in Threads, NEW r \in Registries, NEW u \in Tasks, StopProcess(h, r, u)
      PROVE  /\ q = r /\ t = u /\ status[q][t] \notin Final /\ status'[q][t] = "cancelled"
             /\ ~(creator[t] = q /\ Alive(t))
  BY <1>6, StopEffect
<1>7. "running" \in Statuses /\ "failed" \in Statuses /\ Verdict(t) \in Statuses
      /\ \A u \in Tasks : Verdict(u) \in Statuses
  BY DEF Verdict, Statuses, Final
<1>8. ASSUME NEW s \in Shells, MarkRunning(s) \/ Spawn(s) \/ Cancelled(s)
      PROVE  registry[s] \in Registries /\ command[s].task \in Tasks /\ s \in Threads
  BY <1>8, ShellHolds, CommandHolds, Names DEF MarkRunning, Spawn, Cancelled
<1>9. ASSUME NEW s \in Shells, MarkRunning(s) PROVE StatusChange(q, t)
  <2>1. Mark(s, registry[s], command[s].task, "running")
    BY <1>9 DEF MarkRunning
  <2> QED
    BY <1>5, <1>7, <1>8, <1>9, <2>1 DEF StatusChange
<1>10. ASSUME NEW s \in Shells, Spawn(s) PROVE StatusChange(q, t)
  <2>1. Mark(s, registry[s], command[s].task, "failed") /\ UNCHANGED child
    BY <1>10 DEF Spawn
  <2> QED
    BY <1>5, <1>7, <1>8, <1>10, <2>1 DEF StatusChange
<1>11. ASSUME NEW s \in Shells, Cancelled(s) PROVE StatusChange(q, t)
  <2>1. StopProcess(s, registry[s], command[s].task)
    BY <1>11 DEF Cancelled
  <2> QED
    BY <1>6, <1>8, <1>11, <2>1 DEF StatusChange
<1>12. ASSUME NEW u \in Tasks, Expired(u) \/ Conclude(u) PROVE StatusChange(q, t)
  <2>1. creator[u] \in Registries /\ u \in Threads
    BY <1>12, WatcherHolds, Names DEF Expired, Conclude, At
  <2>2. CASE Expired(u)
    <3>1. StopProcess(u, creator[u], u)
      BY <2>2 DEF Expired
    <3>2. t = u /\ q = creator[u] /\ status[q][t] \notin Final /\ status'[q][t] = "cancelled"
          /\ ~(creator[t] = q /\ Alive(t))
      BY <1>6, <2>1, <3>1
    <3> QED
      BY <2>2, <3>2 DEF StatusChange
  <2>3. CASE Conclude(u)
    <3>1. Mark(u, creator[u], u, Verdict(u))
      BY <2>3 DEF Conclude
    <3>2. t = u /\ q = creator[u] /\ status[q][t] \notin Final /\ status'[q][t] = Verdict(u)
      BY <1>5, <1>7, <2>1, <3>1
    <3> QED
      BY <2>3, <3>2 DEF StatusChange
  <2> QED
    BY <1>12, <2>2, <2>3
<1>13. ASSUME NEW s \in Shells, Reset(s) \/ Create(s) \/ Watched(s) \/ Cancel(s) PROVE UNCHANGED status
  BY <1>13 DEF Reset, Create, Watched, Cancel, records
<1>14. ASSUME NEW u \in Tasks, Poll(u) \/ Expire(u) \/ CheckCancel(u) \/ Terminate(u) \/ Drain(u)
           \/ ChildExits(u) \/ DescendantExits(u)
       PROVE  UNCHANGED status
  BY <1>14 DEF Poll, Expire, CheckCancel, Terminate, Drain, ChildExits, DescendantExits, records
<1>15. ASSUME NEW h \in Threads, Save(h) PROVE UNCHANGED status
  BY <1>15 DEF Save, records
<1> QED
  BY <1>1, <1>2, <1>3, <1>4, <1>9, <1>10, <1>11, <1>12, <1>13, <1>14, <1>15 DEF Acts

\* FirstVerdictStands, for one step.
LEMMA StepKeepsVerdicts ==
    ASSUME TypeOK, Earned, Acts, NEW q \in Registries, NEW t \in Tasks,
           home[q] # Nobody, home'[q] # Nobody, status[q][t] \in Final
    PROVE  status'[q][t] = status[q][t]
<1> USE DEF TypeOK, Earned
<1> SUFFICES ASSUME status'[q][t] # status[q][t] PROVE FALSE
  OBVIOUS
<1>1. StatusChange(q, t)
  BY StatusSteps
<1>2. q # opened + 1
  <2>1. q <= opened /\ q \in Nat /\ opened \in Nat
    BY RegistryIds DEF Ownership
  <2> QED
    BY <2>1
<1>3. status[q][t] # "running"
  BY DEF Final
<1>4. ASSUME NEW s \in Shells, Close(s), home[q] = s PROVE FALSE
  BY <1>4, CloseEffect
<1> QED
  BY <1>1, <1>2, <1>3, <1>4 DEF StatusChange, Stale
-----------------------------------------------------------------------------
(* What is listed was created. *)

LEMMA CreateEffect ==
    ASSUME TypeOK, Earned, NEW s \in Shells, Create(s)
    PROVE  \E t \in Tasks :
              /\ creator[t] = 0 /\ creator'[t] = registry[s] /\ registry[s] \in Registries
              /\ \A u \in Tasks : u # t => creator'[u] = creator[u]
              /\ tasks' = [tasks EXCEPT ![registry[s]] = MostRecent(Append(@, t))]
              /\ command' = [command EXCEPT ![s] = Doing("created", t)]
              /\ UNCHANGED <<shells, status, pid, cancel, processes, store>>
<1> USE DEF TypeOK, Earned
<1>1. PICK t \in Tasks :
          /\ creator[t] = 0 /\ creator' = [creator EXCEPT ![t] = registry[s]]
          /\ tasks' = [tasks EXCEPT ![registry[s]] = MostRecent(Append(@, t))]
          /\ command' = [command EXCEPT ![s] = Doing("created", t)]
  BY DEF Create
<1>2. UNCHANGED <<shells, status, pid, cancel, processes, store>>
  BY DEF Create
<1>3. registry[s] \in Registries
  BY ShellHolds DEF Create, Free
<1>4. /\ creator'[t] = registry[s]
      /\ \A u \in Tasks : u # t => creator'[u] = creator[u]
  BY <1>1 DEF RecordsOK
<1> QED
  BY <1>1, <1>2, <1>3, <1>4

LEMMA OthersCreateNothing ==
    ASSUME Acts, \A s \in Shells : ~Create(s)
    PROVE  UNCHANGED creator
BY DEF Acts, Save, Open, Load, Reset, Close, MarkRunning, Spawn, Watched, Refresh, Cancel, Cancelled,
       Poll, Expire, Expired, CheckCancel, Terminate, Drain, Conclude, ChildExits, DescendantExits, records

LEMMA CreatorsStay ==
    ASSUME TypeOK, Earned, Acts
    PROVE  \A t \in Tasks : creator[t] # 0 => creator'[t] = creator[t]
<1>1. CASE \E s \in Shells : Create(s)
  BY <1>1, CreateEffect
<1>2. CASE \A s \in Shells : ~Create(s)
  BY <1>2, OthersCreateNothing
<1> QED
  BY <1>1, <1>2

\* What is in the lists now is in the lists before, or is created.
LEMMA ListsStayCreated ==
    ASSUME TypeOK, Earned, Acts
    PROVE  ListsAreCreated'
<1> USE DEF TypeOK, Earned
<1>0. ListsAreCreated /\ \A t \in Tasks : creator[t] # 0 => creator'[t] # 0
  BY CreatorsStay
<1>a. /\ \A r \in Registries : tasks[r] \in Seq(Tasks) /\ payload[r] \in Seq(Lines)
      /\ disk \in Seq(Lines) /\ \A s \in Shells : command[s].rest \in Seq(Tasks)
      /\ \A seq : seq \in Seq(Tasks) => \A i \in DOMAIN seq : seq[i] \in Tasks
      /\ \A seq : seq \in Seq(Lines) => \A i \in DOMAIN seq : seq[i] \in Lines /\ seq[i].task \in Tasks
  <2>1. ASSUME NEW seq, seq \in Seq(Tasks), NEW i \in DOMAIN seq PROVE seq[i] \in Tasks
    BY <2>1, ElementOfSeq
  <2>2. ASSUME NEW seq, seq \in Seq(Lines), NEW i \in DOMAIN seq PROVE seq[i] \in Lines /\ seq[i].task \in Tasks
    <3>1. seq[i] \in Lines
      BY <2>2, ElementOfSeq
    <3> QED
      BY <3>1 DEF Lines
  <2> QED
    BY <2>1, <2>2 DEF ShellsOK, RecordsOK, StoreOK
<1> DEFINE TasksCreated == \A r \in Registries : \A i \in DOMAIN tasks[r] : creator[tasks[r][i]] # 0
           PayloadCreated == \A r \in Registries : \A i \in DOMAIN payload[r] : creator[payload[r][i].task] # 0
           DiskCreated == \A i \in DOMAIN disk : creator[disk[i].task] # 0
           RestCreated == \A s \in Shells : \A i \in DOMAIN command[s].rest : creator[command[s].rest[i]] # 0
<1>b. ListsAreCreated' <=> (TasksCreated' /\ PayloadCreated' /\ DiskCreated' /\ RestCreated')
  BY DEF ListsAreCreated
<1>c. TasksCreated /\ PayloadCreated /\ DiskCreated /\ RestCreated
  BY <1>0 DEF ListsAreCreated
<1>d. UNCHANGED tasks => TasksCreated'
  BY <1>0, <1>a, <1>c
<1>e. UNCHANGED payload => PayloadCreated'
  BY <1>0, <1>a, <1>c
<1>f. UNCHANGED disk => DiskCreated'
  BY <1>0, <1>a, <1>c
<1>g. (\A s \in Shells : command'[s].rest = command[s].rest \/ command'[s].rest = <<>>) => RestCreated'
  BY <1>0, <1>a, <1>c
<1>1. ASSUME NEW h \in Threads, Save(h) PROVE ListsAreCreated'
  <2>1. PICK r \in Registries :
              /\ UNCHANGED <<shells, records, processes, command>>
              /\ \A q \in Registries : q # r => payload'[q] = payload[q]
              /\ payload'[r] = View(r) \/ payload'[r] = <<>>
              /\ disk' = disk \/ disk' = payload[r]
    BY <1>1, SaveEffect
  <2>2. DOMAIN View(r) = DOMAIN tasks[r] /\ \A i \in DOMAIN tasks[r] : View(r)[i].task = tasks[r][i]
    BY ViewIsTyped
  <2>3. UNCHANGED <<tasks, creator, command>>
    BY <2>1 DEF records
  <2>4. PayloadCreated'
    <3>1. ASSUME NEW q \in Registries, NEW i \in DOMAIN payload'[q], q # r
          PROVE  creator'[payload'[q][i].task] # 0
      BY <1>0, <1>a, <1>c, <2>1, <3>1
    <3>2. ASSUME NEW i \in DOMAIN payload'[r] PROVE creator'[payload'[r][i].task] # 0
      BY <1>0, <1>a, <1>c, <2>1, <2>2, <3>2
    <3> QED
      BY <3>1, <3>2
  <2>5. DiskCreated'
    BY <1>0, <1>a, <1>c, <1>f, <2>1
  <2> HIDE DEF TasksCreated, PayloadCreated, DiskCreated
  <2> QED
    BY <1>b, <1>d, <1>g, <2>3, <2>4, <2>5
<1>2. ASSUME NEW s \in Shells, Open(s) PROVE ListsAreCreated'
  <2> DEFINE loaded == MostRecent(disk)
             rest == [i \in DOMAIN loaded |-> loaded[i].task]
  <2>1. command' = [command EXCEPT ![s] = [at |-> "loading", task |-> 0, rest |-> rest]]
    BY <1>2 DEF Open
  <2>2. \A i \in DOMAIN loaded : \E j \in DOMAIN disk : loaded[i] = disk[j]
    BY LoadedIsTyped
  <2> HIDE DEF loaded
  <2>3. \A i \in DOMAIN rest : creator'[rest[i]] # 0
    BY <1>0, <1>a, <1>c, <2>2
  <2>4. command'[s].rest = rest /\ \A u \in Shells : u # s => command'[u] = command[u]
    BY <2>1 DEF ShellsOK
  <2> HIDE DEF rest
  <2>5. RestCreated'
    BY <1>0, <1>a, <1>c, <2>3, <2>4
  <2>6. UNCHANGED <<tasks, payload, disk>>
    BY <1>2 DEF Open, store
  <2> HIDE DEF TasksCreated, PayloadCreated, DiskCreated, RestCreated
  <2> QED
    BY <1>b, <1>d, <1>e, <1>f, <2>5, <2>6
<1>3. ASSUME NEW s \in Shells, Load(s) PROVE ListsAreCreated'
  <2> DEFINE rest == command[s].rest
  <2>1. UNCHANGED <<creator, payload, disk>>
    BY <1>3 DEF Load, store
  <2>2. CASE UNCHANGED <<tasks, command>>
    BY <1>b, <1>d, <1>e, <1>f, <1>g, <2>1, <2>2
  <2>3. CASE /\ rest # <<>> /\ tasks' = [tasks EXCEPT ![registry[s]] = Append(@, Head(rest))]
             /\ command' = [command EXCEPT ![s].rest = Tail(rest)]
    <3>1. /\ Head(rest) \in Tasks /\ creator[Head(rest)] # 0
          /\ \A i \in DOMAIN Tail(rest) : \E j \in DOMAIN rest : Tail(rest)[i] = rest[j]
      BY <1>a, <1>c, <2>3, RestIsPart
    <3>2. registry[s] \in Registries
      BY <1>3, ShellHolds DEF Load
    <3>3. \A i \in DOMAIN Append(tasks[registry[s]], Head(rest)) :
             \/ Append(tasks[registry[s]], Head(rest))[i] = Head(rest)
             \/ \E j \in DOMAIN tasks[registry[s]] : Append(tasks[registry[s]], Head(rest))[i] = tasks[registry[s]][j]
      BY <1>a, <3>1, <3>2, LongerIsPart
    <3>4. /\ tasks'[registry[s]] = Append(tasks[registry[s]], Head(rest))
          /\ \A q \in Registries : q # registry[s] => tasks'[q] = tasks[q]
      BY <2>3, <3>2 DEF RecordsOK
    <3>5. command'[s].rest = Tail(rest) /\ \A u \in Shells : u # s => command'[u] = command[u]
      BY <2>3 DEF ShellsOK
    <3> HIDE DEF rest
    <3>6. TasksCreated'
      <4>1. ASSUME NEW q \in Registries, NEW i \in DOMAIN tasks'[q], q # registry[s]
            PROVE  creator'[tasks'[q][i]] # 0
        BY <1>c, <2>1, <3>4, <4>1
      <4>2. ASSUME NEW i \in DOMAIN tasks'[registry[s]] PROVE creator'[tasks'[registry[s]][i]] # 0
        BY <1>c, <2>1, <3>1, <3>2, <3>3, <3>4, <4>2
      <4> QED
        BY <4>1, <4>2
    <3>7. RestCreated'
      <4>1. ASSUME NEW i \in DOMAIN Tail(rest) PROVE creator'[Tail(rest)[i]] # 0
        BY <1>c, <2>1, <3>1, <4>1 DEF rest
      <4>2. ASSUME NEW u \in Shells, u # s, NEW i \in DOMAIN command'[u].rest
            PROVE  creator'[command'[u].rest[i]] # 0
        BY <1>c, <2>1, <3>5, <4>2
      <4> QED
        BY <3>5, <4>1, <4>2
    <3> HIDE DEF TasksCreated, RestCreated
    <3> QED
      BY <1>b, <1>e, <1>f, <2>1, <3>6, <3>7
  <2>4. CASE UNCHANGED tasks /\ command' = [command EXCEPT ![s] = Idle]
    <3>1. \A u \in Shells : command'[u].rest = command[u].rest \/ command'[u].rest = <<>>
      BY <2>4 DEF ShellsOK, Idle
    <3> QED
      BY <1>b, <1>d, <1>e, <1>f, <1>g, <2>1, <2>4, <3>1
  <2> QED
    BY <1>3, <2>2, <2>3, <2>4 DEF Load
<1>4. ASSUME NEW s \in Shells, Close(s) PROVE ListsAreCreated'
  <2>1. /\ \A r \in Registries : tasks'[r] = <<>> \/ tasks'[r] = tasks[r]
        /\ \A r \in Registries : payload'[r] = <<>> \/ payload'[r] = payload[r]
        /\ command' = [command EXCEPT ![s] = Idle] /\ UNCHANGED <<creator, disk>>
    BY <1>4, CloseEffect DEF SameRecords
  <2>2. \A u \in Shells : command'[u].rest = command[u].rest \/ command'[u].rest = <<>>
    BY <2>1 DEF ShellsOK, Idle
  <2>3. TasksCreated' /\ PayloadCreated'
    BY <1>c, <2>1
  <2> HIDE DEF TasksCreated, PayloadCreated
  <2> QED
    BY <1>b, <1>f, <1>g, <2>1, <2>2, <2>3
<1>5. ASSUME NEW s \in Shells, Create(s) PROVE ListsAreCreated'
  <2>1. PICK t \in Tasks :
              /\ creator'[t] = registry[s] /\ registry[s] \in Registries
              /\ tasks' = [tasks EXCEPT ![registry[s]] = MostRecent(Append(@, t))]
              /\ command' = [command EXCEPT ![s] = Doing("created", t)]
              /\ UNCHANGED <<payload, disk>>
    BY <1>5, CreateEffect DEF store
  <2> DEFINE old == tasks[registry[s]]
             new == MostRecent(Append(old, t))
  <2>2. old \in Seq(Tasks) /\ creator'[t] # 0
    BY <1>a, <2>1, Names
  <2>3. Append(old, t) \in Seq(Tasks) /\ \A i \in DOMAIN Append(old, t) :
            Append(old, t)[i] = t \/ \E j \in DOMAIN old : Append(old, t)[i] = old[j]
    BY <2>2, LongerIsPart
  <2>4. \A i \in DOMAIN new : \E j \in DOMAIN Append(old, t) : new[i] = Append(old, t)[j]
    BY <2>3, MostRecentIsPart
  <2>5. tasks'[registry[s]] = new /\ \A q \in Registries : q # registry[s] => tasks'[q] = tasks[q]
    BY <2>1 DEF RecordsOK
  <2> HIDE DEF new
  <2>6. \A j \in DOMAIN old : creator'[old[j]] # 0
    BY <1>0, <1>a, <1>c, <2>1
  <2> HIDE DEF old
  <2>7. \A i \in DOMAIN new : creator'[new[i]] # 0
    BY <2>2, <2>3, <2>4, <2>6
  <2>8. TasksCreated'
    <3>1. ASSUME NEW q \in Registries, NEW i \in DOMAIN tasks'[q], q # registry[s]
          PROVE  creator'[tasks'[q][i]] # 0
      BY <1>0, <1>a, <1>c, <2>5, <3>1
    <3> QED
      BY <2>5, <2>7, <3>1
  <2>9. \A u \in Shells : command'[u].rest = command[u].rest \/ command'[u].rest = <<>>
    BY <2>1 DEF ShellsOK, Doing
  <2> HIDE DEF TasksCreated
  <2> QED
    BY <1>b, <1>e, <1>f, <1>g, <2>1, <2>8, <2>9
<1>6. ASSUME NEW s \in Shells, MarkRunning(s) \/ Spawn(s) \/ Watched(s) \/ Cancel(s) \/ Cancelled(s)
      PROVE  ListsAreCreated'
  <2>1. UNCHANGED <<tasks, payload, disk>>
    BY <1>6 DEF MarkRunning, Spawn, Watched, Cancel, Cancelled, records, store
  <2>2. \A u \in Shells : command'[u].rest = command[u].rest \/ command'[u].rest = <<>>
    <3> USE DEF ShellsOK, Doing, Idle
    <3>1. CASE MarkRunning(s)
      BY <3>1 DEF MarkRunning
    <3>2. CASE Spawn(s)
      <4>1. \/ command' = [command EXCEPT ![s] = Doing("spawned", command[s].task)]
            \/ command' = [command EXCEPT ![s] = Idle]
        BY <3>2 DEF Spawn
      <4>2. CASE command' = [command EXCEPT ![s] = Doing("spawned", command[s].task)]
        BY <4>2
      <4>3. CASE command' = [command EXCEPT ![s] = Idle]
        BY <4>3
      <4> QED
        BY <4>1, <4>2, <4>3
    <3>3. CASE Watched(s)
      BY <3>3 DEF Watched
    <3>4. CASE Cancel(s)
      BY <3>4 DEF Cancel
    <3>5. CASE Cancelled(s)
      BY <3>5 DEF Cancelled
    <3> QED
      BY <1>6, <3>1, <3>2, <3>3, <3>4, <3>5
  <2> QED
    BY <1>b, <1>d, <1>e, <1>f, <1>g, <2>1, <2>2
<1>7. ASSUME NEW s \in Shells, Reset(s) \/ Refresh(s) PROVE UNCHANGED <<tasks, payload, disk, command>>
  BY <1>7 DEF Reset, Refresh, records, store
<1>8. ASSUME NEW t \in Tasks, \/ Poll(t) \/ Expire(t) \/ Expired(t) \/ CheckCancel(t)
                              \/ Terminate(t) \/ Drain(t) \/ Conclude(t) \/ ChildExits(t) \/ DescendantExits(t)
      PROVE  UNCHANGED <<tasks, payload, disk, command>>
  BY <1>8 DEF Poll, Expire, Expired, CheckCancel, Terminate, Drain, Conclude, ChildExits,
              DescendantExits, records, store
<1>9. UNCHANGED <<tasks, payload, disk, command>> => ListsAreCreated'
  BY <1>b, <1>d, <1>e, <1>f, <1>g
<1> QED
  BY <1>1, <1>2, <1>3, <1>4, <1>5, <1>6, <1>7, <1>8, <1>9 DEF Acts
-----------------------------------------------------------------------------
(* Verdicts. *)

\* How a process, its watcher and its cancellation change.
LEMMA ChildSteps ==
    ASSUME TypeOK, Earned, Acts, NEW t \in Tasks
    PROVE  \/ child'[t] = child[t]
           \/ \E s \in Shells : /\ Spawn(s) /\ command[s].at = "running" /\ t = command[s].task
                                /\ child'[t] = "alive" /\ command'[s].at = "spawned" /\ UNCHANGED status
           \/ ChildExits(t) /\ child[t] = "alive" /\ child'[t] \in {"ok", "failed"}
<1> USE DEF TypeOK, Earned
<1>1. ASSUME NEW s \in Shells, Spawn(s)
      PROVE  \/ child'[t] = child[t]
             \/ /\ command[s].at = "running" /\ t = command[s].task
                /\ child'[t] = "alive" /\ command'[s].at = "spawned" /\ UNCHANGED status
  <2>1. \/ UNCHANGED child
        \/ /\ child' = [child EXCEPT ![command[s].task] = "alive"] /\ UNCHANGED status
           /\ command' = [command EXCEPT ![s] = Doing("spawned", command[s].task)]
    BY <1>1 DEF Spawn
  <2>2. command[s].at = "running"
    BY <1>1 DEF Spawn
  <2> QED
    BY <2>1, <2>2 DEF ProcessesOK, ShellsOK, Doing
<1>2. ASSUME NEW u \in Tasks, ChildExits(u)
      PROVE  child'[t] = child[t] \/ (u = t /\ child[t] = "alive" /\ child'[t] \in {"ok", "failed"})
  BY <1>2 DEF ChildExits, DescendantExits, Alive, ProcessesOK
<1>3. (\A s \in Shells : ~Spawn(s)) /\ (\A u \in Tasks : ~ChildExits(u)) => UNCHANGED child
  BY DEF Acts, Save, Open, Load, Reset, Close, Create, MarkRunning, Watched, Refresh, Cancel, Cancelled,
         Poll, Expire, Expired, CheckCancel, Terminate, Drain, Conclude, DescendantExits, processes
<1> QED
  BY <1>1, <1>2, <1>3

LEMMA CancelSteps ==
    ASSUME TypeOK, Earned, Acts, NEW t \in Tasks, cancel[t]
    PROVE  \/ cancel'[t]
           \/ \E s \in Shells : Close(s) /\ creator[t] \in Registries /\ home[creator[t]] = s
<1> USE DEF TypeOK, Earned
<1>1. ASSUME NEW s \in Shells, Close(s)
      PROVE  cancel'[t] \/ (creator[t] \in Registries /\ home[creator[t]] = s)
  BY <1>1, CloseEffect
<1>2. ASSUME NEW s \in Shells, Cancel(s) PROVE cancel'[t]
  <2>1. PICK u \in Held(s) : cancel' = [cancel EXCEPT ![u] = @ \/ creator[u] = registry[s]]
    BY <1>2 DEF Cancel
  <2> QED
    BY <2>1, Zenon DEF RecordsOK
<1>3. ASSUME NEW u \in Tasks, Expire(u) PROVE cancel'[t]
  BY <1>3 DEF Expire, RecordsOK
<1>4. \/ \E s \in Shells : Close(s) \/ Cancel(s)
      \/ \E u \in Tasks : Expire(u)
      \/ UNCHANGED cancel
  BY DEF Acts, Save, Open, Load, Reset, Create, MarkRunning, Spawn, Watched, Refresh, Cancelled,
         Poll, Expired, CheckCancel, Terminate, Drain, Conclude, ChildExits, DescendantExits, records
<1> QED
  BY <1>1, <1>2, <1>3, <1>4

LEMMA WatcherSteps ==
    ASSUME TypeOK, Earned, Acts, NEW t \in Tasks
    PROVE  \/ watcher'[t] = watcher[t]
           \/ watcher'[t] = "none" /\ \E s \in Shells : Close(s)
           \/ /\ watcher'[t] = "polling" /\ watcher[t] = "none" /\ UNCHANGED child
              /\ \E s \in Shells : Watched(s) /\ command[s].at = "spawned" /\ t = command[s].task
           \/ /\ watcher[t] # "none" /\ UNCHANGED child
              /\ \/ watcher'[t] \in {"polling", "polled", "done"}
                 \/ watcher'[t] = "exited" /\ ~Alive(t)
                 \/ /\ watcher'[t] = "terminated" /\ watcher[t] \in {"terminating", "draining"}
                    /\ (Alive(t) => t \in unreaped') /\ UNCHANGED cancel
                 \/ watcher'[t] = "draining" /\ watcher[t] = "terminating" /\ UNCHANGED cancel
                 \/ watcher'[t] = "expired" /\ cancel'[t]
                 \/ watcher'[t] = "terminating" /\ watcher[t] = "expired" /\ UNCHANGED cancel
                 \/ watcher'[t] = "terminating" /\ cancel[t] /\ UNCHANGED cancel
<1> USE DEF TypeOK, Earned
<1>1. ASSUME NEW s \in Shells, Close(s) PROVE watcher'[t] = watcher[t] \/ watcher'[t] = "none"
  BY <1>1, CloseEffect
<1>2. ASSUME NEW s \in Shells, Watched(s)
      PROVE  \/ watcher'[t] = watcher[t]
             \/ /\ watcher'[t] = "polling" /\ watcher[t] = "none" /\ UNCHANGED child
                /\ command[s].at = "spawned" /\ t = command[s].task
  <2>1. /\ command[s].at = "spawned" /\ UNCHANGED child
        /\ watcher' = [watcher EXCEPT ![command[s].task] = "polling"]
    BY <1>2 DEF Watched
  <2>2. watcher[command[s].task] = "none"
    BY <2>1 DEF StartingOrCancelling
  <2> QED
    BY <2>1, <2>2 DEF ProcessesOK
<1>3. ASSUME NEW u \in Tasks, NEW place, Goto(u, place)
      PROVE  watcher'[t] = IF t = u THEN place ELSE watcher[t]
  BY <1>3 DEF Goto, ProcessesOK
<1>4. ASSUME NEW u \in Tasks, Poll(u)
      PROVE  \/ watcher'[t] = watcher[t]
             \/ /\ watcher[t] # "none" /\ UNCHANGED child
                /\ (watcher'[t] = "exited" /\ ~Alive(t)) \/ watcher'[t] = "polled"
  BY <1>3, <1>4 DEF Poll, At, Eof
<1>5. ASSUME NEW u \in Tasks, Expire(u)
      PROVE  \/ watcher'[t] = watcher[t]
             \/ watcher[t] # "none" /\ UNCHANGED child /\ watcher'[t] = "expired" /\ cancel'[t]
  <2>1. cancel'[u]
    BY <1>5 DEF Expire, RecordsOK
  <2> QED
    BY <1>3, <1>5, <2>1 DEF Expire, At
<1>6. ASSUME NEW u \in Tasks, Expired(u)
      PROVE  \/ watcher'[t] = watcher[t]
             \/ /\ watcher[t] = "expired" /\ UNCHANGED child
                /\ watcher'[t] = "terminating" /\ UNCHANGED cancel
  BY <1>3, <1>6 DEF Expired, At
<1>7. ASSUME NEW u \in Tasks, CheckCancel(u)
      PROVE  \/ watcher'[t] = watcher[t]
             \/ /\ watcher[t] # "none" /\ UNCHANGED child
                /\ watcher'[t] = "polling" \/ (watcher'[t] = "terminating" /\ cancel[t] /\ UNCHANGED cancel)
  BY <1>3, <1>7 DEF CheckCancel, At, records
<1>8. ASSUME NEW u \in Tasks, Terminate(u)
      PROVE  \/ watcher'[t] = watcher[t]
             \/ /\ watcher[t] = "terminating" /\ UNCHANGED <<child, cancel>>
                /\ \/ watcher'[t] = "terminated" /\ (Alive(t) => t \in unreaped')
                   \/ watcher'[t] = "draining"
  <2>1. /\ watcher[u] = "terminating" /\ UNCHANGED <<child, cancel>>
        /\ \/ UNCHANGED watcher
           \/ /\ Goto(u, IF kind[u] = "code" THEN "draining" ELSE "terminated")
              /\ unreaped' = IF Alive(u) /\ kind[u] # "code" THEN unreaped \cup {u} ELSE unreaped
    BY <1>8 DEF Terminate, At, records
  <2> QED
    BY <1>3, <2>1
<1>11. ASSUME NEW u \in Tasks, Drain(u)
       PROVE  \/ watcher'[t] = watcher[t]
              \/ /\ watcher[t] = "draining" /\ UNCHANGED <<child, cancel>>
                 /\ watcher'[t] = "terminated" /\ ~Alive(t)
  BY <1>3, <1>11 DEF Drain, Eof, At, records
<1>9. ASSUME NEW u \in Tasks, Conclude(u)
      PROVE  \/ watcher'[t] = watcher[t]
             \/ watcher[t] # "none" /\ UNCHANGED child /\ watcher'[t] = "done"
  BY <1>3, <1>9 DEF Conclude, At
<1>10. \/ \E s \in Shells : Close(s) \/ Watched(s)
       \/ \E u \in Tasks : Poll(u) \/ Expire(u) \/ Expired(u) \/ CheckCancel(u) \/ Terminate(u)
                           \/ Drain(u) \/ Conclude(u)
       \/ UNCHANGED watcher
  BY DEF Acts, Save, Open, Load, Reset, Create, MarkRunning, Spawn, Refresh, Cancel, Cancelled,
         ChildExits, DescendantExits, processes
<1> QED
  BY <1>1, <1>2, <1>4, <1>5, <1>6, <1>7, <1>8, <1>9, <1>10, <1>11

\* A timeout, and a process that could not be ended, are remembered until the
\* shell is closed.
LEMMA TimeoutSteps ==
    ASSUME TypeOK, Earned, Acts, NEW t \in Tasks
    PROVE  /\ \/ (t \in timed_out => t \in timed_out') /\ (t \in unreaped => t \in unreaped')
              \/ \E s \in Shells : Close(s) /\ creator[t] \in Registries /\ home[creator[t]] = s
           /\ t \in timed_out' => t \in timed_out \/ cancel'[t]
<1> USE DEF TypeOK, Earned
<1>1. ASSUME NEW s \in Shells, Close(s)
      PROVE  /\ timed_out' \subseteq timed_out
             /\ \/ (t \in timed_out => t \in timed_out') /\ (t \in unreaped => t \in unreaped')
                \/ creator[t] \in Registries /\ home[creator[t]] = s
  BY <1>1 DEF Close
<1>2. ASSUME NEW u \in Tasks, Expire(u)
      PROVE  /\ t \in timed_out => t \in timed_out'
             /\ UNCHANGED unreaped
             /\ t \in timed_out' => t \in timed_out \/ cancel'[t]
  BY <1>2 DEF Expire, pipes, RecordsOK
<1>3. ASSUME NEW u \in Tasks, Terminate(u) PROVE UNCHANGED timed_out /\ (t \in unreaped => t \in unreaped')
  BY <1>3 DEF Terminate
<1>4. \/ \E s \in Shells : Close(s)
      \/ \E u \in Tasks : Expire(u) \/ Terminate(u)
      \/ UNCHANGED <<timed_out, unreaped>>
  BY DEF Acts, Save, Open, Load, Reset, Create, MarkRunning, Spawn, Watched, Refresh, Cancel, Cancelled,
         Poll, Expired, CheckCancel, Drain, Conclude, ChildExits, DescendantExits, processes, pipes
<1> QED
  BY <1>1, <1>2, <1>3, <1>4

LEMMA WatchersKnow ==
    ASSUME TypeOK, Earned, Acts
    PROVE  Watching'
<1> SUFFICES ASSUME NEW t \in Tasks
             PROVE  /\ watcher'[t] # "none" => child'[t] # "none"
                    /\ watcher'[t] \in {"exited", "terminated"} => child'[t] # "alive" \/ t \in unreaped'
                    /\ watcher'[t] = "exited" => child'[t] # "alive"
                    /\ watcher'[t] \in {"expired", "terminating", "draining", "terminated"} \/ t \in timed_out'
                          => cancel'[t]
  BY DEF Watching
<1> USE DEF TypeOK, Earned
<1>0. /\ watcher[t] # "none" => child[t] # "none"
      /\ watcher[t] \in {"exited", "terminated"} => child[t] # "alive" \/ t \in unreaped
      /\ watcher[t] = "exited" => child[t] # "alive"
      /\ watcher[t] \in {"expired", "terminating", "draining", "terminated"} \/ t \in timed_out => cancel[t]
  BY DEF Watching
<1>3. ASSUME NEW s \in Shells, Close(s), creator[t] \in Registries, home[creator[t]] = s
      PROVE  watcher'[t] = "none" /\ t \notin timed_out'
  BY <1>3, CloseEffect DEF Close
<1>4. t \in timed_out' => cancel'[t]
  BY <1>0, <1>3, CancelSteps, TimeoutSteps
<1>1. CASE watcher'[t] = watcher[t]
  <2>1. watcher[t] # "none" => watcher[t] # "none" /\ child[t] # "none"
    BY <1>0
  <2>2. ASSUME NEW s \in Shells, command[s].at = "running", t = command[s].task PROVE watcher[t] = "none"
    BY <2>2 DEF StartingOrCancelling
  <2>3. watcher[t] # "none" => child'[t] # "none" /\ (child[t] # "alive" => child'[t] # "alive")
    BY <1>0, <2>2, ChildSteps
  <2>4. watcher'[t] # "none" => (t \in unreaped => t \in unreaped')
    BY <1>3, TimeoutSteps
  <2>5. watcher'[t] \in {"expired", "terminating", "draining", "terminated"} => cancel'[t]
    BY <1>0, <1>1, <1>3, CancelSteps
  <2> QED
    BY <1>0, <1>1, <1>4, <2>3, <2>4, <2>5
<1>2. ASSUME NEW s \in Shells, UNCHANGED child, command[s].at = "spawned", t = command[s].task,
             watcher'[t] = "polling"
      PROVE  child'[t] # "none"
  BY <1>2 DEF StartingOrCancelling
<1> QED
  BY <1>0, <1>1, <1>2, <1>4, WatcherSteps DEF Alive

LEMMA UncreatedStaysBlank ==
    ASSUME TypeOK, Earned, Acts
    PROVE  NothingBeforeCreation'
<1> SUFFICES ASSUME NEW t \in Tasks, creator'[t] = 0
             PROVE  /\ child'[t] = "none" /\ watcher'[t] = "none"
                    /\ \A r \in Registries : status'[r][t] = "pending"
  BY DEF NothingBeforeCreation
<1> USE DEF TypeOK, Earned
<1>1. creator[t] = 0
  BY CreatorsStay
<1>2. /\ child[t] = "none" /\ watcher[t] = "none"
      /\ \A r \in Registries : status[r][t] = "pending"
  BY <1>1 DEF NothingBeforeCreation
<1>3. ASSUME NEW s \in Shells, command[s].at \in {"created", "running", "spawned", "cancelling"}
      PROVE  command[s].task # t
  <2>1. registry[s] # 0
    BY <1>3, ShellHolds
  <2> QED
    BY <1>1, <1>3, <2>1 DEF StartingOrCancelling
<1>4. child'[t] = "none"
  BY <1>2, <1>3, ChildSteps
<1>5. watcher'[t] = "none"
  BY <1>2, <1>3, WatcherSteps
<1>6. ASSUME NEW r \in Registries, status'[r][t] # "pending" PROVE FALSE
  <2>1. StatusChange(r, t)
    BY <1>2, <1>6, StatusSteps
  <2>2. ~Stale(r, t)
    BY <1>2 DEF Stale
  <2>3. ASSUME NEW i \in DOMAIN disk, disk[i].task = t PROVE FALSE
    BY <1>1, <2>3 DEF ListsAreCreated
  <2>4. ASSUME NEW s \in Shells, MarkRunning(s) \/ Spawn(s) \/ Cancelled(s) PROVE command[s].task # t
    BY <1>3, <2>4 DEF MarkRunning, Spawn, Cancelled
  <2>5. ~Expired(t) /\ ~Conclude(t)
    BY <1>2 DEF Expired, Conclude, At
  <2> QED
    BY <1>6, <2>1, <2>2, <2>3, <2>4, <2>5 DEF StatusChange
<1> QED
  BY <1>4, <1>5, <1>6

\* Two shells never hold the same registry.
LEMMA RegistriesAreApart ==
    ASSUME ShellsOK, Ownership, NEW s \in Shells, NEW u \in Shells, registry[s] # 0, registry[s] = registry[u]
    PROVE  s = u
BY ShellHolds

\* How the command of a shell changes.
LEMMA CommandSteps ==
    ASSUME TypeOK, Earned, Acts, NEW s \in Shells
    PROVE  \/ command'[s] = command[s]
           \/ command'[s].at \in {"idle", "loading"}
           \/ /\ Create(s) /\ UNCHANGED <<registry, status, child, watcher>>
              /\ \E t \in Tasks : /\ command'[s] = Doing("created", t)
                                  /\ creator[t] = 0 /\ creator'[t] = registry[s]
           \/ /\ MarkRunning(s) /\ command[s].at = "created"
              /\ command'[s] = Doing("running", command[s].task)
              /\ UNCHANGED <<registry, creator, child, watcher>>
              /\ Mark(s, registry[s], command[s].task, "running")
           \/ /\ Spawn(s) /\ command[s].at = "running"
              /\ command'[s] = Doing("spawned", command[s].task) /\ child'[command[s].task] = "alive"
              /\ UNCHANGED <<registry, creator, watcher>>
           \/ /\ Cancel(s) /\ UNCHANGED <<registry, creator>>
              /\ \E t \in Tasks : /\ command'[s] = Doing("cancelling", t) /\ creator[t] # 0
                                  /\ creator[t] = registry[s] => cancel'[t]
<1> USE DEF TypeOK, Earned
<1>1. ASSUME NEW u \in Shells, Open(u) PROVE command'[s] = command[s] \/ command'[s].at = "loading"
  BY <1>1 DEF Open, ShellsOK
<1>2. ASSUME NEW u \in Shells, Load(u) PROVE command'[s] = command[s] \/ command'[s].at \in {"idle", "loading"}
  <2>1. command[u].at = "loading"
    BY <1>2 DEF Load
  <2>2. CASE UNCHANGED command
    BY <2>2
  <2>3. CASE command' = [command EXCEPT ![u] = Idle]
    BY <2>3 DEF ShellsOK, Idle
  <2>4. CASE command' = [command EXCEPT ![u].rest = Tail(command[u].rest)]
    <3>1. command'[u].at = command[u].at
      BY <2>4 DEF ShellsOK
    <3>2. s # u => command'[s] = command[s]
      BY <2>4 DEF ShellsOK
    <3> QED
      BY <2>1, <3>1, <3>2
  <2> QED
    BY <1>2, <2>2, <2>3, <2>4 DEF Load
<1>3. ASSUME NEW u \in Shells, Close(u) \/ Watched(u) \/ Cancelled(u)
      PROVE  command'[s] = command[s] \/ command'[s].at = "idle"
  BY <1>3 DEF Close, Watched, Cancelled, ShellsOK, Idle
<1>4. ASSUME NEW u \in Shells, Create(u)
      PROVE  \/ command'[s] = command[s]
             \/ /\ u = s /\ UNCHANGED <<registry, status, child, watcher>>
                /\ \E t \in Tasks : /\ command'[s] = Doing("created", t)
                                    /\ creator[t] = 0 /\ creator'[t] = registry[s]
  <2>1. PICK t \in Tasks :
              /\ creator[t] = 0 /\ creator'[t] = registry[u]
              /\ command' = [command EXCEPT ![u] = Doing("created", t)]
              /\ UNCHANGED <<registry, status, child, watcher>>
    BY <1>4, CreateEffect DEF shells, processes
  <2> QED
    BY <2>1 DEF ShellsOK
<1>5. ASSUME NEW u \in Shells, MarkRunning(u)
      PROVE  \/ command'[s] = command[s]
             \/ /\ u = s /\ command[s].at = "created"
                /\ command'[s] = Doing("running", command[s].task)
                /\ UNCHANGED <<registry, creator, child, watcher>>
                /\ Mark(s, registry[s], command[s].task, "running")
  <2>1. /\ command[u].at = "created" /\ Mark(u, registry[u], command[u].task, "running")
        /\ command' = [command EXCEPT ![u] = Doing("running", command[u].task)]
        /\ UNCHANGED <<registry, creator, child, watcher>>
    BY <1>5 DEF MarkRunning, shells, processes
  <2> QED
    BY <2>1 DEF ShellsOK
<1>6. ASSUME NEW u \in Shells, Spawn(u)
      PROVE  \/ command'[s] = command[s] \/ command'[s].at = "idle"
             \/ /\ u = s /\ command[s].at = "running"
                /\ command'[s] = Doing("spawned", command[s].task) /\ child'[command[s].task] = "alive"
                /\ UNCHANGED <<registry, creator, watcher>>
  <2>1. command[u].at = "running" /\ UNCHANGED <<registry, creator, watcher>>
    BY <1>6 DEF Spawn, shells
  <2>2. command[u].task \in Tasks
    BY <2>1, CommandHolds
  <2>3. CASE /\ command' = [command EXCEPT ![u] = Doing("spawned", command[u].task)]
             /\ child' = [child EXCEPT ![command[u].task] = "alive"]
    BY <2>1, <2>2, <2>3 DEF ShellsOK, ProcessesOK
  <2>4. CASE command' = [command EXCEPT ![u] = Idle]
    BY <2>4 DEF ShellsOK, Idle
  <2> QED
    BY <1>6, <2>3, <2>4 DEF Spawn
<1>7. ASSUME NEW u \in Shells, Cancel(u)
      PROVE  \/ command'[s] = command[s]
             \/ /\ u = s /\ UNCHANGED <<registry, creator>>
                /\ \E t \in Tasks : /\ command'[s] = Doing("cancelling", t) /\ creator[t] # 0
                                    /\ creator[t] = registry[s] => cancel'[t]
  <2>1. PICK t \in Held(u) :
              /\ status[registry[u]][t] = "running"
              /\ cancel' = [cancel EXCEPT ![t] = @ \/ creator[t] = registry[u]]
              /\ command' = [command EXCEPT ![u] = Doing("cancelling", t)]
    BY <1>7 DEF Cancel
  <2>2. registry[u] \in Registries /\ UNCHANGED <<registry, creator>>
    BY <1>7, ShellHolds DEF Cancel, Free, shells
  <2>3. t \in Tasks
    BY <2>1, <2>2, ElementOfSeq DEF Held, RecordsOK
  <2>4. creator[t] # 0
    BY <2>1, <2>2, <2>3 DEF NothingBeforeCreation
  <2>5. creator[t] = registry[u] => cancel'[t]
    BY <2>1, <2>3, Zenon DEF RecordsOK
  <2>6. s # u => command'[s] = command[s]
    BY <2>1 DEF ShellsOK
  <2>7. command'[u] = Doing("cancelling", t)
    BY <2>1 DEF ShellsOK
  <2> QED
    BY <2>2, <2>3, <2>4, <2>5, <2>6, <2>7
<1>8. \/ \E u \in Shells : \/ Open(u) \/ Load(u) \/ Close(u) \/ Watched(u) \/ Cancelled(u)
                           \/ Create(u) \/ MarkRunning(u) \/ Spawn(u) \/ Cancel(u)
      \/ UNCHANGED command
  BY DEF Acts, Save, Reset, Refresh, Poll, Expire, Expired, CheckCancel, Terminate, Drain, Conclude,
         ChildExits, DescendantExits
<1>9. UNCHANGED command => command'[s] = command[s]
  OBVIOUS
<1> QED
  BY <1>1, <1>2, <1>3, <1>4, <1>5, <1>6, <1>7, <1>8, <1>9

\* A busy shell keeps its registry, unless it is closed.
LEMMA BusyShellsStay ==
    ASSUME TypeOK, Earned, Acts, NEW s \in Shells, command[s].at # "idle", command'[s].at # "idle"
    PROVE  registry'[s] = registry[s] /\ ~Close(s)
<1> USE DEF TypeOK, Earned
<1>1. ~Close(s)
  BY DEF Close, ShellsOK, Idle
<1>2. registry[s] # 0
  BY ShellHolds
<1>3. ASSUME NEW u \in Shells, Open(u) \/ Reset(u) PROVE registry'[s] = registry[s]
  <2>1. u # s
    BY <1>2, <1>3 DEF Open, Reset, Free
  <2> QED
    BY <1>3, <2>1, OpenedStore, NewRegistryEffect
<1>4. ASSUME NEW u \in Shells, Close(u) PROVE registry'[s] = registry[s]
  BY <1>1, <1>4, CloseEffect DEF ShellsOK
<1>5. (\E u \in Shells : Open(u) \/ Reset(u) \/ Close(u)) \/ UNCHANGED registry
  BY DEF Acts, Save, Load, Create, MarkRunning, Spawn, Watched, Refresh, Cancel, Cancelled, shells,
         Poll, Expire, Expired, CheckCancel, Terminate, Drain, Conclude, ChildExits, DescendantExits
<1> QED
  BY <1>1, <1>3, <1>4, <1>5

\* A command that does not move on keeps what it knows.
LEMMA KeepsKnowing ==
    ASSUME TypeOK, Earned, Acts, NEW s \in Shells, command'[s] = command[s],
           NEW t \in Tasks, t = command[s].task,
           command[s].at \in {"created", "running", "spawned"}
    PROVE  /\ registry'[s] = registry[s] /\ creator'[t] = registry[s] /\ watcher'[t] = "none"
           /\ command[s].at \in {"created", "running"} =>
                 child'[t] = child[t] /\ status'[registry[s]][t] = status[registry[s]][t]
           /\ command[s].at = "spawned" => child'[t] # "none"
<1> USE DEF TypeOK, Earned
<1>1. /\ registry'[s] = registry[s] /\ ~Close(s) /\ registry[s] \in Registries
      /\ registry[s] # 0 /\ home[registry[s]] = s /\ s # Nobody
  BY BusyShellsStay, ShellHolds, RegistryIds
<1>2. creator[t] = registry[s] /\ watcher[t] = "none" /\ (command[s].at = "spawned" => child[t] # "none")
  BY DEF StartingOrCancelling
<1>3. creator'[t] = registry[s]
  BY <1>1, <1>2, CreatorsStay
<1>4. ASSUME NEW u \in Shells, t = command[u].task, command[u].at \in {"created", "running", "spawned"}
      PROVE  u = s
  <2>1. registry[u] = registry[s]
    BY <1>2, <1>4 DEF StartingOrCancelling
  <2> QED
    BY <1>1, <2>1, RegistriesAreApart
<1>5. watcher'[t] = "none"
  <2>1. ~Watched(s)
    BY DEF Watched, Idle, ShellsOK
  <2> QED
    BY <1>2, <1>4, <2>1, WatcherSteps
<1>6. command[s].at \in {"created", "running"} => child'[t] = child[t]
  <2>1. child[t] # "alive" \/ command[s].at = "spawned"
    BY DEF StartingOrCancelling
  <2> QED
    BY <1>4, <2>1, ChildSteps
<1>7. command[s].at = "spawned" => child'[t] # "none"
  BY <1>2, ChildSteps
<1>8. ASSUME command[s].at \in {"created", "running"}, status'[registry[s]][t] # status[registry[s]][t]
      PROVE  FALSE
  <2> DEFINE q == registry[s]
  <2>1. StatusChange(q, t)
    BY <1>1, <1>8, StatusSteps
  <2>2. q # opened + 1
    <3>1. q <= opened /\ q \in Nat /\ opened \in Nat
      BY <1>1, RegistryIds DEF Ownership
    <3> QED
      BY <3>1
  <2>3. ~Stale(q, t) /\ ~Expired(t) /\ ~Conclude(t)
    BY <1>2 DEF Stale, Expired, Conclude, At
  <2>4. ASSUME NEW u \in Shells, q = registry[u], MarkRunning(u) \/ Spawn(u) \/ Cancelled(u) PROVE FALSE
    <3>1. u = s
      BY <1>1, <2>4, RegistriesAreApart
    <3>2. ~MarkRunning(s)
      BY DEF MarkRunning, Doing, ShellsOK
    <3>3. ~Cancelled(s)
      BY <1>8 DEF Cancelled
    <3>4. ~Spawn(s)
      <4>1. Spawn(s) => /\ command[s].at = "running"
                        /\ \/ command' = [command EXCEPT ![s] = Doing("spawned", command[s].task)]
                           \/ command' = [command EXCEPT ![s] = Idle]
        BY DEF Spawn
      <4>2. CASE command' = [command EXCEPT ![s] = Doing("spawned", command[s].task)]
        BY <4>1, <4>2 DEF Doing, ShellsOK
      <4>3. CASE command' = [command EXCEPT ![s] = Idle]
        BY <4>1, <4>3 DEF Idle, ShellsOK
      <4> QED
        BY <4>1, <4>2, <4>3
    <3> QED
      BY <2>4, <3>1, <3>2, <3>3, <3>4
  <2> HIDE DEF q
  <2>5. home[q] = s
    BY <1>1 DEF q
  <2> QED
    BY <1>1, <2>1, <2>2, <2>3, <2>4, <2>5 DEF StatusChange
<1> QED
  BY <1>1, <1>3, <1>5, <1>6, <1>7, <1>8

LEMMA CommandsKnow ==
    ASSUME TypeOK, Earned, Acts
    PROVE  StartingOrCancelling'
<1> USE DEF TypeOK, Earned
<1> DEFINE Knows(s) ==
        LET t == command[s].task
        IN  /\ command[s].at \in {"created", "running", "spawned"} =>
                  t \in Tasks /\ creator[t] = registry[s] /\ watcher[t] = "none"
            /\ command[s].at = "created" => child[t] = "none" /\ status[registry[s]][t] = "pending"
            /\ command[s].at = "running" => child[t] = "none" /\ status[registry[s]][t] = "running"
            /\ command[s].at = "spawned" => child[t] # "none"
            /\ command[s].at = "cancelling" =>
                  t \in Tasks /\ creator[t] # 0 /\ (creator[t] = registry[s] => cancel[t])
<1>0. (\A s \in Shells : Knows(s)) /\ (StartingOrCancelling' <=> \A s \in Shells : Knows(s)')
  BY DEF StartingOrCancelling
<1> SUFFICES ASSUME NEW s \in Shells PROVE Knows(s)'
  BY <1>0
<1>1. Knows(s)
  BY <1>0
<1>2. CASE command'[s] = command[s]
  <2>1. CASE command[s].at \in {"created", "running", "spawned"}
    <3>1. command[s].task \in Tasks
      BY <1>1, <2>1
    <3>2. /\ registry'[s] = registry[s] /\ creator'[command[s].task] = registry[s]
          /\ watcher'[command[s].task] = "none"
          /\ command[s].at \in {"created", "running"} =>
                /\ child'[command[s].task] = child[command[s].task]
                /\ status'[registry[s]][command[s].task] = status[registry[s]][command[s].task]
          /\ command[s].at = "spawned" => child'[command[s].task] # "none"
      <4> DEFINE u == command[s].task
      <4>1. PICK t \in Tasks : t = u
        BY <3>1
      <4> HIDE DEF u
      <4>2. /\ registry'[s] = registry[s] /\ creator'[t] = registry[s] /\ watcher'[t] = "none"
            /\ command[s].at \in {"created", "running"} =>
                  child'[t] = child[t] /\ status'[registry[s]][t] = status[registry[s]][t]
            /\ command[s].at = "spawned" => child'[t] # "none"
        BY <1>2, <2>1, <4>1, KeepsKnowing DEF u
      <4> QED
        BY <4>1, <4>2 DEF u
    <3> QED
      BY <1>1, <1>2, <2>1, <3>1, <3>2
  <2>2. CASE command[s].at = "cancelling"
    <3>1. /\ registry'[s] = registry[s] /\ ~Close(s)
          /\ registry[s] \in Registries /\ home[registry[s]] = s
      BY <1>2, <2>2, BusyShellsStay, ShellHolds
    <3> DEFINE u == command[s].task
    <3>2. u \in Tasks /\ creator[u] # 0 /\ (creator[u] = registry[s] => cancel[u])
      BY <1>1, <2>2
    <3> HIDE DEF u
    <3>3. creator'[u] = creator[u]
      BY <3>2, CreatorsStay
    <3>4. creator[u] = registry[s] => cancel'[u]
      BY <3>1, <3>2, CancelSteps
    <3> QED
      BY <1>2, <2>2, <3>1, <3>2, <3>3, <3>4 DEF u
  <2>3. CASE command[s].at \notin {"created", "running", "spawned", "cancelling"}
    BY <1>2, <2>3
  <2> QED
    BY <2>1, <2>2, <2>3
<1>3. CASE command'[s].at \in {"idle", "loading"}
  BY <1>3
<1>4. CASE Create(s) /\ UNCHANGED <<registry, status, child, watcher>>
           /\ \E t \in Tasks : /\ command'[s] = Doing("created", t)
                               /\ creator[t] = 0 /\ creator'[t] = registry[s]
  <2>1. registry[s] \in Registries
    BY <1>4, ShellHolds DEF Create, Free
  <2> QED
    BY <1>4, <2>1 DEF Doing, NothingBeforeCreation
<1>5. CASE /\ MarkRunning(s) /\ command[s].at = "created"
           /\ command'[s] = Doing("running", command[s].task)
           /\ UNCHANGED <<registry, creator, child, watcher>>
           /\ Mark(s, registry[s], command[s].task, "running")
  <2>1. registry[s] \in Registries /\ s \in Threads /\ "running" \in Statuses /\ command[s].task \in Tasks
    BY <1>1, <1>5, ShellHolds, Names DEF Statuses
  <2>2. status[registry[s]][command[s].task] \notin Final
    BY <1>1, <1>5 DEF Final
  <2>3. status'[registry[s]][command[s].task] = "running"
    BY <1>5, <2>1, <2>2, MarkEffect
  <2> QED
    BY <1>1, <1>5, <2>3 DEF Doing
<1>6. CASE /\ Spawn(s) /\ command[s].at = "running"
           /\ command'[s] = Doing("spawned", command[s].task) /\ child'[command[s].task] = "alive"
           /\ UNCHANGED <<registry, creator, watcher>>
  BY <1>1, <1>6 DEF Doing
<1>7. CASE /\ Cancel(s) /\ UNCHANGED <<registry, creator>>
           /\ \E t \in Tasks : /\ command'[s] = Doing("cancelling", t) /\ creator[t] # 0
                               /\ creator[t] = registry[s] => cancel'[t]
  BY <1>7 DEF Doing
<1> QED
  BY <1>2, <1>3, <1>4, <1>5, <1>6, <1>7, CommandSteps

LEMMA VerdictsStayEarned ==
    ASSUME TypeOK, Earned, Acts
    PROVE  VerdictIsEarned'
<1> USE DEF TypeOK, Earned
<1> SUFFICES ASSUME NEW t \in Tasks, creator'[t] # 0, NEW q, q = creator'[t]
             PROVE  /\ status'[q][t] = "completed" => child'[t] = "ok"
                    /\ status'[q][t] = "failed" => child'[t] \in {"none", "failed"}
                                                   \/ (cancel'[t] /\ t \in timed_out' \cup unreaped')
                    /\ status'[q][t] = "cancelled" => cancel'[t] /\ (child'[t] = "alive" => t \in unreaped')
  BY DEF VerdictIsEarned, Alive
<1>1. CASE creator[t] = 0
  <2>1. \E s \in Shells : Create(s)
    BY <1>1, OthersCreateNothing
  <2>2. UNCHANGED status /\ q \in Registries
    BY <1>1, <2>1, CreateEffect
  <2>3. status'[q][t] = "pending"
    BY <1>1, <2>2 DEF NothingBeforeCreation
  <2> QED
    BY <2>3
<1>2. CASE creator[t] # 0
  <2>1. q = creator[t] /\ q \in Registries
    BY <1>2, CreatorsStay DEF RecordsOK, Registries
  <2>2. /\ status[q][t] = "completed" => child[t] = "ok"
        /\ status[q][t] = "failed" => child[t] \in {"none", "failed"}
                                      \/ (cancel[t] /\ t \in timed_out \cup unreaped)
        /\ status[q][t] = "cancelled" => cancel[t] /\ (child[t] = "alive" => t \in unreaped)
    BY <1>2, <2>1 DEF VerdictIsEarned, Alive
  <2>3. ASSUME NEW s \in Shells, Close(s), home[q] = s PROVE status'[q][t] = "pending"
    BY <2>1, <2>3, CloseEffect DEF NoRecords
  <2>4. CASE status'[q][t] = status[q][t] /\ status[q][t] \in Final
    <3>1. child'[t] = child[t] \/ (child[t] = "alive" /\ child'[t] \in {"ok", "failed"})
      <4>1. ASSUME NEW s \in Shells, command[s].at = "running", t = command[s].task PROVE FALSE
        <5>1. registry[s] = q /\ status[q][t] = "running"
          BY <2>1, <4>1 DEF StartingOrCancelling
        <5> QED
          BY <2>4, <5>1 DEF Final
      <4> QED
        BY <4>1, ChildSteps
    <3>2. ASSUME NEW s \in Shells, Close(s), home[q] = s PROVE FALSE
      BY <2>3, <2>4, <3>2 DEF Final
    <3>3. /\ (t \in timed_out => t \in timed_out') /\ (t \in unreaped => t \in unreaped')
          /\ cancel[t] => cancel'[t]
      BY <2>1, <3>2, TimeoutSteps, CancelSteps
    <3> QED
      BY <2>2, <2>4, <3>1, <3>3
  <2>5. CASE status'[q][t] # status[q][t]
    <3>1. StatusChange(q, t)
      BY <2>1, <2>5, StatusSteps
    <3>2. q # opened + 1 /\ ~Stale(q, t)
      <4>1. q <= opened /\ q \in Nat /\ opened \in Nat
        BY <2>1, RegistryIds DEF Ownership
      <4> QED
        BY <2>1, <4>1 DEF Stale
    <3>3. ASSUME NEW s \in Shells, q = registry[s], t = command[s].task, Spawn(s), UNCHANGED child
          PROVE  child'[t] = "none"
      BY <3>3 DEF Spawn, StartingOrCancelling
    <3>4. ASSUME NEW s \in Shells, q = registry[s], t = command[s].task, Cancelled(s),
                 ~(creator[t] = q /\ Alive(t))
          PROVE  cancel'[t] /\ child'[t] # "alive"
      <4>1. command[s].at = "cancelling" /\ UNCHANGED <<cancel, child>>
        BY <3>4 DEF Cancelled
      <4>2. cancel[t]
        BY <2>1, <3>4, <4>1 DEF StartingOrCancelling
      <4> QED
        BY <2>1, <3>4, <4>1, <4>2 DEF Alive
    <3>5. ASSUME Expired(t), ~Alive(t) PROVE cancel'[t] /\ child'[t] # "alive"
      BY <3>5 DEF Expired, At, Alive, Watching
    <3>6. ASSUME Conclude(t)
          PROVE  /\ Verdict(t) = "completed" => child'[t] = "ok"
                 /\ Verdict(t) = "failed" =>
                       child'[t] \in {"none", "failed"} \/ (cancel'[t] /\ t \in timed_out' \cup unreaped')
                 /\ Verdict(t) = "cancelled" => cancel'[t] /\ (child'[t] = "alive" => t \in unreaped')
      <4>1. watcher[t] \in {"exited", "terminated"} /\ UNCHANGED <<cancel, child, timed_out, unreaped>>
        BY <3>6 DEF Conclude, At, pipes
      <4>2. /\ child[t] \in {"alive", "ok", "failed"}
            /\ child[t] = "alive" => watcher[t] = "terminated" /\ t \in unreaped
            /\ watcher[t] = "terminated" \/ t \in timed_out => cancel[t]
        BY <4>1 DEF Watching, ProcessesOK
      <4> QED
        BY <4>1, <4>2 DEF Verdict
    <3> QED
      BY <2>3, <3>1, <3>2, <3>3, <3>4, <3>5, <3>6 DEF StatusChange
  <2>6. CASE status'[q][t] = status[q][t] /\ status[q][t] \notin Final
    BY <2>6 DEF Final
  <2> QED
    BY <2>4, <2>5, <2>6
<1> QED
  BY <1>1, <1>2
-----------------------------------------------------------------------------
(* The theorems. *)

LEMMA InitIsInvariant == Init => IInv
<1> SUFFICES ASSUME Init PROVE IInv
  OBVIOUS
<1>1. 0 \notin Registries /\ \A t \in Tasks : creator[t] = 0
  BY Names DEF Init
<1>2. Ownership /\ LocksSave
  BY DEF Init, Ownership, LocksSave, Idle
<1>3. ListsAreCreated
  BY DEF Init, ListsAreCreated, Idle
<1>4. NothingBeforeCreation /\ StartingOrCancelling /\ Watching
  BY DEF Init, NothingBeforeCreation, StartingOrCancelling, Watching, Idle, NoRecords
<1>5. VerdictIsEarned
  BY <1>1 DEF VerdictIsEarned
<1>6. PayloadIsCurrent /\ LastWriterIsOnDisk
  BY DEF Init, PayloadIsCurrent, LastWriterIsOnDisk
<1> QED
  BY <1>2, <1>3, <1>4, <1>5, <1>6 DEF IInv, Earned

LEMMA NextKeepsAll ==
    ASSUME TypeOK, IInv, Next
    PROVE  TypeOK' /\ IInv'
<1>1. Acts /\ Earned /\ PayloadIsCurrent /\ LastWriterIsOnDisk
  BY NextActs DEF IInv
<1>2. TypeOK'
  BY <1>1, ShellsKeepType, RecordsKeepType, ProcessesKeepType, StoreKeepsType DEF TypeOK
<1>3. Ownership'
  <2>1. HomesAreHeld' /\ SavesAreHeld' /\ TasksAreHeld'
    BY <1>1, HomesStayHeld, SavesStayHeld, TasksStayHeld
  <2> QED
    BY <2>1 DEF Ownership, HomesAreHeld, SavesAreHeld, TasksAreHeld
<1>4. LocksSave' /\ ListsAreCreated' /\ NothingBeforeCreation'
  BY <1>1, LocksStaySaving, ListsStayCreated, UncreatedStaysBlank
<1>5. StartingOrCancelling' /\ Watching' /\ VerdictIsEarned'
  BY <1>1, CommandsKnow, WatchersKnow, VerdictsStayEarned
<1>6. (PayloadIsCurrent /\ LastWriterIsOnDisk)'
  BY <1>1, FileStaysCurrent
<1> QED
  BY <1>2, <1>3, <1>4, <1>5, <1>6 DEF IInv, Earned

\* A step that changes nothing keeps everything.
LEMMA StutterKeepsAll ==
    ASSUME TypeOK, IInv, UNCHANGED vars
    PROVE  TypeOK' /\ IInv'
<1> USE DEF vars, shells, records, processes, pipes, store
<1>1. TypeOK'
  BY DEF TypeOK, ShellsOK, RecordsOK, ProcessesOK, StoreOK
<1>2. Earned'
  BY DEF IInv, Earned, Ownership, LocksSave, ListsAreCreated, NothingBeforeCreation, StartingOrCancelling,
         Watching, VerdictIsEarned, Alive
<1>3. (PayloadIsCurrent /\ LastWriterIsOnDisk)'
  BY DEF IInv, PayloadIsCurrent, LastWriterIsOnDisk, View, ToDict, Loading, Saves
<1> QED
  BY <1>1, <1>2, <1>3 DEF IInv

LEMMA Invariance == Spec => [](TypeOK /\ IInv)
<1>1. Init => TypeOK /\ IInv
  BY InitIsTyped, InitIsInvariant
<1>2. TypeOK /\ IInv /\ [Next]_vars => (TypeOK /\ IInv)'
  BY NextKeepsAll, StutterKeepsAll
<1> QED
  BY <1>1, <1>2, PTL DEF Spec

\* The state of shells, records, processes and file keeps its type
\* (runtime/tasks.py), for any number of each.
THEOREM TypeCorrect == Spec => []TypeOK
BY Invariance, PTL

\* Every verdict is earned: "completed" only after exit code 0, "cancelled" only on
\* a request, "failed" by the exit code, a timeout or a process that survives
\* SIGKILL (action_executor.py:65-77, 458-489); that a cancelled process was
\* stopped by the shell is not claimed.
THEOREM VerdictIsEarnedTheorem == Spec => []VerdictIsEarned
<1>1. TypeOK /\ IInv => VerdictIsEarned
  BY DEF IInv, Earned
<1> QED
  BY <1>1, Invariance, PTL

\* The first verdict stands, whoever reports another (tasks.py:87-118).
THEOREM FirstVerdictStandsTheorem == Spec => FirstVerdictStands
<1> DEFINE Stands == \A r \in Registries, t \in Tasks :
          (home[r] # Nobody /\ home'[r] # Nobody /\ status[r][t] \in Final)
             => status'[r][t] = status[r][t]
<1>1. TypeOK /\ IInv /\ [Next]_vars => [Stands]_vars
  <2>1. ASSUME TypeOK, IInv, Next PROVE Stands
    BY <2>1, NextActs, StepKeepsVerdicts DEF IInv
  <2> QED
    BY <2>1
<1> QED
  BY <1>1, Invariance, PTL DEF Spec, FirstVerdictStands

\* Once its saves are over, the registry that wrote last is what the file holds
\* (tasks.py:274-292).
THEOREM LastWriterIsOnDiskTheorem == Spec => []LastWriterIsOnDisk
<1>1. TypeOK /\ IInv => LastWriterIsOnDisk
  BY DEF IInv
<1> QED
  BY <1>1, Invariance, PTL
=============================================================================
