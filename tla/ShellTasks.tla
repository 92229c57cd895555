----------------------------- MODULE ShellTasks -----------------------------
(***************************************************************************)
(* The background tasks of the interactive shells                          *)
(* (app/cli/interactive_shell/runtime/tasks.py) and the threads that watch *)
(* their processes (orchestration/action_executor.py).  A registry holds   *)
(* the records of one shell; every registry writes the same file.  /reset  *)
(* gives a shell a fresh registry, and the records of the old one still    *)
(* write theirs.  A shell may be closed or killed at any step, its tasks'  *)
(* processes live on.                                                      *)
(*                                                                         *)
(* A shell runs one command at a time: the worker of an interrupted turn   *)
(* does not go on beside the next turn's.  Investigation tasks, which have *)
(* no process, progress texts, failing writes and exceptions inside a      *)
(* watcher are left out.                                                   *)
(***************************************************************************)
EXTENDS Naturals, Sequences, SequencesExt

CONSTANTS
    Shells, Nobody,
    Kinds,           \* "cli", "synthetic": the watcher polls; "code": communicate
    MaxTasks,        \* bound on the tasks started
    MaxRegistries,   \* bound on the shells opened and reset
    MaxHeld          \* _MAX_REGISTRY

ASSUME TasksAssumption ==
    /\ Kinds \subseteq {"cli", "synthetic", "code"}
    /\ MaxTasks \in Nat \ {0} /\ MaxRegistries \in Nat \ {0} /\ MaxHeld \in Nat \ {0}
    /\ Shells \cap (1 .. MaxTasks) = {} /\ Nobody \notin Shells \cup (1 .. MaxTasks)

Tasks == 1 .. MaxTasks
Registries == 1 .. MaxRegistries
Threads == Shells \cup Tasks       \* a shell's command thread, a task's watcher
Final == {"completed", "cancelled", "failed"}
Statuses == {"pending", "running"} \cup Final

VARIABLES
    home,       \* the shell whose process holds a registry, or Nobody
    registry,   \* session.task_registry of each shell, 0 when it is closed
    opened,     \* how many registries were made
    tasks,      \* the deque of each registry
    status,     \* the status of a task in each registry that holds a record of it
    pid,        \* the registries whose record of a task has a pid
    creator,    \* the registry a task was created in; the others rehydrated it
    kind,
    cancel,     \* cancel_requested of the creator's record
    child,      \* the task's process
    signalled,  \* the processes that were sent a signal while they lived
    held,       \* those that left a descendant behind, which holds their pipes
    unreaped,   \* those that outlived SIGKILL and its grace: no exit code
    watcher,    \* where the task's watcher is
    timed_out,  \* the tasks that ran into their timeout
    command,    \* what each shell's command thread does
    saving,     \* the registry a thread has to persist, or 0
    locked,     \* who holds the persist lock of a registry, or Nobody
    payload,    \* what the holder is writing
    disk,       \* interactive_tasks.json
    last        \* history: the registry that wrote it last

shells == <<home, registry, opened>>
records == <<tasks, status, pid, creator, kind, cancel>>
pipes == <<held, unreaped>>
processes == <<child, signalled, watcher, timed_out, pipes>>
store == <<locked, payload, disk, last>>
vars == <<shells, records, processes, command, saving, store>>

Idle == [at |-> "idle", task |-> 0, rest |-> <<>>]
Doing(place, t) == [at |-> place, task |-> t, rest |-> <<>>]

NoRecords == [t \in Tasks |-> "pending"]

Init ==
    /\ home = [r \in Registries |-> Nobody]
    /\ registry = [s \in Shells |-> 0]
    /\ opened = 0
    /\ tasks = [r \in Registries |-> <<>>]
    /\ status = [r \in Registries |-> NoRecords]
    /\ pid = [t \in Tasks |-> {}]
    /\ creator = [t \in Tasks |-> 0]
    /\ kind = [t \in Tasks |-> "none"]
    /\ cancel = [t \in Tasks |-> FALSE]
    /\ child = [t \in Tasks |-> "none"]
    /\ signalled = {} /\ held = {} /\ unreaped = {}
    /\ watcher = [t \in Tasks |-> "none"]
    /\ timed_out = {}
    /\ command = [s \in Shells |-> Idle]
    /\ saving = [h \in Threads |-> 0]
    /\ locked = [r \in Registries |-> Nobody]
    /\ payload = [r \in Registries |-> <<>>]
    /\ disk = <<>>
    /\ last = 0

Alive(t) == child[t] = "alive"
MostRecent(seq) == IF Len(seq) <= MaxHeld THEN seq ELSE SubSeq(seq, Len(seq) - MaxHeld + 1, Len(seq))
ToDict(r, t) == [task |-> t, status |-> status[r][t], pid |-> r \in pid[t]]

\* refresh_rehydrated_status changes a record that says running without a
\* process that lives.
Stale(r, t) == status[r][t] = "running" /\ creator[t] # r /\ ~(r \in pid[t] /\ Alive(t))

Persist(h, r) == saving' = [saving EXCEPT ![h] = r]
SetStatus(r, t, s) == status' = [status EXCEPT ![r][t] = s]

\* Mutant of Mark: a later verdict replaces an earlier one.
MarksAgain(h, r, t, s) == SetStatus(r, t, s) /\ Persist(h, r)

\* mark_running, mark_completed, mark_cancelled and mark_failed: a final status
\* stays, and only a change is persisted.
Mark(h, r, t, s) ==
    IF status[r][t] \in Final THEN UNCHANGED <<status, saving>>
    ELSE SetStatus(r, t, s) /\ Persist(h, r)
-----------------------------------------------------------------------------
(* _persist, called after every change by the thread that made it. *)

\* Mutant of TakeSnapshot: a writer at work is enough.
SkipsWhenBusy(h, r) ==
    IF locked[r] # Nobody
    THEN saving' = [saving EXCEPT ![h] = 0] /\ UNCHANGED <<locked, payload>>
    ELSE /\ locked' = [locked EXCEPT ![r] = h]
         /\ payload' = [payload EXCEPT ![r] = [i \in DOMAIN tasks[r] |-> ToDict(r, tasks[r][i])]]
         /\ UNCHANGED saving

\* Under the persist lock the records are read ...
TakeSnapshot(h, r) ==
    /\ locked[r] = Nobody
    /\ locked' = [locked EXCEPT ![r] = h]
    /\ payload' = [payload EXCEPT ![r] = [i \in DOMAIN tasks[r] |-> ToDict(r, tasks[r][i])]]
    /\ UNCHANGED saving

\* ... written to a file of their own and renamed.
ReplaceFile(h, r) ==
    /\ locked[r] = h
    /\ disk' = payload[r]
    /\ last' = r
    /\ locked' = [locked EXCEPT ![r] = Nobody]
    /\ payload' = [payload EXCEPT ![r] = <<>>]
    /\ saving' = [saving EXCEPT ![h] = 0]

Save(h) ==
    /\ saving[h] # 0
    /\ \/ locked[saving[h]] # h /\ TakeSnapshot(h, saving[h]) /\ UNCHANGED <<disk, last>>
       \/ ReplaceFile(h, saving[h])
    /\ UNCHANGED <<shells, records, processes, command>>
-----------------------------------------------------------------------------
(* Commands of a shell. *)

Free(s) == registry[s] # 0 /\ saving[s] = 0 /\ command[s].at = "idle"

NewRegistry(s) ==
    /\ opened < MaxRegistries
    /\ opened' = opened + 1
    /\ home' = [home EXCEPT ![opened + 1] = s]
    /\ registry' = [registry EXCEPT ![s] = opened + 1]

\* A shell starts: _load_persisted reads the file ...
Open(s) ==
    /\ registry[s] = 0
    /\ NewRegistry(s)
    /\ LET loaded == MostRecent(disk)
           of(t) == CHOOSE i \in DOMAIN loaded : loaded[i].task = t
           found == {loaded[i].task : i \in DOMAIN loaded}
       IN  /\ status' = [status EXCEPT ![opened + 1] =
                            [t \in Tasks |-> IF t \in found THEN loaded[of(t)].status ELSE @[t]]]
           /\ pid' = [t \in Tasks |-> IF t \in found /\ loaded[of(t)].pid
                                      THEN pid[t] \cup {opened + 1} ELSE pid[t]]
           /\ command' = [command EXCEPT ![s] =
                            [at |-> "loading", task |-> 0, rest |-> [i \in DOMAIN loaded |-> loaded[i].task]]]
    /\ UNCHANGED <<tasks, creator, kind, cancel, processes, saving, store>>

\* ... and takes the records over one by one.  One that has to be refreshed is
\* persisted before it is in the deque: the file is short for a moment.
Load(s) ==
    /\ command[s].at = "loading" /\ saving[s] = 0
    /\ LET r == registry[s]
           rest == command[s].rest
       IN  \/ /\ rest # <<>> /\ Stale(r, Head(rest))
              /\ SetStatus(r, Head(rest), "completed")
              /\ Persist(s, r)
              /\ UNCHANGED <<tasks, command>>
           \/ /\ rest # <<>> /\ ~Stale(r, Head(rest))
              /\ tasks' = [tasks EXCEPT ![r] = Append(@, Head(rest))]
              /\ command' = [command EXCEPT ![s].rest = Tail(rest)]
              /\ UNCHANGED <<status, saving>>
           \/ /\ rest = <<>>
              /\ Persist(s, r)
              /\ command' = [command EXCEPT ![s] = Idle]
              /\ UNCHANGED <<tasks, status>>
    /\ UNCHANGED <<shells, pid, creator, kind, cancel, processes, store>>

\* /reset: an empty registry over the same file.
Reset(s) ==
    /\ Free(s)
    /\ NewRegistry(s)
    /\ UNCHANGED <<records, processes, command, saving, store>>

\* The shell's process ends, and with it its records and threads.
Close(s) ==
    /\ registry[s] # 0
    /\ LET gone == {r \in Registries : home[r] = s}
           Orphan(t) == creator[t] \in gone
       IN  /\ home' = [r \in Registries |-> IF r \in gone THEN Nobody ELSE home[r]]
           /\ tasks' = [r \in Registries |-> IF r \in gone THEN <<>> ELSE tasks[r]]
           /\ status' = [r \in Registries |-> IF r \in gone THEN NoRecords ELSE status[r]]
           /\ pid' = [t \in Tasks |-> pid[t] \ gone]
           /\ kind' = [t \in Tasks |-> IF Orphan(t) THEN "none" ELSE kind[t]]
           /\ cancel' = [t \in Tasks |-> cancel[t] /\ ~Orphan(t)]
           /\ watcher' = [t \in Tasks |-> IF Orphan(t) THEN "none" ELSE watcher[t]]
           /\ signalled' = {t \in signalled : ~Orphan(t)}
           /\ held' = {t \in held : ~Orphan(t)}
           /\ unreaped' = {t \in unreaped : ~Orphan(t)}
           /\ timed_out' = {t \in timed_out : ~Orphan(t)}
           /\ saving' = [h \in Threads |-> IF saving[h] \in gone THEN 0 ELSE saving[h]]
           /\ locked' = [r \in Registries |-> IF r \in gone THEN Nobody ELSE locked[r]]
           /\ payload' = [r \in Registries |-> IF r \in gone THEN <<>> ELSE payload[r]]
    /\ registry' = [registry EXCEPT ![s] = 0]
    /\ command' = [command EXCEPT ![s] = Idle]
    /\ UNCHANGED <<opened, creator, child, disk, last>>

\* start_background_cli_task, run_synthetic_test, run_claude_code_implementation:
\* the record ...
Create(s) ==
    /\ Free(s)
    /\ \E t \in Tasks, k \in Kinds :
          /\ creator[t] = 0 /\ \A u \in 1 .. (t - 1) : creator[u] # 0
          /\ creator' = [creator EXCEPT ![t] = registry[s]]
          /\ kind' = [kind EXCEPT ![t] = k]
          /\ tasks' = [tasks EXCEPT ![registry[s]] = MostRecent(Append(@, t))]
          /\ command' = [command EXCEPT ![s] = Doing("created", t)]
    /\ Persist(s, registry[s])
    /\ UNCHANGED <<shells, status, pid, cancel, processes, store>>

MarkRunning(s) ==
    /\ command[s].at = "created" /\ saving[s] = 0
    /\ Mark(s, registry[s], command[s].task, "running")
    /\ command' = [command EXCEPT ![s] = Doing("running", command[s].task)]
    /\ UNCHANGED <<shells, tasks, pid, creator, kind, cancel, processes, store>>

\* ... its process, or none ...
Spawn(s) ==
    /\ command[s].at = "running" /\ saving[s] = 0
    /\ LET t == command[s].task
           r == registry[s]
       IN  \/ /\ child' = [child EXCEPT ![t] = "alive"]
              /\ pid' = [pid EXCEPT ![t] = @ \cup {r}]
              /\ Persist(s, r)
              /\ command' = [command EXCEPT ![s] = Doing("spawned", t)]
              /\ UNCHANGED status
           \/ /\ Mark(s, r, t, "failed")
              /\ command' = [command EXCEPT ![s] = Idle]
              /\ UNCHANGED <<child, pid>>
    /\ UNCHANGED <<shells, tasks, creator, kind, cancel, signalled, watcher, timed_out, pipes, store>>

\* ... and the thread that watches it.
Watched(s) ==
    /\ command[s].at = "spawned" /\ saving[s] = 0
    /\ watcher' = [watcher EXCEPT ![command[s].task] = "polling"]
    /\ command' = [command EXCEPT ![s] = Idle]
    /\ UNCHANGED <<shells, records, child, signalled, timed_out, pipes, saving, store>>

Held(s) == {tasks[registry[s]][i] : i \in DOMAIN tasks[registry[s]]}

\* /tasks and /cancel refresh what was rehydrated.
Refresh(s) ==
    /\ Free(s)
    /\ \E t \in Held(s) :
          /\ Stale(registry[s], t)
          /\ SetStatus(registry[s], t, "completed")
    /\ Persist(s, registry[s])
    /\ UNCHANGED <<shells, tasks, pid, creator, kind, cancel, processes, command, store>>

\* /cancel: request_cancel raises the flag under the record's lock.  One /cancel
\* of a task is enough.
Cancel(s) ==
    /\ Free(s)
    /\ \E t \in Held(s) :
          /\ status[registry[s]][t] = "running"
          /\ creator[t] = registry[s] => ~cancel[t]
          /\ cancel' = [cancel EXCEPT ![t] = @ \/ creator[t] = registry[s]]
          /\ command' = [command EXCEPT ![s] = Doing("cancelling", t)]
    /\ UNCHANGED <<shells, tasks, status, pid, creator, kind, processes, saving, store>>

\* Mutant of StopProcess: a process that is alive is cancelled already.
CancelsAtOnce(h, r, t) ==
    /\ signalled' = IF creator[t] = r /\ Alive(t) THEN signalled \cup {t} ELSE signalled
    /\ Mark(h, r, t, "cancelled")

\* Its second half: a process of its own that lives is terminated and left to the
\* watcher; a record that runs without one is cancelled here, whatever became of
\* its process.  The pid of a rehydrated record is never signalled.
StopProcess(h, r, t) ==
    IF creator[t] = r /\ Alive(t)
    THEN signalled' = signalled \cup {t} /\ Persist(h, r) /\ UNCHANGED status
    ELSE /\ SetStatus(r, t, IF status[r][t] = "running" THEN "cancelled" ELSE status[r][t])
         /\ Persist(h, r)
         /\ UNCHANGED signalled

Cancelled(s) ==
    /\ command[s].at = "cancelling"
    /\ StopProcess(s, registry[s], command[s].task)
    /\ command' = [command EXCEPT ![s] = Idle]
    /\ UNCHANGED <<shells, tasks, pid, creator, kind, cancel, child, watcher, timed_out, pipes, store>>

Command(s) ==
    \/ Load(s)
    \/ Create(s) \/ MarkRunning(s) \/ Spawn(s) \/ Watched(s)
    \/ Refresh(s)
    \/ Cancel(s) \/ Cancelled(s)
-----------------------------------------------------------------------------
(* The watcher of task t. *)

At(t, place) == watcher[t] = place /\ saving[t] = 0
Goto(t, place) == watcher' = [watcher EXCEPT ![t] = place]

\* What communicate waits for: the process has ended and nobody holds its pipes.
Eof(t) == ~Alive(t) /\ t \notin held

\* The loop's head sees that the process has ended, or communicate returns.
Poll(t) ==
    /\ At(t, "polling")
    /\ \/ (IF kind[t] = "code" THEN Eof(t) ELSE ~Alive(t)) /\ Goto(t, "exited")
       \/ Alive(t) /\ kind[t] # "code" /\ Goto(t, "polled")
    /\ UNCHANGED <<shells, records, child, signalled, timed_out, pipes, command, saving, store>>

\* The timeout: request_cancel of the watcher's own record, whose process may
\* have ended since the poll, or long ago when its pipes are still held.
Expire(t) ==
    /\ At(t, "polled") \/ (At(t, "polling") /\ kind[t] = "code" /\ ~Eof(t))
    /\ timed_out' = timed_out \cup {t}
    /\ cancel' = [cancel EXCEPT ![t] = TRUE]
    /\ Goto(t, "expired")
    /\ UNCHANGED <<shells, tasks, status, pid, creator, kind, child, signalled, pipes, command, saving, store>>

Expired(t) ==
    /\ At(t, "expired")
    /\ StopProcess(t, creator[t], t)
    /\ Goto(t, "terminating")
    /\ UNCHANGED <<shells, tasks, pid, creator, kind, cancel, child, timed_out, pipes, command, store>>

\* The flag, read after the poll; or another round.
CheckCancel(t) ==
    /\ At(t, "polled")
    /\ Goto(t, IF cancel[t] THEN "terminating" ELSE "polling")
    /\ UNCHANGED <<shells, records, child, signalled, timed_out, pipes, command, saving, store>>

\* terminate_child_process: SIGTERM, then SIGKILL, each with its grace.  A process
\* that outlives both is left alone.
Terminate(t) ==
    /\ At(t, "terminating")
    /\ IF Alive(t) /\ t \notin signalled
       THEN signalled' = signalled \cup {t} /\ UNCHANGED <<watcher, unreaped>>
       ELSE /\ unreaped' = IF Alive(t) /\ kind[t] # "code" THEN unreaped \cup {t} ELSE unreaped
            /\ Goto(t, IF kind[t] = "code" THEN "draining" ELSE "terminated")
            /\ UNCHANGED signalled
    /\ UNCHANGED <<shells, records, child, timed_out, held, command, saving, store>>

\* The second communicate, which has no timeout.
Drain(t) ==
    /\ At(t, "draining") /\ Eof(t)
    /\ Goto(t, "terminated")
    /\ UNCHANGED <<shells, records, child, signalled, timed_out, pipes, command, saving, store>>

\* What the watcher makes of it.
Verdict(t) ==
    CASE t \in timed_out -> "failed"
      [] kind[t] = "cli" /\ watcher[t] = "terminated" -> "cancelled"
      [] kind[t] = "synthetic" /\ watcher[t] = "terminated" ->
            IF t \in unreaped THEN "failed" ELSE "cancelled"
      [] kind[t] = "code" /\ cancel[t] /\ child[t] # "ok" -> "cancelled"
      [] OTHER -> IF child[t] = "ok" THEN "completed" ELSE "failed"

\* Mutant of Conclude: only a task that did not time out gets its verdict.
LeavesTimeoutOpen(t) ==
    /\ At(t, "exited") \/ At(t, "terminated")
    /\ IF t \in timed_out THEN UNCHANGED <<status, saving>> ELSE Mark(t, creator[t], t, Verdict(t))
    /\ Goto(t, "done")
    /\ UNCHANGED <<shells, tasks, pid, creator, kind, cancel, child, signalled, timed_out, pipes, command, store>>

Conclude(t) ==
    /\ At(t, "exited") \/ At(t, "terminated")
    /\ Mark(t, creator[t], t, Verdict(t))
    /\ Goto(t, "done")
    /\ UNCHANGED <<shells, tasks, pid, creator, kind, cancel, child, signalled, timed_out, pipes, command, store>>

Watch(t) == Poll(t) \/ Expired(t) \/ CheckCancel(t) \/ Terminate(t) \/ Drain(t) \/ Conclude(t)

\* The process ends by itself or by the signal, with a code of its choice.  A
\* process that it started itself is not signalled and may keep the pipes open.
ChildExits(t) ==
    /\ Alive(t)
    /\ \E code \in {"ok", "failed"} : child' = [child EXCEPT ![t] = code]
    /\ \/ UNCHANGED held
       \/ kind[t] = "code" /\ held' = held \cup {t}
    /\ UNCHANGED <<shells, records, signalled, watcher, timed_out, unreaped, command, saving, store>>

DescendantExits(t) ==
    /\ t \in held
    /\ held' = held \ {t}
    /\ UNCHANGED <<shells, records, child, signalled, watcher, timed_out, unreaped, command, saving, store>>
-----------------------------------------------------------------------------
Next ==
    \/ \E s \in Shells : Open(s) \/ Reset(s) \/ Close(s) \/ Command(s)
    \/ \E t \in Tasks : Watch(t) \/ Expire(t) \/ ChildExits(t) \/ DescendantExits(t)
    \/ \E h \in Threads : Save(h)

\* The system schedules threads and time passes: the graces of a signal end as
\* the timeout does.  Nobody has to type a command, and a process or what it
\* started may run for ever, signalled or not.
Fairness ==
    /\ \A s \in Shells : WF_vars(Save(s) \/ MarkRunning(s) \/ Spawn(s) \/ Watched(s))
    /\ \A t \in Tasks : WF_vars(Save(t) \/ Watch(t)) /\ SF_vars(Expire(t))

Spec == Init /\ [][Next]_vars /\ Fairness
-----------------------------------------------------------------------------
Lines == [task : Tasks, status : Statuses, pid : BOOLEAN]

\* The shells, and the registry that each of them uses.
ShellsOK ==
    /\ home \in [Registries -> Shells \cup {Nobody}]
    /\ registry \in [Shells -> 0 .. MaxRegistries]
    /\ opened \in 0 .. MaxRegistries
    /\ command \in [Shells -> [at : {"idle", "loading", "created", "running", "spawned", "cancelling"},
                               task : Tasks \cup {0}, rest : Seq(Tasks)]]

\* The records in memory.
RecordsOK ==
    /\ tasks \in [Registries -> Seq(Tasks)]
    /\ status \in [Registries -> [Tasks -> Statuses]]
    /\ pid \in [Tasks -> SUBSET Registries]
    /\ creator \in [Tasks -> 0 .. MaxRegistries]
    /\ kind \in [Tasks -> Kinds \cup {"none"}]
    /\ cancel \in [Tasks -> BOOLEAN]

\* The processes and the threads that watch them.
ProcessesOK ==
    /\ child \in [Tasks -> {"none", "alive", "ok", "failed"}]
    /\ signalled \subseteq Tasks /\ timed_out \subseteq Tasks
    /\ held \subseteq Tasks /\ unreaped \subseteq Tasks
    /\ watcher \in [Tasks -> {"none", "polling", "polled", "expired", "terminating",
                              "draining", "terminated", "exited", "done"}]

\* The file, and who is writing it.
StoreOK ==
    /\ saving \in [Threads -> 0 .. MaxRegistries]
    /\ locked \in [Registries -> Threads \cup {Nobody}]
    /\ payload \in [Registries -> Seq(Lines)]
    /\ disk \in Seq(Lines)
    /\ last \in 0 .. MaxRegistries

\* Every variable has its type.
TypeOK == ShellsOK /\ RecordsOK /\ ProcessesOK /\ StoreOK

\* Whatever races, the record a task was created with is completed only by exit
\* code 0; failed by another code, a failed start, a timeout or a process that
\* could not be ended; and cancelled only after a request, and never while the
\* process is left running, unless the watcher has tried SIGKILL.  A task nobody
\* asked to stop so has the verdict of its exit code.  (Whether a cancelled process
\* was stopped by us is CancelledMeansKilled.)
VerdictIsEarned ==
    \A t \in Tasks : creator[t] # 0 =>
        CASE status[creator[t]][t] = "completed" -> child[t] = "ok"
          [] status[creator[t]][t] = "failed" ->
                child[t] \in {"none", "failed"} \/ (cancel[t] /\ t \in timed_out \cup unreaped)
          [] status[creator[t]][t] = "cancelled" -> cancel[t] /\ (Alive(t) => t \in unreaped)
          [] OTHER -> TRUE

\* action_executor.py:473-475: "Only treat as CANCELLED when *we* killed it after a
\* cancel request; a natural exit that races with /cancel should be recorded by
\* its code."  The code does not hold it.
CancelledMeansKilled ==
    \A t \in Tasks :
        creator[t] # 0 /\ status[creator[t]][t] = "cancelled" => t \in signalled

\* tasks.py:87-118: command thread, watcher and timeout all report an end; the
\* first counts, in every registry that has a record of the task.
FirstVerdictStands ==
    [][\A r \in Registries, t \in Tasks :
          (home[r] # Nobody /\ home'[r] # Nobody /\ status[r][t] \in Final)
             => status'[r][t] = status[r][t]]_vars

Saves(r) == {h \in Threads : saving[h] = r}

\* tasks.py:274-292: a change that was made while another thread was writing is
\* not lost: once the saves of the registry that wrote last are over, the file is
\* what it holds.
LastWriterIsOnDisk ==
    \A r \in Registries :
        (last = r /\ home[r] # Nobody /\ Saves(r) = {} /\ command[home[r]].at # "loading")
           => disk = [i \in DOMAIN tasks[r] |-> ToDict(r, tasks[r][i])]

IsRunning(t) == \E r \in Registries : creator[t] = r /\ status[r][t] = "running"

\* The watcher waits for the end of a process that outlived SIGKILL, or for pipes
\* that a process it started holds.
Clogged(t) == watcher[t] = "draining" /\ ~Eof(t)

\* A task that runs comes to an end, by itself, its timeout or /cancel, unless its
\* shell is closed; but for a "code" task that timed out, whose watcher may wait
\* for ever (action_executor.py:641).
TaskEnds == \A t \in Tasks : IsRunning(t) ~> (~IsRunning(t) \/ []Clogged(t))
=============================================================================
