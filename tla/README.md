# Verification of the Cognis Ops agent

TLA+ models of the parts of `src/app` that keep state across steps, TLC runs
that check them on small instances, and TLAPS proofs for every value of the
constants.  Paths below are relative to `src/`.

## 1. The system

Cognis Ops (a fork of OpenSRE) is an SRE agent: it takes an alert, gathers
evidence with tools, diagnoses a root cause and publishes a report.  Around this
investigation graph live a chat mode, watchers that turn logs into incidents, a
fleet of local coding agents it supervises, and an interactive shell.

| Component | State | Operations | Interacts through | Correct when |
|---|---|---|---|---|
| Investigation graph (`app/pipeline`, `app/nodes`) | `AgentState`: plan, evidence, audit trail, loop count, incident window | one per node: extract, resolve, plan, investigate (fan-out), merge, diagnose, adapt window, evaluate, publish | LangGraph edges, `Send`, reducers | no query is paid for twice, rounds are recorded exactly, the loop ends in one outcome |
| Chat (`app/nodes/chat.py`) | messages | router, chat agent, tool executor, general answer | conditional edges | every tool call gets its answer, the loop ends |
| Alarms (`app/watch_dog/alarms.py`) | a cooldown slot per name | dispatch | a lock, Telegram | one message per name and cooldown, a failure leaves no trace |
| Hermes tailer (`app/hermes/tailer.py`) | file identity, offset, partial line, pending lines | poll, stop, start | the log file, which its writer rotates | every line once, in order, whole |
| Hermes classifier and agent (`app/hermes/classifier.py`, `agent.py`) | open tracebacks, warning and rule windows, polling thread | observe, flush, start, stop, process | callbacks on the polling thread and on callers | no traceback stuck or cut, whatever thread ends how, and bursts counted exactly |
| Hermes correlator (`app/hermes/correlator.py`) | a row per fingerprint | correlate, reset | called by the correlating sink | repeats are dropped, bursts are escalated |
| Hermes delivery (`app/hermes/correlating_sink.py`, `sinks.py`) | counters, bridge pool | deliver, investigate, close | correlator, dispatcher, worker threads | what should be seen is sent, the watcher is never blocked |
| Hermes poller (`app/hermes/poller.py`) | cursor (device, inode, offset) | poll | caller-held cursor | polls chain without gap or overlap |
| Branch claims (`app/agents/coordination.py`) | claims, in memory and in a JSONL file | claim, release | a shared file, no lock | a branch has one holder until it is released |
| Agent registry and sweep | agents, in memory and JSONL | register, forget, prune | a shared file, no lock | live agents stay, dead ones go |
| Agent bus (`app/agents/bus.py`) | socket and PID file, flock, connections | ensure a broker, publish, subscribe, accept, broadcast, evict | Unix socket, files, threads | one broker, frames reach the subscribers attached, in order |
| Attach sessions (`app/agents/tail.py`) | bounded chunk queue, stop flag | read, drain, stop | thread and queue | in order, bounded, ends |
| REPL loop (`app/cli/interactive_shell/loop.py`) | queue of turns, the active dispatch, the published confirmation | prompt, answer, interrupt, exit; run, confirm, withdraw | event loop and worker threads that outlive their tasks | no action without a yes typed while it asked, the shell never hangs on a turn |
| REPL tasks (`runtime/tasks.py`, `orchestration/action_executor.py`) | task records, processes, a JSON file shared by shells | create, watch, cancel, conclude, persist, load, reset | command thread, watchers, file | one verdict per task, with a cause, and the file follows memory |
| Integrations, remote runner, analytics, guardrails, masking, sandbox, wizard | configuration files, HTTP clients | load, save, call | files and network | |

## 2. What is hard here

The investigation loop repeats planning, a parallel fan-out and a diagnosis;
every later step relies on the audit trail the merges keep, and three separate
limits have to agree for the loop to end.  The log watcher follows a file its
writer renames and truncates, and its classifier is flushed by other threads
than the one that feeds it.  An incident then passes two windows and a cooldown
that live in different objects, use different clocks and learn nothing of each
other's failures, on a thread that waits for an investigation.  The dispatcher is
shared by threads and gives reservations back.  The fleet's files are loaded,
decided on and written by several processes without a lock.  Any process may
become the broker of the bus, and any may die while it does.  In the shell, a
cancelled turn leaves a thread behind that still shares the confirmation fields
with the next one; a task's natural exit, timeout and cancellation race in three
threads.  `PROJECT.json` lists each hazard at its line with the properties that
cover it, or the reason why none does.

## 3. The modules

| Module | Models | State and actions |
|---|---|---|
| `InvestigationLoop` | the investigation graph | one action per node; `investigate_hypothesis` runs once per planned action, in any order; `pc` is the next node, the other variables are the fields of `AgentState` they are named after |
| `InvestigationContract` | what a caller of `run_investigation` relies on | rounds and one outcome |
| `AlarmDispatcher` | `AlarmDispatcher.dispatch` | a call is `ReadClock`, then `Suppress` or `Reserve` under the lock, `Send` outside it, `RollBack` under it; any number of calls overlap |
| `IncidentCorrelator` | `IncidentCorrelator` | `Correlate` is a whole call (it holds the lock throughout), `Reset`; `rows` is `_state`, `seen` and `decision` are history |
| `IncidentDelivery` | the polling thread from incident to Telegram | extends `IncidentCorrelator` and instantiates `AlarmDispatcher`: `Observe` (the correlator's verdict and the exits without a sink), `BridgeReturns` and `BridgeIsOver` (the wait for the investigation), `Deliver` (the steps of the dispatch), `SinkReturns` (counting) |
| `LogTailer` | `FileTailer` against its logger | the parts of a poll between which the file may change: `Yield` (pending lines), `Stat` or `Missing`, `Open`, `ReadChunk`, `EndOfFile`; `Stop`, `Start`, `Crash` of the thread; the logger's `WriteLine`, `FinishLine`, `Create`, `Rotate`, `Truncate` |
| `LineStream` | what a reader of the tailer relies on | lines are written and come out in order, once and whole, unless excused |
| `HermesAgent` | `HermesAgent` and `IncidentClassifier` | `ObserveRecord`, `ObserveFrame` and `Flush` on the thread that calls them; `Dispatch` hands the incidents over one at a time; `Start`, `Stop`, `Joined`, `Process`; `PollerCrashes` and `ProcessRaises` when a rule or what gives the lines raises |
| `JsonlFile` | append, rewrite through `.tmp` and rename | names, inodes and open descriptors, because processes share both names |
| `BranchClaims` | `/agents claim` and `/agents release` in several shells | `Load`, the decision (`Refuse`, `ClaimFree`, `ClaimAgain`, `Release`, `NotHeld`), `WriteTable`, `Replace`, and `Crash` between any two |
| `BranchTable` | the ownership table the claims promise | claim a free branch, release a held one |
| `AgentBus` | election, publish, subscribe and the broker's threads | `Lock`, `Probe`, `UnlinkStale`, `Bind`, `RecordPid`, `Return` of the election; `Attach`, `Send`, `Retry`, `Receive`; the broker's `Accept`, `Broadcast`, `Write`, `Evict`, `Disconnected`; `Die`, `RecordFails`, `PidReused` |
| `ReplTurns` | the shell's turns | the event loop's thread (`main`): `Submit`, `Answer`, `Deliver`, `Interrupt`, `Interrupted`, `Quit`, `Leave`, `AppExits`; the queue processor: `StartTask`, `EndTask`; each turn's worker: `Think`, `RunAllowed`, `Ask`, `ResetResponse`, `Publish`, `PollCancel`, `Wake`, `Withdraw`, `RequestExit` |
| `ShellTasks` | background tasks of several shells | `Open`, `Load`, `Reset`, `Close`; `Create`, `MarkRunning`, `Spawn`, `Refresh`, `Cancel`; each watcher's `Poll`, `CheckCancel`, `Expire`, `Terminate`, `Drain`, `Conclude`; the processes' `ChildExits` and `DescendantExits`; `TakeSnapshot` and `ReplaceFile` under the registry's persistence lock |

`MC*` modules give the instances; `*Proofs` hold the theorems: those of a component are
in the module named after it, but for two pairs. `IncidentDeliveryProofs` proves
`IncidentCorrelator` too, on whose invariant the delivery builds, and `AgentFleetProofs`
holds both `AgentBus` and `BranchClaims`, which share nothing. Operators next to an
action that drop a guard or swap its order (`KeepsLock`, `SendsTwice`, `AlwaysAtEnd`,
...) belong to no specification: each is a plausible mistake in the code, and put in
place of the operator it mimics it must break the property `PROJECT.json` names under
"mutants".

Abstractions shared by all: an LLM's answer, a tool's outcome and Telegram's reply
are nondeterministic choices; text and formatting are left out; time is a counter
in units small enough for the windows to differ.

**Investigation.**  Evidence is reduced to the facts the control flow reads
(`Facts`), an alert to what later nodes ask of it (`Alerts`).  A tool's retries
are one outcome.  An exception that leaves a node ends the run (`Raise`); it can
leave extraction, planning, diagnosis and publication, not the nodes that catch
everything.  The CloudOpsBench path of the diagnosis is an instance of
`DiagnoseWithLLM`.  The superstep counter stops one past its limit.  Three details are
left out: the evidence that an OpenSRE dataset seeds before the merge, vendor audits
parsed from Lambda logs (every vendor fact here comes from S3), and the order in which
prioritisation cuts the candidates to the budget, which `Offers` leaves open.

**Tailing.**  A line is written in one piece or in two, and a read takes any number
of pieces, since chunks and lines have any length.  A truncation that is no longer
visible when the tailer looks, because the file has grown again, makes it read at a
position of the old file; so does a rotation between `stat` and `open`.  The state
then is `torn`, and `LineStream` promises nothing more.  `splitlines` also splits at
`\v`, `\f` and other separators; a line of the model has none inside.

**Classifying.** A record is what the rules make of it: a traceback header, an error, an
error a `RepeatRule` counts, a warning, another record, or a continuation. Its timestamp
is the present, so `detected_at` lags it by what a traceback waits.  An exception may
come with any record, from a rule, which loses what the call had collected (`lost`), or
between two, from what gives the lines.  It ends the polling thread or the call of
`process` without a flush; `raised` says that this happened since the last one.

**Delivering.**  `detected_at` may be up to `MaxLag` behind the present and,
between fingerprints, out of order: `HermesAgent` shows why (a traceback carries
the time of its first line and is closed by a later record) and, in `IncidentsKeepUp`,
that this is all the correlator has to expect.  In `IncidentDelivery` the log's
clock and the monotonic clock of the dispatcher advance together.  `MaxStall` is
the time a thread may lose between reading the clock and taking the lock.  A
bridge may return at once, late, or never.

**Claims.**  An open descriptor writes to the inode it opened even after a rename
by another shell; the buffered lines arrive when the file is closed.  Appending
one line is one step.  Disk errors, which the code logs and ignores, are left out.

**Bus.** Each process has one thread that publishes or subscribes; the accept loop and
the reader threads of its broker run beside it.  The broker is found by two files, the
socket and a PID; a dead process leaves both.  A PID may be reused, after which the
socket file is believed for good.  A frame written to a subscriber whose buffer is full
removes it from the fan-out.  The subscriber does not see the end of its stream then:
the broker closes the connection while its reader thread waits in `recv`, which on Linux
keeps the connection open.  Outside the tests nothing stops a broker but the death of
its process, so `BusServer.stop` is left out.

**Turns.** A plan is the policy's verdict on each of a turn's actions, and whether its
executor looks at the cancel event in between: `_execute_action_plan` does not.
`Interrupt` is Escape or Ctrl-C.  A slash command gets no confirmation function and asks
with `input()` in its thread (`at = "input"`); nothing can wake that one.  A request to
exit stays until the prompt's application takes it, while the code schedules one
callback, which an application that is just finishing may miss.

**Tasks.**  A registry holds records; every registry writes the same file.  `/reset`
makes a new one while the watchers of the old go on writing.  A shell may be closed
or killed at any step; the processes of its tasks live on.  The watchers of `cli` and
`synthetic` tasks poll, and differ in what they make of a process that could not be
ended; that of a `code` task waits in `communicate` for the end of the process and of
its pipes, which a descendant may hold (`held`).  A process may outlive SIGTERM, SIGKILL
and their graces (`unreaped`).  A shell runs one command at a time here; in the code the
worker of an interrupted turn (`app/cli/interactive_shell/loop.py:785-793`) may still be
in a command when the next one starts.  Exceptions inside a watcher are left out.

## 4. What the runs check

| Run | Properties | Shows |
|---|---|---|
| `investigation` | `NoActionRunsAfterBlocked`, `LoopsAreBounded`, `RecursionLimitNeverHit`, `GrafanaLoopIsNotWasted`, `TelemetryLoopHasWork`, `FailureCountsAreExact`, `RoundIsRecordedExactly`, `WidenedAtMostOnce`, `KeepsContract`, `LoopBackFollowsWork` | either of two tool sets over three rounds in every order: nothing finished is repeated, the audit trail is exact through failures and retries, loop-backs have work and are bounded, the window widens at most once, every run ends with one outcome of the contract |
| `alarm_dispatcher` | `CooldownHolds`, `NoGhostCooldown` | four overlapping calls on two names: sent alarms are a cooldown apart, a failed one leaves no cooldown |
| `log_tailer` | `FollowsTheLog`, `EveryLineComesOut` | three lines in two files, in pieces, rotated and truncated at any step: the tailer implements `LineStream`; complete lines of a file left alone come out |
| `hermes_agent` | `TracebacksAreReported`, `FramesAreCollected`, `IncidentsKeepUp`, `BurstsAreExact`, `CallsReturn` | polling thread and callers over one classifier, exceptions at any record: tracebacks are reported once and whole but for what a raising call had collected, bursts counted exactly, start, stop and process come back |
| `incident_correlator` | `DedupHolds`, `EscalationHolds` | repeats are suppressed and bursts escalated, up to what a lagging log can evict |
| `incident_delivery` | `QuietFingerprintIsSent`, `FirstEscalationIsSent`, `ThreadComesBack` | the dispatcher behind the correlator swallows neither a fingerprint that was quiet nor a first escalation; a hung investigation does not stop the watcher (lag and stall are 0 here; the theorems cover the rest) |
| `branch_claims` | `AnswerIsOnDisk`, `KeepsTable` | one shell, killed anywhere: the file is always a table of the specification and holds what was answered |
| `branch_race` | `KeepsTable`, violated | two shells: see below |
| `agent_bus` | `OneBus`, `FailureNeedsAFault`, `AttachedMissNothing`, `EachPublisherInOrder`, `CallsGetThrough` | two publishers and a subscriber elect among themselves, two faults anywhere: one bus, errors only after faults, frames in order, no call stuck |
| `repl_turns` | `AskedActionsAreAnswered`, `FirstAnswerCounts`, `InterruptFreesTheShell`, `InterruptUnparks`, `ExitDismissesThePrompt` | two turns, interrupted, answered, abandoned and exited at every point: an asked action has a yes typed while it asked, interrupts and `/exit` work |
| `shell_tasks` | `VerdictIsEarned`, `FirstVerdictStands`, `LastWriterIsOnDisk`, `TaskEnds` | a task seen by three registries of two shells: one verdict in every race, and one with a cause; the file is the last writer's memory; a task ends, unless its watcher waits for pipes or a process that nothing ends |
| `shell_cancel_race` | `CancelledMeansKilled`, violated | a task cancelled that ended by itself: see below |

`branch_race` shows a disagreement: `app/agents/coordination.py:3-4` promises "a
lightweight ownership table to prevent two agents from racing on the same branch",
and two shells that load before either appends are both told they hold it.
`KeepsTable` says that every step of the file is a claim of a free branch or a
release of a held one; TLC finds the second grant.

`shell_cancel_race` shows another: "Only treat as CANCELLED when *we* killed it after a
cancel request; a natural exit that races with /cancel should be recorded by its code"
(`app/cli/interactive_shell/orchestration/action_executor.py:473-475`), and two tests
want the same (`tests/cli/interactive_shell/runtime/test_tasks.py:364-405`, `438-465`).
The tests raise the cancel event themselves.  `/cancel` raises it in `request_cancel`
(`runtime/tasks.py:120-137`), which marks a record cancelled when it finds the process
gone, before the watcher polls; and a process that ends between the watcher's poll and
`terminate_child_process` counts as terminated.  Either way nobody killed it and its
exit code is lost.  `VerdictIsEarned` therefore asks of "cancelled" only that somebody
wanted it and that no process is left running that was not sent SIGKILL.

A yes counts for every worker that is asking when it is typed (`AskedActionsAreAnswered`):
after an interrupt two may be, and the property does not say whose question it answered.

**Type invariants.**  The runs list none: each is proved, for all instances, as a
theorem or as a part of the inductive invariant of the `*Proofs` module.

**Bounds, and why they are enough.**

- *Investigations*: a budget of two, two loop-backs, and in each run one of two tool
  sets: Grafana's two tools and the deploy timeline, or the two of the S3 audit trail,
  which no rule relates to the others; two loop-backs give a first, a middle and a last
  round, and a tool that fails is given up in the second.  `RecursionLimit` is the least
  value the assumption allows (19 for two loop-backs), so that a superstep more would
  show; the code's own values are 50 and four loop-backs, where the longest run takes
  29.
- *Dispatcher*: four calls are a sender, one that fails, one that reserves behind it and
  one that comes early; a cooldown of 3 and a stall of 1 differ, and time 7 holds two
  cooldowns.
- *Correlator*: five incidents are an escalation threshold of 3 with room before and
  after; both windows and their edges lie inside time 7, and one unit of lag puts
  fingerprints out of order.
- *Delivery*: four incidents are two fingerprints that both escalate, or one that does
  so three times; the two reach the drop and both Telegram routes.
- *Tailer*: three lines give one before, one in and one after a rotation or a
  truncation; two files a rotation; one restart a tailer that resumes with what it had
  buffered.  `FromStart` is `FALSE`, the default; the proof covers both.
- *Agent*: two loggers tell a traceback's own logger from another; three records are a
  header, its frame and what closes it, or a burst of two and one more; time 2 reaches
  the follow-up of 2 and leaves the window of 1 behind (time 3 was checked, too); two
  calls are a start and a stop, or a process beside a running thread.
- *Claims*: two branches and two agents with three inodes (two names, one descriptor);
  four inodes for two shells.
- *Bus*: two publishers and a subscriber can each be the broker; two faults are a broker
  that dies and a successor that fails; two frames order something, and a buffer of one
  overflows.
- *Turns*: two turns are an abandoned worker and its successor, the smallest number that
  shares the confirmation fields.  One plan asks twice and polls its cancel event (a
  second question while the first answer's event is still set), the other asks, goes on
  without asking and does not poll.  One hasty second answer.
- *Tasks*: one task, three registries (a shell that is reset and a shell that was opened
  beside it), each able to hold two records.  The kinds are `cli` and `code`, the two
  ways to wait; `shell_cancel_race` needs one `synthetic` task and one shell.

`CHECK_DEADLOCK FALSE` appears where time, frames or the number of incidents, calls,
lines, turns or registries are bounded: the model stops when they are used up.

**Fairness.**

- *Investigation*: `WF_vars(Step)`: LangGraph runs the next node as long as there is
  one and the runner awaits it; whether a node raises or answers is left open.
- *Delivery*: weak fairness of `Tick`, of `BridgeIsOver` (`future.result` has a
  timeout), of `Deliver` (the Telegram client has a timeout and the lock is never
  held across a call) and of `SinkReturns`.  `BridgeReturns` has none: a bridge may hang.
- *Tailer*: `WF_vars(Poll)`: the thread polls on a timer.  The logger owes nothing.
- *Agent*: weak fairness of the caller's own steps (its join has a timeout) and of
  the poller's; no record has to come and nothing has to raise.
- *Bus*: per process weak fairness of its own steps and strong fairness of `Lock`
  (`flock` hands the lock on although others keep asking); weak fairness of the
  broker's threads per connection.  No fault is fair.
- *Turns*: weak fairness of the prompt's steps; strong of `EndTask`, for asyncio
  runs callbacks in the order they became ready, whatever the user types; weak of
  each worker's confirmation and exit steps, whose waits have a timeout.  The user,
  the model and the actions owe nothing.
- *Tasks*: weak fairness of the steps of a command and of each watcher, strong of the
  timeout (`Expire`), which the clock brings about.  A process may run for ever, signalled
  or not, and so may one that holds its pipes.

The other runs check safety only.

**Other divergences met while modelling.**  No run states them; the models follow
the code.

- The window is widened "before the next planning step"
  (`app/investigation_constants.py:15-18`, `app/pipeline/graph.py:93-95`), but its only
  reader has succeeded by then and is never offered again
  (`app/nodes/plan_actions/build_prompt.py:14`).
- A discovered Loki service name is meant for the next loop
  (`app/nodes/investigate/merge.py:83-85`); the next planning step detects the sources
  anew and drops it (`app/nodes/plan_actions/plan_actions.py:295`).
- "Actual audit payload fetched"
  (`app/nodes/root_cause_diagnosis/evidence_checker.py:333`) also holds after a read of
  the alert's own object (`app/nodes/investigate/processing/post_process.py:248`).
- A failed send is rolled back so that it does not swallow the next alarm
  (`app/watch_dog/alarms.py:106-107`); the correlator in front has counted it as seen
  and suppresses the next all the same (`app/hermes/correlator.py:182`).
- A duplicate is "re-sent" after the cooldown (`app/cli/commands/hermes.py:64`,
  `docs/hermes.mdx:91`); the dedup window slides with every suppressed occurrence, so a
  steady incident is never re-sent (`app/hermes/correlator.py:163`).
- The tailer promises not to miss the first lines of a rotated-in file
  (`app/hermes/tailer.py:10-12`); a poll between rename and create forgets the
  fingerprint (line 124) and the next attach starts at the end.  It promises never half
  a record (lines 8-9); an attach in the middle of a line yields its rest.
- A traceback that is the log's last text stays open until `stop`; a continuation goes
  to every open traceback (`app/hermes/classifier.py:225-227`).
- A shell persists only the tasks it holds, so the last to write removes those of the
  others that its file is meant to show
  (`app/cli/interactive_shell/runtime/tasks.py:303-305`).
- What `shell_cancel_race` shows of a synthetic test holds of a `cli` task, too.  A task
  that `/cancel` did kill, by a SIGTERM that ends it before the watcher's next poll, is
  recorded as failed with code -15, and a `cli` task is "cancelled" although its process
  outlived SIGKILL.
- After a timeout, the watcher of a Claude Code task reads the pipes without one
  (`app/cli/interactive_shell/orchestration/action_executor.py:641`), having signalled
  only the leader of the session: a descendant that holds them keeps the task running
  for ever.  `TaskEnds` has this exception.
- "An incident never gets stuck in memory after shutdown"
  (`app/hermes/agent.py:126-127`): when the polling thread crashes (lines 186-191), the
  tracebacks that the raising call had collected are gone, and the open ones wait for
  `stop` or `process`.
- In the shell, the `finally` of an abandoned worker may withdraw the next turn's
  confirmation, and a second answer to one question may wake the next;
  `FirstAnswerCounts` and `InterruptUnparks` name these as their exceptions.
- A PID that is reused keeps a dead broker's socket "live" for good, against "if the
  broker dies, the next operation re-elects" (`app/agents/bus.py:12`); an evicted
  subscriber gets no end of stream and waits.  `CallsGetThrough` therefore lets a call
  raise, and `AttachedMissNothing` speaks of subscribers in the fan-out.

## 5. What is proved

Eight modules hold theorems; each is for every value of the constants that satisfies
the named assumptions of its component's module.

| Module | Theorems | Inductive invariant beyond types |
|---|---|---|
| `InvestigationLoopProofs` | `TypeCorrect`, `ImplementsContract`, `BlockedForGood`, `RoundsExact`, `BoundedLoops`, `WithinRecursionLimit`, `OneWidening`, `FailureCountsExact`, `GrafanaLoopPays`, `TelemetryLoopPays`, `LoopBackIsEarned` | `ExhaustionRecorded`, `RoundAccounted`, `PlanFresh`, `LastRecordIsCurrent`, `WideningRecorded`, `LoopsCounted`, `SuperstepsCounted`; then `Recorded` |
| `AlarmDispatcherProofs` | `TypeCorrect`, `CooldownCorrect`, `NoGhostCorrect` | `StallIsBounded`, `ReservationHolds`, `TwinsAreOld` |
| `IncidentDeliveryProofs`, the correlator | `DedupCorrect`, `EscalationCorrect` | `RowsFollowTheLog`; then `SeenInOrder`, `RowsHoldTheRest` |
| `IncidentDeliveryProofs`, the delivery | `QuietCorrect`, `EscalationIsSent`, `DeliveryDedup`, `DeliveryEscalation`, `DeliveryDispatches`, `DeliveryCooldown` | `TakenInTime`, `CallsFollowIncidents`, `OneCallAtATime`, `SlotsAreEarned` |
| `HermesAgentProofs` | `TypesAreKept`, `TracebacksReported`, `FramesCollected`, `IncidentsInOrder`, `BurstsExact` | `Placed`, `Manned`, `Framed`, `OnePerLogger`, `Past`, `Lagging`, `Counting` |
| `LogTailerProofs` | `TypeCorrect`, `FollowsTheLogTheorem` | `Tracked`, and unless torn `Exact` |
| `AgentFleetProofs`, the bus | `TypeCorrect`, `OneBusTheorem`, `FailureNeedsAFaultTheorem`, `AttachedMissNothingTheorem`, `EachPublisherInOrderTheorem` | `Elected`, `Connected`, `Delivered`, `InOrder` |
| `AgentFleetProofs`, the claims | `AnswerLasts`, `KeepsTableOneAtATime`, `OneShellKeepsTheTable` | `FileType`, `CommandType`, `HasLoaded`, `Rewrites`, `HasTmp`; then `AtPrompt` |
| `ReplTurnsProofs` | `TypeCorrect`, `AskedActionsAreAnsweredTheorem`, `FirstAnswerCountsTheorem` | `ListIsHeard`, `AnswerIsCurrent`, `PendingAction`; then `CalmInv` |
| `ShellTasksProofs` | `TypeCorrect`, `VerdictIsEarnedTheorem`, `FirstVerdictStandsTheorem`, `LastWriterIsOnDiskTheorem` | `Earned`, `PayloadIsCurrent` |

**The loop** (`ActionsAssumption`, `BudgetAssumption`, `LoopAssumption`,
`ExpansionAssumption`, `LookbackAssumption`, `RecursionAssumption`, `NamesAssumption`).
None of the properties is inductive. The invariant says where each fact is kept between
the nodes: an action that was given up is in the record of its last failure
(`ExhaustionRecorded`); during a round, results and open sends make up the plan
(`RoundAccounted`); what is planned is not blocked (`PlanFresh`); the last record is the
round that just ended (`LastRecordIsCurrent`); a widening has a success of the deploy
timeline behind it (`WideningRecorded`); and the three counters move together.
`Recorded` relates offers, evidence and failure counts to those records: what is offered
is usable, Grafana logs leave their evidence, and a count is the number of records an
action failed in. `ImplementsContract` maps every node to a step of
`InvestigationContract` or a stutter, from `LoopsCounted` and from `ReportedAtTheEnd`
(nothing is published before the run is over): it is the safety of `KeepsContract`,
whose liveness TLC checks.

**The dispatcher** (`DispatcherAssumption`).  A call between clock and lock has stalled
at most `MaxStall`; every reservation is covered by a slot as long as its cooldown runs;
two reservations of one instant have both outlived it.  Deleting the slot that equals
one's own time is safe only because of the last.

**The correlator** (`CorrelatorAssumption`).  Each row's `last_seen` is the last
occurrence of its fingerprint, and a fingerprint without a row was last seen before the
longest window.  For escalation, a row's timestamps are what is left of the occurrences
without a first part that is too old to count (`RowsHoldTheRest`).

**The delivery** (`DeliveryAssumption`). What is proved of the two objects alone holds
of them where they are put together: every step of the delivery is a step of the
correlator or leaves it alone (`DeliveryDedup`, `DeliveryEscalation`), and the steps of
the polling thread are those of a dispatcher with one caller (`DeliveryDispatches`), so
that the dispatcher's invariants are inherited (`DeliveryCooldown`). Beyond that, the
polling thread has one call of the dispatcher at a time, made within the bridge's time
of its incident, and a slot is the reservation of a call of the same key that delivered
or is under way. The call under way is one's own, so a suppression is excused by a
delivered message of the same key, which for the escalation key was an escalation.

**The tailer** (`TailerAssumption`).  `FollowsTheLogTheorem` is the refinement of
`LineStream` under the mapping that is written in `LogTailer`: every step of the tailer
or its logger is a step of the stream or a stutter.  `Tracked` holds always: the log is
in order, lines not excused stay in the file the path names, the buffer was written, the
cursor's file exists.  `Exact` holds until the reader is torn: what
came out, what is pending, the partial line and what is ahead of the cursor follow one
another, and whatever is behind it came out, is buffered or is excused.

**The agent** (`AgentAssumption`).  `Placed`: a traceback is open, in one slot of one
outbox, reported, or lost with a call that raised, never two of these; `Manned`: what is
in an outbox has a thread that will see to it, and so has what is open, unless an
exception ended a thread and nobody flushed since.  `Framed`, with `OnePerLogger`, keeps
the frames of a header with it.  `Lagging` holds as long as no two threads overlapped in
the classifier: from what was dispatched over the outboxes to what is open, no incident
lies a follow-up or more behind one in front of it, and the incidents of one fingerprint
rise.  `Counting`: a bucket is what is left of the unspent matches without a first part
that the window has left behind.  `InOrderIs` shows that the tracebacks a call closes
leave the classifier in the order of their headers.

**The claims** (`NoAgentIsNoAgent`, `EnoughInodes`).  A table loaded from disk is a dict
with the holders of the lines, and `Put`, `Pop` and an appended line change one holder
each.  Between the steps of a command the lines on disk differ from the command's copy
in the one branch it answers about (`Rewrites`), and its `.tmp` is its own (`HasTmp`).
This needs what the code does not enforce, so it is a hypothesis of the theorems:
`OneAtATime`, no two commands overlap, for `KeepsTable`, which holds for any number of
shells then, dead ones included; `Alone`, one shell, for `AnswerIsOnDisk`, since another
shell may rightly release what was claimed.  `branch_race` refutes `KeepsTable` without
the hypothesis.

**The bus** (`BusAssumption`).  `Elected`: a running broker is the one both files name,
none runs while a process replaces the files, and one that records its PID is the only
listener left.  `Connected`: a connection not cut off leads to a listener, and an attempt
that failed has its fault.  `Delivered`: only publishers' frames are broadcast, to
subscribers of the same broker, and what is expected of one in the fan-out is read, in
its buffer or still to be written.  `InOrder`: a publisher's frames are in the order of
its calls along the whole path (sent, cast, buffered, read), none beyond the last that
may have been sent.

**The turns** (`ReplAssumption`). `ListIsHeard`: what stands in the published list was
typed while the worker that will read it was asking. `AnswerIsCurrent` and
`PendingAction`: an answer is read only for the question it belongs to, and an asked
action is still ahead of it. In a calm run (nobody interrupts, leaves or answers twice)
one worker lives at a time, its event is its own and the list is its answer (`CalmInv`).

**The tasks** (`TasksAssumption`).  `Earned`: who holds a record and may write it, which
locks a save holds, where a watcher is that knows its process has ended or cannot be
ended, and that a final word has its cause in the process or in a cancel request.
`PayloadIsCurrent`: a snapshot about to be written is the memory it was taken of,
because changes and saves exclude each other.

Only model-checked is liveness under fairness, which is out of the prover's reach:
`ThreadComesBack`, `EveryLineComesOut`, `CallsReturn`, `CallsGetThrough`,
`InterruptFreesTheShell`, `InterruptUnparks`, `ExitDismissesThePrompt`, `TaskEnds` and,
of `KeepsContract`, that every run ends.  Every other property of the passing runs is a
theorem, `KeepsTable` and `AnswerIsOnDisk` under the hypotheses above.

## 6. What is not modelled, and why

- *Parts of modelled components.*  `TelegramSink.close` and the two workers of the
  bridge's pool: what they drop is an investigation, and the sink's timeout, which is
  modelled, is all its caller sees.  Investigation tasks (no process) and failed writes
  of the task file.  `BusServer.stop`, which only tests call; the limits on
  malformed frames.  Disk errors of the claims, which the code logs and ignores.  Slash
  commands' own effects.
- *Agent registry and sweep, integration store.*  Load, decide and rewrite of one file
  without a lock, the shape of the claims over the same file layer; `branch_race` shows
  what it may lose.
- *Hermes poller, attach sessions, chat graph, alert inbox.*  A bounded read from a
  cursor its caller holds; one producer and one consumer over a queue that drops by
  design; two nodes that alternate until the model calls no tool.  Each has one actor or
  one queue and little that an order of steps could break.
- *Analytics, remote runner.*  Calls of external services that may be lost.
- *Left out for good.*  Vendor clients and the 160 tool wrappers (their outcomes are
  choices of the models), text processing (extraction, prompts, masking, guardrail
  patterns, report formatting), terminal interfaces, the wizard, installers,
  infrastructure and tests.  They make up most of the code's lines and keep no state
  across steps.
