------------------------------ MODULE ReplTurns ------------------------------
(***************************************************************************)
(* The turns of the interactive shell (app/cli/interactive_shell/loop.py): *)
(* the prompt coroutine and the queue processor share one event loop, each *)
(* turn runs in a worker thread that outlives its cancelled task, and a    *)
(* worker that needs a confirmation borrows the prompt through two fields  *)
(* of _ReplState.                                                          *)
(*                                                                         *)
(* The loop thread is in one place at a time (main); a worker's step is    *)
(* what it does between two points where another thread may run.           *)
(***************************************************************************)
EXTENDS Naturals, Sequences, SequencesExt

CONSTANTS
    MaxTurns,      \* bound on the turns typed
    Plans          \* a turn's plan: the policy's verdict on each action, and
                   \* whether its executor looks at the cancel event in between

ASSUME ReplAssumption ==
    /\ MaxTurns \in Nat \ {0}
    /\ Plans \subseteq [verdicts: Seq({"allow", "ask"}) \ {<<>>}, polls: BOOLEAN]

Turns == 1 .. MaxTurns
NoTurn == 0

VARIABLES
    typed,                 \* how many turns were typed; turn t is the t-th
    queue,                 \* the turns that wait for the processor
    current_task,          \* the turn whose task is not done, or NoTurn
    task_cancelled,        \* Task.cancel was called on it
    current_cancel_event,  \* the turn whose event cancels "the active dispatch"
    cancelled,             \* the turns whose cancel event is set
    confirm_event,         \* the turn whose response event is published
    signalled,             \* the turns whose response event is set
    confirm_response,      \* the answers appended to the published list
    exit_requested,
    main,                  \* what the event loop's thread is doing
    at,                    \* where each turn's worker is
    todo,                  \* the verdicts of the actions it has left
    checks,                \* whether it looks at its cancel event between actions
    answer,                \* what its confirmation returned
    heard,                 \* history: what was typed as an answer since it asked
    hasty                  \* history: the user answered one question twice, which
                           \* is bounded to once

loop == <<typed, queue, current_task, task_cancelled, exit_requested, main>>
events == <<current_cancel_event, cancelled, confirm_event, signalled, confirm_response>>
workers == <<at, todo, checks, answer, heard>>
vars == <<loop, events, workers, hasty>>

Init ==
    /\ typed = 0 /\ queue = <<>>
    /\ current_task = NoTurn /\ task_cancelled = FALSE
    /\ current_cancel_event = NoTurn /\ cancelled = {}
    /\ confirm_event = NoTurn /\ signalled = {} /\ confirm_response = <<>>
    /\ exit_requested = FALSE
    /\ main = "prompt"
    /\ at = [t \in Turns |-> "none"]
    /\ todo = [t \in Turns |-> <<>>]
    /\ checks = [t \in Turns |-> TRUE]
    /\ answer = [t \in Turns |-> "none"]
    /\ heard = [t \in Turns |-> {}]
    /\ hasty = FALSE

Goto(t, place) == at' = [at EXCEPT ![t] = place]

\* The first half of cancel_current_dispatch: the active turn's event is set.
SetCancelEvent ==
    /\ cancelled' = cancelled \cup ({current_cancel_event} \ {NoTurn})
    /\ UNCHANGED <<current_cancel_event, confirm_response>>

\* Mutant of UnparkAndCancel: only the asyncio task is cancelled.
CancelsTaskOnly ==
    /\ task_cancelled' = (current_task # NoTurn)
    /\ UNCHANGED <<current_cancel_event, cancelled, confirm_event, signalled, confirm_response>>

\* Mutant of UnparkAndCancel: the asyncio task is left to its worker.
UnparksOnly ==
    /\ signalled' = signalled \cup ({confirm_event} \ {NoTurn})
    /\ UNCHANGED <<task_cancelled, current_cancel_event, cancelled, confirm_event, confirm_response>>

\* The second half: the published response event is set without an answer, and
\* the current task is cancelled.
UnparkAndCancel ==
    /\ signalled' = signalled \cup ({confirm_event} \ {NoTurn})
    /\ task_cancelled' = (current_task # NoTurn)
    /\ UNCHANGED <<current_cancel_event, cancelled, confirm_event, confirm_response>>
-----------------------------------------------------------------------------
(* The prompt coroutine and the key bindings. *)

\* Text that is no answer, or no confirmation is pending: it becomes a turn.
Submit ==
    /\ main = "prompt" /\ ~exit_requested /\ typed < MaxTurns
    /\ typed' = typed + 1
    /\ queue' = Append(queue, typed + 1)
    /\ UNCHANGED <<current_task, task_cancelled, exit_requested, main, events, workers, hasty>>

\* A worker that has asked and not yet read an answer.
Asking(t) == at[t] \in {"publishing", "parked"}

\* y, n or just Enter while a confirmation is pending: deliver_confirmation
\* appends it to the list ...
Answer(a) ==
    /\ main = "prompt" /\ ~exit_requested
    /\ confirm_event # NoTurn
    /\ confirm_response = <<>> \/ ~hasty
    /\ confirm_response' = Append(confirm_response, a)
    /\ heard' = [t \in Turns |-> IF Asking(t) THEN heard[t] \cup {a} ELSE heard[t]]
    /\ hasty' = (hasty \/ confirm_response # <<>>)
    /\ main' = "delivering"
    /\ UNCHANGED <<typed, queue, current_task, task_cancelled, exit_requested,
                   current_cancel_event, cancelled, confirm_event, signalled,
                   at, todo, checks, answer>>

\* ... and sets the event.
Deliver ==
    /\ main = "delivering" /\ confirm_event # NoTurn
    /\ signalled' = signalled \cup {confirm_event}
    /\ main' = "prompt"
    /\ UNCHANGED <<typed, queue, current_task, task_cancelled, exit_requested,
                   current_cancel_event, cancelled, confirm_event, confirm_response,
                   workers, hasty>>

\* Esc, Ctrl-C, Ctrl-D or a bare /cancel while a dispatch is running.
Interrupt ==
    /\ main = "prompt" /\ current_task # NoTurn
    /\ SetCancelEvent
    /\ main' = "cancelling"
    /\ UNCHANGED <<typed, queue, current_task, task_cancelled, exit_requested,
                   confirm_event, signalled, workers, hasty>>

Interrupted ==
    /\ main = "cancelling"
    /\ UnparkAndCancel
    /\ main' = "prompt"
    /\ UNCHANGED <<typed, queue, current_task, exit_requested, workers, hasty>>

\* The finally of _run_interactive begins.
BeginLeaving ==
    /\ exit_requested' = TRUE
    /\ SetCancelEvent
    /\ main' = "leaving"
    /\ UNCHANGED <<typed, queue, current_task, task_cancelled,
                   confirm_event, signalled, workers, hasty>>

\* Ctrl-D, or Ctrl-C twice, while nothing runs.
Quit == main = "prompt" /\ current_task = NoTurn /\ BeginLeaving

\* Mutant of AppExits: the prompt stays until the user submits a line.
StaysUntilEnter == main = "prompt" /\ exit_requested /\ queue # <<>> /\ BeginLeaving

\* The application's exit, scheduled by _request_exit, ends prompt_async.
AppExits == main = "prompt" /\ exit_requested /\ BeginLeaving

\* The worker withdrew the event between the two halves of the delivery: the
\* attribute is None and the error leaves the prompt loop.
DeliveryFails == main = "delivering" /\ confirm_event = NoTurn /\ BeginLeaving

\* The rest of the finally; cancelling the processor cancels what it awaits.
Leave ==
    /\ main = "leaving"
    /\ UnparkAndCancel
    /\ main' = "left"
    /\ UNCHANGED <<typed, queue, current_task, exit_requested, workers, hasty>>
-----------------------------------------------------------------------------
(* The queue processor and the task of a turn, on the same thread. *)

LoopIsFree == main \in {"prompt", "left"}

StartTask ==
    /\ LoopIsFree /\ current_task = NoTurn /\ queue # <<>> /\ ~exit_requested
    /\ current_task' = Head(queue)
    /\ queue' = Tail(queue)
    /\ UNCHANGED <<typed, task_cancelled, exit_requested, main, events, workers, hasty>>

\* The task runs up to to_thread: its own cancel event, its own worker.
StartWorker ==
    /\ LoopIsFree /\ current_task # NoTurn
    /\ at[current_task] = "none" /\ ~task_cancelled
    /\ current_cancel_event' = current_task
    /\ Goto(current_task, "thinking")
    /\ UNCHANGED <<loop, cancelled, confirm_event, signalled, confirm_response,
                   todo, checks, answer, heard, hasty>>

\* The worker returned, or the task was cancelled and abandons it, or it was
\* cancelled before it began; the processor goes on.
EndTask ==
    /\ LoopIsFree /\ current_task # NoTurn
    /\ task_cancelled \/ at[current_task] = "done"
    /\ IF at[current_task] = "none" THEN Goto(current_task, "done") ELSE UNCHANGED at
    /\ current_cancel_event' =
           IF current_cancel_event = current_task THEN NoTurn ELSE current_cancel_event
    /\ current_task' = NoTurn
    /\ task_cancelled' = FALSE
    /\ UNCHANGED <<typed, queue, exit_requested, main, cancelled, confirm_event, signalled,
                   confirm_response, todo, checks, answer, heard, hasty>>
-----------------------------------------------------------------------------
(* The worker thread of turn t. *)

\* The turn is routed and the model answers: nothing to do; the planner's
\* actions; the assistant's, or an investigation to launch; a command whose
\* confirmation reads the terminal itself (dispatch_slash is given no
\* confirm_fn); or /exit.
Think(t) ==
    /\ at[t] = "thinking"
    /\ \/ Goto(t, "done") /\ UNCHANGED <<todo, checks>>
       \/ \E plan \in Plans :
             /\ Goto(t, "acting")
             /\ todo' = [todo EXCEPT ![t] = plan.verdicts]
             /\ checks' = [checks EXCEPT ![t] = plan.polls]
       \/ Goto(t, "input") /\ UNCHANGED <<todo, checks>>
       \/ Goto(t, "exiting") /\ UNCHANGED <<todo, checks>>
    /\ UNCHANGED <<loop, events, answer, heard, hasty>>

\* Only execute_cli_actions looks at the console's cancel_requested.
Skips(t) == checks[t] /\ t \in cancelled

Finish(t) ==
    /\ at[t] = "acting" /\ (todo[t] = <<>> \/ Skips(t))
    /\ Goto(t, "done")
    /\ todo' = [todo EXCEPT ![t] = <<>>]
    /\ checks' = [checks EXCEPT ![t] = TRUE]
    /\ UNCHANGED <<loop, events, answer, heard, hasty>>

RunAllowed(t) ==
    /\ at[t] = "acting" /\ todo[t] # <<>> /\ ~Skips(t) /\ Head(todo[t]) = "allow"
    /\ todo' = [todo EXCEPT ![t] = Tail(@)]
    /\ UNCHANGED <<loop, events, at, checks, answer, heard, hasty>>

\* The policy asks.
Ask(t) ==
    /\ at[t] = "acting" /\ todo[t] # <<>> /\ ~Skips(t) /\ Head(todo[t]) = "ask"
    /\ Goto(t, "asking")
    /\ UNCHANGED <<loop, events, todo, checks, answer, heard, hasty>>

\* _route_confirm_through_prompt: a fresh list ...
ResetResponse(t) ==
    /\ at[t] = "asking"
    /\ confirm_response' = <<>>
    /\ heard' = [heard EXCEPT ![t] = {}]
    /\ Goto(t, "publishing")
    /\ UNCHANGED <<loop, current_cancel_event, cancelled, confirm_event, signalled,
                   todo, checks, answer, hasty>>

\* Mutant of Publish: the list is emptied once the event is out.
PublishesFirst(t) ==
    /\ at[t] = "publishing"
    /\ IF confirm_event = t
       THEN /\ confirm_response' = <<>>
            /\ Goto(t, "parked")
            /\ UNCHANGED <<confirm_event, signalled>>
       ELSE /\ confirm_event' = t
            /\ signalled' = signalled \ {t}
            /\ UNCHANGED <<confirm_response, at>>
    /\ UNCHANGED <<loop, current_cancel_event, cancelled,
                   todo, checks, answer, heard, hasty>>

\* ... before a fresh event is published.
Publish(t) ==
    /\ at[t] = "publishing"
    /\ confirm_event' = t
    /\ signalled' = signalled \ {t}
    /\ Goto(t, "parked")
    /\ UNCHANGED <<loop, current_cancel_event, cancelled, confirm_response,
                   todo, checks, answer, heard, hasty>>

Reply(t, a) ==
    /\ answer' = [answer EXCEPT ![t] = a]
    /\ Goto(t, "answered")
    /\ UNCHANGED <<loop, events, todo, checks, heard, hasty>>

\* A tick of the poll while the active turn's event is set.
PollCancel(t) ==
    /\ at[t] = "parked" /\ t \notin signalled
    /\ current_cancel_event \in cancelled
    /\ Reply(t, "void")

\* Mutant of FirstResponse: an empty list is an empty answer, which means yes.
EmptyIsYes == IF confirm_response = <<>> THEN "yes" ELSE confirm_response[1]

FirstResponse == IF confirm_response = <<>> THEN "void" ELSE confirm_response[1]

Wake(t) ==
    /\ at[t] = "parked" /\ t \in signalled
    /\ Reply(t, FirstResponse)

\* The finally withdraws the event and the list; then the action runs, or was
\* declined, or DispatchCancelled ends the turn.
Withdraw(t) ==
    /\ at[t] = "answered"
    /\ confirm_event' = NoTurn
    /\ confirm_response' = <<>>
    /\ signalled' = signalled \ {t}
    /\ Goto(t, IF answer[t] = "void" THEN "done" ELSE "acting")
    /\ todo' = [todo EXCEPT ![t] = IF answer[t] = "void" THEN <<>> ELSE Tail(@)]
    /\ checks' = [checks EXCEPT ![t] = @ \/ answer[t] = "void"]
    /\ answer' = [answer EXCEPT ![t] = "none"]
    /\ heard' = [heard EXCEPT ![t] = {}]
    /\ UNCHANGED <<loop, current_cancel_event, cancelled, hasty>>

\* _request_exit, called by the handler of /exit.
RequestExit(t) ==
    /\ at[t] = "exiting"
    /\ exit_requested' = TRUE
    /\ SetCancelEvent
    /\ Goto(t, "exited")
    /\ UNCHANGED <<typed, queue, current_task, task_cancelled, main, confirm_event, signalled,
                   todo, checks, answer, heard, hasty>>

ExitRequested(t) ==
    /\ at[t] = "exited"
    /\ UnparkAndCancel
    /\ Goto(t, "done")
    /\ UNCHANGED <<typed, queue, current_task, exit_requested, main,
                   todo, checks, answer, heard, hasty>>

Confirm(t) == ResetResponse(t) \/ Publish(t) \/ PollCancel(t) \/ Wake(t) \/ Withdraw(t)

Exit(t) == RequestExit(t) \/ ExitRequested(t)

Work(t) ==
    \/ Think(t)
    \/ Finish(t) \/ RunAllowed(t) \/ Ask(t)
    \/ Confirm(t)
    \/ Exit(t)
-----------------------------------------------------------------------------
User == Submit \/ (\E a \in {"yes", "no"} : Answer(a)) \/ Interrupt \/ Quit

Prompt == Deliver \/ DeliveryFails \/ Interrupted \/ Leave

Next ==
    \/ User \/ Prompt \/ AppExits
    \/ StartTask \/ StartWorker \/ EndTask
    \/ \E t \in Turns : Work(t)

\* The event loop runs its callbacks in the order they became ready, so a task
\* is not put off for ever by a user who keeps pressing keys; a thread that does
\* not wait for a model, an action or the user is scheduled.  The user and Think
\* owe nothing.
Fairness ==
    /\ WF_vars(Prompt \/ AppExits)
    /\ SF_vars(EndTask)
    /\ \A t \in Turns : WF_vars(Confirm(t) \/ Exit(t))

Spec == Init /\ [][Next]_vars /\ Fairness
-----------------------------------------------------------------------------
\* Every variable has its type; the published event belongs to a worker that
\* asked, and only the worker of the active dispatch holds its cancel event.
TypeOK ==
    /\ typed \in 0 .. MaxTurns
    /\ queue \in Seq(Turns)
    /\ current_task \in Turns \cup {NoTurn}
    /\ task_cancelled \in BOOLEAN
    /\ current_cancel_event \in {NoTurn, current_task}
    /\ cancelled \subseteq Turns /\ signalled \subseteq Turns
    /\ confirm_event \in Turns \cup {NoTurn}
    /\ confirm_response \in Seq({"yes", "no"})
    /\ exit_requested \in BOOLEAN /\ hasty \in BOOLEAN
    /\ main \in {"prompt", "delivering", "cancelling", "leaving", "left"}
    /\ at \in [Turns -> {"none", "thinking", "acting", "input", "asking", "publishing",
                         "parked", "answered", "exiting", "exited", "done"}]
    /\ todo \in [Turns -> Seq({"allow", "ask"})]
    /\ checks \in [Turns -> BOOLEAN]
    /\ answer \in [Turns -> {"none", "yes", "no", "void"}]
    /\ heard \in [Turns -> SUBSET {"yes", "no"}]

\* loop.py:161-178 (DispatchCancelled): an action that asks goes ahead only on a yes
\* typed after it asked, whatever was interrupted, whoever else is parked.
AskedActionsAreAnswered ==
    \A t \in Turns : answer[t] = "yes" => "yes" \in heard[t]

\* loop.py:996-1005: as long as nobody interrupts or leaves, the answer typed
\* is the one the action gets: none is dropped and no turn gives up.  Answering
\* one question twice is left out: the second answer's event may be the next
\* question's.
FirstAnswerCounts ==
    (cancelled = {} /\ ~exit_requested /\ ~hasty) =>
        \A t \in Turns : answer[t] # "none" => heard[t] = {answer[t]}

\* An interrupted turn frees the processor for the next one, even if its worker
\* hangs in a model call.
InterruptFreesTheShell == (main = "cancelling") ~> (main # "cancelling" /\ current_task = NoTurn)

\* loop.py:552-553: a worker parked on a confirmation does not hang on Esc, as
\* long as the question is still its own and no worker of an earlier turn lives.
InterruptUnparks ==
    \A t \in Turns :
        (/\ current_task = t /\ at[t] = "parked" /\ confirm_event = t /\ main = "cancelling"
         /\ \A s \in Turns \ {t} : at[s] \in {"none", "done"}) ~> (at[t] # "parked")

\* loop.py:746-754: /exit dismisses the prompt without another key, and the
\* processor stops.
ExitDismissesThePrompt == exit_requested ~> (main = "left" /\ current_task = NoTurn)
=============================================================================
