--------------------------- MODULE ReplTurnsProofs ---------------------------
(***************************************************************************)
(* The confirmation of ReplTurns for any number of turns and any plans:    *)
(* what a worker takes for a yes was typed after it asked.                 *)
(***************************************************************************)
EXTENDS ReplTurns, SequenceTheorems, TLAPS

\* The answers in the list were typed while the worker was asking, whoever
\* owns the list.
ListIsHeard ==
    \A t \in Turns : Asking(t) =>
        \A i \in DOMAIN confirm_response : confirm_response[i] \in heard[t]

\* An answer is kept only until the finally of the confirmation.
AnswerIsCurrent == \A t \in Turns : answer[t] # "none" => at[t] = "answered"

\* The action a worker asks about is still the first of its plan.
PendingAction ==
    \A t \in Turns : at[t] \in {"asking", "publishing", "parked", "answered"} => todo[t] # <<>>

IInv == ListIsHeard /\ AnswerIsCurrent /\ AskedActionsAreAnswered /\ PendingAction

Verdicts == {"allow", "ask"}

\* What the assumption says of a plan.
LEMMA PlanIsTyped ==
    ASSUME NEW plan \in Plans
    PROVE  plan.verdicts \in Seq(Verdicts) /\ plan.polls \in BOOLEAN
BY ReplAssumption DEF Verdicts

\* A worker that goes on has one action less.
LEMMA TailIsTyped ==
    ASSUME NEW s \in Seq(Verdicts), s # <<>>
    PROVE  Tail(s) \in Seq(Verdicts)
BY HeadTailProperties

\* The two halves of cancel_current_dispatch set events that exist.
LEMMA CancelIsTyped ==
    ASSUME TypeOK
    PROVE  /\ SetCancelEvent => cancelled' \subseteq Turns
           /\ UnparkAndCancel => signalled' \subseteq Turns /\ task_cancelled' \in BOOLEAN
BY ReplAssumption DEF TypeOK, SetCancelEvent, UnparkAndCancel, Turns, NoTurn

\* Type correctness of the steps of the loop's thread.
LEMMA LoopKeepsType ==
    TypeOK /\ (User \/ Prompt \/ AppExits \/ StartTask \/ StartWorker \/ EndTask) => TypeOK'
<1> SUFFICES ASSUME TypeOK, User \/ Prompt \/ AppExits \/ StartTask \/ StartWorker \/ EndTask
             PROVE  TypeOK'
  OBVIOUS
<1> USE ReplAssumption DEF Turns, NoTurn
<1>1. CASE Submit
  <2>1. typed + 1 \in Turns /\ queue' \in Seq(Turns)
    BY <1>1 DEF Submit, TypeOK
  <2> QED
    BY <1>1, <2>1 DEF Submit, TypeOK, events, workers
<1>2. ASSUME NEW a \in {"yes", "no"}, Answer(a) PROVE TypeOK'
  <2>1. confirm_response' \in Seq({"yes", "no"})
    BY <1>2 DEF Answer, TypeOK
  <2>2. heard' \in [Turns -> SUBSET {"yes", "no"}]
    BY <1>2 DEF Answer, TypeOK
  <2> QED
    BY <1>2, <2>1, <2>2 DEF Answer, TypeOK
<1>3. CASE Interrupt
  BY <1>3, CancelIsTyped DEF Interrupt, SetCancelEvent, TypeOK, workers
<1>4. CASE Quit
  BY <1>4, CancelIsTyped DEF Quit, BeginLeaving, SetCancelEvent, TypeOK, workers
<1>5. CASE Deliver
  BY <1>5 DEF Deliver, TypeOK, workers
<1>6. CASE DeliveryFails
  BY <1>6, CancelIsTyped DEF DeliveryFails, BeginLeaving, SetCancelEvent, TypeOK, workers
<1>7. CASE Interrupted
  BY <1>7, CancelIsTyped DEF Interrupted, UnparkAndCancel, TypeOK, workers
<1>8. CASE Leave
  BY <1>8, CancelIsTyped DEF Leave, UnparkAndCancel, TypeOK, workers
<1>9. CASE AppExits
  BY <1>9, CancelIsTyped DEF AppExits, BeginLeaving, SetCancelEvent, TypeOK, workers
<1>10. CASE StartTask
  <2>1. Head(queue) \in Turns /\ Tail(queue) \in Seq(Turns)
    BY <1>10, HeadTailProperties DEF StartTask, TypeOK
  <2> QED
    BY <1>10, <2>1 DEF StartTask, TypeOK, events, workers
<1>11. CASE StartWorker
  BY <1>11 DEF StartWorker, Goto, TypeOK, loop
<1>12. CASE EndTask
  BY <1>12 DEF EndTask, Goto, TypeOK
<1> QED
  BY <1>1, <1>2, <1>3, <1>4, <1>5, <1>6, <1>7, <1>8, <1>9, <1>10, <1>11, <1>12
     DEF User, Prompt

\* Type correctness of a worker's steps.
LEMMA WorkKeepsType == ASSUME TypeOK, PendingAction, NEW t \in Turns, Work(t) PROVE TypeOK'
<1> USE DEF Verdicts
<1>1. CASE Think(t)
  <2>1. CASE Goto(t, "done") /\ UNCHANGED <<todo, checks>>
    BY <1>1, <2>1 DEF Think, Goto, TypeOK, loop, events
  <2>2. ASSUME NEW plan \in Plans,
               Goto(t, "acting"),
               todo' = [todo EXCEPT ![t] = plan.verdicts],
               checks' = [checks EXCEPT ![t] = plan.polls]
        PROVE  TypeOK'
    BY <1>1, <2>2, PlanIsTyped DEF Think, Goto, TypeOK, loop, events
  <2>3. CASE Goto(t, "input") /\ UNCHANGED <<todo, checks>>
    BY <1>1, <2>3 DEF Think, Goto, TypeOK, loop, events
  <2>4. CASE Goto(t, "exiting") /\ UNCHANGED <<todo, checks>>
    BY <1>1, <2>4 DEF Think, Goto, TypeOK, loop, events
  <2> QED
    BY <1>1, <2>1, <2>2, <2>3, <2>4 DEF Think
<1>2. CASE Finish(t)
  BY <1>2 DEF Finish, Goto, TypeOK, loop, events
<1>3. CASE RunAllowed(t)
  <2>1. Tail(todo[t]) \in Seq({"allow", "ask"})
    BY <1>3, TailIsTyped DEF RunAllowed, TypeOK
  <2> QED
    BY <1>3, <2>1 DEF RunAllowed, TypeOK, loop, events
<1>4. CASE Ask(t)
  BY <1>4 DEF Ask, Goto, TypeOK, loop, events
<1>5. CASE ResetResponse(t)
  BY <1>5 DEF ResetResponse, Goto, TypeOK, loop
<1>6. CASE Publish(t)
  BY <1>6 DEF Publish, Goto, TypeOK, loop
<1>7. CASE PollCancel(t)
  BY <1>7 DEF PollCancel, Reply, Goto, TypeOK, loop, events
<1>8. CASE Wake(t)
  <2>1. FirstResponse \in {"yes", "no", "void"}
    BY DEF FirstResponse, TypeOK
  <2> QED
    BY <1>8, <2>1 DEF Wake, Reply, Goto, TypeOK, loop, events
<1>9. CASE Withdraw(t)
  <2>1. Tail(todo[t]) \in Seq({"allow", "ask"})
    BY <1>9, TailIsTyped DEF Withdraw, PendingAction, TypeOK
  <2> QED
    BY <1>9, <2>1 DEF Withdraw, Goto, TypeOK, loop
<1>10. CASE RequestExit(t)
  BY <1>10, CancelIsTyped DEF RequestExit, SetCancelEvent, Goto, TypeOK
<1>11. CASE ExitRequested(t)
  BY <1>11, CancelIsTyped DEF ExitRequested, UnparkAndCancel, Goto, TypeOK
<1> QED
  BY <1>1, <1>2, <1>3, <1>4, <1>5, <1>6, <1>7, <1>8, <1>9, <1>10, <1>11 DEF Work, Confirm, Exit

\* The first state satisfies the inductive invariant.
LEMMA InitInvariant == Init => TypeOK /\ IInv
<1> SUFFICES ASSUME Init PROVE TypeOK /\ IInv
  OBVIOUS
<1> USE ReplAssumption DEF Init, Turns, NoTurn
<1>1. queue \in Seq(Turns) /\ confirm_response \in Seq({"yes", "no"})
  OBVIOUS
<1>2. todo \in [Turns -> Seq({"allow", "ask"})]
  <2>1. <<>> \in Seq({"allow", "ask"})
    OBVIOUS
  <2> QED
    BY <2>1
<1>3. TypeOK
  <2>1. /\ at \in [Turns -> {"none"}] /\ checks \in [Turns -> {TRUE}]
        /\ answer \in [Turns -> {"none"}] /\ heard \in [Turns -> {{}}]
    OBVIOUS
  <2>2. /\ typed \in 0 .. MaxTurns /\ current_task = 0 /\ current_cancel_event = 0
        /\ cancelled = {} /\ signalled = {} /\ confirm_event = 0
        /\ main = "prompt"
    OBVIOUS
  <2>3. task_cancelled \in BOOLEAN /\ exit_requested \in BOOLEAN /\ hasty \in BOOLEAN
    BY Zenon
  <2> HIDE DEF Init
  <2> QED
    BY <1>1, <1>2, <2>1, <2>2, <2>3 DEF TypeOK
<1>4. IInv
  BY DEF IInv, ListIsHeard, AnswerIsCurrent, AskedActionsAreAnswered, PendingAction, Asking
<1> QED
  BY <1>3, <1>4

\* The steps of the loop's thread: only an answer grows the list, and it is
\* heard by every worker that asks.
LEMMA LoopKeepsInvariant ==
    TypeOK /\ IInv /\ (User \/ Prompt \/ AppExits \/ StartTask \/ StartWorker \/ EndTask) => IInv'
<1> SUFFICES ASSUME TypeOK, IInv,
                    User \/ Prompt \/ AppExits \/ StartTask \/ StartWorker \/ EndTask
             PROVE  IInv'
  OBVIOUS
<1> USE DEF IInv, ListIsHeard, AnswerIsCurrent, AskedActionsAreAnswered, PendingAction, Asking
<1>1. ASSUME NEW a \in {"yes", "no"}, Answer(a) PROVE IInv'
  <2>1. \A t \in Turns : heard[t] \subseteq heard'[t]
    BY <1>1 DEF Answer, TypeOK
  <2>2. ListIsHeard'
    BY <1>1, <2>1 DEF Answer, TypeOK
  <2> QED
    BY <1>1, <2>1, <2>2 DEF Answer
<1>2. CASE StartWorker
  BY <1>2 DEF StartWorker, Goto, TypeOK, loop
<1>3. CASE EndTask
  BY <1>3 DEF EndTask, Goto, TypeOK
<1>4. CASE UNCHANGED <<workers, confirm_response>>
  BY <1>4 DEF workers
<1>5. (User \/ Prompt \/ AppExits \/ StartTask) /\ ~(\E a \in {"yes", "no"} : Answer(a))
          => UNCHANGED <<workers, confirm_response>>
  BY DEF User, Prompt, Submit, Interrupt, Quit, BeginLeaving, SetCancelEvent, Deliver,
         DeliveryFails, Interrupted, Leave, UnparkAndCancel, AppExits, StartTask, workers, events
<1> QED
  BY <1>1, <1>2, <1>3, <1>4, <1>5

\* The steps of a worker.
LEMMA WorkKeepsInvariant == ASSUME TypeOK, IInv, NEW t \in Turns, Work(t) PROVE IInv'
<1> USE DEF IInv, ListIsHeard, AnswerIsCurrent, AskedActionsAreAnswered, PendingAction, Asking
<1>1. CASE Think(t)
  BY <1>1 DEF Think, Goto, TypeOK, loop, events
<1>2. CASE Finish(t)
  BY <1>2 DEF Finish, Goto, TypeOK, loop, events
<1>3. CASE RunAllowed(t)
  BY <1>3 DEF RunAllowed, TypeOK, loop, events
<1>4. CASE Ask(t)
  BY <1>4 DEF Ask, Goto, TypeOK, loop, events
<1>5. CASE ResetResponse(t)
  <2>1. DOMAIN confirm_response' = {}
    BY <1>5 DEF ResetResponse
  <2> QED
    BY <1>5, <2>1 DEF ResetResponse, Goto, TypeOK, loop
<1>6. CASE Publish(t)
  BY <1>6 DEF Publish, Goto, TypeOK, loop
<1>7. CASE PollCancel(t)
  BY <1>7 DEF PollCancel, Reply, Goto, TypeOK, loop, events
<1>8. CASE Wake(t)
  <2>1. answer'[t] = "yes" => "yes" \in heard[t]
    BY <1>8 DEF Wake, Reply, FirstResponse, TypeOK
  <2> QED
    BY <1>8, <2>1 DEF Wake, Reply, Goto, TypeOK, loop, events
<1>9. CASE Withdraw(t)
  <2>1. DOMAIN confirm_response' = {}
    BY <1>9 DEF Withdraw
  <2> QED
    BY <1>9, <2>1 DEF Withdraw, Goto, TypeOK, loop
<1>10. CASE RequestExit(t)
  BY <1>10 DEF RequestExit, SetCancelEvent, Goto, TypeOK
<1>11. CASE ExitRequested(t)
  BY <1>11 DEF ExitRequested, UnparkAndCancel, Goto, TypeOK
<1> QED
  BY <1>1, <1>2, <1>3, <1>4, <1>5, <1>6, <1>7, <1>8, <1>9, <1>10, <1>11 DEF Work, Confirm, Exit

\* Every step keeps the invariant and the types together: the type of a plan
\* needs to know that a worker that asks has an action left.
LEMMA StepInvariant == TypeOK /\ IInv /\ [Next]_vars => TypeOK' /\ IInv'
<1> SUFFICES ASSUME TypeOK, IInv, [Next]_vars PROVE TypeOK' /\ IInv'
  OBVIOUS
<1>1. CASE User \/ Prompt \/ AppExits \/ StartTask \/ StartWorker \/ EndTask
  BY <1>1, LoopKeepsType, LoopKeepsInvariant
<1>2. ASSUME NEW t \in Turns, Work(t) PROVE TypeOK' /\ IInv'
  BY <1>2, WorkKeepsType, WorkKeepsInvariant DEF IInv
<1>3. CASE UNCHANGED vars
  BY <1>3 DEF vars, loop, events, workers, TypeOK, IInv, ListIsHeard, AnswerIsCurrent,
              AskedActionsAreAnswered, PendingAction, Asking
<1> QED
  BY <1>1, <1>2, <1>3 DEF Next

\* Type correctness: in particular only the worker of the active dispatch holds
\* its cancel event, so Esc never cancels a turn that is over (loop.py:546-557).
THEOREM TypeCorrect == Spec => []TypeOK
BY InitInvariant, StepInvariant, PTL DEF Spec

\* An action that asks goes ahead only on a yes typed after it asked, for any
\* number of turns, interrupts and workers parked at once (loop.py:161-178).
THEOREM AskedActionsAreAnsweredTheorem == Spec => []AskedActionsAreAnswered
<1>1. TypeOK /\ IInv => AskedActionsAreAnswered
  BY DEF IInv
<1> QED
  BY <1>1, InitInvariant, StepInvariant, PTL DEF Spec
-----------------------------------------------------------------------------
\* Nobody interrupted or left, and no question was answered twice.
Calm == cancelled = {} /\ ~exit_requested /\ ~hasty

\* Until then one worker lives at a time, the current task's.
SoleWorker ==
    \A t \in Turns : at[t] \notin {"none", "done"} =>
        /\ current_task = t /\ current_cancel_event = t /\ ~task_cancelled
        /\ main \in {"prompt", "delivering"}

\* The published event is the worker's that waits for it, or has just read it.
EventIsItsOwn ==
    /\ confirm_event # NoTurn => at[confirm_event] \in {"parked", "answered"}
    /\ \A t \in Turns : at[t] \in {"parked", "answered"} => confirm_event = t

\* List, event and what the user typed agree at each point of a confirmation.
ListIsTheAnswer ==
    /\ main = "delivering" =>
         /\ confirm_event # NoTurn
         /\ at[confirm_event] = "parked" /\ confirm_event \notin signalled
         /\ confirm_response # <<>>
    /\ \A t \in Turns :
         /\ at[t] = "publishing" => confirm_response = <<>> /\ heard[t] = {}
         /\ at[t] = "parked" =>
              \/ confirm_response = <<>> /\ heard[t] = {} /\ t \notin signalled
              \/ \E a \in {"yes", "no"} : confirm_response = <<a>> /\ heard[t] = {a}
         /\ at[t] = "answered" =>
              /\ main = "prompt"
              /\ \E a \in {"yes", "no"} :
                    confirm_response = <<a>> /\ heard[t] = {a} /\ answer[t] = a

LeavingExits ==
    /\ main \in {"leaving", "left"} => exit_requested
    /\ \A t \in Turns : at[t] = "exited" => exit_requested

Agreed == SoleWorker /\ EventIsItsOwn /\ ListIsTheAnswer

CalmInv == LeavingExits /\ (Calm => Agreed)

\* The steps of the loop's thread.
LEMMA LoopKeepsCalm ==
    ASSUME TypeOK, IInv, Agreed, Calm, LeavingExits, Calm',
           User \/ Prompt \/ AppExits \/ StartTask \/ StartWorker \/ EndTask
    PROVE  Agreed'
<1> USE ReplAssumption DEF Turns, NoTurn
<1>1. CASE Submit
  <2>1. UNCHANGED <<current_task, task_cancelled, main, events, workers>>
    BY <1>1 DEF Submit
  <2> QED
    BY <2>1 DEF events, workers, Agreed, SoleWorker, EventIsItsOwn, ListIsTheAnswer
<1>2. ASSUME NEW a \in {"yes", "no"}, Answer(a) PROVE Agreed'
  <2>1. /\ UNCHANGED <<current_task, task_cancelled, current_cancel_event, confirm_event,
                       signalled, at, answer>>
        /\ main = "prompt" /\ main' = "delivering" /\ confirm_event # NoTurn
        /\ confirm_response = <<>> /\ confirm_response' = <<a>>
    <3>1. confirm_response = <<>>
      <4>1. ~hasty' /\ hasty' = (hasty \/ confirm_response # <<>>)
        BY <1>2 DEF Answer, Calm
      <4> QED
        BY <4>1
    <3>2. confirm_response' = <<a>>
      BY <1>2, <3>1 DEF Answer
    <3> QED
      BY <1>2, <3>1, <3>2 DEF Answer
  <2>2. PICK t \in Turns : t = confirm_event
    BY <2>1 DEF TypeOK
  <2>3. /\ at[t] = "parked" /\ heard[t] = {} /\ t \notin signalled
        /\ current_task = t
    BY <2>1, <2>2 DEF Agreed, SoleWorker, EventIsItsOwn, ListIsTheAnswer
  <2>4. \A u \in Turns \ {t} : at[u] \in {"none", "done"}
    BY <2>3 DEF Agreed, SoleWorker
  <2>5. heard'[t] = {a}
    BY <1>2, <2>3 DEF Answer, Asking
  <2>6. SoleWorker' /\ EventIsItsOwn'
    BY <2>1 DEF Agreed, SoleWorker, EventIsItsOwn
  <2>7. ListIsTheAnswer'
    BY <2>1, <2>2, <2>3, <2>4, <2>5 DEF ListIsTheAnswer
  <2> QED
    BY <2>6, <2>7 DEF Agreed
<1>3. CASE Interrupt \/ Interrupted
  <2>1. \A t \in Turns : at[t] \in {"none", "done"}
    <3>1. CASE Interrupt
      <4>1. current_cancel_event = NoTurn
        BY <3>1 DEF Interrupt, SetCancelEvent, Calm
      <4> QED
        BY <4>1 DEF Agreed, SoleWorker
    <3>2. CASE Interrupted
      BY <3>2 DEF Interrupted, Agreed, SoleWorker
    <3> QED
      BY <1>3, <3>1, <3>2
  <2>2. confirm_event = NoTurn
    BY <2>1 DEF Agreed, EventIsItsOwn, TypeOK
  <2>3. confirm_event' = confirm_event /\ at' = at /\ main' # "delivering"
    BY <1>3 DEF Interrupt, Interrupted, UnparkAndCancel, SetCancelEvent, workers
  <2> QED
    BY <2>1, <2>2, <2>3 DEF Agreed, SoleWorker, EventIsItsOwn, ListIsTheAnswer
<1>4. CASE Deliver
  <2>1. /\ UNCHANGED <<current_task, task_cancelled, current_cancel_event, confirm_event,
                       confirm_response, at, answer, heard>>
        /\ main = "delivering" /\ main' = "prompt"
        /\ signalled' = signalled \cup {confirm_event}
    BY <1>4 DEF Deliver, workers
  <2>2. /\ confirm_event # NoTurn /\ at[confirm_event] = "parked" /\ confirm_response # <<>>
    BY <2>1 DEF Agreed, ListIsTheAnswer
  <2>3. SoleWorker' /\ EventIsItsOwn'
    BY <2>1 DEF Agreed, SoleWorker, EventIsItsOwn
  <2>4. ListIsTheAnswer'
    BY <2>1, <2>2 DEF Agreed, ListIsTheAnswer
  <2> QED
    BY <2>3, <2>4 DEF Agreed
<1>5. CASE Quit \/ DeliveryFails \/ AppExits \/ Leave
  BY <1>5 DEF Quit, DeliveryFails, AppExits, BeginLeaving, Leave, LeavingExits, Calm
<1>6. CASE StartTask \/ EndTask
  <2>1. /\ UNCHANGED <<main, confirm_event, signalled, confirm_response, answer, heard>>
        /\ current_task = NoTurn \/ at[current_task] \in {"none", "done"}
        /\ \A t \in Turns : at'[t] = at[t] \/ (at'[t] = "done" /\ at[t] = "none")
    <3>1. CASE StartTask
      <4>1. /\ UNCHANGED <<main, confirm_event, signalled, confirm_response, answer, heard, at>>
            /\ current_task = NoTurn
        BY <3>1 DEF StartTask, events, workers
      <4> QED
        BY <4>1
    <3>2. CASE EndTask
      <4>1. current_task \in Turns /\ ~(at[current_task] \notin {"none", "done"})
        BY <3>2 DEF EndTask, TypeOK, Agreed, SoleWorker
      <4>2. at' = at \/ (at[current_task] = "none" /\ at' = [at EXCEPT ![current_task] = "done"])
        BY <3>2 DEF EndTask, Goto
      <4>3. \A t \in Turns : at'[t] = at[t] \/ (at'[t] = "done" /\ at[t] = "none")
        <5> SUFFICES ASSUME NEW t \in Turns
                     PROVE  at'[t] = at[t] \/ (at'[t] = "done" /\ at[t] = "none")
          OBVIOUS
        <5> HIDE DEF Turns
        <5>1. DOMAIN at = Turns
          BY DEF TypeOK
        <5> QED
          BY <4>1, <4>2, <5>1
      <4>4. UNCHANGED <<main, confirm_event, signalled, confirm_response, answer, heard>>
        BY <3>2 DEF EndTask
      <4> QED
        BY <4>1, <4>3, <4>4
    <3> QED
      BY <1>6, <3>1, <3>2
  <2>2. \A t \in Turns : at[t] \in {"none", "done"} /\ at'[t] \in {"none", "done"}
    BY <2>1 DEF Agreed, SoleWorker
  <2>3. confirm_event = NoTurn /\ main # "delivering"
    BY <2>2 DEF Agreed, EventIsItsOwn, ListIsTheAnswer, TypeOK
  <2> QED
    BY <2>1, <2>2, <2>3 DEF Agreed, SoleWorker, EventIsItsOwn, ListIsTheAnswer
<1>7. CASE StartWorker
  <2>1. /\ UNCHANGED <<current_task, task_cancelled, main, confirm_event, signalled,
                       confirm_response, answer, heard>>
        /\ current_task # NoTurn /\ at[current_task] = "none" /\ ~task_cancelled
        /\ current_cancel_event' = current_task
        /\ at' = [at EXCEPT ![current_task] = "thinking"]
        /\ main = "prompt"
    BY <1>7 DEF StartWorker, Goto, loop, LoopIsFree, LeavingExits, Calm
  <2>2. \A t \in Turns : at[t] \in {"none", "done"}
    BY <2>1 DEF Agreed, SoleWorker
  <2>3. confirm_event = NoTurn
    BY <2>2 DEF Agreed, EventIsItsOwn, TypeOK
  <2>4. \A t \in Turns : at'[t] \in {"none", "done", "thinking"}
                         /\ (at'[t] = "thinking" => t = current_task)
    BY <2>1, <2>2 DEF TypeOK
  <2> QED
    BY <2>1, <2>3, <2>4 DEF Agreed, SoleWorker, EventIsItsOwn, ListIsTheAnswer
<1> QED
  BY <1>1, <1>2, <1>3, <1>4, <1>5, <1>6, <1>7 DEF User, Prompt

\* The steps of a worker.
LEMMA WorkKeepsCalm ==
    ASSUME TypeOK, IInv, Agreed, Calm, LeavingExits, Calm', NEW t \in Turns, Work(t)
    PROVE  Agreed'
<1> USE ReplAssumption DEF Turns, NoTurn
<1>1. /\ current_task = t /\ current_cancel_event = t /\ ~task_cancelled
      /\ main \in {"prompt", "delivering"}
      /\ \A u \in Turns \ {t} : at[u] \in {"none", "done"}
  BY DEF Work, Think, Finish, RunAllowed, Ask, Confirm, ResetResponse, Publish, PollCancel,
         Wake, Withdraw, Exit, RequestExit, ExitRequested, Agreed, SoleWorker
<1>2. \A u \in Turns \ {t} : at'[u] = at[u]
  BY DEF Work, Think, Finish, RunAllowed, Ask, Confirm, ResetResponse, Publish, PollCancel,
         Wake, Withdraw, Exit, RequestExit, ExitRequested, Reply, Goto, TypeOK
<1>3. CASE UNCHANGED <<loop, events>> /\ heard' = heard
           /\ at[t] \notin {"parked", "answered"}
           /\ at'[t] \notin {"publishing", "parked", "answered"}
  <2>1. confirm_event = NoTurn /\ main = "prompt"
    BY <1>1, <1>3 DEF Agreed, EventIsItsOwn, ListIsTheAnswer, TypeOK
  <2> QED
    BY <1>1, <1>2, <1>3, <2>1
       DEF loop, events, Agreed, SoleWorker, EventIsItsOwn, ListIsTheAnswer
<1>4. CASE Think(t) \/ Finish(t) \/ RunAllowed(t) \/ Ask(t)
  <2>1. UNCHANGED <<loop, events>> /\ heard' = heard /\ at[t] \in {"thinking", "acting"}
    BY <1>4 DEF Think, Finish, RunAllowed, Ask
  <2>2. at'[t] \in {"done", "acting", "input", "exiting", "asking"}
    BY <1>4 DEF Think, Finish, RunAllowed, Ask, Goto, TypeOK
  <2> QED
    BY <1>3, <2>1, <2>2
<1>5. CASE ResetResponse(t)
  <2>1. /\ UNCHANGED <<loop, current_cancel_event, confirm_event, signalled>>
        /\ at[t] = "asking" /\ at'[t] = "publishing" /\ confirm_response' = <<>>
        /\ heard'[t] = {}
    BY <1>5 DEF ResetResponse, Goto, TypeOK
  <2>2. confirm_event = NoTurn /\ main = "prompt"
    BY <1>1, <2>1 DEF Agreed, EventIsItsOwn, ListIsTheAnswer, TypeOK
  <2> QED
    BY <1>1, <1>2, <2>1, <2>2 DEF loop, Agreed, SoleWorker, EventIsItsOwn, ListIsTheAnswer
<1>6. CASE Publish(t)
  <2>1. /\ UNCHANGED <<loop, current_cancel_event, confirm_response, heard>>
        /\ at[t] = "publishing" /\ at'[t] = "parked" /\ confirm_event' = t
        /\ signalled' = signalled \ {t}
    BY <1>6 DEF Publish, Goto, TypeOK
  <2>2. confirm_event = NoTurn /\ main = "prompt" /\ confirm_response = <<>> /\ heard[t] = {}
    BY <1>1, <2>1 DEF Agreed, EventIsItsOwn, ListIsTheAnswer, TypeOK
  <2> QED
    BY <1>1, <1>2, <2>1, <2>2 DEF loop, Agreed, SoleWorker, EventIsItsOwn, ListIsTheAnswer
<1>7. CASE PollCancel(t)
  BY <1>1, <1>7 DEF PollCancel, Calm
<1>8. CASE Wake(t)
  <2>1. /\ UNCHANGED <<loop, current_cancel_event, confirm_event, signalled,
                       confirm_response, heard>>
        /\ at[t] = "parked" /\ at'[t] = "answered" /\ t \in signalled
        /\ answer'[t] = FirstResponse
    BY <1>8 DEF Wake, Reply, Goto, events, TypeOK
  <2>2. PICK a \in {"yes", "no"} : confirm_response = <<a>> /\ heard[t] = {a}
    BY <2>1 DEF Agreed, ListIsTheAnswer
  <2>3. answer'[t] = a
    BY <2>1, <2>2 DEF FirstResponse
  <2>4. confirm_event = t /\ main = "prompt"
    BY <1>1, <2>1 DEF Agreed, EventIsItsOwn, ListIsTheAnswer
  <2> QED
    BY <1>1, <1>2, <2>1, <2>2, <2>3, <2>4
       DEF loop, Agreed, SoleWorker, EventIsItsOwn, ListIsTheAnswer
<1>9. CASE Withdraw(t)
  <2>1. /\ loop' = loop /\ current_cancel_event' = current_cancel_event
        /\ at[t] = "answered" /\ at'[t] \in {"done", "acting"} /\ confirm_event' = NoTurn
    BY <1>9 DEF Withdraw, Goto, TypeOK
  <2>2. main = "prompt"
    BY <2>1 DEF Agreed, ListIsTheAnswer
  <2> QED
    BY <1>1, <1>2, <2>1, <2>2 DEF loop, Agreed, SoleWorker, EventIsItsOwn, ListIsTheAnswer
<1>10. CASE Exit(t)
  <2>1. CASE RequestExit(t)
    BY <2>1 DEF RequestExit, Calm
  <2>2. CASE ExitRequested(t)
    BY <2>2 DEF ExitRequested, LeavingExits, Calm
  <2> QED
    BY <1>10, <2>1, <2>2 DEF Exit
<1> QED
  BY <1>4, <1>5, <1>6, <1>7, <1>8, <1>9, <1>10 DEF Work, Confirm

\* What counts as calm only ends, and leaving is remembered.
LEMMA CalmEnds ==
    ASSUME TypeOK, LeavingExits, [Next]_vars
    PROVE  (Calm' => Calm) /\ LeavingExits'
<1>1. CASE User \/ Prompt \/ AppExits \/ StartTask \/ StartWorker \/ EndTask
  <2>1. /\ cancelled \subseteq cancelled' /\ (exit_requested => exit_requested')
        /\ (hasty => hasty')
    <3>1. cancelled \subseteq cancelled'
      BY <1>1 DEF User, Prompt, Submit, Answer, Interrupt, Quit, BeginLeaving, SetCancelEvent,
             Deliver, DeliveryFails, Interrupted, Leave, UnparkAndCancel, AppExits, StartTask,
             StartWorker, EndTask, events
    <3>2. exit_requested' = exit_requested \/ exit_requested' = TRUE
      BY <1>1, Zenon DEF User, Prompt, Submit, Answer, Interrupt, Quit, BeginLeaving,
             SetCancelEvent, Deliver, DeliveryFails, Interrupted, Leave, UnparkAndCancel,
             AppExits, StartTask, StartWorker, EndTask, loop
    <3>3. hasty' = hasty \/ hasty' = (hasty \/ confirm_response # <<>>)
      BY <1>1, Zenon DEF User, Prompt, Submit, Answer, Interrupt, Quit, BeginLeaving,
             SetCancelEvent, Deliver, DeliveryFails, Interrupted, Leave, UnparkAndCancel,
             AppExits, StartTask, StartWorker, EndTask
    <3>4. exit_requested => exit_requested'
      BY <3>2, Zenon
    <3>5. hasty => hasty'
      BY <3>3, Zenon
    <3> QED
      BY <3>1, <3>4, <3>5
  <2>2. main' = main \/ main' \in {"prompt", "delivering", "cancelling"} \/ exit_requested'
    BY <1>1 DEF User, Prompt, Submit, Answer, Interrupt, Quit, BeginLeaving, SetCancelEvent,
           Deliver, DeliveryFails, Interrupted, Leave, UnparkAndCancel, AppExits, StartTask,
           StartWorker, EndTask, loop, LeavingExits
  <2>3. \A t \in Turns : at'[t] = "exited" => at[t] = "exited"
    BY <1>1 DEF User, Prompt, Submit, Answer, Interrupt, Quit, BeginLeaving, SetCancelEvent,
           Deliver, DeliveryFails, Interrupted, Leave, UnparkAndCancel, AppExits, StartTask,
           StartWorker, EndTask, Goto, workers, TypeOK
  <2> QED
    BY <2>1, <2>2, <2>3 DEF Calm, LeavingExits
<1>2. ASSUME NEW t \in Turns, Work(t) PROVE (Calm' => Calm) /\ LeavingExits'
  <2>1. CASE RequestExit(t)
    BY <2>1 DEF RequestExit, SetCancelEvent, Calm, LeavingExits
  <2>2. CASE ~RequestExit(t)
    <3>1. UNCHANGED <<main, exit_requested, cancelled, hasty>>
      BY <1>2, <2>2 DEF Work, Think, Finish, RunAllowed, Ask, Confirm, ResetResponse, Publish,
             PollCancel, Wake, Withdraw, Reply, Exit, ExitRequested, UnparkAndCancel, loop,
             events
    <3>2. \A u \in Turns : at'[u] = "exited" => at[u] = "exited"
      BY <1>2, <2>2 DEF Work, Think, Finish, RunAllowed, Ask, Confirm, ResetResponse, Publish,
             PollCancel, Wake, Withdraw, Reply, Exit, ExitRequested, Goto, TypeOK
    <3> QED
      BY <3>1, <3>2 DEF Calm, LeavingExits
  <2> QED
    BY <2>1, <2>2
<1>3. CASE UNCHANGED vars
  BY <1>3 DEF vars, loop, events, workers, Calm, LeavingExits
<1> QED
  BY <1>1, <1>2, <1>3 DEF Next

\* The answer typed is the answer the action gets, for any number of turns and
\* any plans (loop.py:996-1005).
THEOREM FirstAnswerCountsTheorem == Spec => []FirstAnswerCounts
<1>1. Init => CalmInv
  BY DEF Init, CalmInv, LeavingExits, Agreed, SoleWorker, EventIsItsOwn, ListIsTheAnswer, NoTurn
<1>2. TypeOK /\ IInv /\ CalmInv /\ [Next]_vars => CalmInv'
  <2> SUFFICES ASSUME TypeOK, IInv, CalmInv, [Next]_vars PROVE CalmInv'
    OBVIOUS
  <2>1. (Calm' => Calm) /\ LeavingExits'
    BY CalmEnds DEF CalmInv
  <2> SUFFICES ASSUME Calm, Calm', Agreed PROVE Agreed'
    BY <2>1 DEF CalmInv
  <2>2. CASE User \/ Prompt \/ AppExits \/ StartTask \/ StartWorker \/ EndTask
    BY <2>2, LoopKeepsCalm DEF CalmInv
  <2>3. ASSUME NEW t \in Turns, Work(t) PROVE Agreed'
    BY <2>3, WorkKeepsCalm DEF CalmInv
  <2>4. CASE UNCHANGED vars
    BY <2>4 DEF vars, loop, events, workers, Agreed, SoleWorker, EventIsItsOwn, ListIsTheAnswer
  <2> QED
    BY <2>2, <2>3, <2>4 DEF Next
<1>3. IInv /\ CalmInv => FirstAnswerCounts
  BY DEF IInv, AnswerIsCurrent, CalmInv, Calm, Agreed, ListIsTheAnswer, FirstAnswerCounts
<1> QED
  BY <1>1, <1>2, <1>3, InitInvariant, StepInvariant, PTL DEF Spec
=============================================================================
