----------------------- MODULE InvestigationLoopProofs -----------------------
(***************************************************************************)
(* Theorems about InvestigationLoop for every set of tools, budget and     *)
(* loop limit.  The inductive invariant IInv relates the plan, the results *)
(* in flight and the audit trail: it is what keeps a blocked action from   *)
(* running again and, with it, the window from widening twice.             *)
(***************************************************************************)
EXTENDS InvestigationLoop, FiniteSetTheorems, TLAPS

InRound == {"investigate_hypothesis", "merge_hypothesis_results"}

ResultActions == {r.action : r \in hypothesis_results}

\* The exhausted actions of a record are those its failures exhaust.
ExhaustionRecorded ==
  \A i \in DOMAIN executed_hypotheses :
    executed_hypotheses[i].exhausted_actions
      = ExhaustedActionNames(executed_hypotheses[i].failed_actions)

\* The actions of the current round are partitioned into those still running
\* and those with a result; outside a round there are neither.
RoundAccounted ==
  /\ pc \in InRound => sends \cup ResultActions = planned_actions
  /\ pc # "investigate_hypothesis" => sends = {}
  /\ pc \notin InRound \cup {"raised"} => hypothesis_results = {}

\* The current plan is fresh, and empty only when nothing was on offer.
PlanFresh ==
  /\ pc \in InRound => planned_actions \cap Blocked = {}
  /\ pc \in InRound \cup {"diagnose"} =>
       (planned_actions = {} <=> available_action_names = {})

\* After the merge the last record is the one of the current plan.
LastRecordIsCurrent ==
  \/ pc = "adapt_window"
  \/ pc = "diagnose" /\ planned_actions # {}
  => Rounds > 0 /\ RanIn(executed_hypotheses[Rounds]) = planned_actions

\* A widened window had its deploy-timeline success in a round before the one
\* that adapt_window would look at.
WideningRecorded ==
  incident_window_history # <<>> =>
    /\ Len(incident_window_history) = 1
    /\ \E i \in 1..Rounds :
         /\ GetGitDeployTimeline \in executed_hypotheses[i].actions
         /\ pc = "adapt_window" \/ (pc = "diagnose" /\ planned_actions # {}) => i < Rounds

\* Each loop-back is counted, and each round runs under the count of the
\* loop-backs before it.
LoopsCounted ==
  /\ pc \in InRound \cup {"plan_actions", "adapt_window", "diagnose"} =>
       investigation_loop_count <= MaxInvestigationLoops
  /\ pc \in InRound \cup {"plan_actions", "adapt_window"} => Rounds <= investigation_loop_count
  /\ pc = "diagnose" => Rounds <= investigation_loop_count + 1
  /\ pc \in {"inject_auth", "extract_alert", "agent_incident", "resolve_integrations"} =>
       Rounds = 0 /\ investigation_loop_count = 0
  /\ Rounds <= MaxInvestigationLoops + 1
  /\ investigation_loop_count <= MaxInvestigationLoops + 1

\* Five supersteps per loop-back, whatever the round planned.
SuperstepsCounted ==
  /\ pc = "inject_auth" => superstep = 0
  /\ pc \in {"extract_alert", "agent_incident"} => superstep <= 1
  /\ pc = "resolve_integrations" => superstep <= 2
  /\ pc = "plan_actions" => superstep <= 3 + 5 * investigation_loop_count
  /\ pc = "investigate_hypothesis" => superstep <= 4 + 5 * investigation_loop_count
  /\ pc = "merge_hypothesis_results" => superstep <= 5 + 5 * investigation_loop_count
  /\ pc = "diagnose" => superstep <= 6 + 5 * investigation_loop_count
  /\ pc = "adapt_window" => superstep <= 2 + 5 * investigation_loop_count
  /\ pc = "opensre_eval" => superstep <= 7 + 5 * MaxInvestigationLoops
  /\ pc = "publish" => superstep <= 8 + 5 * MaxInvestigationLoops
  /\ superstep <= 9 + 5 * MaxInvestigationLoops

IInv ==
  /\ TypeOK
  /\ ExhaustionRecorded
  /\ RoundAccounted
  /\ PlanFresh
  /\ LastRecordIsCurrent
  /\ NoActionRunsAfterBlocked
  /\ WideningRecorded
  /\ LoopsCounted
  /\ SuperstepsCounted

Entry == {"inject_auth", "extract_alert", "agent_incident", "resolve_integrations"}

\* What is on offer could be used when it was planned and still can; before the
\* first plan nothing is offered or recommended.
OffersAreUsable ==
  /\ pc \in Entry => available_action_names = {} /\ investigation_recommendations = "none"
  /\ \A a \in available_action_names : Usable(a)

\* A log query that succeeded left telemetry behind.
LogsLeaveTelemetry ==
  /\ \A r \in hypothesis_results :
       r.action = QueryGrafanaLogs /\ r.outcome = "success" => "telemetry" \in r.data
  /\ \A i \in 1..Rounds :
       QueryGrafanaLogs \in executed_hypotheses[i].actions => "telemetry" \in evidence

FailsIn(a, i) == \E f \in executed_hypotheses[i].failed_actions : f.action = a

\* The only round among the first n in which an action failed is i.
FailsOnlyIn(a, i, n) ==
  i \in 1..n /\ \A j \in 1..n : FailsIn(a, j) <=> j = i

\* A failure is the first of its action, or the second.
FailuresCounted ==
  \A i \in 1..Rounds : \A f \in executed_hypotheses[i].failed_actions :
    \/ f.failure_count = 1 /\ \A j \in 1..(i - 1) : ~FailsIn(f.action, j)
    \/ f.failure_count = 2 /\ \E j \in 1..(i - 1) : FailsOnlyIn(f.action, j, i - 1)

\* What the diagnosis may rely on when it reads offers, evidence and failures.
Recorded ==
  /\ OffersAreUsable
  /\ LogsLeaveTelemetry
  /\ FailuresCounted
  /\ GrafanaLoopIsNotWasted
  /\ TelemetryLoopHasWork

-----------------------------------------------------------------------------
(* Lemmas about planning and about the record a merge appends *)

\* An action that is still on offer has failed at most once, so the count
\* _failure_count_for_action computes for it is 0 or 1.
LEMMA OpenFailureCount ==
  ASSUME TypeOK, ExhaustionRecorded, NEW a \in Actions, a \notin Blocked
  PROVE  FailureCount(a) \in {0, 1}
  <1>1. FailureCounts(a) \subseteq {0, 1}
    <2> SUFFICES ASSUME NEW i \in DOMAIN executed_hypotheses,
                        NEW f \in executed_hypotheses[i].failed_actions, f.action = a
                 PROVE  f.failure_count \in {0, 1}
      BY DEF FailureCounts
    <2>1. f \in FailedActions
      <3>1. executed_hypotheses[i] \in Hypotheses
        BY DEF TypeOK
      <3> QED
        BY <3>1 DEF Hypotheses
    <2>2. f.action \notin executed_hypotheses[i].exhausted_actions
      BY DEF Blocked, BlockedBy
    <2>3. f.failure_count < 2
      BY <2>1, <2>2 DEF ExhaustionRecorded, ExhaustedActionNames, FailedActions,
                        MAX_RETRYABLE_ACTION_FAILURES
    <2> QED
      BY <2>1, <2>3 DEF FailedActions
  <1>2. 0 \in FailureCounts(a)
    BY DEF FailureCounts
  <1>3. \E n \in FailureCounts(a) : \A m \in FailureCounts(a) : m <= n
    <2>1. CASE 1 \in FailureCounts(a)
      BY <1>1, <2>1
    <2>2. CASE 1 \notin FailureCounts(a)
      BY <1>1, <1>2, <2>2
    <2> QED
      BY <2>1, <2>2
  <1> QED
    BY <1>1, <1>3 DEF FailureCount

\* The record of a round names exactly the actions that returned a result.
LEMMA TrackedIsResults ==
  ASSUME TypeOK
  PROVE  RanIn(TrackedHypothesis) = ResultActions
  <1>1. SuccessfulActions \subseteq ResultActions
    BY DEF SuccessfulActions, ResultActions
  <1>2. \A f \in FailedActionRecords : f.action \in ResultActions
    BY DEF FailedActionRecords, ResultActions
  <1>3. \A r \in hypothesis_results :
          \/ r.action \in SuccessfulActions
          \/ \E f \in FailedActionRecords : f.action = r.action
    <2> SUFFICES ASSUME NEW r \in hypothesis_results, r.outcome # "success"
                 PROVE  \E f \in FailedActionRecords : f.action = r.action
      BY DEF SuccessfulActions
    <2> DEFINE record == [action |-> r.action, failure_kind |-> r.outcome,
                          failure_count |-> FailureCount(r.action) + 1]
    <2>1. record \in FailedActionRecords
      BY DEF FailedActionRecords
    <2>2. record.action = r.action
      OBVIOUS
    <2> QED
      BY <2>1, <2>2
  <1> QED
    BY <1>1, <1>2, <1>3 DEF RanIn, TrackedHypothesis, ResultActions

\* The record of a round of open actions is well formed.
LEMMA TrackedType ==
  ASSUME TypeOK, ExhaustionRecorded, ResultActions \cap Blocked = {}
  PROVE  /\ TrackedHypothesis \in Hypotheses
         /\ TrackedHypothesis.exhausted_actions
              = ExhaustedActionNames(TrackedHypothesis.failed_actions)
  <1>1. \A r \in hypothesis_results :
          /\ r.action \in Actions
          /\ r.outcome \in Outcomes
          /\ FailureCount(r.action) \in {0, 1}
    BY OpenFailureCount DEF TypeOK, Results, ResultActions
  <1>2. FailedActionRecords \subseteq FailedActions
    BY <1>1 DEF FailedActionRecords, FailedActions, Outcomes
  <1>3. ExhaustedActionNames(FailedActionRecords) \subseteq Actions
    BY <1>2 DEF ExhaustedActionNames, FailedActions
  <1>4. SuccessfulActions \subseteq Actions
    BY <1>1 DEF SuccessfulActions
  <1> QED
    BY <1>2, <1>3, <1>4 DEF TrackedHypothesis, Hypotheses

\* Planning offers and plans only open tools of the registry.
LEMMA PlansAreOpen ==
  ASSUME NEW offer \in Offers
  PROVE  /\ offer \subseteq Actions
         /\ \A plan \in Plans(offer) :
              plan # {} /\ plan \subseteq Actions /\ plan \cap Blocked = {}
  <1>1. offer \subseteq Candidates
    BY DEF Offers
  <1>2. Candidates \subseteq Actions /\ Candidates \cap Blocked = {}
    BY DEF Candidates
  <1> QED
    BY <1>1, <1>2 DEF Plans

-----------------------------------------------------------------------------
(* The inductive invariant *)

LEMMA InitInv == Init => IInv
  <1> SUFFICES ASSUME Init PROVE IInv
    OBVIOUS
  <1>1. TypeOK
    BY LookbackAssumption
       DEF Init, TypeOK, Nodes, Recommendations, Alerts
  <1> QED
    BY <1>1, LoopAssumption
       DEF Init, IInv, ExhaustionRecorded, RoundAccounted, PlanFresh, LastRecordIsCurrent,
           NoActionRunsAfterBlocked, WideningRecorded, LoopsCounted, SuperstepsCounted,
           InRound, ResultActions, Rounds

LEMMA NextInv == IInv /\ [Next]_vars => IInv'
  <1> SUFFICES ASSUME IInv, [Next]_vars PROVE IInv'
    OBVIOUS
  <1> USE DEF InRound
  <1>1. ASSUME NEW node \in {"extract_alert", "plan_actions", "diagnose"}, Raise(node)
        PROVE  IInv'
    <2>1. TypeOK'
      BY <1>1 DEF IInv, TypeOK, Raise, inputVars, planVars, trailVars, diagnosisVars,
                  windowVars, Terminal
    <2>2. (ExhaustionRecorded /\ RoundAccounted /\ PlanFresh /\ LastRecordIsCurrent)'
      BY <1>1 DEF IInv, Raise, planVars, trailVars, ExhaustionRecorded, RoundAccounted,
                  PlanFresh, LastRecordIsCurrent, ResultActions
    <2>3. (NoActionRunsAfterBlocked /\ WideningRecorded /\ LoopsCounted /\ SuperstepsCounted)'
      BY <1>1 DEF IInv, Raise, trailVars, diagnosisVars, windowVars,
                  NoActionRunsAfterBlocked, WideningRecorded, LoopsCounted,
                  SuperstepsCounted, Rounds
    <2> QED
      BY <2>1, <2>2, <2>3 DEF IInv
  <1>2. ASSUME InjectAuth PROVE IInv'
    <2>1. TypeOK'
      BY <1>2 DEF IInv, TypeOK, InjectAuth, Tick, inputVars, planVars, trailVars,
                  diagnosisVars, windowVars, Nodes, Terminal
    <2>2. (ExhaustionRecorded /\ RoundAccounted /\ PlanFresh /\ LastRecordIsCurrent)'
      BY <1>2 DEF IInv, InjectAuth, planVars, trailVars, ExhaustionRecorded, RoundAccounted,
                  PlanFresh, LastRecordIsCurrent, ResultActions
    <2>3. (NoActionRunsAfterBlocked /\ WideningRecorded /\ LoopsCounted)'
      BY <1>2 DEF IInv, InjectAuth, trailVars, diagnosisVars, windowVars,
                  NoActionRunsAfterBlocked, WideningRecorded, LoopsCounted, Rounds
    <2>4. SuperstepsCounted'
      BY <1>2, LoopAssumption
         DEF IInv, TypeOK, InjectAuth, Tick, diagnosisVars, SuperstepsCounted
    <2> QED
      BY <2>1, <2>2, <2>3, <2>4 DEF IInv
  <1>3. ASSUME NEW is_noise \in BOOLEAN, ExtractAlert(is_noise) PROVE IInv'
    <2>1. TypeOK'
      BY <1>3 DEF IInv, TypeOK, ExtractAlert, Tick, planVars, trailVars, diagnosisVars,
                  windowVars, Nodes, Terminal, Alerts
    <2>2. (ExhaustionRecorded /\ RoundAccounted /\ PlanFresh /\ LastRecordIsCurrent)'
      BY <1>3 DEF IInv, ExtractAlert, planVars, trailVars, ExhaustionRecorded, RoundAccounted,
                  PlanFresh, LastRecordIsCurrent, ResultActions
    <2>3. (NoActionRunsAfterBlocked /\ WideningRecorded /\ LoopsCounted)'
      BY <1>3 DEF IInv, ExtractAlert, trailVars, diagnosisVars, windowVars,
                  NoActionRunsAfterBlocked, WideningRecorded, LoopsCounted, Rounds
    <2>4. SuperstepsCounted'
      BY <1>3, LoopAssumption
         DEF IInv, TypeOK, ExtractAlert, Tick, diagnosisVars, SuperstepsCounted
    <2> QED
      BY <2>1, <2>2, <2>3, <2>4 DEF IInv
  <1>4. ASSUME NEW connected \in SUBSET Actions, ResolveIntegrations(connected) PROVE IInv'
    <2>1. TypeOK'
      BY <1>4 DEF IInv, TypeOK, ResolveIntegrations, Tick, planVars, trailVars,
                  diagnosisVars, windowVars, Nodes
    <2>2. (ExhaustionRecorded /\ RoundAccounted /\ PlanFresh /\ LastRecordIsCurrent)'
      BY <1>4 DEF IInv, ResolveIntegrations, planVars, trailVars, ExhaustionRecorded,
                  RoundAccounted, PlanFresh, LastRecordIsCurrent, ResultActions
    <2>3. (NoActionRunsAfterBlocked /\ WideningRecorded)'
      BY <1>4 DEF IInv, ResolveIntegrations, trailVars, windowVars,
                  NoActionRunsAfterBlocked, WideningRecorded, Rounds
    <2>4. (LoopsCounted /\ SuperstepsCounted)'
      BY <1>4, LoopAssumption
         DEF IInv, TypeOK, ResolveIntegrations, Tick, trailVars, diagnosisVars, LoopsCounted,
             SuperstepsCounted, Rounds
    <2> QED
      BY <2>1, <2>2, <2>3, <2>4 DEF IInv
  <1>5. ASSUME PlanActions PROVE IInv'
    <2>0. PICK offer \in Offers :
            /\ available_action_names' = offer
            /\ IF offer = {}
               THEN /\ planned_actions' = {}
                    /\ investigation_recommendations' \in {"none", investigation_recommendations}
               ELSE /\ planned_actions' \in Plans(offer)
                    /\ investigation_recommendations' = investigation_recommendations
      BY <1>5 DEF PlanActions
    <2>1. TypeOK'
      BY <1>5, <2>0, PlansAreOpen
         DEF IInv, TypeOK, PlanActions, Tick, inputVars, trailVars, windowVars, Nodes,
             Recommendations, DetectedService, Alerts
    <2>2. (ExhaustionRecorded /\ LastRecordIsCurrent /\ NoActionRunsAfterBlocked)'
      BY <1>5 DEF IInv, PlanActions, trailVars, ExhaustionRecorded, LastRecordIsCurrent,
                  NoActionRunsAfterBlocked, Rounds
    <2>3. (RoundAccounted /\ PlanFresh)'
      BY <1>5, <2>0, PlansAreOpen
         DEF IInv, PlanActions, trailVars, RoundAccounted, PlanFresh, ResultActions,
             Blocked
    <2>4. WideningRecorded'
      BY <1>5 DEF IInv, PlanActions, trailVars, windowVars, WideningRecorded, Rounds
    <2>5. (LoopsCounted /\ SuperstepsCounted)'
      BY <1>5, LoopAssumption
         DEF IInv, TypeOK, PlanActions, Tick, trailVars, LoopsCounted, SuperstepsCounted, Rounds
    <2> QED
      BY <2>1, <2>2, <2>3, <2>4, <2>5 DEF IInv
  <1>6. ASSUME NEW action \in sends, NEW result \in ResultsOf(action),
               InvestigateHypothesis(action, result)
        PROVE  IInv'
    <2>1. result \in Results /\ result.action = action
      <3>1. action \in Actions
        BY DEF IInv, TypeOK
      <3>2. \A facts \in Findings(action) : facts \in SUBSET Facts
        BY DEF Findings, Facts, PayloadFacts
      <3> QED
        BY <3>1, <3>2 DEF ResultsOf, Results, Outcomes
    <2>2. TypeOK'
      BY <1>6, <2>1
         DEF IInv, TypeOK, InvestigateHypothesis, Tick, inputVars, planVars, trailVars,
             diagnosisVars, windowVars, Nodes
    <2>3. RoundAccounted'
      BY <1>6, <2>1
         DEF IInv, InvestigateHypothesis, planVars, RoundAccounted, ResultActions
    <2>4. (ExhaustionRecorded /\ PlanFresh /\ LastRecordIsCurrent /\ NoActionRunsAfterBlocked)'
      <3>1. /\ pc' \in InRound
            /\ executed_hypotheses' = executed_hypotheses
            /\ planned_actions' = planned_actions
            /\ available_action_names' = available_action_names
        BY <1>6 DEF InvestigateHypothesis, planVars, trailVars
      <3>2. PlanFresh'
        BY <1>6, <3>1 DEF IInv, InvestigateHypothesis, PlanFresh, Blocked
      <3> QED
        BY <3>1, <3>2 DEF IInv, ExhaustionRecorded, LastRecordIsCurrent,
                          NoActionRunsAfterBlocked, Rounds
    <2>5. WideningRecorded'
      BY <1>6 DEF IInv, InvestigateHypothesis, trailVars, windowVars, WideningRecorded, Rounds
    <2>6. (LoopsCounted /\ SuperstepsCounted)'
      BY <1>6, LoopAssumption
         DEF IInv, TypeOK, InvestigateHypothesis, Tick, trailVars, diagnosisVars,
             LoopsCounted, SuperstepsCounted, Rounds
    <2> QED
      BY <2>2, <2>3, <2>4, <2>5, <2>6 DEF IInv
  <1>7. ASSUME MergeHypothesisResults PROVE IInv'
    <2>1. ResultActions = planned_actions /\ planned_actions \cap Blocked = {}
      BY <1>7 DEF IInv, MergeHypothesisResults, RoundAccounted, PlanFresh
    <2>2. /\ TrackedHypothesis \in Hypotheses
          /\ TrackedHypothesis.exhausted_actions
               = ExhaustedActionNames(TrackedHypothesis.failed_actions)
          /\ RanIn(TrackedHypothesis) = planned_actions
      BY <2>1, TrackedType, TrackedIsResults DEF IInv
    <2>3. hypothesis_results = {} <=> planned_actions = {}
      BY <2>1 DEF ResultActions
    <2>4. CASE hypothesis_results = {}
      <3>1. executed_hypotheses' = executed_hypotheses /\ planned_actions' = {}
        BY <1>7, <2>3, <2>4 DEF MergeHypothesisResults
      <3>2. TypeOK'
        BY <1>7, <3>1
           DEF IInv, TypeOK, MergeHypothesisResults, ClearedResults, MergedEvidence, Results,
               Tick, inputVars, diagnosisVars, windowVars, Nodes
      <3>3. (ExhaustionRecorded /\ RoundAccounted /\ PlanFresh /\ LastRecordIsCurrent)'
        BY <1>7, <3>1
           DEF IInv, MergeHypothesisResults, ClearedResults, ExhaustionRecorded,
               RoundAccounted, PlanFresh, LastRecordIsCurrent
      <3>4. (NoActionRunsAfterBlocked /\ WideningRecorded)'
        BY <1>7, <3>1
           DEF IInv, MergeHypothesisResults, windowVars, NoActionRunsAfterBlocked,
               WideningRecorded, Rounds
      <3>5. (LoopsCounted /\ SuperstepsCounted)'
        BY <1>7, <3>1, LoopAssumption
           DEF IInv, TypeOK, MergeHypothesisResults, Tick, diagnosisVars, LoopsCounted,
               SuperstepsCounted, Rounds
      <3> QED
        BY <3>2, <3>3, <3>4, <3>5 DEF IInv
    <2>5. CASE hypothesis_results # {}
      <3>1. /\ executed_hypotheses' = Append(executed_hypotheses, TrackedHypothesis)
            /\ planned_actions' = planned_actions
        BY <1>7, <2>5 DEF MergeHypothesisResults
      <3>2. /\ executed_hypotheses' \in Seq(Hypotheses)
            /\ Rounds' = Rounds + 1
            /\ Rounds \in Nat
            /\ DOMAIN executed_hypotheses' = 1..(Rounds + 1)
            /\ DOMAIN executed_hypotheses = 1..Rounds
            /\ \A i \in 1..Rounds : executed_hypotheses'[i] = executed_hypotheses[i]
            /\ executed_hypotheses'[Rounds + 1] = TrackedHypothesis
        BY <3>1, <2>2 DEF IInv, TypeOK, Rounds
      <3>3. TypeOK'
        BY <1>7, <3>2
           DEF IInv, TypeOK, MergeHypothesisResults, ClearedResults, MergedEvidence, Results,
               Tick, inputVars, diagnosisVars, windowVars, Nodes
      <3>4. ExhaustionRecorded'
        BY <3>2, <2>2 DEF IInv, ExhaustionRecorded
      <3>5. (RoundAccounted /\ PlanFresh)'
        BY <1>7
           DEF IInv, MergeHypothesisResults, ClearedResults, RoundAccounted, PlanFresh
      <3>6. LastRecordIsCurrent'
        BY <3>1, <3>2, <2>2 DEF LastRecordIsCurrent
      <3>7. NoActionRunsAfterBlocked'
        <4>1. \A i \in 1..Rounds :
                (executed_hypotheses[i].actions \cup executed_hypotheses[i].exhausted_actions)
                  \cap RanIn(TrackedHypothesis) = {}
          BY <2>1, <2>2, <3>2 DEF Blocked, BlockedBy
        <4> QED
          BY <3>2, <4>1 DEF IInv, NoActionRunsAfterBlocked
      <3>8. WideningRecorded'
        BY <1>7, <3>2 DEF IInv, MergeHypothesisResults, windowVars, WideningRecorded
      <3>9. (LoopsCounted /\ SuperstepsCounted)'
        BY <1>7, <3>2, LoopAssumption
           DEF IInv, TypeOK, MergeHypothesisResults, Tick, diagnosisVars, LoopsCounted,
               SuperstepsCounted
      <3> QED
        BY <3>3, <3>4, <3>5, <3>6, <3>7, <3>8, <3>9 DEF IInv
    <2> QED
      BY <2>4, <2>5
  <1>8. ASSUME NEW recommendation \in Recommendations, NEW loop_count \in Nat,
               pc = "diagnose", Concludes(recommendation, loop_count),
               \/ /\ recommendation = "none"
                  /\ loop_count \in {investigation_loop_count, investigation_loop_count + 1}
               \/ LoopsLeft /\ loop_count = investigation_loop_count + 1
        PROVE  IInv'
    <2>1. /\ pc' \in {"adapt_window", "opensre_eval", "publish"}
          /\ pc' = "adapt_window" =>
               /\ available_action_names # {}
               /\ recommendation # "none"
      BY <1>8 DEF Concludes, RouteInvestigationLoop, ShouldContinueInvestigation
    <2>2. TypeOK'
      BY <1>8, <2>1
         DEF IInv, TypeOK, Concludes, Tick, inputVars, planVars, trailVars, windowVars, Nodes
    <2>3. (ExhaustionRecorded /\ NoActionRunsAfterBlocked)'
      BY <1>8 DEF IInv, Concludes, trailVars, ExhaustionRecorded, NoActionRunsAfterBlocked,
                  Rounds
    <2>4. (RoundAccounted /\ PlanFresh /\ LastRecordIsCurrent)'
      BY <1>8, <2>1 DEF IInv, Concludes, planVars, trailVars, RoundAccounted, PlanFresh,
                  LastRecordIsCurrent, ResultActions, Rounds
    <2>5. WideningRecorded'
      BY <1>8, <2>1 DEF IInv, Concludes, planVars, trailVars, windowVars, PlanFresh,
                  WideningRecorded, Rounds
    <2>6. LoopsCounted'
      BY <1>8, <2>1, LoopAssumption
         DEF IInv, TypeOK, Concludes, trailVars, LoopsCounted, LoopsLeft, Rounds
    <2>7. SuperstepsCounted'
      BY <1>8, <2>1, LoopAssumption
         DEF IInv, TypeOK, Concludes, Tick, LoopsCounted, SuperstepsCounted, LoopsLeft
    <2> QED
      BY <2>2, <2>3, <2>4, <2>5, <2>6, <2>7 DEF IInv
  <1>9. ASSUME DiagnoseHealthy PROVE IInv'
    BY <1>8, <1>9 DEF DiagnoseHealthy, Recommendations, IInv, TypeOK
  <1>10. ASSUME DiagnoseInsufficient PROVE IInv'
    BY <1>8, <1>10 DEF DiagnoseInsufficient, Recommendations, IInv, TypeOK
  <1>11. ASSUME NEW unsure \in BOOLEAN, DiagnoseWithLLM(unsure) PROVE IInv'
    BY <1>8, <1>11 DEF DiagnoseWithLLM, NextLoopCount, Recommendations, IInv, TypeOK
  <1>12. ASSUME AdaptWindow PROVE IInv'
    <2>1. TypeOK'
      <3>1. Expanded(incident_window) \in Nat
        BY LookbackAssumption DEF IInv, TypeOK, Expanded
      <3>2. incident_window' \in Nat /\ incident_window_history' \in Seq(Nat)
        <4> USE <1>12, <3>1 DEF AdaptWindow
        <4>1. incident_window \in Nat /\ incident_window_history \in Seq(Nat)
          BY DEF IInv, TypeOK
        <4>2. CASE ExpansionDue
          BY <4>1, <4>2
        <4>3. CASE ~ExpansionDue
          BY <4>1, <4>3 DEF windowVars
        <4> QED
          BY <4>2, <4>3
      <3> QED
        BY <1>12, <3>2
           DEF IInv, TypeOK, AdaptWindow, Tick, inputVars, planVars, trailVars, diagnosisVars,
               Nodes
    <2>2. (ExhaustionRecorded /\ NoActionRunsAfterBlocked)'
      BY <1>12 DEF IInv, AdaptWindow, trailVars, ExhaustionRecorded,
                   NoActionRunsAfterBlocked, Rounds
    <2>3. (RoundAccounted /\ PlanFresh /\ LastRecordIsCurrent)'
      BY <1>12 DEF IInv, AdaptWindow, planVars, trailVars, RoundAccounted, PlanFresh,
                   LastRecordIsCurrent, ResultActions
    <2>4. WideningRecorded'
      <3>1. CASE ExpansionDue
        <4>1. Rounds > 0 /\ GetGitDeployTimeline \in executed_hypotheses[Rounds].actions
          BY <1>12, <3>1
             DEF IInv, AdaptWindow, LastRecordIsCurrent, ExpansionDue, LastIterationActions,
                 Rounds
        <4>2. incident_window_history = <<>>
          BY <1>12, <4>1
             DEF IInv, AdaptWindow, TypeOK, WideningRecorded, NoActionRunsAfterBlocked, RanIn,
                 Rounds
        <4> QED
          BY <1>12, <3>1, <4>1, <4>2
             DEF IInv, TypeOK, AdaptWindow, WideningRecorded, trailVars, Rounds
      <3>2. CASE ~ExpansionDue
        BY <1>12, <3>2 DEF IInv, AdaptWindow, trailVars, windowVars, WideningRecorded, Rounds
      <3> QED
        BY <3>1, <3>2
    <2>5. (LoopsCounted /\ SuperstepsCounted)'
      BY <1>12, LoopAssumption
         DEF IInv, TypeOK, AdaptWindow, Tick, trailVars, diagnosisVars, LoopsCounted,
             SuperstepsCounted, Rounds
    <2> QED
      BY <2>1, <2>2, <2>3, <2>4, <2>5 DEF IInv
  <1>13. ASSUME OpensreEval PROVE IInv'
    <2>1. TypeOK'
      BY <1>13 DEF IInv, TypeOK, OpensreEval, Tick, inputVars, planVars, trailVars,
                   diagnosisVars, windowVars, Nodes
    <2>2. (ExhaustionRecorded /\ RoundAccounted /\ PlanFresh /\ LastRecordIsCurrent)'
      BY <1>13 DEF IInv, OpensreEval, planVars, trailVars, ExhaustionRecorded,
                   RoundAccounted, PlanFresh, LastRecordIsCurrent, ResultActions
    <2>3. (NoActionRunsAfterBlocked /\ WideningRecorded)'
      BY <1>13 DEF IInv, OpensreEval, trailVars, windowVars, NoActionRunsAfterBlocked,
                   WideningRecorded, Rounds
    <2>4. (LoopsCounted /\ SuperstepsCounted)'
      BY <1>13, LoopAssumption
         DEF IInv, TypeOK, OpensreEval, Tick, trailVars, diagnosisVars, LoopsCounted,
             SuperstepsCounted, Rounds
    <2> QED
      BY <2>1, <2>2, <2>3, <2>4 DEF IInv
  <1>14. ASSUME NEW slack_fails \in BOOLEAN, Publish(slack_fails) PROVE IInv'
    <2>1. TypeOK'
      BY <1>14 DEF IInv, TypeOK, Publish, Tick, inputVars, planVars, trailVars,
                   diagnosisVars, windowVars, Terminal
    <2>2. (ExhaustionRecorded /\ RoundAccounted /\ PlanFresh /\ LastRecordIsCurrent)'
      BY <1>14 DEF IInv, Publish, planVars, trailVars, ExhaustionRecorded,
                   RoundAccounted, PlanFresh, LastRecordIsCurrent, ResultActions
    <2>3. (NoActionRunsAfterBlocked /\ WideningRecorded)'
      BY <1>14 DEF IInv, Publish, trailVars, windowVars, NoActionRunsAfterBlocked,
                   WideningRecorded, Rounds
    <2>4. (LoopsCounted /\ SuperstepsCounted)'
      BY <1>14, LoopAssumption
         DEF IInv, TypeOK, Publish, Tick, trailVars, diagnosisVars, LoopsCounted,
             SuperstepsCounted, Rounds
    <2> QED
      BY <2>1, <2>2, <2>3, <2>4 DEF IInv
  <1>15. ASSUME UNCHANGED vars PROVE IInv'
    <2>1. (TypeOK /\ ExhaustionRecorded /\ RoundAccounted /\ PlanFresh /\ LastRecordIsCurrent)'
      BY <1>15 DEF IInv, vars, inputVars, planVars, trailVars, diagnosisVars, windowVars,
                   TypeOK, ExhaustionRecorded, RoundAccounted, PlanFresh,
                   LastRecordIsCurrent, ResultActions, Blocked, Rounds
    <2>2. (NoActionRunsAfterBlocked /\ LoopsCounted /\ SuperstepsCounted)'
      BY <1>15 DEF IInv, vars, trailVars, diagnosisVars, NoActionRunsAfterBlocked,
                   LoopsCounted, SuperstepsCounted, Rounds
    <2>3. WideningRecorded'
      BY <1>15 DEF IInv, vars, planVars, trailVars, windowVars, WideningRecorded, Rounds
    <2> QED
      BY <2>1, <2>2, <2>3 DEF IInv
  <1> QED
    BY <1>1, <1>2, <1>3, <1>4, <1>5, <1>6, <1>7, <1>9, <1>10, <1>11, <1>12, <1>13, <1>14,
       <1>15
       DEF Next, Step, Finished

-----------------------------------------------------------------------------
(* The second inductive invariant *)

\* What _failure_count_for_action computes for an action that is still open.
LEMMA FailureCountIsExact ==
  ASSUME TypeOK, ExhaustionRecorded, FailuresCounted, NEW a \in Actions, a \notin Blocked
  PROVE  \/ FailureCount(a) = 0 /\ \A i \in 1..Rounds : ~FailsIn(a, i)
         \/ FailureCount(a) = 1 /\ \E i \in 1..Rounds : FailsOnlyIn(a, i, Rounds)
  <1>0. DOMAIN executed_hypotheses = 1..Rounds /\ Rounds \in Nat
    BY DEF TypeOK, Rounds
  <1>1. ASSUME NEW i \in 1..Rounds, NEW f \in executed_hypotheses[i].failed_actions,
               f.action = a
        PROVE  f.failure_count = 1 /\ \A j \in 1..(i - 1) : ~FailsIn(a, j)
    <2>1. f \in FailedActions
      <3>1. executed_hypotheses[i] \in Hypotheses
        BY <1>0 DEF TypeOK
      <3> QED
        BY <3>1 DEF Hypotheses
    <2>2. f.action \notin executed_hypotheses[i].exhausted_actions
      BY <1>0, <1>1 DEF Blocked, BlockedBy
    <2>3. f.failure_count < 2
      BY <1>0, <2>1, <2>2 DEF ExhaustionRecorded, ExhaustedActionNames, FailedActions,
                        MAX_RETRYABLE_ACTION_FAILURES
    <2> QED
      BY <1>1, <2>3 DEF FailuresCounted
  <1>2. CASE \A i \in 1..Rounds : ~FailsIn(a, i)
    <2>1. FailureCounts(a) = {0}
      BY <1>0, <1>2 DEF FailureCounts, FailsIn
    <2>2. FailureCount(a) \in {0, 1}
      BY OpenFailureCount
    <2>3. \E n \in FailureCounts(a) : \A m \in FailureCounts(a) : m <= n
      BY <2>1
    <2>4. FailureCount(a) \in FailureCounts(a)
      BY <2>3 DEF FailureCount
    <2> QED
      BY <1>2, <2>1, <2>4
  <1>3. ASSUME NEW i \in 1..Rounds, FailsIn(a, i)
        PROVE  FailureCount(a) = 1 /\ FailsOnlyIn(a, i, Rounds)
    <2>1. FailsOnlyIn(a, i, Rounds)
      <3> SUFFICES ASSUME NEW j \in 1..Rounds, FailsIn(a, j), j # i
                   PROVE  FALSE
        BY <1>3 DEF FailsOnlyIn
      <3>1. CASE j < i
        <4>1. j \in 1..(i - 1)
          BY <3>1, <1>0
        <4> QED
          BY <1>1, <1>3, <4>1 DEF FailsIn
      <3>2. CASE i < j
        <4>1. i \in 1..(j - 1)
          BY <3>2, <1>0
        <4> QED
          BY <1>1, <1>3, <4>1 DEF FailsIn
      <3> QED
        BY <1>0, <3>1, <3>2
    <2>2. 1 \in FailureCounts(a)
      <3>1. PICK f \in executed_hypotheses[i].failed_actions : f.action = a
        BY <1>3 DEF FailsIn
      <3>2. f.failure_count = 1
        BY <1>1, <3>1
      <3> QED
        BY <1>0, <3>1, <3>2 DEF FailureCounts
    <2>3. \A n \in FailureCounts(a) : n \in {0, 1}
      BY <1>0, <1>1 DEF FailureCounts
    <2>4. \A n : (n \in FailureCounts(a) /\ \A m \in FailureCounts(a) : m <= n) => n = 1
      BY <2>2, <2>3
    <2>5. \E n \in FailureCounts(a) : \A m \in FailureCounts(a) : m <= n
      BY <2>2, <2>3
    <2>6. FailureCount(a) = 1
      BY <2>4, <2>5 DEF FailureCount
    <2> QED
      BY <2>1, <2>6
  <1> QED
    BY <1>2, <1>3

LEMMA InitRecorded == Init => Recorded
  BY DEF Init, Recorded, OffersAreUsable, LogsLeaveTelemetry, FailuresCounted,
         GrafanaLoopIsNotWasted, TelemetryLoopHasWork, Rounds

LEMMA FailuresKept ==
  ASSUME FailuresCounted, UNCHANGED trailVars
  PROVE  FailuresCounted'
  <1>1. executed_hypotheses' = executed_hypotheses /\ Rounds' = Rounds
    BY DEF trailVars, Rounds
  <1>2. \A a, i, n : (FailsIn(a, i)' <=> FailsIn(a, i))
                      /\ (FailsOnlyIn(a, i, n)' <=> FailsOnlyIn(a, i, n))
    BY <1>1 DEF FailsIn, FailsOnlyIn
  <1> QED
    BY <1>1, <1>2 DEF FailuresCounted

\* A step that leaves the trail, the evidence and the results alone leaves what
\* they record alone.
LEMMA TrailKept ==
  ASSUME Recorded, UNCHANGED trailVars, UNCHANGED hypothesis_results
  PROVE  (LogsLeaveTelemetry /\ FailuresCounted)'
  BY FailuresKept DEF Recorded, trailVars, LogsLeaveTelemetry, Rounds

\* Nor does one that leaves the inputs and the offers alone.
LEMMA OffersKept ==
  ASSUME Recorded, UNCHANGED inputVars, UNCHANGED planVars, pc' \notin Entry
  PROVE  OffersAreUsable'
  BY DEF Recorded, OffersAreUsable, inputVars, planVars, Usable, DetectedService

LEMMA NextRecorded == IInv /\ Recorded /\ [Next]_vars => Recorded'
  <1> SUFFICES ASSUME IInv, Recorded, [Next]_vars PROVE Recorded'
    OBVIOUS
  <1>1. ASSUME NEW node \in {"extract_alert", "plan_actions", "diagnose"}, Raise(node)
        PROVE  Recorded'
    <2>1. (GrafanaLoopIsNotWasted /\ TelemetryLoopHasWork)'
      BY <1>1 DEF Raise, GrafanaLoopIsNotWasted, TelemetryLoopHasWork
    <2> QED
      BY <1>1, <2>1, TrailKept, OffersKept DEF Raise, Recorded, Entry
  <1>2. ASSUME InjectAuth PROVE Recorded'
    <2>1. (GrafanaLoopIsNotWasted /\ TelemetryLoopHasWork)'
      BY <1>2 DEF InjectAuth, GrafanaLoopIsNotWasted, TelemetryLoopHasWork
    <2>2. OffersAreUsable'
      BY <1>2 DEF InjectAuth, Recorded, OffersAreUsable, Entry, inputVars, planVars,
                  diagnosisVars, Usable, DetectedService
    <2> QED
      BY <1>2, <2>1, <2>2, TrailKept DEF InjectAuth, Recorded
  <1>3. ASSUME NEW is_noise \in BOOLEAN, ExtractAlert(is_noise) PROVE Recorded'
    <2>1. (GrafanaLoopIsNotWasted /\ TelemetryLoopHasWork)'
      BY <1>3 DEF ExtractAlert, GrafanaLoopIsNotWasted, TelemetryLoopHasWork
    <2>2. OffersAreUsable'
      BY <1>3 DEF ExtractAlert, Recorded, OffersAreUsable, Entry, planVars, diagnosisVars
    <2> QED
      BY <1>3, <2>1, <2>2, TrailKept DEF ExtractAlert, Recorded
  <1>4. ASSUME NEW connected \in SUBSET Actions, ResolveIntegrations(connected) PROVE Recorded'
    <2>1. available_action_names = {} /\ investigation_recommendations = "none"
      BY <1>4 DEF ResolveIntegrations, Recorded, OffersAreUsable, Entry
    <2>2. (OffersAreUsable /\ GrafanaLoopIsNotWasted /\ TelemetryLoopHasWork)'
      BY <1>4, <2>1 DEF ResolveIntegrations, OffersAreUsable, Entry, planVars, diagnosisVars,
                        GrafanaLoopIsNotWasted, TelemetryLoopHasWork
    <2> QED
      BY <1>4, <2>2, TrailKept DEF ResolveIntegrations, Recorded
  <1>5. ASSUME PlanActions PROVE Recorded'
    <2>1. /\ available_action_names' \in Offers
          /\ pc' \in {"merge_hypothesis_results", "investigate_hypothesis"}
      BY <1>5 DEF PlanActions
    <2>2. \A a \in available_action_names' : Usable(a)
      BY <2>1 DEF Offers, Candidates
    <2>3. OffersAreUsable'
      BY <1>5, <2>1, <2>2 DEF PlanActions, OffersAreUsable, Entry, inputVars, Usable,
                              DetectedService
    <2>4. (GrafanaLoopIsNotWasted /\ TelemetryLoopHasWork)'
      BY <2>1 DEF GrafanaLoopIsNotWasted, TelemetryLoopHasWork
    <2> QED
      BY <1>5, <2>3, <2>4, TrailKept DEF PlanActions, Recorded
  <1>6. ASSUME NEW action \in sends, NEW result \in ResultsOf(action),
               InvestigateHypothesis(action, result)
        PROVE  Recorded'
    <2>1. result.action = QueryGrafanaLogs /\ result.outcome = "success" =>
            "telemetry" \in result.data
      <3>1. action = QueryGrafanaLogs => \A facts \in Findings(action) : "telemetry" \in facts
        BY NamesAssumption DEF Findings
      <3>2. /\ result.action = action
            /\ result.outcome = "success" => result.data \in Findings(action)
        BY DEF ResultsOf
      <3> QED
        BY <3>1, <3>2
    <2>2. LogsLeaveTelemetry'
      BY <1>6, <2>1 DEF InvestigateHypothesis, Recorded, LogsLeaveTelemetry, trailVars, Rounds
    <2>3. FailuresCounted'
      BY <1>6, FailuresKept DEF InvestigateHypothesis, Recorded
    <2>4. pc' \in {"merge_hypothesis_results", "investigate_hypothesis"}
      BY <1>6 DEF InvestigateHypothesis
    <2>5. (GrafanaLoopIsNotWasted /\ TelemetryLoopHasWork)'
      BY <2>4 DEF GrafanaLoopIsNotWasted, TelemetryLoopHasWork
    <2> QED
      BY <1>6, <2>2, <2>3, <2>4, <2>5, OffersKept DEF InvestigateHypothesis, Recorded, Entry
  <1>7. ASSUME MergeHypothesisResults PROVE Recorded'
    <2>1. OffersAreUsable'
      BY <1>7 DEF MergeHypothesisResults, Recorded, OffersAreUsable, Entry, inputVars, Usable,
                  DetectedService
    <2>2. (GrafanaLoopIsNotWasted /\ TelemetryLoopHasWork)'
      BY <1>7 DEF MergeHypothesisResults, GrafanaLoopIsNotWasted, TelemetryLoopHasWork
    <2>3. evidence \subseteq evidence'
      BY <1>7 DEF MergeHypothesisResults, MergedEvidence
    <2>4. CASE hypothesis_results = {}
      <3>1. executed_hypotheses' = executed_hypotheses /\ hypothesis_results' = {}
        BY <1>7, <2>4 DEF MergeHypothesisResults, ClearedResults
      <3>2. (LogsLeaveTelemetry /\ FailuresCounted)'
        BY <2>3, <3>1 DEF Recorded, LogsLeaveTelemetry, FailuresCounted, FailsIn, FailsOnlyIn,
                          Rounds
      <3> QED
        BY <2>1, <2>2, <3>2 DEF Recorded
    <2>5. CASE hypothesis_results # {}
      <3>1. /\ executed_hypotheses' = Append(executed_hypotheses, TrackedHypothesis)
            /\ hypothesis_results' = {}
        BY <1>7, <2>5 DEF MergeHypothesisResults, ClearedResults
      <3>2. /\ Rounds \in Nat /\ Rounds' = Rounds + 1
            /\ \A i \in 1..Rounds : executed_hypotheses'[i] = executed_hypotheses[i]
            /\ executed_hypotheses'[Rounds + 1] = TrackedHypothesis
        BY <3>1 DEF IInv, TypeOK, Rounds
      <3>3. QueryGrafanaLogs \in TrackedHypothesis.actions => "telemetry" \in evidence'
        BY <1>7 DEF MergeHypothesisResults, MergedEvidence, TrackedHypothesis, SuccessfulActions,
                    Recorded, LogsLeaveTelemetry
      <3>4. LogsLeaveTelemetry'
        <4> SUFFICES ASSUME NEW i \in 1..(Rounds + 1),
                            QueryGrafanaLogs \in executed_hypotheses'[i].actions
                     PROVE  "telemetry" \in evidence'
          BY <3>1, <3>2 DEF LogsLeaveTelemetry
        <4>1. CASE i \in 1..Rounds
          BY <2>3, <3>2, <4>1 DEF Recorded, LogsLeaveTelemetry
        <4>2. CASE i = Rounds + 1
          BY <3>2, <3>3, <4>2
        <4> QED
          BY <3>2, <4>1, <4>2
      <3>5. /\ \A a, i : i \in 1..Rounds => (FailsIn(a, i)' <=> FailsIn(a, i))
            /\ \A a, i, n : n \in 0..Rounds => (FailsOnlyIn(a, i, n)' <=> FailsOnlyIn(a, i, n))
        BY <3>2 DEF FailsIn, FailsOnlyIn
      <3>6. ASSUME NEW f \in FailedActionRecords
            PROVE  \/ f.failure_count = 1 /\ \A j \in 1..Rounds : ~FailsIn(f.action, j)
                   \/ f.failure_count = 2 /\ \E j \in 1..Rounds : FailsOnlyIn(f.action, j, Rounds)
        <4>1. /\ f.action \in ResultActions
              /\ f.failure_count = FailureCount(f.action) + 1
          BY <3>6 DEF FailedActionRecords, ResultActions
        <4>2. f.action \in Actions /\ f.action \notin Blocked
          BY <1>7, <4>1 DEF MergeHypothesisResults, IInv, TypeOK, RoundAccounted, PlanFresh,
                            InRound
        <4> QED
          BY <4>1, <4>2, FailureCountIsExact DEF IInv, Recorded
      <3>7. FailuresCounted'
        <4> SUFFICES ASSUME NEW i \in 1..(Rounds + 1),
                            NEW f \in executed_hypotheses'[i].failed_actions
                     PROVE  \/ f.failure_count = 1 /\ \A j \in 1..(i - 1) : ~FailsIn(f.action, j)'
                            \/ f.failure_count = 2
                               /\ \E j \in 1..(i - 1) : FailsOnlyIn(f.action, j, i - 1)'
          BY <3>2 DEF FailuresCounted
        <4>1. /\ \A j \in 1..(i - 1) : j \in 1..Rounds
              /\ i - 1 \in 0..Rounds
          BY <3>2
        <4>2. CASE i \in 1..Rounds
          <5>1. f \in executed_hypotheses[i].failed_actions
            BY <3>2, <4>2
          <5> QED
            BY <3>5, <4>1, <4>2, <5>1 DEF Recorded, FailuresCounted
        <4>3. CASE i = Rounds + 1
          <5>1. f \in FailedActionRecords /\ i - 1 = Rounds
            BY <3>2, <4>3 DEF TrackedHypothesis
          <5> QED
            BY <3>5, <3>6, <4>1, <5>1
        <4> QED
          BY <3>2, <4>2, <4>3
      <3> QED
        BY <2>1, <2>2, <3>4, <3>7 DEF Recorded
    <2> QED
      BY <2>4, <2>5
  <1>8. ASSUME NEW recommendation, NEW loop_count,
               pc = "diagnose", Concludes(recommendation, loop_count),
               recommendation = "grafana_logs" => QueryGrafanaLogs \notin Blocked,
               recommendation = "telemetry" => HasUntriedActions
        PROVE  Recorded'
    <2>1. pc' \in {"adapt_window", "opensre_eval", "publish"}
      BY <1>8 DEF Concludes, RouteInvestigationLoop
    <2>2. /\ Blocked' = Blocked /\ Candidates' = Candidates
          /\ investigation_recommendations' = recommendation
      BY <1>8 DEF Concludes, inputVars, trailVars, Blocked, Candidates, Usable, DetectedService
    <2>3. HasUntriedActions => Candidates # {}
      BY DEF IInv, TypeOK, Recorded, OffersAreUsable, HasUntriedActions, Candidates
    <2>4. (GrafanaLoopIsNotWasted /\ TelemetryLoopHasWork)'
      BY <1>8, <2>2, <2>3 DEF GrafanaLoopIsNotWasted, TelemetryLoopHasWork
    <2> QED
      BY <1>8, <2>1, <2>4, TrailKept, OffersKept DEF Concludes, Recorded, Entry
  <1>9. ASSUME DiagnoseHealthy PROVE Recorded'
    BY <1>8, <1>9 DEF DiagnoseHealthy
  <1>10. ASSUME DiagnoseInsufficient PROVE Recorded'
    <2>1. ~LogsAlreadyFailed => QueryGrafanaLogs \notin Blocked
      <3> SUFFICES ASSUME NEW i \in DOMAIN executed_hypotheses, ~LogsAlreadyFailed,
                          QueryGrafanaLogs \in BlockedBy(executed_hypotheses[i])
                   PROVE  FALSE
        BY DEF Blocked
      <3>1. i \in 1..Rounds
        BY DEF IInv, TypeOK, Rounds
      <3>2. QueryGrafanaLogs \notin executed_hypotheses[i].actions
        BY <1>10, <3>1 DEF DiagnoseInsufficient, HasEvidence, Recorded, LogsLeaveTelemetry
      <3>3. QueryGrafanaLogs \notin executed_hypotheses[i].exhausted_actions
        BY DEF IInv, ExhaustionRecorded, ExhaustedActionNames, LogsAlreadyFailed
      <3> QED
        BY <3>2, <3>3 DEF BlockedBy
    <2> QED
      BY <1>8, <1>10, <2>1 DEF DiagnoseInsufficient
  <1>11. ASSUME NEW unsure \in BOOLEAN, DiagnoseWithLLM(unsure) PROVE Recorded'
    BY <1>8, <1>11 DEF DiagnoseWithLLM
  <1>12. ASSUME AdaptWindow PROVE Recorded'
    <2>1. (GrafanaLoopIsNotWasted /\ TelemetryLoopHasWork)'
      BY <1>12 DEF AdaptWindow, Recorded, GrafanaLoopIsNotWasted, TelemetryLoopHasWork,
                   inputVars, trailVars, diagnosisVars, Blocked, Candidates, Usable,
                   DetectedService
    <2> QED
      BY <1>12, <2>1, TrailKept, OffersKept DEF AdaptWindow, Recorded, Entry
  <1>13. ASSUME OpensreEval PROVE Recorded'
    <2>1. (GrafanaLoopIsNotWasted /\ TelemetryLoopHasWork)'
      BY <1>13 DEF OpensreEval, GrafanaLoopIsNotWasted, TelemetryLoopHasWork
    <2> QED
      BY <1>13, <2>1, TrailKept, OffersKept DEF OpensreEval, Recorded, Entry
  <1>14. ASSUME NEW slack_fails \in BOOLEAN, Publish(slack_fails) PROVE Recorded'
    <2>1. pc' \in {"end", "raised"}
      BY <1>14 DEF Publish
    <2>2. (GrafanaLoopIsNotWasted /\ TelemetryLoopHasWork)'
      BY <2>1 DEF GrafanaLoopIsNotWasted, TelemetryLoopHasWork
    <2> QED
      BY <1>14, <2>1, <2>2, TrailKept, OffersKept DEF Publish, Recorded, Entry
  <1>15. ASSUME UNCHANGED vars PROVE Recorded'
    <2>1. (OffersAreUsable /\ GrafanaLoopIsNotWasted /\ TelemetryLoopHasWork)'
      BY <1>15 DEF vars, Recorded, OffersAreUsable, GrafanaLoopIsNotWasted,
                   TelemetryLoopHasWork, inputVars, planVars, trailVars, diagnosisVars,
                   Blocked, Candidates, Usable, DetectedService
    <2> QED
      BY <1>15, <2>1, TrailKept DEF vars, Recorded
  <1> QED
    BY <1>1, <1>2, <1>3, <1>4, <1>5, <1>6, <1>7, <1>9, <1>10, <1>11, <1>12, <1>13, <1>14,
       <1>15
       DEF Next, Step, Finished

-----------------------------------------------------------------------------
(* Theorems *)

LEMMA Invariance == Spec => []IInv
  BY InitInv, NextInv, PTL DEF Spec

\* Every reachable state is well typed: AgentState keeps its declared shape
\* through every node.
THEOREM TypeCorrect == Spec => []TypeOK
  <1>1. IInv => TypeOK
    BY DEF IInv
  <1> QED
    BY <1>1, Invariance, PTL

\* No tool query is repeated once it has succeeded or been given up, for any
\* registry, budget and loop limit (get_blocked_action_names).
THEOREM BlockedForGood == Spec => []NoActionRunsAfterBlocked
  <1>1. IInv => NoActionRunsAfterBlocked
    BY DEF IInv
  <1> QED
    BY <1>1, Invariance, PTL

\* The record appended by the merge covers the round's plan exactly: nothing
\* is lost in the fan-out, nothing of an earlier round is merged again.
THEOREM RoundsExact == Spec => []RoundIsRecordedExactly
  <1>1. IInv => RoundIsRecordedExactly
    BY DEF IInv, LastRecordIsCurrent, RoundIsRecordedExactly
  <1> QED
    BY <1>1, Invariance, PTL

\* The loop limit bounds the rounds whichever path of the diagnosis loops.
THEOREM BoundedLoops == Spec => []LoopsAreBounded
  <1>1. IInv => LoopsAreBounded
    BY DEF IInv, LoopsCounted, LoopsAreBounded
  <1> QED
    BY <1>1, Invariance, PTL

\* With the recursion limit the runners pass, no run dies of
\* GraphRecursionError.
THEOREM WithinRecursionLimit == Spec => []RecursionLimitNeverHit
  <1>1. IInv => RecursionLimitNeverHit
    BY LoopAssumption, RecursionAssumption
       DEF IInv, TypeOK, SuperstepsCounted, RecursionLimitNeverHit
  <1> QED
    BY <1>1, Invariance, PTL

\* The window widens at most once, so MAX_EXPANSIONS never binds.
THEOREM OneWidening == Spec => []WidenedAtMostOnce
  <1>1. IInv => WidenedAtMostOnce
    <2> SUFFICES ASSUME IInv PROVE Len(incident_window_history) <= 1
      BY DEF WidenedAtMostOnce
    <2>1. CASE incident_window_history = <<>>
      BY <2>1
    <2>2. CASE incident_window_history # <<>>
      <3>1. Len(incident_window_history) = 1
        BY <2>2, Zenon DEF IInv, WideningRecorded
      <3> QED
        BY <3>1
    <2> QED
      BY <2>1, <2>2
  <1> QED
    BY <1>1, Invariance, PTL

LEMMA RecordedAlways == Spec => []Recorded
  BY InitInv, NextInv, InitRecorded, NextRecorded, PTL DEF Spec

\* A failure count in the trail is the number of rounds the action failed in, and
\* none fails in more than MAX_RETRYABLE_ACTION_FAILURES (_failure_count_for_action).
THEOREM FailureCountsExact == Spec => []FailureCountsAreExact
  <1>1. IInv /\ Recorded => FailureCountsAreExact
    <2> SUFFICES ASSUME IInv, Recorded, NEW i \in 1..Rounds,
                        NEW f \in executed_hypotheses[i].failed_actions
                 PROVE  /\ f.failure_count = Cardinality({j \in 1..i : FailsIn(f.action, j)})
                        /\ f.failure_count <= MAX_RETRYABLE_ACTION_FAILURES
      BY DEF FailureCountsAreExact, FailsIn
    <2> DEFINE failing == {j \in 1..i : FailsIn(f.action, j)}
    <2>0. Rounds \in Nat /\ i \in Nat
      BY DEF IInv, TypeOK, Rounds
    <2>1. i \in failing
      BY <2>0 DEF FailsIn
    <2>2. CASE f.failure_count = 1 /\ \A j \in 1..(i - 1) : ~FailsIn(f.action, j)
      <3>1. failing = {i}
        BY <2>0, <2>1, <2>2
      <3>2. Cardinality({i}) = 1
        BY FS_Singleton
      <3> HIDE DEF failing
      <3>3. Cardinality(failing) = 1
        BY <3>1, <3>2
      <3> QED
        BY <2>2, <3>3 DEF MAX_RETRYABLE_ACTION_FAILURES, failing
    <2>3. CASE f.failure_count = 2 /\ \E j \in 1..(i - 1) : FailsOnlyIn(f.action, j, i - 1)
      <3>1. PICK j \in 1..(i - 1) : FailsOnlyIn(f.action, j, i - 1)
        BY <2>3
      <3>2. failing = {j} \cup {i} /\ i \notin {j}
        BY <2>0, <2>1, <3>1 DEF FailsOnlyIn
      <3>3. IsFiniteSet({j}) /\ Cardinality({j}) = 1
        BY FS_Singleton
      <3> HIDE DEF failing
      <3>4. Cardinality({j} \cup {i}) = 1 + 1
        BY <3>2, <3>3, FS_AddElement, Zenon
      <3>5. Cardinality(failing) = 2
        BY <3>2, <3>4
      <3> QED
        BY <2>3, <3>5 DEF MAX_RETRYABLE_ACTION_FAILURES, failing
    <2> QED
      BY <2>2, <2>3 DEF Recorded, FailuresCounted
  <1> QED
    BY <1>1, Invariance, RecordedAlways, PTL

\* A loop-back for Grafana logs finds the query neither answered nor given up
\* (_handle_insufficient_evidence).
THEOREM GrafanaLoopPays == Spec => []GrafanaLoopIsNotWasted
  <1>1. Recorded => GrafanaLoopIsNotWasted
    BY DEF Recorded
  <1> QED
    BY <1>1, RecordedAlways, PTL

\* A loop-back for untried actions finds one the planner will offer, for every
\* registry and budget: what was on offer can still be used.
THEOREM TelemetryLoopPays == Spec => []TelemetryLoopHasWork
  <1>1. Recorded => TelemetryLoopHasWork
    BY DEF Recorded
  <1> QED
    BY <1>1, RecordedAlways, PTL

\* Every loop-back follows a round that ran something.
THEOREM LoopBackIsEarned == Spec => LoopBackFollowsWork
  <1>1. IInv /\ [Next]_vars => [pc = "diagnose" /\ pc' = "adapt_window" => planned_actions # {}]_vars
    <2> SUFFICES ASSUME IInv, Next, pc = "diagnose", pc' = "adapt_window"
                 PROVE  planned_actions # {}
      OBVIOUS
    <2>1. \E recommendation, loop_count : Concludes(recommendation, loop_count)
      BY DEF Next, Step, Finished, vars, Raise, InjectAuth, ExtractAlert, ResolveIntegrations,
             PlanActions, InvestigateHypothesis, MergeHypothesisResults, AdaptWindow,
             OpensreEval, Publish, Terminal, DiagnoseHealthy, DiagnoseInsufficient,
             DiagnoseWithLLM
    <2>2. available_action_names # {}
      BY <2>1 DEF Concludes, RouteInvestigationLoop, ShouldContinueInvestigation
    <2> QED
      BY <2>2 DEF IInv, PlanFresh, InRound
  <1> QED
    BY <1>1, Invariance, PTL DEF Spec, LoopBackFollowsWork

-----------------------------------------------------------------------------
(* The safety part of KeepsContract *)

\* Nothing is published before the run is over.
ReportedAtTheEnd == report # "none" => pc \in {"end", "raised"}

LEMMA ReportedAlways == Spec => []ReportedAtTheEnd
  <1>1. Init => ReportedAtTheEnd
    BY DEF Init, ReportedAtTheEnd
  <1>2. ReportedAtTheEnd /\ [Next]_vars => ReportedAtTheEnd'
    BY DEF ReportedAtTheEnd, Next, Step, Finished, vars, Raise, InjectAuth, ExtractAlert,
           ResolveIntegrations, PlanActions, InvestigateHypothesis, MergeHypothesisResults,
           DiagnoseHealthy, DiagnoseInsufficient, DiagnoseWithLLM, Concludes, AdaptWindow,
           OpensreEval, Publish, Terminal
  <1> QED
    BY <1>1, <1>2, PTL DEF Spec

\* A step between two nodes that publishes nothing is none of the contract's.
LEMMA BetweenNodes ==
  ASSUME pc \notin Terminal, pc' \notin Terminal, executed_hypotheses' = executed_hypotheses
  PROVE  UNCHANGED Contract!contractVars
  BY DEF Contract!contractVars, CallerOutcome, Rounds, Terminal

\* Every node that may run is a stutter, a round, a dismissal or a conclusion of
\* the contract.
LEMMA StepKeepsContract ==
  ASSUME IInv, IInv', ReportedAtTheEnd, [Next]_vars
  PROVE  [Contract!ContractNext]_(Contract!contractVars)
  <1> USE DEF Terminal
  <1>0. Rounds \in Nat
    BY DEF IInv, TypeOK, Rounds
  <1>1. ASSUME NEW node \in {"extract_alert", "plan_actions", "diagnose"}, Raise(node)
        PROVE  Contract!Conclude
    BY <1>1 DEF Raise, trailVars, Contract!Conclude, CallerOutcome, Rounds
  <1>2. CASE InjectAuth
    <2>1. Rounds = 0 /\ executed_hypotheses' = executed_hypotheses
      BY <1>2 DEF InjectAuth, trailVars, IInv, LoopsCounted
    <2>2. CASE pc' = "chat"
      <3>1. CallerOutcome = "running" /\ CallerOutcome' = "chat" /\ Rounds' = Rounds
        BY <1>2, <2>1, <2>2 DEF InjectAuth, CallerOutcome, Rounds
      <3> QED
        BY <2>1, <3>1 DEF Contract!ContractNext, Contract!TurnAway
    <2>3. CASE pc' # "chat"
      BY <1>2, <2>1, <2>3, BetweenNodes DEF InjectAuth
    <2> QED
      BY <2>2, <2>3
  <1>3. ASSUME NEW is_noise \in BOOLEAN, ExtractAlert(is_noise)
        PROVE  [Contract!ContractNext]_(Contract!contractVars)
    <2>1. Rounds = 0 /\ executed_hypotheses' = executed_hypotheses
      BY <1>3 DEF ExtractAlert, trailVars, IInv, LoopsCounted
    <2>2. CASE is_noise
      <3>1. CallerOutcome = "running" /\ CallerOutcome' = "noise" /\ Rounds' = Rounds
        BY <1>3, <2>1, <2>2 DEF ExtractAlert, CallerOutcome, Rounds, ReportedAtTheEnd
      <3> QED
        BY <2>1, <3>1 DEF Contract!ContractNext, Contract!TurnAway
    <2>3. CASE ~is_noise
      BY <1>3, <2>1, <2>3, BetweenNodes DEF ExtractAlert
    <2> QED
      BY <2>2, <2>3
  <1>4. CASE MergeHypothesisResults
    <2>1. CallerOutcome = "running" /\ CallerOutcome' = "running"
      BY <1>4 DEF MergeHypothesisResults, CallerOutcome
    <2>2. CASE hypothesis_results = {}
      BY <1>4, <2>2, BetweenNodes DEF MergeHypothesisResults
    <2>3. CASE hypothesis_results # {}
      <3>1. executed_hypotheses' = Append(executed_hypotheses, TrackedHypothesis)
        BY <1>4, <2>3 DEF MergeHypothesisResults
      <3>2. executed_hypotheses \in Seq(Hypotheses) /\ executed_hypotheses' \in Seq(Hypotheses)
        BY DEF IInv, TypeOK
      <3>3. Rounds' = Rounds + 1
        BY <3>1, <3>2 DEF Rounds
      <3>4. Rounds' <= MaxInvestigationLoops + 1
        BY DEF IInv, LoopsCounted
      <3> QED
        BY <1>0, <2>1, <3>3, <3>4, LoopAssumption DEF Contract!ContractNext, Contract!GatherEvidence
    <2> QED
      BY <2>2, <2>3
  <1>5. ASSUME NEW slack_fails \in BOOLEAN, Publish(slack_fails)
        PROVE  Contract!Conclude
    BY <1>5 DEF Publish, Contract!Conclude, CallerOutcome, Rounds, trailVars
  <1>6. CASE PlanActions \/ AdaptWindow \/ OpensreEval
    BY <1>6, BetweenNodes DEF PlanActions, AdaptWindow, OpensreEval, trailVars
  <1>7. ASSUME NEW action, NEW result, InvestigateHypothesis(action, result)
        PROVE  UNCHANGED Contract!contractVars
    BY <1>7, BetweenNodes DEF InvestigateHypothesis, trailVars
  <1>8. ASSUME NEW recommendation, NEW loop_count, pc = "diagnose",
               Concludes(recommendation, loop_count)
        PROVE  [Contract!ContractNext]_(Contract!contractVars)
    <2>1. pc' \in {"adapt_window", "opensre_eval", "publish"}
      BY <1>8 DEF Concludes, RouteInvestigationLoop
    <2> QED
      BY <1>8, <2>1, BetweenNodes DEF Concludes, trailVars
  <1>9. CASE DiagnoseHealthy \/ DiagnoseInsufficient \/ \E unsure \in BOOLEAN : DiagnoseWithLLM(unsure)
    BY <1>8, <1>9 DEF DiagnoseHealthy, DiagnoseInsufficient, DiagnoseWithLLM
  <1>10. CASE UNCHANGED vars
    BY <1>10 DEF vars, trailVars, Contract!contractVars, CallerOutcome, Rounds
  <1>11. ASSUME NEW connected \in SUBSET Actions, ResolveIntegrations(connected)
         PROVE  UNCHANGED Contract!contractVars
    BY <1>11, BetweenNodes DEF ResolveIntegrations, trailVars
  <1> QED
    BY <1>1, <1>2, <1>3, <1>4, <1>5, <1>6, <1>7, <1>9, <1>10, <1>11
       DEF Next, Step, Finished, Contract!ContractNext

\* graph.py with run_investigation's callers: whatever the nodes, the tools and the
\* LLM do, a run gathers evidence in at most MaxInvestigationLoops + 1 rounds, turns
\* an alert away only before the first, and never leaves the outcome it reached.
THEOREM ImplementsContract == Spec => Contract!ContractSpec
  <1>1. Init => Contract!ContractInit
    BY DEF Init, Contract!ContractInit, CallerOutcome, Rounds
  <1>2. IInv /\ IInv' /\ ReportedAtTheEnd /\ [Next]_vars
          => [Contract!ContractNext]_(Contract!contractVars)
    BY StepKeepsContract
  <1> QED
    BY <1>1, <1>2, Invariance, ReportedAlways, PTL DEF Spec, Contract!ContractSpec
=============================================================================
