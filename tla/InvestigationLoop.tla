-------------------------- MODULE InvestigationLoop --------------------------
(***************************************************************************)
(* The investigation graph of the agent: the LangGraph state machine of    *)
(* app/pipeline/graph.py with its routing functions and the state-changing *)
(* part of its nodes.  One action is one graph node (one superstep),       *)
(* except investigate_hypothesis, which the graph fans out with Send: each *)
(* planned action runs on its own and the runs finish in any order.        *)
(*                                                                         *)
(* An LLM answer is a nondeterministic choice among the answers the code   *)
(* goes on to accept; an exception that leaves a node ends the run         *)
(* ("raised").  Evidence is reduced to the facts the control flow reads.   *)
(***************************************************************************)
EXTENDS Integers, FiniteSets, Sequences

CONSTANTS
  Actions,                  \* names of the registered investigation tools
  QueryGrafanaLogs,         \* "query_grafana_logs"
  QueryGrafanaServiceNames, \* "query_grafana_service_names"
  GetGitDeployTimeline,     \* "get_git_deploy_timeline"
  InspectS3Object,          \* "inspect_s3_object"
  GetS3Object,              \* "get_s3_object"
  Deployments,              \* bound: sets of tools that may be connected together
  ToolBudget,               \* tool_budget of the run
  MaxInvestigationLoops,    \* MAX_INVESTIGATION_LOOPS
  MaxExpansions,            \* MAX_EXPANSIONS
  DefaultLookback,          \* DEFAULT_LOOKBACK_MINUTES
  MaxLookback,              \* MAX_LOOKBACK_MINUTES
  RecursionLimit            \* _GRAPH_RECURSION_LIMIT

ASSUME ActionsAssumption == IsFiniteSet(Actions)
ASSUME NamesAssumption ==
  QueryGrafanaLogs \notin {QueryGrafanaServiceNames, GetGitDeployTimeline,
                           InspectS3Object, GetS3Object}
ASSUME BudgetAssumption == ToolBudget \in Nat \ {0}
ASSUME LoopAssumption == MaxInvestigationLoops \in Nat \ {0}
ASSUME ExpansionAssumption == MaxExpansions \in Nat \ {0}
ASSUME LookbackAssumption ==
  DefaultLookback \in Nat \ {0} /\ MaxLookback \in Nat /\ DefaultLookback <= MaxLookback
\* Three entry supersteps, five per loop-back, six for the last round.
ASSUME RecursionAssumption ==
  RecursionLimit \in Nat /\ 5 * MaxInvestigationLoops + 9 <= RecursionLimit

MAX_RETRYABLE_ACTION_FAILURES == 2

VARIABLES
  pc,                           \* the node to run next, or how the run ended
  mode,                         \* AgentState.mode
  raw_alert,                    \* what later nodes read of the alert
  opensre_evaluate,             \* evaluation requested and a rubric present
  resolved_integrations,        \* tools whose data source is connected
  grafana_service,              \* available_sources["grafana"]["service_name"]
  available_action_names,
  planned_actions,
  sends,                        \* Sends of this superstep that have not finished
  hypothesis_results,           \* results collected by the reducer
  executed_hypotheses,          \* audit trail, one record per round that ran
  evidence,                     \* facts established so far
  investigation_recommendations,
  investigation_loop_count,
  incident_window,              \* lookback of the window, in minutes
  incident_window_history,      \* lookbacks replaced so far, oldest first
  report,                       \* how far the publish node came
  superstep                     \* supersteps executed

planVars == <<available_action_names, planned_actions, grafana_service>>
trailVars == <<executed_hypotheses, evidence>>
diagnosisVars == <<investigation_recommendations, investigation_loop_count>>
windowVars == <<incident_window, incident_window_history>>
inputVars == <<mode, raw_alert, opensre_evaluate, resolved_integrations>>
vars == <<pc, inputVars, planVars, sends, hypothesis_results, trailVars,
          diagnosisVars, windowVars, report, superstep>>

Nodes == {"inject_auth", "extract_alert", "agent_incident", "resolve_integrations",
          "plan_actions", "investigate_hypothesis", "merge_hypothesis_results",
          "diagnose", "adapt_window", "opensre_eval", "publish"}
Terminal == {"chat", "end", "raised"}

\* healthy: the alert's state, severity and annotations say "no incident".
\* text: the alert or the tracer run it names carries evidence of its own.
\* rds: the alert names an RDS instance.
\* service: what the pipeline name maps to; "known" is a service Loki has.
Alerts == [healthy : BOOLEAN, text : BOOLEAN, rds : BOOLEAN,
           service : {"unset", "unknown", "known"}]

\* telemetry: enough for check_evidence_availability; investigated: a key of
\* INVESTIGATED_EVIDENCE_KEYS is present; s3_audit_payload: that key is
\* recorded, payload_content: with content, audit_content: of the audit object.
Facts == {"telemetry", "investigated", "grafana_service_names", "grafana_logs",
          "empty_shared_timeline", "audit_key", "s3_audit_payload",
          "payload_content", "audit_content"}

Outcomes == {"success", "retryable", "non_retryable"}
Recommendations == {"none", "grafana_logs", "vendor_audit", "telemetry"}

Results == [action : Actions, outcome : Outcomes, data : SUBSET Facts]
FailedActions == [action : Actions, failure_kind : {"retryable", "non_retryable"},
                  failure_count : Nat]
Hypotheses == [actions : SUBSET Actions, failed_actions : SUBSET FailedActions,
               exhausted_actions : SUBSET Actions]

-----------------------------------------------------------------------------
(* Planning: app/nodes/plan_actions *)

\* Variant: exhausted actions are offered again.
BlockedBySuccessOnly(h) == h.actions

\* Variant: a success does not block.
BlockedByExhaustionOnly(h) == h.exhausted_actions

\* get_blocked_action_names: succeeded before, or exhausted.
BlockedBy(h) == h.actions \cup h.exhausted_actions
Blocked == UNION {BlockedBy(executed_hypotheses[i]) : i \in DOMAIN executed_hypotheses}

\* The actions a round ran, whatever came of them.
RanIn(h) == h.actions \cup {f.action : f \in h.failed_actions}

\* detect_sources starts again from the alert in every planning step.
DetectedService == raw_alert.service

\* is_available and the required parameters, given the detected sources; the
\* seed for RDS alerts skips the parameters.
Usable(a) ==
  /\ a \in resolved_integrations
  /\ a = QueryGrafanaLogs => DetectedService # "unset" \/ raw_alert.rds

Candidates == {a \in Actions : Usable(a)} \ Blocked

\* select_actions and _ensure_seed_actions_available: the candidates, cut to
\* the budget in an order this model leaves open.
Offers == {offer \in SUBSET Candidates :
             \/ Cardinality(offer) = ToolBudget
             \/ offer = Candidates /\ Cardinality(offer) < ToolBudget}

\* What the planner, the seeds and the fallbacks make of an offer: never
\* empty, never outside the offer.
Plans(offer) == (SUBSET offer) \ {{}}

-----------------------------------------------------------------------------
(* Results: app/nodes/investigate/processing/post_process.py *)

\* get_s3_object reads the audit object once planning knows its key, and the
\* alert's own object before; _map_s3_object files both as s3_audit_payload.
PayloadFacts ==
  {"telemetry", "s3_audit_payload", "payload_content"}
    \cup (IF "audit_key" \in evidence THEN {"audit_content"} ELSE {})

\* The facts a successful run of an action may establish (EVIDENCE_MAPPERS).
Findings(a) ==
  CASE a = QueryGrafanaLogs -> {{"telemetry", "investigated"},
                                {"telemetry", "investigated", "grafana_logs"}}
    [] a = QueryGrafanaServiceNames -> {{}, {"grafana_service_names"}}
    [] a = GetGitDeployTimeline -> {{}, {"empty_shared_timeline"}}
    [] a = InspectS3Object -> {{}, {"telemetry"}, {"telemetry", "audit_key"}}
    [] a = GetS3Object -> {{"s3_audit_payload"}, {"telemetry", "s3_audit_payload"}, PayloadFacts}
    [] OTHER -> {{}, {"telemetry", "investigated"}}

\* What execute_actions may return for an action, after its retries.
ResultsOf(a) ==
  {[action |-> a, outcome |-> "success", data |-> facts] : facts \in Findings(a)}
    \cup {[action |-> a, outcome |-> kind, data |-> {}] : kind \in {"retryable", "non_retryable"}}

FailureCounts(a) ==
  {0} \cup UNION {{f.failure_count : f \in {g \in executed_hypotheses[i].failed_actions : g.action = a}}
                    : i \in DOMAIN executed_hypotheses}

\* Variant: earlier rounds are forgotten.
FailureCountOfThisRound(a) == 0

\* _failure_count_for_action: the largest count on record.
FailureCount(a) == CHOOSE n \in FailureCounts(a) : \A m \in FailureCounts(a) : m <= n

FailedActionRecords ==
  {[action |-> r.action, failure_kind |-> r.outcome, failure_count |-> FailureCount(r.action) + 1]
     : r \in {s \in hypothesis_results : s.outcome # "success"}}

ExhaustedActionNames(failed) ==
  {f.action : f \in {g \in failed : \/ g.failure_kind = "non_retryable"
                                    \/ g.failure_count >= MAX_RETRYABLE_ACTION_FAILURES}}

SuccessfulActions == {r.action : r \in {s \in hypothesis_results : s.outcome = "success"}}

\* Variant: the reducer does not know the clear marker.
ResultsKept == hypothesis_results

\* merge_results_reducer on [{"__clear": True}].
ClearedResults == {}

TrackedHypothesis ==
  [actions |-> SuccessfulActions,
   failed_actions |-> FailedActionRecords,
   exhausted_actions |-> ExhaustedActionNames(FailedActionRecords)]

MergedEvidence ==
  evidence \cup UNION {r.data : r \in {s \in hypothesis_results : s.outcome = "success"}}

-----------------------------------------------------------------------------
(* Routing: app/pipeline/routing.py *)

\* Variant: no check that anything is left to run.
ShouldContinueOnRecommendation(recommendation, loop_count) ==
  /\ loop_count <= MaxInvestigationLoops
  /\ recommendation # "none"

ShouldContinueInvestigation(recommendation, loop_count) ==
  /\ available_action_names # {}
  /\ loop_count <= MaxInvestigationLoops
  /\ recommendation # "none"

\* Variant: nothing left to do skips the publish node.
RouteToEnd(recommendation, loop_count) ==
  IF ShouldContinueInvestigation(recommendation, loop_count) THEN "adapt_window"
  ELSE IF opensre_evaluate THEN "opensre_eval" ELSE "end"

RouteInvestigationLoop(recommendation, loop_count) ==
  IF ShouldContinueInvestigation(recommendation, loop_count) THEN "adapt_window"
  ELSE IF opensre_evaluate THEN "opensre_eval" ELSE "publish"

-----------------------------------------------------------------------------
\* One more superstep; the count stops growing one past the limit, where
\* LangGraph would have raised GraphRecursionError.
Tick == superstep' = IF superstep <= RecursionLimit THEN superstep + 1 ELSE superstep

Init ==
  /\ pc = "inject_auth"
  /\ mode \in {"chat", "investigation", "agent_incident"}
  /\ raw_alert \in Alerts
  /\ opensre_evaluate \in BOOLEAN
  /\ opensre_evaluate => mode = "investigation"
  /\ resolved_integrations = {}
  /\ grafana_service = "unset"
  /\ available_action_names = {}
  /\ planned_actions = {}
  /\ sends = {}
  /\ hypothesis_results = {}
  /\ executed_hypotheses = <<>>
  /\ evidence = {}
  /\ investigation_recommendations = "none"
  /\ investigation_loop_count = 0
  /\ incident_window = DefaultLookback
  /\ incident_window_history = <<>>
  /\ report = "none"
  /\ superstep = 0

\* Every node may raise: the run ends there and its caller sees the error.
Raise(node) ==
  /\ pc = node
  /\ pc' = "raised"
  /\ UNCHANGED <<inputVars, planVars, sends, hypothesis_results, trailVars,
                 diagnosisVars, windowVars, report, superstep>>

\* inject_auth_node, then route_by_mode.
InjectAuth ==
  /\ pc = "inject_auth"
  /\ pc' = CASE mode = "investigation" -> "extract_alert"
             [] mode = "agent_incident" -> "agent_incident"
             [] OTHER -> "chat"
  /\ Tick
  /\ UNCHANGED <<inputVars, planVars, sends, hypothesis_results, trailVars,
                 diagnosisVars, windowVars, report>>

\* node_extract_alert or node_agent_incident, then route_after_extract.  An
\* alert synthesized from a fleet incident has no state, no body and no
\* pipeline label.
ExtractAlert(is_noise) ==
  /\ pc \in {"extract_alert", "agent_incident"}
  /\ pc' = IF is_noise THEN "end" ELSE "resolve_integrations"
  /\ raw_alert' = IF pc = "agent_incident" /\ ~is_noise
                  THEN [healthy |-> FALSE, text |-> FALSE, rds |-> FALSE,
                        service |-> "unset"]
                  ELSE raw_alert
  /\ Tick
  /\ UNCHANGED <<mode, opensre_evaluate, resolved_integrations, planVars, sends,
                 hypothesis_results, trailVars, diagnosisVars, windowVars, report>>

\* One source may carry several tools: both Grafana tools need the same
\* connection, and an S3 key that can be inspected can be read.
Connectable(connected) ==
  /\ \E tools \in Deployments : connected \subseteq tools
  /\ {QueryGrafanaLogs, QueryGrafanaServiceNames} \subseteq Actions =>
       (QueryGrafanaLogs \in connected <=> QueryGrafanaServiceNames \in connected)
  /\ InspectS3Object \in connected /\ GetS3Object \in Actions => GetS3Object \in connected

\* node_resolve_integrations: the connected sources make some tools usable.
ResolveIntegrations(connected) ==
  /\ pc = "resolve_integrations"
  /\ Connectable(connected)
  /\ resolved_integrations' = connected
  /\ pc' = "plan_actions"
  /\ Tick
  /\ UNCHANGED <<mode, raw_alert, opensre_evaluate, planVars, sends,
                 hypothesis_results, trailVars, diagnosisVars, windowVars, report>>

\* node_plan_actions, then distribute_hypotheses: one Send per planned action.
PlanActions ==
  /\ pc = "plan_actions"
  /\ grafana_service' = DetectedService
  /\ \E offer \in Offers :
       /\ available_action_names' = offer
       /\ IF offer = {}
          THEN /\ planned_actions' = {}
               /\ investigation_recommendations' =
                    IF investigation_loop_count > 0 THEN "none"
                    ELSE investigation_recommendations
          ELSE /\ planned_actions' \in Plans(offer)
               /\ UNCHANGED investigation_recommendations
  /\ sends' = planned_actions'
  /\ pc' = IF planned_actions' = {} THEN "merge_hypothesis_results"
           ELSE "investigate_hypothesis"
  /\ Tick
  /\ UNCHANGED <<inputVars, hypothesis_results, trailVars, investigation_loop_count,
                 windowVars, report>>

\* node_investigate_hypothesis for one Send; the graph goes on to the merge
\* node when the last one of the superstep has finished.
InvestigateHypothesis(action, result) ==
  /\ pc = "investigate_hypothesis"
  /\ hypothesis_results' = hypothesis_results \cup {result}
  /\ sends' = sends \ {action}
  /\ IF sends' = {}
     THEN pc' = "merge_hypothesis_results" /\ Tick
     ELSE UNCHANGED <<pc, superstep>>
  /\ UNCHANGED <<inputVars, planVars, trailVars, diagnosisVars, windowVars, report>>

\* merge_hypothesis_results: evidence and audit trail, the discovered service
\* name for the next loop, and the reducer cleared.
MergeHypothesisResults ==
  /\ pc = "merge_hypothesis_results"
  /\ evidence' = MergedEvidence
  /\ executed_hypotheses' = IF hypothesis_results = {} THEN executed_hypotheses
                            ELSE Append(executed_hypotheses, TrackedHypothesis)
  /\ grafana_service' = IF /\ "grafana_service_names" \in evidence'
                           /\ "grafana_logs" \notin evidence'
                           /\ grafana_service # "known"
                        THEN "discovered" ELSE grafana_service
  /\ hypothesis_results' = ClearedResults
  /\ pc' = "diagnose"
  /\ Tick
  /\ UNCHANGED <<inputVars, available_action_names, planned_actions, sends,
                 diagnosisVars, windowVars, report>>

-----------------------------------------------------------------------------
(* Diagnosis: app/nodes/root_cause_diagnosis/node.py *)

Concludes(recommendation, loop_count) ==
  /\ investigation_recommendations' = recommendation
  /\ investigation_loop_count' = loop_count
  /\ pc' = RouteInvestigationLoop(recommendation, loop_count)
  /\ Tick
  /\ UNCHANGED <<inputVars, planVars, sends, hypothesis_results, trailVars,
                 windowVars, report>>

LoopsLeft == investigation_loop_count < MaxInvestigationLoops

\* Variant: the loop is not counted.
UncountedLoop(recommendation) == investigation_loop_count

\* The LLM path counts a loop only when it asks for one.
NextLoopCount(recommendation) ==
  IF recommendation = "none" THEN investigation_loop_count ELSE investigation_loop_count + 1

ClearlyHealthy == raw_alert.healthy /\ "investigated" \in evidence
HasEvidence == raw_alert.text \/ "telemetry" \in evidence

\* _handle_healthy_finding
DiagnoseHealthy ==
  /\ pc = "diagnose"
  /\ ClearlyHealthy
  /\ Concludes("none", investigation_loop_count)

\* Variant: a failed query is recommended again.
FailedLogsForgotten == FALSE

LogsAlreadyFailed ==
  \E i \in DOMAIN executed_hypotheses :
    \E f \in executed_hypotheses[i].failed_actions : f.action = QueryGrafanaLogs

\* _handle_insufficient_evidence: the loop count grows on every visit.
DiagnoseInsufficient ==
  /\ pc = "diagnose"
  /\ ~ClearlyHealthy
  /\ ~HasEvidence
  /\ Concludes(IF /\ "grafana_service_names" \in evidence
                  /\ "grafana_logs" \notin evidence
                  /\ ~LogsAlreadyFailed
                  /\ LoopsLeft
               THEN "grafana_logs" ELSE "none",
               investigation_loop_count + 1)

\* _expects_vendor_evidence and check_vendor_evidence_missing
VendorEvidenceMissing ==
  /\ {"audit_key", "s3_audit_payload"} \cap evidence # {}
  /\ "payload_content" \notin evidence

\* Variant: offered is taken for untried.
HasOfferedActions == available_action_names # {}

HasUntriedActions == \E a \in available_action_names : a \notin Blocked

\* The LLM's diagnosis; "unsure" is an unknown category with a low score.
DiagnoseWithLLM(unsure) ==
  /\ pc = "diagnose"
  /\ ~ClearlyHealthy
  /\ HasEvidence
  /\ LET recommendation ==
           IF VendorEvidenceMissing /\ LoopsLeft THEN "vendor_audit"
           ELSE IF unsure /\ LoopsLeft /\ HasUntriedActions THEN "telemetry"
           ELSE "none"
     IN Concludes(recommendation, NextLoopCount(recommendation))

-----------------------------------------------------------------------------
(* Adaptive window: app/nodes/adapt_window/rules.py *)

LastIterationActions ==
  IF executed_hypotheses = <<>> THEN {}
  ELSE executed_hypotheses[Len(executed_hypotheses)].actions

Expanded(window) == IF 2 * window < MaxLookback THEN 2 * window ELSE MaxLookback

ExpansionDue ==
  /\ Len(incident_window_history) < MaxExpansions
  /\ GetGitDeployTimeline \in LastIterationActions
  /\ "empty_shared_timeline" \in evidence
  /\ Expanded(incident_window) > incident_window

AdaptWindow ==
  /\ pc = "adapt_window"
  /\ IF ExpansionDue
     THEN /\ incident_window' = Expanded(incident_window)
          /\ incident_window_history' = Append(incident_window_history, incident_window)
     ELSE UNCHANGED windowVars
  /\ pc' = "plan_actions"
  /\ Tick
  /\ UNCHANGED <<inputVars, planVars, sends, hypothesis_results, trailVars,
                 diagnosisVars, report>>

-----------------------------------------------------------------------------
\* Variant: the judge's edge leads back to the diagnosis.
OpensreEvalThenDiagnose ==
  /\ pc = "opensre_eval"
  /\ pc' = "diagnose"
  /\ Tick
  /\ UNCHANGED <<inputVars, planVars, sends, hypothesis_results, trailVars,
                 diagnosisVars, windowVars, report>>

\* node_opensre_llm_eval catches every failure of the judge.
OpensreEval ==
  /\ pc = "opensre_eval"
  /\ pc' = "publish"
  /\ Tick
  /\ UNCHANGED <<inputVars, planVars, sends, hypothesis_results, trailVars,
                 diagnosisVars, windowVars, report>>

\* generate_report: the terminal copy is rendered before Slack is tried; a
\* failed Slack reply to a thread raises and skips every later channel.
Publish(slack_fails) ==
  /\ pc = "publish"
  /\ IF slack_fails THEN report' = "terminal_only" /\ pc' = "raised"
                    ELSE report' = "delivered" /\ pc' = "end"
  /\ Tick
  /\ UNCHANGED <<inputVars, planVars, sends, hypothesis_results, trailVars,
                 diagnosisVars, windowVars>>

\* The graph has reached END, or the error has reached the caller.
Finished == pc \in Terminal /\ UNCHANGED vars

Step ==
  \/ \E node \in {"extract_alert", "plan_actions", "diagnose"} : Raise(node)
  \/ InjectAuth
  \/ \E is_noise \in BOOLEAN : ExtractAlert(is_noise)
  \/ \E connected \in SUBSET Actions : ResolveIntegrations(connected)
  \/ PlanActions
  \/ \E action \in sends : \E result \in ResultsOf(action) :
       InvestigateHypothesis(action, result)
  \/ MergeHypothesisResults
  \/ DiagnoseHealthy
  \/ DiagnoseInsufficient
  \/ \E unsure \in BOOLEAN : DiagnoseWithLLM(unsure)
  \/ AdaptWindow
  \/ OpensreEval
  \/ \E slack_fails \in BOOLEAN : Publish(slack_fails)

Next == Step \/ Finished

Spec == Init /\ [][Next]_vars

\* The graph runtime keeps running the next node: no node waits for another
\* run, and every tool call returns (_execute_with_retry stops after three
\* attempts).
FairSpec == Spec /\ WF_vars(Step)
-----------------------------------------------------------------------------
(* What the graph must guarantee *)

\* Every variable holds a value of its type (AgentState, app/state/agent_state.py).
TypeOK ==
  /\ pc \in Nodes \cup Terminal
  /\ mode \in {"chat", "investigation", "agent_incident"}
  /\ raw_alert \in Alerts
  /\ opensre_evaluate \in BOOLEAN
  /\ resolved_integrations \in SUBSET Actions
  /\ grafana_service \in {"unset", "unknown", "known", "discovered"}
  /\ available_action_names \in SUBSET Actions
  /\ planned_actions \in SUBSET Actions
  /\ sends \in SUBSET Actions
  /\ hypothesis_results \in SUBSET Results
  /\ executed_hypotheses \in Seq(Hypotheses)
  /\ evidence \in SUBSET Facts
  /\ investigation_recommendations \in Recommendations
  /\ investigation_loop_count \in Nat
  /\ incident_window \in Nat
  /\ incident_window_history \in Seq(Nat)
  /\ report \in {"none", "terminal_only", "delivered"}
  /\ superstep \in Nat

Rounds == Len(executed_hypotheses)

\* An action that succeeded or was exhausted in one round runs in no later
\* round: get_blocked_action_names, read by three planning steps and by the
\* diagnosis, keeps a finished query from being paid for twice.
NoActionRunsAfterBlocked ==
  \A i, j \in 1..Rounds :
    i < j => (executed_hypotheses[i].actions \cup executed_hypotheses[i].exhausted_actions)
               \cap RanIn(executed_hypotheses[j]) = {}

\* The failure_count of a record is the number of rounds, up to its own, in
\* which the action failed, and no action fails in more rounds than
\* MAX_RETRYABLE_ACTION_FAILURES.
FailureCountsAreExact ==
  \A i \in 1..Rounds : \A f \in executed_hypotheses[i].failed_actions :
    /\ f.failure_count = Cardinality({j \in 1..i :
          \E g \in executed_hypotheses[j].failed_actions : g.action = f.action})
    /\ f.failure_count <= MAX_RETRYABLE_ACTION_FAILURES

\* The record a merge appends accounts for exactly the actions its round
\* planned: none is lost in the fan-out and no result of an earlier round is
\* merged again (merge_results_reducer and its clear marker).
RoundIsRecordedExactly ==
  pc = "diagnose" /\ planned_actions # {} =>
    /\ Rounds > 0
    /\ RanIn(executed_hypotheses[Rounds]) = planned_actions

\* MAX_INVESTIGATION_LOOPS loop-backs after the first round, whichever path
\* of the diagnosis asks for them; the insufficient-evidence path may count
\* one more without looping.
LoopsAreBounded ==
  /\ Rounds <= MaxInvestigationLoops + 1
  /\ investigation_loop_count <= MaxInvestigationLoops + 1

\* The longest run stays within the recursion limit the runners hand to
\* LangGraph, so that a long investigation ends in a report and never in a
\* GraphRecursionError.
RecursionLimitNeverHit == superstep <= RecursionLimit

\* When the diagnosis loops back for Grafana logs, the planner may still
\* offer query_grafana_logs (unless the source lacks a service name): the
\* loop is not spent on a query that was already answered or given up.
GrafanaLoopIsNotWasted ==
  pc \in {"adapt_window", "plan_actions"} /\ investigation_recommendations = "grafana_logs"
    => QueryGrafanaLogs \notin Blocked

\* When the diagnosis loops back because some action is untried, the planner
\* has something to offer.
TelemetryLoopHasWork ==
  pc \in {"adapt_window", "plan_actions"} /\ investigation_recommendations = "telemetry"
    => Candidates # {}

\* The window is widened at most once: the widening needs a successful
\* deploy-timeline query in the last round, and a success is never repeated.
WidenedAtMostOnce == Len(incident_window_history) <= 1

\* A loop-back always follows a round that ran something, so a loop never
\* turns on the spot and the stale-signal guard of adapt_window reads the
\* record of the round that just ended.
LoopBackFollowsWork ==
  [][pc = "diagnose" /\ pc' = "adapt_window" => planned_actions # {}]_vars

\* The outcome a caller sees: END without a delivered report is noise.
CallerOutcome ==
  CASE pc = "end" -> IF report = "delivered" THEN "reported" ELSE "noise"
    [] pc = "raised" -> "failed"
    [] pc = "chat" -> "chat"
    [] OTHER -> "running"

Contract == INSTANCE InvestigationContract
  WITH MaxRounds <- MaxInvestigationLoops + 1, outcome <- CallerOutcome, rounds <- Rounds

\* The graph keeps the contract of InvestigationContract: bounded rounds, then
\* exactly one outcome, noise only before any evidence, and always an end.
KeepsContract == Contract!FairContract
=============================================================================
