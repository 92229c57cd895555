\* Either set of tools, two tools per round and two loop-backs.
SPECIFICATION FairSpec
CONSTANTS
  QueryGrafanaLogs = query_grafana_logs
  QueryGrafanaServiceNames = query_grafana_service_names
  GetGitDeployTimeline = get_git_deploy_timeline
  InspectS3Object = inspect_s3_object
  GetS3Object = get_s3_object
  Actions <- MCActions
  Deployments <- MCDeployments
  ToolBudget = 2
  MaxInvestigationLoops = 2
  MaxExpansions = 2
  DefaultLookback = 120
  MaxLookback = 10080
  RecursionLimit = 19
INVARIANTS
  NoActionRunsAfterBlocked
  LoopsAreBounded
  RecursionLimitNeverHit
  GrafanaLoopIsNotWasted
  TelemetryLoopHasWork
  FailureCountsAreExact
  RoundIsRecordedExactly
  WidenedAtMostOnce
PROPERTIES
  KeepsContract
  LoopBackFollowsWork
