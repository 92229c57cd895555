------------------------- MODULE MCInvestigationLoop -------------------------
(* Small instances of the investigation graph for TLC. *)
EXTENDS InvestigationLoop

\* Grafana's discovery and log queries beside the deploy timeline, or the S3 audit
\* trail.
MCDeployments ==
    {{QueryGrafanaLogs, QueryGrafanaServiceNames, GetGitDeployTimeline},
     {InspectS3Object, GetS3Object}}

MCActions == UNION MCDeployments
=============================================================================
