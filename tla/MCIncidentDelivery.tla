------------------------- MODULE MCIncidentDelivery -------------------------
EXTENDS IncidentDelivery

\* An ERROR or CRITICAL record, and a rule of the user's without a route of its
\* own: together they reach every destination but the pager.
MCFingerprints == {"error", "custom"}
MCRule == [error |-> "error_severity", custom |-> "custom"]
============================================================================
