------------------------ MODULE MCIncidentCorrelator ------------------------
EXTENDS IncidentCorrelator

MCFingerprints == {"error", "burst"}
MCRule == [error |-> "error_severity", burst |-> "warning_burst"]
============================================================================
