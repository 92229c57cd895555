SPECIFICATION CorrelatorSpec
CONSTANTS
    Fingerprints <- MCFingerprints
    Rule <- MCRule
    DedupWindow = 2
    EscalationWindow = 4
    EscalationThreshold = 3
    MaxLag = 1
    MaxSeen = 5
    MaxTime = 7
PROPERTIES DedupHolds EscalationHolds
CHECK_DEADLOCK FALSE
