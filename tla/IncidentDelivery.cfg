SPECIFICATION Spec
CONSTANTS
    Fingerprints <- MCFingerprints
    Rule <- MCRule
    DedupWindow = 1
    EscalationWindow = 2
    EscalationThreshold = 2
    Cooldown = 2
    Routes = {"telegram", "telegram_with_rca"}
    BridgeTime = 1
    MaxLag = 0
    MaxStall = 0
    MaxSeen = 4
    MaxTime = 4
INVARIANTS QuietFingerprintIsSent FirstEscalationIsSent
PROPERTIES ThreadComesBack
CHECK_DEADLOCK FALSE
