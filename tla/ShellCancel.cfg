SPECIFICATION Spec
CONSTANTS
    s1 = s1
    s2 = s2
    Shells = {s1}
    Nobody = Nobody
    Kinds <- MCSynthetic
    MaxTasks = 1
    MaxRegistries = 1
    MaxHeld = 2
INVARIANTS CancelledMeansKilled
CHECK_DEADLOCK FALSE
