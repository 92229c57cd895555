SPECIFICATION Spec
CONSTANTS
    s1 = s1
    s2 = s2
    Shells = {s1, s2}
    Nobody = Nobody
    Kinds <- MCKinds
    MaxTasks = 1
    MaxRegistries = 3
    MaxHeld = 2
INVARIANTS VerdictIsEarned LastWriterIsOnDisk
PROPERTIES FirstVerdictStands TaskEnds
CHECK_DEADLOCK FALSE
