SPECIFICATION Spec
CONSTANTS
    Calls = {c1, c2, c3, c4}
    Names = {oom, disk}
    Cooldown = 3
    MaxStall = 1
    MaxTime = 7
SYMMETRY CallSymmetry
INVARIANTS CooldownHolds NoGhostCooldown
CHECK_DEADLOCK FALSE
