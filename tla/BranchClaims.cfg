SPECIFICATION ClaimsSpec
CONSTANTS
    Shells = {s1}
    Branches = {b1, b2}
    Agents = {a1, a2}
    NoAgent = none
    Inodes = {i1, i2, i3}
INVARIANTS AnswerIsOnDisk
PROPERTIES KeepsTable
