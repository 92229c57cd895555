SPECIFICATION ClaimsSpec
CONSTANTS
    Shells = {s1, s2}
    Branches = {b1, b2}
    Agents = {a1, a2}
    NoAgent = none
    Inodes = {i1, i2, i3, i4}
PROPERTIES KeepsTable
