SPECIFICATION Spec
CONSTANTS
    MaxLines = 3
    MaxFiles = 2
    MaxRestarts = 1
    FromStart = FALSE
PROPERTIES FollowsTheLog EveryLineComesOut
CHECK_DEADLOCK FALSE
