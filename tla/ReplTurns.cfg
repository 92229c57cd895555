SPECIFICATION Spec
CONSTANTS
    MaxTurns = 2
    Plans <- MCPlans
INVARIANTS AskedActionsAreAnswered FirstAnswerCounts
PROPERTIES InterruptFreesTheShell InterruptUnparks ExitDismissesThePrompt
CHECK_DEADLOCK FALSE
