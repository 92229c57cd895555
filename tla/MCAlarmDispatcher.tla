------------------------- MODULE MCAlarmDispatcher -------------------------
EXTENDS AlarmDispatcher, TLC

\* The calls of dispatch are interchangeable.
CallSymmetry == Permutations(Calls)
============================================================================
