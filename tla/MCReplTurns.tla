----------------------------- MODULE MCReplTurns -----------------------------
EXTENDS ReplTurns

\* The planner's plan asks twice; the assistant's goes on after its question.
MCPlans ==
    {[verdicts |-> <<"ask", "ask">>, polls |-> TRUE],
     [verdicts |-> <<"ask", "allow">>, polls |-> FALSE]}
=============================================================================
