----------------------------- MODULE BranchTable -----------------------------
(***************************************************************************)
(* What app/agents/coordination.py promises: a table of branch owners      *)
(* "to prevent two agents from racing on the same branch".  A branch that  *)
(* has a holder changes hands only through a release.                      *)
(***************************************************************************)
CONSTANTS Branches, Agents, NoAgent

VARIABLE holder

Free == [b \in Branches |-> NoAgent]

TableInit == holder = Free

Claim(b, a) ==
    /\ holder[b] \in {NoAgent, a}
    /\ holder' = [holder EXCEPT ![b] = a]

Release(b) ==
    /\ holder[b] # NoAgent
    /\ holder' = [holder EXCEPT ![b] = NoAgent]

TableNext == \E b \in Branches : (\E a \in Agents : Claim(b, a)) \/ Release(b)

TableSpec == TableInit /\ [][TableNext]_holder
=============================================================================
