------------------------ MODULE InvestigationContract ------------------------
(***************************************************************************)
(* What a caller of run_investigation may rely on, without the nodes: an   *)
(* investigation gathers evidence in a bounded number of rounds and then   *)
(* has exactly one outcome.  Noise and chat are recognised before any      *)
(* evidence is gathered; a report or an error may follow any round.        *)
(***************************************************************************)
EXTENDS Naturals

CONSTANT MaxRounds  \* rounds of evidence an investigation may take

VARIABLES
  outcome,  \* "running" until the investigation is over
  rounds    \* rounds of evidence gathered

contractVars == <<outcome, rounds>>

Outcome == {"running", "chat", "noise", "reported", "failed"}

ContractInit == outcome = "running" /\ rounds = 0

\* One round gathers evidence and does not settle the outcome.
GatherEvidence ==
  /\ outcome = "running"
  /\ rounds < MaxRounds
  /\ rounds' = rounds + 1
  /\ UNCHANGED outcome

\* The message is not an incident.
TurnAway ==
  /\ outcome = "running"
  /\ rounds = 0
  /\ outcome' \in {"chat", "noise"}
  /\ UNCHANGED rounds

Conclude ==
  /\ outcome = "running"
  /\ outcome' \in {"reported", "failed"}
  /\ UNCHANGED rounds

ContractNext == GatherEvidence \/ TurnAway \/ Conclude

ContractSpec == ContractInit /\ [][ContractNext]_contractVars

FairContract == ContractSpec /\ WF_contractVars(ContractNext)
=============================================================================
