----------------------------- MODULE MCAgentBus -----------------------------
EXTENDS AgentBus
=============================================================================
