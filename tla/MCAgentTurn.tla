---------------------------- MODULE MCAgentTurn ----------------------------
EXTENDS AgentTurn, TLC
=============================================================================
