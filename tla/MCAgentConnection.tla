------------------------- MODULE MCAgentConnection -------------------------
EXTENDS AgentConnection
============================================================================
