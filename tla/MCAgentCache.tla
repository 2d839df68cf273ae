---------------------------- MODULE MCAgentCache ----------------------------
EXTENDS AgentCache, TLC

Interchangeable == Permutations(Requests) \cup Permutations(Agents) \cup Permutations(Roles)
=============================================================================
