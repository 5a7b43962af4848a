---------------------------- MODULE MCMcpGrants ----------------------------
EXTENDS McpGrants, TLC

Alike == Permutations(Clients) \cup Permutations(Consents) \cup Permutations(SignIns) \cup Permutations(Requests)
=============================================================================
