---------------------------- MODULE MCDiscovery ----------------------------
EXTENDS Discovery
CONSTANTS a1, a2, a3
ThreeAgents == <<a1, a2, a3>>
=============================================================================
