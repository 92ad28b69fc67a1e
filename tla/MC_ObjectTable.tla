---------------------------- MODULE MC_ObjectTable --------------------------
EXTENDS ObjectTable

CONSTANTS o1, o2, o3

MC_Clients == {o1, o2, o3}
=============================================================================
