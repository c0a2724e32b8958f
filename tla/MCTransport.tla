------------------------------ MODULE MCTransport ------------------------------
EXTENDS Transport, TLC
CONSTANTS c1, c2, m1, m2
MCClients == {c1, c2}
MCMsgs == {m1, m2}
MCSymmetry == Permutations(MCClients) \cup Permutations(MCMsgs)
================================================================================
