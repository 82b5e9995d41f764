----------------------------- MODULE MCMuninDaemon -----------------------------
EXTENDS MuninDaemon, TLC

CONSTANTS c1, c2, c3, d1, d2, d3

\* Processes are interchangeable: sound for the runs without liveness.
Symmetry == Permutations(Clients) \cup Permutations(Daemons)
=============================================================================
