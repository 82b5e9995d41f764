------------------------------ MODULE MCMuninStore ------------------------------
EXTENDS MuninStore

CONSTANTS p1, p2, p3
=============================================================================
