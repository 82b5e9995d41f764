---------------------------- MODULE MCMuninCapture ----------------------------
EXTENDS MuninCapture

CONSTANTS s1, s2
=============================================================================
