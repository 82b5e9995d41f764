---------------------------- MODULE MCGormPairing ----------------------------
EXTENDS GormPairing, TLC

CONSTANTS headset, keyboard

\* Devices are interchangeable.
Symmetry == Permutations(Devices)
=============================================================================
