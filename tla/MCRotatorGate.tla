---------------------------- MODULE MCRotatorGate ---------------------------
\* RotatorGate for TLC.
EXTENDS RotatorGate
=============================================================================
