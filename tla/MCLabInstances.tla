--------------------------- MODULE MCLabInstances ---------------------------
EXTENDS LabInstances, TLC
ProcSymmetry == Permutations(Procs)
=============================================================================
