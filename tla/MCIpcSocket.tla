---------------------------- MODULE MCIpcSocket ----------------------------
EXTENDS IpcSocket, TLC

Symmetry == Permutations(Labwcs)
=============================================================================
