---------------------------- MODULE MCRecording ----------------------------
EXTENDS Recording, TLC

MCSymmetry == Permutations(Cmds)
=============================================================================
