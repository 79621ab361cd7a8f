--------------------------- MODULE MC_ServoClient ---------------------------
EXTENDS ServoClient, TLC

MCAngles == {0, 200}

MCSymmetry == Permutations(Callers)
=============================================================================
