----------------------- MODULE MC_ReconfigurableBase -----------------------
(* Small instances of the reconfigurable Base wrapper for TLC.  Callers,   *)
(* Wrappers and Instances are sets of model values given in the cfg.       *)
EXTENDS ReconfigurableBase, TLC

MCCallMethods == {"Stop"}

MCSymmetry == Permutations(Callers) \cup Permutations(Wrappers)
                \cup Permutations(Instances)
=============================================================================
