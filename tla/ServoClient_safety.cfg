CONSTANTS
    Callers = {c1, c2}
    Angles <- MCAngles
    MaxCalls = 2
    MaxCloses = 1
SYMMETRY MCSymmetry
SPECIFICATION Spec
INVARIANTS
    TypeOK
    SuccessImpliesApplied
    AppliedAtMostOnce
CHECK_DEADLOCK FALSE
PROPERTY AtMostOnceRefinement
