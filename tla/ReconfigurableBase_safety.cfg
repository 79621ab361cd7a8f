CONSTANTS
    Callers = {c1, c2, c3}
    Wrappers = {w1, w2, w3}
    Instances = {i1, i2, i3}
    CallMethods <- MCCallMethods
    Foreign = Foreign
    None = None
SYMMETRY MCSymmetry
SPECIFICATION Spec
INVARIANT CallsSeeCurrent
INVARIANT NoCallOnClosed
PROPERTY MismatchLeavesIntact
PROPERTY AtomicSwapRefinement
