CONSTANTS
    Callers = {c1, c2}
    Wrappers = {w1, w2}
    Instances = {i1, i2}
    CallMethods <- MCCallMethods
    Foreign = Foreign
    None = None
SYMMETRY MCSymmetry
SPECIFICATION ReuseSpec
INVARIANT NoCallOnClosed
