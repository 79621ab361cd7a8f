CONSTANTS
    Callers = {c1, c2, c3}
    Wrappers = {w1, w2}
    Instances = {i1, i2}
    CallMethods <- MCCallMethods
    Foreign = Foreign
    None = None
SPECIFICATION FairSpec
PROPERTY ReconfigureCompletes
PROPERTY CallCompletes
