CONSTANTS
    Callers = {c1}
    Angles <- MCAngles
    MaxCalls = 1
    MaxCloses = 2
SPECIFICATION Spec
INVARIANT CloseOnce
