CONSTANTS
    Controls = {ButtonA, AbsoluteX}
    Callers = {g1}
SPECIFICATION Spec
INVARIANT ConfiguredControlsListed
