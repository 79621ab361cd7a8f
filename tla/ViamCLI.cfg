CONSTANTS
    Argvs <- MCArgvs
    Given <- MCGiven
    ErrTexts <- MCErrTexts
    ReqText <- MCReqText
    UsageText <- MCUsageText
    Resolve <- ResolveArgs
    Format <- Sprintf
SPECIFICATION Spec
INVARIANTS
    ResolutionUnambiguous
CHECK_DEADLOCK FALSE
