CONSTANTS
    c1 = c1
    c2 = c2
    Callsigns = {c1, c2}
    Skies <- TwoStayOneLeaves
    MaxTargets <- OneTwice
SPECIFICATION FairSpec
INVARIANTS TargetTypeOK Watched SelectSafe SuppressionMutual
PROPERTIES LeavesForCause SilentLeaves
CHECK_DEADLOCK FALSE
