\* Two targets (the source's MAX_CHILDREN is 1) so that the loops over paths go round.
CONSTANTS
    ModeList <- MCModeList
    MaxChildren = 2
    VidPns <- MCVidPns
    MaxFailures = 2
    NULL = NULL
SPECIFICATION Spec
INVARIANTS GivenBackOnce SuccessNeedsNoCleanup OfferIsAccepted CurrentIsCommitted 
