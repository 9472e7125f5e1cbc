SPECIFICATION EngineSpec
CONSTANTS
    wa = wa
    wb = wb
    wc = wc
    sx = sx
    sy = sy
    sz = sz
    ex = ex
    ey = ey
    None = None
    Workers <- MCWorkers
    Shifts <- MCShifts
    Events <- MCEvents
    OriginalOwner <- MCOriginalOwner
    StartAt <- MCStartAt
    EndAt <- MCEndAt
    Availability <- MCAvailability
    Parses <- MCParses
    Authorized = TRUE
    AwaitingEvent = None
    ConfirmingEvent = None
    MaxScheduleVersion = 2
    MaxGeneration = 0
    SavedStates = {"REJECTED", "NEEDS_CLARIFICATION", "WAITING_CONFIRMATION",
                   "READY", "FAILED", "VERIFIED"}
    Handlers = {h1, h2}
    MayExpire = FALSE
    ReliabilityProof = FALSE
SYMMETRY HandlerSymmetry
INVARIANT EngineTypeOK
INVARIANT FeasibleRoster
INVARIANT BuiltOnVerified
INVARIANT VerifiedIsBacked
PROPERTY ImplementsRepository
