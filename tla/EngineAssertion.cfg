SPECIFICATION EngineSpec
CONSTANTS
    Maya = Maya
    Liam = Liam
    Sofia = Sofia
    Noah = Noah
    Emma = Emma
    Lucas = Lucas
    Shift26E = Shift26E
    Shift27M = Shift27M
    Shift28M = Shift28M
    Shift28E = Shift28E
    EVT1 = EVT1
    EVT2 = EVT2
    EVT3 = EVT3
    EVT4 = EVT4
    AMB1 = AMB1
    None = None
    Workers <- FrozenWorkers
    Shifts <- FrozenShifts
    Events = {EVT1, EVT2}
    OriginalOwner <- FrozenOwner
    StartAt <- FrozenStartAt
    EndAt <- FrozenEndAt
    Availability <- FrozenAvailability
    Parses <- FrozenParses
    Authorized = TRUE
    AwaitingEvent = None
    ConfirmingEvent = None
    MaxScheduleVersion = 3
    MaxGeneration = 0
    SavedStates = {"REJECTED", "NEEDS_CLARIFICATION", "WAITING_CONFIRMATION",
                   "READY", "FAILED", "VERIFIED"}
    Handlers = {h1, h2}
    MayExpire = TRUE
    ReliabilityProof = FALSE
INVARIANT CommittedIsApplied
