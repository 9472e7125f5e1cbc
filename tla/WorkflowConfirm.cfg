SPECIFICATION LiveSpec
CONSTANTS
    Maya = Maya
    Liam = Liam
    Sofia = Sofia
    Noah = Noah
    Emma = Emma
    Lucas = Lucas
    Shift26E = Shift26E
    Shift27M = Shift27M
    Shift28M = Shift28M
    Shift28E = Shift28E
    EVT1 = EVT1
    EVT2 = EVT2
    EVT3 = EVT3
    EVT4 = EVT4
    AMB1 = AMB1
    None = None
    Workers <- FrozenWorkers
    Shifts <- FrozenShifts
    OriginalOwner <- FrozenOwner
    StartAt <- FrozenStartAt
    EndAt <- FrozenEndAt
    Availability <- FrozenAvailability
    Parses <- FrozenParses
    Authorized = TRUE
    Events = {EVT1, EVT3, EVT4}
    AwaitingEvent = EVT3
    ConfirmingEvent = EVT4
    MaxScheduleVersion = 3
    MaxGeneration = 2
    SavedStates = {"REJECTED", "NEEDS_CLARIFICATION", "WAITING_CONFIRMATION",
                   "READY", "FAILED", "VERIFIED"}
    Handlers = {h1, h2}
    MayExpire = TRUE
    MaxDuplicates = 1
    Overlapping = FALSE
    MaxRepeats = 1
    MaxApplies = 1
    MaxCrashes = 1
    JudgeUI = TRUE
    MaxReloads = 1
    KeepsToEvent = TRUE
    ReliabilityProof = TRUE
INVARIANT WorkflowTypeOK
INVARIANT WakeUpPending
PROPERTY VerifiedIsFinal
INVARIANT AcceptedIsRecorded
PROPERTY ConfirmedIsVerified
PROPERTY LostAckIsRepaired
CHECK_DEADLOCK FALSE
