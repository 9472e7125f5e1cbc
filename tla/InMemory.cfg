SPECIFICATION InMemorySpec
CONSTANTS
    w1 = w1
    w2 = w2
    s1 = s1
    s2 = s2
    e1 = e1
    e2 = e2
    e3 = e3
    None = None
    Workers = {w1, w2}
    Shifts = {s1, s2}
    Events = {e1, e2, e3}
    OriginalOwner <- MCOriginalOwner
    StartAt <- MCStartAt
    EndAt <- MCEndAt
    Availability <- MCAvailability
    Parses <- MCParses
    Authorized = TRUE
    AwaitingEvent = None
    ConfirmingEvent = None
    MaxScheduleVersion = 3
    SavedStates = {"READY", "VERIFIED"}
INVARIANT InMemoryTypeOK
INVARIANT KeepsCustody
INVARIANT WalksBack
PROPERTY KeepsLog
