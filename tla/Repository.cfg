SPECIFICATION RepoSpec
CONSTANTS
    w1 = w1
    w2 = w2
    s1 = s1
    s2 = s2
    e1 = e1
    e2 = e2
    None = None
    Workers = {w1, w2}
    Shifts = {s1, s2}
    Events = {e1, e2}
    OriginalOwner <- MCOriginalOwner
    StartAt <- MCStartAt
    EndAt <- MCEndAt
    Availability <- MCAvailability
    Parses <- MCTwoShifts
    Authorized = TRUE
    AwaitingEvent = e2
    ConfirmingEvent = e1
    MaxScheduleVersion = 2
    SavedStates = {"WAITING_CONFIRMATION", "VERIFIED"}
    MaxGeneration = 1
INVARIANT RepoTypeOK
INVARIANT HeadIsCurrent
INVARIANT PredecessorLinks
INVARIANT NoFork
INVARIANT SerialSchedule
INVARIANT LedgerIsKeyed
INVARIANT ChainWalksBack
PROPERTY ImplementsCustodyLog
INVARIANT RecordsBackedByEdge
INVARIANT FaultAfterVerification
PROPERTY EvidenceAndGenerationMonotone
