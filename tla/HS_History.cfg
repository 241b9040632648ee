SPECIFICATION FairSpec
CONSTANTS
    None = None
    w1 = w1
    w2 = w2
    Accounts <- Two
    Ranges <- Two
    Workers = {w1, w2}
    CaptureAttempts = 2
    DirectoryAttempts = 2
    Scenarios <- Troubles
INVARIANTS TypeOK CheckpointIsCaptured PublishedIsCurrent PostedIsWhole NamesAreApplied FailureIsReported
PROPERTY HistoryEnds
CHECK_DEADLOCK FALSE
