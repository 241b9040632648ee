SPECIFICATION FairSpec
CONSTANTS
    chat = chat
    first = first
    other = other
    None = None
    Chats = {chat}
    Messages = {first, other}
    Chat <- OneChat
    EventCount = 4
    Type <- EditAndDelete
    Message <- FirstAndOther
    Flagged <- Flags
    Rejectable <- Refusals
    LaneBatch = 2
    BatchSize = 2
    ChangeKinds = {}
    MaxChanges = 0
    Budgets <- Failures
INVARIANT TypeOK
PROPERTIES KeepsPromise DeliveryEnds
CHECK_DEADLOCK FALSE
