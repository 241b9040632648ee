SPECIFICATION Spec
CONSTANTS
    chat = chat
    first = first
    other = other
    None = None
    Chats = {chat}
    Messages = {first}
    Chat <- OneChat
    EventCount = 2
    Type <- Edit
    Message <- OnlyFirst
    Flagged = {}
    Rejectable = {}
    LaneBatch = 2
    BatchSize = 2
    ChangeKinds = {"move"}
    MaxChanges = 1
    Budgets <- OneChange
INVARIANT UnsubmittedIsReplayed
CHECK_DEADLOCK FALSE
