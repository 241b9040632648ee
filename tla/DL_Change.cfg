SPECIFICATION Spec
CONSTANTS
    chat = chat
    first = first
    other = other
    None = None
    Chats = {chat}
    Messages = {first}
    Chat <- OneChat
    EventCount = 2
    Type <- Edit
    Message <- OnlyFirst
    Flagged = {}
    Rejectable <- Refusals
    LaneBatch = 2
    BatchSize = 2
    ChangeKinds = {"touch", "stream", "move", "deselect", "delete", "select", "account", "disable", "enable"}
    MaxChanges = 2
    Budgets <- ChangesAndFailures
INVARIANTS CreatedOnce NothingForgotten DeliveredIsShown
CHECK_DEADLOCK FALSE
