SPECIFICATION FairSpec
CONSTANTS
  c = c
  d = d
  None = None
  Chats = {c}
  ChatOrder <- OneChat
  NewChats = {}
  Known = {c}
  Seeded <- OneChat
  PageSize = 1
  MaxPages = 1
  MaxLog = 2
  Budgets <- Troubles
INVARIANTS
  TypeOK
  RecordedBeforeCursor
PROPERTY RecoveryEnds
