SPECIFICATION Spec
CONSTANTS
  c = c
  d = d
  None = None
  Chats = {c, d}
  ChatOrder <- TwoChats
  NewChats = {}
  Known = {c}
  Seeded <- OneChat
  PageSize = 1
  MaxPages = 2
  MaxLog = 3
  Budgets <- JustLoss
INVARIANTS
  LossRecovered
  CatalogComplete
PROPERTY SeenIsKept
