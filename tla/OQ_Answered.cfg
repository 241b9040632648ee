SPECIFICATION FairSpec
CONSTANTS
  a = a
  b = b
  chat = chat
  None = None
  Ops = {a}
  Lanes = {chat}
  Entities = {a, b}
  Kind <- CreateAll
  Lane <- OneLane
  Entity <- OwnEntity
  MaxLeases = 2
  MaxChanges = 1
  MaxCrashes = 1
  MaxFaults = 1
  LocalEchoes = FALSE
  ErrorMayApply = FALSE
PROPERTY LeaseIsAnswered
CHECK_DEADLOCK FALSE
