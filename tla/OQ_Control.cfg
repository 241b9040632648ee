SPECIFICATION Spec
CONSTANTS
  a = a
  b = b
  chat = chat
  None = None
  Ops = {a}
  Lanes = {chat}
  Entities = {a, b}
  Kind <- CreateAll
  Lane <- OneLane
  Entity <- OwnEntity
  MaxLeases = 2
  MaxChanges = 2
  MaxCrashes = 1
  MaxFaults = 1
  LocalEchoes = TRUE
  ErrorMayApply = FALSE
INVARIANTS
  NextInLaneExists
  BoundedCopies
  ReportedSuccessIsReal
CHECK_DEADLOCK FALSE
