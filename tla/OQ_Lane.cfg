SPECIFICATION Spec
CONSTANTS
  a = a
  b = b
  chat = chat
  None = None
  Ops = {a, b}
  Lanes = {chat}
  Entities = {a, b}
  Kind <- CreateThenRead
  Lane <- OneLane
  Entity <- OwnEntity
  MaxLeases = 2
  MaxChanges = 0
  MaxCrashes = 1
  MaxFaults = 1
  LocalEchoes = FALSE
  ErrorMayApply = FALSE
INVARIANTS
  TypeOK
  LaneOrder
  NoBlindRetry
  OutcomeHasResult
  AcknowledgedMeansKnown
  NoCallAfterTerminal
CHECK_DEADLOCK FALSE
