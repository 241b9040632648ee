SPECIFICATION FairSpec
CONSTANTS
    Users = {u}
    Topic = t
    Callers = {c1}
    Budgets <- Troubles
INVARIANTS TypeOK DesiredIsLog ResetOnce NoStaleMapping ParticipantsAreCurrent
PROPERTIES Quarantine LoopSettles
CHECK_DEADLOCK FALSE
