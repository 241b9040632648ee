SPECIFICATION Spec
CONSTANTS
    MaxKeys = 2
    Budgets <- OneCrash
INVARIANT RestartRecovers
