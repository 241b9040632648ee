SPECIFICATION FairSpec
CONSTANTS
    MaxKeys = 5
    Budgets <- Renewals
INVARIANTS TypeOK IdentityIsKept ClientsAreCurrent
PROPERTY IdentityServes
