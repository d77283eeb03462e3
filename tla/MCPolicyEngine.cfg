SPECIFICATION Spec
CONSTANTS
    alice = alice
    tap1 = tap1
    tap2 = tap2
    Accounts <- MCAccounts
    Callers <- MCCallers
    LimitChoices <- MCLimitChoices
    Requests <- MCRequests
    Books <- MCBooks
    PnLs <- MCPnLs
    Slips <- MCSlips
    PersistFails = TRUE
    MaxTime = 3
    MaxDays = 1
    MaxLoss = 1
INVARIANTS
    FlatMeansFlat
    OvershootBounded
PROPERTIES
    LossMovesOnlyByCloses
    CooldownNeverForgotten
    KillHoldsUntilRevived
