SPECIFICATION Spec
CONSTANTS
    settler = settler
    player = player
    macross = macross
    rsi = rsi
    request1 = request1
    loop = loop
    Strategies <- OneStrategy
    Accounts <- MCAccounts
    Deployer = settler
    LastWeek = 2
    MaxAmount = 0
    Requests <- OneRequest
    Loop = loop
    Amounts <- OneOrTwo
    Accruals <- EarnedTwo
    Boards <- NobodyOrPlayer
    MaxErrors = 1
    MaxTimeouts = 2
    MaxCrashes = 1
INVARIANTS
    NothingLostInFlush
    OverfundedOnlyByLateOnes
    UnconfirmedSettlesOnlyCarried
    ListedIsClaimable
