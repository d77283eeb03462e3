SPECIFICATION Spec
CONSTANTS
    deployer = deployer
    player = player
    macross = macross
    Strategies <- MCStrategies
    Accounts <- MCAccounts
    Deployer = deployer
    LastWeek = 2
    MaxAmount = 3
INVARIANTS
    UnsettledPoolIsOwnPlusCarried
    CarriedOnce
    Conserved
PROPERTIES
    SettledIsFinal
    IndexFollows
