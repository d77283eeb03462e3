SPECIFICATION FairSpec
CONSTANTS
    alice = alice
    bob = bob
    Wallets <- One
    Nobody = Nobody
    Own = "active"
    Draws = 2
    MaxPolls = 1
    MaxLaunches = 2
    MaxFaults = 1
INVARIANTS
    StepsFindTheirGround
PROPERTIES
    LeftOnlyWhenOpen
    AccountOpens
CHECK_DEADLOCK FALSE
