SPECIFICATION Spec
CONSTANTS
    alice = alice
    bob = bob
    Wallets <- Two
    Nobody = Nobody
    Own = "active"
    Draws = 2
    MaxPolls = 1
    MaxLaunches = 1
    MaxFaults = 1
PROPERTIES
    RetryRestarts
CHECK_DEADLOCK FALSE
