SPECIFICATION Spec
CONSTANTS
    Markets <- TwoMarkets
    Keys <- Up
    Outsiders <- OthersOnly
    Armed = FALSE
    MaxOpen = 2
    Attempts = 1
    MaxTrips = 2
    MaxTaps = 2
    MaxVisits = 2
    MaxChanges = 2
    MaxFaults = 1
INVARIANTS
    OneOpenPerTap
    
    
    
CHECK_DEADLOCK FALSE
