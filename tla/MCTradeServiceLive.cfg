SPECIFICATION FairSpec
CONSTANTS
    tap1 = tap1
    tap2 = tap2
    Taps <- OneTap
    TapOps <- OpenAmend
    Asked <- NoneOrHorizon
    MaxTimers = 2
    MaxStops = 1
    MaxPosition = 1
    MaxGen = 1
    Faults <- Transient
    MaxFaults = 2
    MaxCrashes = 0
PROPERTY
    HorizonCloses
CHECK_DEADLOCK FALSE
