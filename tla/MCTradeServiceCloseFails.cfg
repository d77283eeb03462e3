SPECIFICATION Spec
CONSTANTS
    tap1 = tap1
    tap2 = tap2
    Taps <- OneTap
    TapOps <- OpenClose
    Asked <- HorizonOnly
    MaxTimers = 2
    MaxStops = 1
    MaxPosition = 1
    MaxGen = 1
    Faults <- Errors
    MaxFaults = 1
    MaxCrashes = 0
INVARIANT
    PromisedExitsArmed
CHECK_DEADLOCK FALSE
