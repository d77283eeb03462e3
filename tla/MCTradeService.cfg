SPECIFICATION Spec
CONSTANTS
    tap1 = tap1
    tap2 = tap2
    Taps <- OneTap
    TapOps <- AllOps
    Asked <- NoneOrBoth
    MaxTimers = 2
    MaxStops = 2
    MaxPosition = 1
    MaxGen = 1
    Faults <- AtThePlace
    MaxFaults = 1
    MaxCrashes = 1
INVARIANTS
    OneExitOfEachKind
CHECK_DEADLOCK FALSE
