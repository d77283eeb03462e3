SPECIFICATION PlatformSpec
CONSTANTS
    tap1 = tap1
    tap2 = tap2
    Taps <- TwoTaps
    TapOps <- OpenClose
    Asked <- NoneOrHorizon
    MaxTimers = 2
    MaxStops = 1
    MaxPosition = 2
    MaxGen = 2
    Faults <- Harmless
    MaxFaults = 1
    MaxCrashes = 0
    place1 = place1
    place2 = place2
    Places <- MCPlaces
    OrderTTL = 1
    MaxBlocks = 3
    MaxID = 3
    MaxWire = 2
    MaxMishaps = 1
SYMMETRY Exchange
INVARIANTS
    
    PositionIsCounted
    PlacesOnce
    AnswersAreTheirOwn
    DropFailsWhatIsInFlight
CHECK_DEADLOCK FALSE
