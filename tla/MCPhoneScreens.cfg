SPECIFICATION ScreensSpec
CONSTANTS
    MON = MON
    BTC = BTC
    NONE = NONE
    Markets = {MON, BTC}
    Home = MON
    Worlds <- MCWorlds
    Sizes <- MCSizes
    Leverages <- MCLeverages
    MaxEdits = 2
    MaxMoves = 1
    MaxAsks = 2
    MaxLaunches = 2
    Boards <- MCBoards
    FirstBoard = "a"
    Pages <- MCPages
    MaxPicks = 4
    Filters <- MCFilters
    FirstFilter = "a"
    Trips <- MCTrips
    Running <- MCRunning
    PAGE = 3
    MaxFlips = 4
    Tiers <- MCTiers
    Safe = 0
    Past <- MCPast
    MaxTaps = 2
    MaxSlides = 2
    MaxPolls = 2
    Assets <- MCAssets
    FirstAsset <- usdc
    FirstOf <- MCFirstOf
    Amounts <- MCAmounts
    Stages = 2
    MaxQuotes = 2
    PERIODS <- MCPeriods
    FirstInterval = "1"
    MaxClock = 5
    MaxReads = 4
    MaxSwitches = 1
    Effects <- MCEffects
    Values <- MCValues
    Default = 0
    Addresses <- MCAddresses
    FirstAddress = "a"
    MaxChanges = 4
    Prizes <- MCPrizes
    MaxVisits = 2
    MaxPresses = 3
INVARIANTS
    TapIsAllowed
    SizeIsBacked
    PagesFollow
    PageIsItsRows
    PastSafeTakesTwoTaps
    AddressIsOnTheChainShown
    PriceIsWithinABar
    PageShowsWhatItIsGiven
    InYourWalletIsTrue
PROPERTIES
    OfferOpensTheKeys
CHECK_DEADLOCK FALSE
