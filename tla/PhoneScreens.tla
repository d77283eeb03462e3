----------------------------- MODULE PhoneScreens -----------------------------
(***************************************************************************)
(* The phone's screens.  They share no state, so each is explored alone:   *)
(* a behavior is of the standard position or of one other screen, which is *)
(* chosen at the start.  The variables of whichever other screen it is are *)
(* v1, v2, ..., in the order its module declares them.                     *)
(***************************************************************************)
EXTENDS PhoneSettings, Sequences

CONSTANTS
    Boards, FirstBoard, Pages, MaxPicks,                    \* PhoneStandings
    Filters, FirstFilter, Trips, Running, PAGE, MaxFlips,   \* PhoneHistory
    Tiers, Safe, Past, MaxTaps, MaxSlides, MaxPolls,        \* PhoneRisk
    Assets, FirstAsset, FirstOf, Amounts, Stages, MaxQuotes,            \* PhoneDeposit
    PERIODS, FirstInterval, MaxClock, MaxReads, MaxSwitches,            \* ChartFeed
    Effects, Values, Default, Addresses, FirstAddress, MaxChanges,        \* ChartPage
    Prizes, MaxVisits, MaxPresses,                          \* PhoneClaims
    NONE

VARIABLES screen, v1, v2, v3, v4, v5, v6, v7, v8, v9, v10, v11, v12, v13, v14, v15, v16, v17

slots == <<v1, v2, v3, v4, v5, v6, v7, v8, v9, v10, v11, v12, v13, v14, v15, v16, v17>>

(* The slots a screen leaves free. *)
From12 == v12 = NONE /\ v13 = NONE /\ v14 = NONE /\ v15 = NONE /\ v16 = NONE /\ v17 = NONE
From9 == v9 = NONE /\ v10 = NONE /\ v11 = NONE /\ From12
From8 == v8 = NONE /\ From9
From1 == v1 = NONE /\ v2 = NONE /\ v3 = NONE /\ v4 = NONE /\ v5 = NONE /\ v6 = NONE /\ v7 = NONE /\ From8

Standings == INSTANCE PhoneStandings WITH
    knows <- v1, board <- v2, book <- v3, first <- v4, more <- v5, picks <- v6, crossed <- v7

History == INSTANCE PhoneHistory WITH
    filter <- v1, tab <- v2, list <- v3, opening <- v4, later <- v5, flips <- v6,
    overtaken <- v7, turned <- v8

Risk == INSTANCE PhoneRisk WITH
    MaxMoves <- MaxSlides,
    held <- v1, trades <- v2, answers <- v3, report <- v4, draft <- v5, confirm <- v6,
    timers <- v7, busy <- v8, acts <- v9, countdown <- v10, closing <- v11, screen <- v12,
    taps <- v13, moves <- v14, polls <- v15, warned <- v16, sent <- v17

Deposit == INSTANCE PhoneDeposit WITH
    offered <- v1, chain <- v2, picked <- v3, typed <- v4, unlocked <- v5, asking <- v6,
    quote <- v7, reads <- v8, status <- v9, stage <- v10, quotes <- v11, picks <- v12,
    pickedWhileAsking <- v13, readWhileAsking <- v14

Feed == INSTANCE ChartFeed WITH
    clock <- v1, resolution <- v2, live <- v3, newest <- v4, last <- v5, reads <- v6,
    asks <- v7, switches <- v8, chartLast <- v9, refused <- v10, freshest <- v11

Page == INSTANCE ChartPage WITH
    native <- v1, given <- v2, url <- v3, page <- v4, loadedEvent <- v5, has <- v6, wire <- v7,
    told <- v8, ready <- v9, changes <- v10, reloaded <- v11

Claims == INSTANCE PhoneClaims WITH
    paid <- v1, visits <- v2, away <- v3, mount <- v4, reading <- v5, mine <- v6, notice <- v7,
    busy <- v8, claims <- v9, listed <- v10, presses <- v11

ASSUME ScreensAssumption ==
    /\ Standings!StandingsAssumption /\ History!HistoryAssumption /\ Risk!RiskAssumption
    /\ Deposit!DepositAssumption /\ Feed!FeedAssumption /\ Page!ChartPageAssumption
    /\ Claims!ClaimsAssumption

-----------------------------------------------------------------------------
(* The other screens begin beside a standard position that does nothing.   *)
Beside == world = CHOOSE w \in Worlds : TRUE

ScreensInit ==
    /\ Init
    /\ \/ screen = "position" /\ From1
       \/ screen = "standings" /\ Beside /\ Standings!Init /\ From8
       \/ screen = "history" /\ Beside /\ History!Init /\ From9
       \/ screen = "risk" /\ Beside /\ Risk!Init
       \/ screen = "deposit" /\ Beside /\ Deposit!Init /\ v15 = NONE /\ v16 = NONE /\ v17 = NONE
       \/ screen = "feed" /\ Beside /\ Feed!Init /\ From12
       \/ screen = "chart" /\ Beside /\ Page!Init /\ From12
       \/ screen = "claims" /\ Beside /\ Claims!Init /\ From12

Free12 == UNCHANGED <<v12, v13, v14, v15, v16, v17>>
Free9 == UNCHANGED <<v9, v10, v11>> /\ Free12

Other ==
    \/ screen = "standings" /\ Standings!Next /\ UNCHANGED v8 /\ Free9
    \/ screen = "history" /\ History!Next /\ Free9
    \/ screen = "risk" /\ Risk!Next
    \/ screen = "deposit" /\ Deposit!Next /\ UNCHANGED <<v15, v16, v17>>
    \/ screen = "feed" /\ Feed!Next /\ Free12
    \/ screen = "chart" /\ Page!Next /\ Free12
    \/ screen = "claims" /\ Claims!Next /\ Free12

ScreensNext ==
    /\ UNCHANGED screen
    /\ \/ screen = "position" /\ Next /\ UNCHANGED slots
       \/ Other /\ UNCHANGED vars

ScreensSpec == ScreensInit /\ [][ScreensNext]_<<screen, slots, vars>>

-----------------------------------------------------------------------------
(* A behavior is of one screen, so a screen's property is asked of its own. *)

(* leaderboard.tsx, useStandings: the pages of a board follow one another, *)
(* so the rank drawn beside a row is the row's.                            *)
PagesFollow == screen = "standings" => Standings!PagesFollow

(* history.tsx, useHistory: the rows shown are the page's, all of them.    *)
PageIsItsRows == screen = "history" => History!PageIsItsRows

(* risk.tsx, DangerZone: a tier past the safe one was warned of first.     *)
PastSafeTakesTwoTaps == screen = "risk" => Risk!PastSafeTakesTwoTaps

(* deposit.tsx: the address shown is on the chain shown.                   *)
AddressIsOnTheChainShown == screen = "deposit" => Deposit!AddressIsOnTheChainShown

(* tv.js, the datafeed: the price told lags by less than a bar, and no     *)
(* live bar is refused.                                                    *)
PriceIsWithinABar == screen = "feed" => Feed!PriceIsWithinABar

(* TVChart and tv.js: a page drawn shows what the component was given.     *)
PageShowsWhatItIsGiven == screen = "chart" => Page!PageShowsWhatItIsGiven

(* leaderboard.tsx, ClaimBanner: "In your wallet." is true.                *)
InYourWalletIsTrue == screen = "claims" => Claims!InYourWalletIsTrue
=============================================================================
