---------------------------- MODULE MCPhoneScreens ----------------------------
(* The screens on small instances. *)
EXTENDS PhoneScreens, TLC

CONSTANTS MON, BTC

(* The standard position: two markets, home at 3x and the other at more.   *)
Own(h, o) == [m \in Markets |-> IF m = Home THEN h ELSE o]

(* An ordinary wallet, one that has nothing and less leverage, and a large *)
(* one.                                                                    *)
Small(balance, h, o) ==
    [minSize |-> 5, maxNotional |-> 50, balance |-> balance, maxLeverage |-> 3,
     own |-> Own(h, o), fee |-> 2]
Large ==
    [minSize |-> 10, maxNotional |-> 2000, balance |-> 100, maxLeverage |-> 15,
     own |-> Own(2, 15), fee |-> 2]
MCWorlds == {Small(8, 3, 2), Small(0, 1, 2), Large}

MCSizes == {0, 1000}
MCLeverages == {1, 15}

-----------------------------------------------------------------------------
(* Two boards, of four pages and of one. *)
MCBoards == {"a", "b"}
MCPages == [a |-> 4, b |-> 1]

(* Two filters; one has two full pages and a part of one, and a trade that *)
(* runs, the other exactly a page.                                         *)
MCFilters == {"a", "b"}
MCTrips == [a |-> 8, b |-> 3]
MCRunning == [a |-> 1, b |-> 0]

(* Two tiers past the safe one. *)
MCTiers == 0 .. 2
MCPast == 1 .. 2

(* One chain with two assets, one with one. *)
usdc == [chain |-> "eth", name |-> "usdc", decimals |-> 2]
eth == [chain |-> "eth", name |-> "eth", decimals |-> 3]
sol == [chain |-> "sol", name |-> "sol", decimals |-> 1]
MCAssets == {usdc, eth, sol}
MCFirstOf == [eth |-> usdc, sol |-> sol]
MCAmounts == {[whole |-> 1, frac |-> 25, places |-> 2], [whole |-> 1, frac |-> 5, places |-> 1]}

(* Bars of two and of four ticks. *)
MCPeriods == ("1" :> 2 @@ "5" :> 4)

(* Two things sent to the chart's page, of two values each. *)
MCEffects == <<"interval", "position">>
MCValues == {0, 1}
MCAddresses == {"a", "b"}

(* A wallet with two prizes. *)
MCPrizes == 1 .. 2
=============================================================================
