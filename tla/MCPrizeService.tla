---------------------------- MODULE MCPrizeService ----------------------------
(* Small instances of PrizeService for TLC. *)
EXTENDS PrizeService

CONSTANTS settler, player, macross, rsi, request1, loop

OneStrategy == {macross}
TwoStrategies == {macross, rsi}
MCAccounts == {settler, player}
OneRequest == {request1}

(* 2 units: the first of the board gets 1, and 1 is left to carry. *)
Two == {2}
OneOrTwo == {1, 2}
EarnedTwo == {[s \in Strategies |-> 2]}

(* 4 units received where 5 were accrued: 2 and 1, and 1 stays behind. *)
Four == {4}
EarnedThreeAndTwo == {[s \in Strategies |-> IF s = macross THEN 3 ELSE 2]}

NobodyOrPlayer == {<<>>, <<player>>}
=============================================================================
