----------------------------- MODULE MCPrizePool -----------------------------
(* Small instances of PrizePool for TLC. *)
EXTENDS PrizePool

CONSTANTS deployer, player, macross

MCStrategies == {macross}
MCAccounts == {deployer, player}
=============================================================================
