---------------------------- MODULE MCPhoneTrading ----------------------------
(* Two markets, one strategy with a signal. *)
EXTENDS PhoneTrading

TwoMarkets == 1 .. 2
Up == {"up"}
OthersOnly == {"other"}
=============================================================================
