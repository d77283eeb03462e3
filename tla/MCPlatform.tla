------------------------------ MODULE MCPlatform ------------------------------
(* The service with two taps, and the client with two calls, for TLC. *)
EXTENDS Platform, MCTradeService, TLC

CONSTANTS place1, place2

MCPlaces == {place1, place2}

(* Calls of Place do not differ but in name; taps are not exchanged, for    *)
(* an actor is one of them or a timer.                                     *)
Exchange == Permutations(MCPlaces)
=============================================================================
