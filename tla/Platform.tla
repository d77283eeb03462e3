------------------------------- MODULE Platform -------------------------------
(***************************************************************************)
(* Two parts of the platform's process: a wallet's trading service, and    *)
(* the client of the venue that its orders go through.  The service takes  *)
(* of Adapter.Place what TradeService's faults name, and the client does   *)
(* not know who calls it, so a behavior is of one of them, which is chosen *)
(* at the start; the other stays as it began.                              *)
(***************************************************************************)
EXTENDS TradeService, TradingClient

VARIABLE part

PlatformInit ==
    /\ part \in {"service", "client"}
    /\ Init
    /\ ClientInit
    /\ part = "service" => exists

PlatformNext ==
    /\ UNCHANGED part
    /\ \/ part = "service" /\ Next /\ UNCHANGED clientVars
       \/ part = "client" /\ ClientNext /\ UNCHANGED vars

PlatformSpec == PlatformInit /\ [][PlatformNext]_<<part, vars, clientVars>>
=============================================================================
