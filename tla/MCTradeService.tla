---------------------------- MODULE MCTradeService ----------------------------
(* Small instances of TradeService for TLC. *)
EXTENDS TradeService

CONSTANTS tap1, tap2

OneTap == {tap1}
TwoTaps == {tap1, tap2}
OpenClose == {"open", "close"}
AllOps == {"open", "amend", "close"}
OpenAmend == {"open", "amend"}
HorizonOnly == {{"horizon"}}
NoneOrHorizon == {{}, {"horizon"}}
NoneOrBoth == {{}, {"horizon", "stop"}}

(* An order refused, or executed and never heard of, or a row not written,  *)
(* or a position gone; a position that goes its own way and takes no exit   *)
(* from anybody; a call that may be made again; an order that was not       *)
(* placed.                                                                  *)
AtThePlace == {"refused", "lost", "store", "gone"}
Harmless == {"gone"}
Transient == {"error", "read"}
Errors == {"error"}
=============================================================================
