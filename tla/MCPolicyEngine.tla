---------------------------- MODULE MCPolicyEngine ----------------------------
(* Small instances of PolicyEngine for TLC. *)
EXTENDS PolicyEngine

CONSTANTS alice, tap1, tap2

MCAccounts == {alice}
MCCallers == {tap1, tap2}

(* Limits that differ in the cap on positions, as the two tiers do, and an  *)
(* incoherent one; the total exposure admits two positions of 2, no third.  *)
MCLimits(open) == [symbols |-> {"BTC"}, min |-> 1, max |-> 2, leverage |-> 1,
                   total |-> 4, open |-> open, loss |-> 1, cooldown |-> 1]
MCLimitChoices == {MCLimits(1), MCLimits(2), MCLimits(0)}
OneLimit == {MCLimits(1)}

(* An order within the limits, one over every static limit, and a close. *)
MCRequest(symbol, reduce, notional) ==
    [account |-> alice, symbol |-> symbol, reduce |-> reduce,
     notional |-> notional, leverage |-> 1]
MCRequests == {MCRequest("BTC", FALSE, 2), MCRequest("ETH", FALSE, 3), MCRequest("BTC", TRUE, 2)}

MCBooks == {[count |-> 0, exposure |-> 0], [count |-> 3, exposure |-> 3]}
MCPnLs == {-1, 1}
MCSlips == {-1, 0}
=============================================================================
