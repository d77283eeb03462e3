----------------------------- MODULE PhoneClaims -----------------------------
(***************************************************************************)
(* Claiming the weekly prizes from the leaderboard: the wallet's list      *)
(* (components/prizes.tsx), the banner's one button (ClaimBanner in        *)
(* app/leaderboard.tsx) and the transactions it sends one after another    *)
(* (exchange/prize.ts), all under apps/mobile/src.                         *)
(*                                                                         *)
(* A prize is a strategy's week.  The contract pays each once (PrizePool); *)
(* the node and the platform's list are external.  A claim under way goes  *)
(* on when the screen is left, and the next visit knows nothing of it.     *)
(***************************************************************************)
EXTENDS Naturals

CONSTANTS
    Prizes,         \* the wallet's prizes, each its place in the list
    MaxVisits, MaxPresses,    \* bounds
    NONE

ClaimsAssumption ==
    /\ Prizes \subseteq Nat \ {0} /\ NONE # "inYourWallet"
    /\ MaxVisits \in Nat /\ MaxPresses \in Nat

VARIABLES
    paid,           \* the contract: the prizes paid out
    visits, away,   \* visits of the screen, and whether it was left
    mount,          \* which banner this is: one that goes forgets what it did
    reading,        \* the list is asked for
    mine,           \* the list shown: which of Prizes are said to be claimed
    notice,         \* NONE, "error" or "inYourWallet"
    busy,           \* the button says "Claiming..."
    claims,         \* presses under way: [press, mount, todo, of, at]
    listed,         \* history: the prizes of the claim the notice speaks of
    presses         \* bound

vars == <<paid, visits, away, mount, reading, mine, notice, busy, claims, listed, presses>>

Init ==
    /\ paid = {}
    /\ visits = 1 /\ away = FALSE /\ mount = 0
    /\ reading = TRUE /\ mine = NONE
    /\ notice = NONE /\ busy = FALSE
    /\ claims = {}
    /\ listed = {}
    /\ presses = 0

(* What the platform does not call claimed, tried in the list's order.     *)
Unclaimed(list) == Prizes \ list.claimed
Foremost(todo) == CHOOSE p \in todo : \A q \in todo : p <= q

Banner == ~away /\ mine # NONE /\ Unclaimed(mine) # {}

BannerGoes == mount' = mount + 1 /\ notice' = NONE /\ busy' = FALSE

(* What the platform cannot ask the node it calls unclaimed.               *)
TakeList(said) ==
    /\ reading /\ ~away
    /\ said \subseteq paid
    /\ reading' = FALSE
    /\ mine' = [claimed |-> said]
    /\ IF said = Prizes THEN BannerGoes ELSE UNCHANGED <<mount, notice, busy>>
    /\ UNCHANGED <<paid, visits, away, claims, listed, presses>>

ListFails ==
    /\ reading /\ ~away
    /\ reading' = FALSE
    /\ mine' = NONE
    /\ BannerGoes
    /\ UNCHANGED <<paid, visits, away, claims, listed, presses>>

Press ==
    /\ Banner /\ ~busy
    /\ presses < MaxPresses /\ presses' = presses + 1
    /\ busy' = TRUE
    /\ notice' = NONE
    /\ claims' = claims \cup {[press |-> presses, mount |-> mount, todo |-> Unclaimed(mine),
                               of |-> Unclaimed(mine), at |-> "ready"]}
    /\ UNCHANGED <<paid, visits, away, mount, reading, mine, listed>>

Step(claim, to) == claims' = (claims \ {claim}) \cup {to}

Here(claim) == claim.mount = mount

Ends(claim, words) ==
    /\ claims' = claims \ {claim}
    /\ busy' = (busy /\ ~Here(claim))
    /\ notice' = IF Here(claim) THEN words ELSE notice

(* claimPrize: the network is asked for and the transaction sent; the node *)
(* may refuse it.                                                          *)
Sent(claim) ==
    /\ claim.at = "ready" /\ claim.todo # {}
    /\ Step(claim, [claim EXCEPT !.at = "pending"])
    /\ UNCHANGED <<paid, visits, away, mount, reading, mine, notice, busy, listed, presses>>

(* Mined: the contract pays what it has not paid, if the token lets it.    *)
Mined(claim) ==
    /\ claim.at = "pending"
    /\ \/ /\ Foremost(claim.todo) \notin paid
          /\ paid' = paid \cup {Foremost(claim.todo)}
          /\ Step(claim, [claim EXCEPT !.at = "success"])
       \/ /\ Step(claim, [claim EXCEPT !.at = "reverted"])
          /\ UNCHANGED paid
    /\ UNCHANGED <<visits, away, mount, reading, mine, notice, busy, listed, presses>>

(* A slip: mined is taken for paid. *)
CountsWhenMined(claim) == claim.at \in {"success", "reverted"}

Counts(claim) == claim.at = "success"

Confirmed(claim) ==
    /\ Counts(claim)
    /\ Step(claim, [claim EXCEPT !.at = "ready", !.todo = @ \ {Foremost(@)}])
    /\ UNCHANGED <<paid, visits, away, mount, reading, mine, notice, busy, listed, presses>>

(* A revert, a refusal, or an answer that never came, to what may yet be   *)
(* mined: the rest of the list is not tried.                               *)
ClaimFails(claim) ==
    /\ claim.todo # {}
    /\ Ends(claim, "error")
    /\ paid' \in {paid} \cup (IF claim.at = "pending" THEN {paid \cup {Foremost(claim.todo)}} ELSE {})
    /\ UNCHANGED <<visits, away, mount, reading, mine, listed, presses>>

(* "In your wallet.", and the list is read again. *)
Done(claim) ==
    /\ claim.at = "ready" /\ claim.todo = {}
    /\ Ends(claim, "inYourWallet")
    /\ listed' = IF Here(claim) THEN claim.of ELSE listed
    /\ reading' = (reading \/ Here(claim))
    /\ UNCHANGED <<paid, visits, away, mount, mine, presses>>

Leave ==
    /\ ~away
    /\ away' = TRUE
    /\ reading' = FALSE /\ mine' = NONE
    /\ BannerGoes
    /\ UNCHANGED <<paid, visits, claims, listed, presses>>

Return ==
    /\ away /\ visits < MaxVisits
    /\ away' = FALSE
    /\ visits' = visits + 1
    /\ reading' = TRUE
    /\ UNCHANGED <<paid, mount, mine, notice, busy, claims, listed, presses>>

Next ==
    \/ \E said \in SUBSET Prizes : TakeList(said)
    \/ ListFails \/ Press \/ Leave \/ Return
    \/ \E claim \in claims :
          Sent(claim) \/ Mined(claim) \/ Confirmed(claim) \/ ClaimFails(claim) \/ Done(claim)

Spec == Init /\ [][Next]_vars

-----------------------------------------------------------------------------
(* Properties *)

(***************************************************************************)
(* "In your wallet." is said only when every prize it stands for was paid, *)
(* whatever another visit's claim, a list read too early or a revert have  *)
(* done; and a button that says "Claiming..." has a claim under way.       *)
(***************************************************************************)
InYourWalletIsTrue ==
    /\ notice = "inYourWallet" => listed # {} /\ listed \subseteq paid
    /\ busy => \E claim \in claims : Here(claim)

(* What it rests on: what a claim no longer has to do was paid.            *)
Claim == [press : Nat, mount : Nat, todo : SUBSET Prizes, of : SUBSET Prizes,
          at : {"ready", "pending", "success", "reverted"}]

DoneIsPaid(claim) ==
    /\ claim.of # {} /\ claim.of \subseteq claim.todo \cup paid
    /\ claim.at = "success" => Foremost(claim.todo) \in paid

Honest ==
    /\ mount \in Nat /\ presses \in Nat /\ claims \subseteq Claim
    /\ \A claim \in claims : DoneIsPaid(claim)
=============================================================================
