----------------------------- MODULE PhoneDeposit -----------------------------
(***************************************************************************)
(* The deposit screen (apps/mobile/src/app/deposit.tsx): a chain and an    *)
(* asset are picked, a quote gives a one-time address on that chain, and   *)
(* the screen follows the deposit sent there.                              *)
(*                                                                         *)
(* The third party behind the platform is external: an address belongs to  *)
(* the quote it was given for, and a deposit only moves on.  An address is *)
(* the number of its quote.                                                *)
(***************************************************************************)
EXTENDS Integers

CONSTANTS
    Assets,         \* what can be sent: [chain, decimals] and a name
    FirstAsset,     \* the first of the list
    FirstOf,        \* for each chain, the first of its assets
    Amounts,        \* what can be typed: [whole, frac, places]
    Stages,         \* how far a deposit can come, 0..Stages
    MaxQuotes, MaxPicks,    \* bounds
    NONE

Chains == {a.chain : a \in Assets}

DepositAssumption ==
    /\ FirstAsset \in Assets
    /\ FirstOf \in [Chains -> Assets] /\ \A c \in Chains : FirstOf[c].chain = c
    /\ Stages \in Nat /\ MaxQuotes \in Nat /\ MaxPicks \in Nat

VARIABLES
    offered,        \* the options are read: "loading", "read" or "unavailable"
    chain, picked,  \* the chips: the chain, and the asset picked last (assetId)
    typed,          \* the amount
    unlocked,       \* the wallet is signed in
    asking,         \* the quote asked for, NONE when none is: busy
    quote,          \* the one shown: [address, asset, amount]
    reads,          \* reads of a status on their way: [of, stage]
    status,         \* the one shown: [of, stage]
    stage,          \* external: how far each deposit has come
    quotes, picks,  \* bounds
    pickedWhileAsking,  \* history: the quotes under whose asking the chain was changed
    readWhileAsking     \* history: a status was taken while a quote was asked for

chips == <<chain, picked, typed>>
history == <<pickedWhileAsking, readWhileAsking>>
vars == <<offered, chips, unlocked, asking, quote, reads, status, stage, quotes, picks, history>>

Empty == [whole |-> 0, frac |-> 0, places |-> 0]

Init ==
    /\ offered = "loading"
    /\ chain = NONE /\ picked = NONE
    /\ typed = Empty
    /\ unlocked = FALSE
    /\ asking = NONE /\ quote = NONE /\ reads = {} /\ status = NONE
    /\ stage = [n \in 1..MaxQuotes |-> 0]
    /\ quotes = 0 /\ picks = 0
    /\ pickedWhileAsking = {} /\ readWhileAsking = FALSE

Offered ==
    /\ offered = "loading"
    /\ offered' = "read"
    /\ chain' = FirstAsset.chain /\ picked' = FirstAsset
    /\ UNCHANGED <<typed, unlocked, asking, quote, reads, status, stage, quotes, picks, history>>

NotOffered ==
    /\ offered = "loading"
    /\ offered' = "unavailable"
    /\ UNCHANGED <<chips, unlocked, asking, quote, reads, status, stage, quotes, picks, history>>

Unlock ==
    /\ ~unlocked
    /\ unlocked' = TRUE
    /\ UNCHANGED <<offered, chips, asking, quote, reads, status, stage, quotes, picks, history>>

(* The asset picked last, unless it is not on the chain picked since.      *)
asset == IF picked.chain = chain THEN picked ELSE FirstOf[chain]

busy == asking # NONE

(* A slip: the quote of the chain before stays on the screen. *)
WithdrawStatus == quote' = quote /\ status' = NONE

Withdraw == quote' = NONE /\ status' = NONE

pickChain(c) ==
    /\ offered = "read" /\ picks < MaxPicks
    /\ chain' = c
    /\ Withdraw
    /\ reads' = {}
    /\ picks' = picks + 1
    /\ pickedWhileAsking' = pickedWhileAsking \cup
                             (IF busy /\ c # chain THEN {asking.address} ELSE {})
    /\ UNCHANGED <<offered, picked, typed, unlocked, asking, stage, quotes, readWhileAsking>>

pickAsset(a) ==
    /\ offered = "read" /\ picks < MaxPicks
    /\ a.chain = chain
    /\ picked' = a
    /\ picks' = picks + 1
    /\ UNCHANGED <<offered, chain, typed, unlocked, asking, quote, reads, status, stage, quotes,
                   history>>

Type(amount) ==
    /\ offered = "read" /\ picks < MaxPicks
    /\ typed' = amount
    /\ picks' = picks + 1
    /\ UNCHANGED <<offered, chain, picked, unlocked, asking, quote, reads, status, stage, quotes,
                   history>>

(* toUnits: the amount in the asset's smallest unit, if it can be sent.    *)
Sendable(amount) == amount.places <= asset.decimals /\ amount.whole + amount.frac > 0
toUnits(amount) ==
    amount.whole * 10 ^ asset.decimals + amount.frac * 10 ^ (asset.decimals - amount.places)

(* The old quote stays until the new one is here.                          *)
getQuote ==
    /\ offered = "read" /\ unlocked /\ ~busy /\ quotes < MaxQuotes
    /\ Sendable(typed)
    /\ quotes' = quotes + 1
    /\ asking' = [address |-> quotes + 1, asset |-> asset, amount |-> toUnits(typed)]
    /\ status' = NONE
    /\ readWhileAsking' = FALSE
    /\ UNCHANGED <<offered, chips, unlocked, quote, reads, stage, picks, pickedWhileAsking>>

CannotSend ==
    /\ offered = "read" /\ unlocked /\ ~busy
    /\ ~Sendable(typed)
    /\ quote' = NONE /\ status' = NONE /\ reads' = {}
    /\ UNCHANGED <<offered, chips, unlocked, asking, stage, quotes, picks, history>>

(* The follower of the address before is stopped: its answers are dropped. *)
Quoted ==
    /\ busy
    /\ quote' = asking
    /\ asking' = NONE
    /\ reads' = {}
    /\ UNCHANGED <<offered, chips, unlocked, status, stage, quotes, picks, history>>

QuoteFails ==
    /\ busy
    /\ quote' = NONE
    /\ asking' = NONE
    /\ reads' = {}
    /\ UNCHANGED <<offered, chips, unlocked, status, stage, quotes, picks, history>>

(* Several reads may be under way; the answers come in any order.          *)
Answered ==
    /\ quote # NONE
    /\ reads' = reads \cup {[of |-> quote.address, stage |-> stage[quote.address]]}
    /\ UNCHANGED <<offered, chips, unlocked, asking, quote, status, stage, quotes, picks, history>>

TakeStatus(answer) ==
    /\ reads' = reads \ {answer}
    /\ status' = answer
    /\ readWhileAsking' = (readWhileAsking \/ busy)
    /\ UNCHANGED <<offered, chips, unlocked, asking, quote, stage, quotes, picks,
                   pickedWhileAsking>>

(* External: what was sent there arrives, is swapped, lands or comes back. *)
Progress(address) ==
    /\ address <= quotes /\ stage[address] < Stages
    /\ stage' = [stage EXCEPT ![address] = @ + 1]
    /\ UNCHANGED <<offered, chips, unlocked, asking, quote, reads, status, quotes, picks, history>>

Next ==
    \/ Offered \/ NotOffered \/ Unlock
    \/ \E c \in Chains : pickChain(c)
    \/ \E a \in Assets : pickAsset(a)
    \/ \E amount \in Amounts : Type(amount)
    \/ getQuote \/ CannotSend \/ Quoted \/ QuoteFails
    \/ Answered \/ \E answer \in reads : TakeStatus(answer)
    \/ \E address \in 1..MaxQuotes : Progress(address)

Spec == Init /\ [][Next]_vars

-----------------------------------------------------------------------------
(* Properties *)

(***************************************************************************)
(* Money sent to an address on another chain than the one named above it   *)
(* is lost.  The address shown is on the chain shown, also while the next  *)
(* one is asked for, unless the chain was picked while that very quote was *)
(* being asked for; the status under it is its own, unless one was taken   *)
(* while it was being asked for; and a status is never ahead of the        *)
(* deposit.                                                                *)
(***************************************************************************)
AddressIsOnTheChainShown ==
    quote # NONE =>
        /\ quote.asset.chain = chain \/ quote.address \in pickedWhileAsking
        /\ status # NONE =>
              /\ status.of = quote.address \/ readWhileAsking
              /\ status.stage <= stage[status.of]

(* What it rests on: the quote asked for and the one shown are on the      *)
(* chain shown or were picked from under; what is read of a status is of   *)
(* the quote shown, and no later than the deposit.                         *)
OnItsChain(q) ==
    /\ q.address \in 1..quotes
    /\ q.asset.chain = chain \/ q.address \in pickedWhileAsking

OfTheDeposit(s) == s.of \in 1..MaxQuotes /\ s.stage \in Nat /\ s.stage <= stage[s.of]

Following ==
    /\ IF offered = "read" THEN chain \in Chains ELSE asking = NONE /\ quote = NONE
    /\ quotes \in 0..MaxQuotes /\ stage \in [1..MaxQuotes -> Nat]
    /\ asking # NONE => OnItsChain(asking)
    /\ quote # NONE => OnItsChain(quote)
    /\ \A r \in reads : quote # NONE /\ r.of = quote.address /\ OfTheDeposit(r)
    /\ status # NONE => OfTheDeposit(status)
    /\ status # NONE /\ quote # NONE => status.of = quote.address \/ readWhileAsking
    /\ status # NONE /\ asking # NONE => readWhileAsking
=============================================================================
