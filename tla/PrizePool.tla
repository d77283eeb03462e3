------------------------------ MODULE PrizePool ------------------------------
(***************************************************************************)
(* contracts/src/StrategyPrizePool.sol: the weekly prize of every          *)
(* strategy, held by a contract.  Anyone funds a pool, a settler publishes *)
(* the winners of a finished week, and every winner claims a share.  What  *)
(* a week leaves unpaid is carried to the next week once; what was carried *)
(* already is retained for the owner.                                      *)
(*                                                                         *)
(* One action per external function.  A call that reverts changes nothing, *)
(* so it is a disabled action.  `held' is the token balance of the         *)
(* contract (the ERC-20 is external), `contributed' is a history variable. *)
(***************************************************************************)
EXTENDS Naturals, FiniteSetsExt

CONSTANTS
    Strategies,     \* bytes32 strategy keys
    Accounts,       \* addresses: funders, settlers, winners, the owner
    Deployer,       \* msg.sender of the constructor
    LastWeek,       \* bound: the clock stops in this week
    MaxAmount       \* bound: the contract is given this much in all

ASSUME PoolAssumption ==
    /\ Deployer \in Accounts
    /\ LastWeek \in Nat
    /\ MaxAmount \in Nat
    /\ IsFiniteSet(Strategies)      \* there are 2^256 keys
    /\ IsFiniteSet(Accounts)        \* and 2^160 addresses

Weeks == 0 .. LastWeek

VARIABLES
    now,            \* weekOf(block.timestamp)
    owner,
    settlers,
    pool,           \* [week, strategy]: funded and not yet allocated
    settled,
    prizes,         \* [week, strategy]: wallet -> prize
    claimed,        \* [week, strategy]: the wallets that took theirs
    carriedIn,      \* [week, strategy]: what the week before left to it
    retained,
    held,           \* token.balanceOf(address(this))
    contributed     \* history, [week, strategy]: paid in through fund

moneyVars == <<pool, settled, prizes, claimed, carriedIn, retained, held, contributed>>
roleVars == <<owner, settlers>>
vars == <<now, owner, settlers, pool, settled, prizes, claimed, carriedIn,
          retained, held, contributed>>

Keys == Weeks \X Strategies
NoPrizes == [a \in Accounts |-> 0]

Total(p) == MapThenSumSet(LAMBDA a : p[a], DOMAIN p)

Init ==
    /\ now = 0
    /\ owner = Deployer
    /\ settlers \in {{a} : a \in Accounts} \cup {{}}
    /\ pool = [k \in Keys |-> 0]
    /\ settled = [k \in Keys |-> FALSE]
    /\ prizes = [k \in Keys |-> NoPrizes]
    /\ claimed = [k \in Keys |-> {}]
    /\ carriedIn = [k \in Keys |-> 0]
    /\ retained = 0
    /\ held = 0
    /\ contributed = [k \in Keys |-> 0]

(* A block of the next week is mined. *)
NextWeek ==
    /\ now < LastWeek
    /\ now' = now + 1
    /\ UNCHANGED <<roleVars, moneyVars>>

SetSettler(caller, a, allowed) ==
    /\ caller = owner
    /\ settlers' = IF allowed THEN settlers \cup {a} ELSE settlers \ {a}
    /\ UNCHANGED <<now, owner, moneyVars>>

SetOwner(caller, next) ==
    /\ caller = owner
    /\ owner' = next
    /\ UNCHANGED <<now, settlers, moneyVars>>

(* A slip: the money is added to the running week's pool. *)
FundThisWeek(k, amount) ==
    /\ amount > 0
    /\ ~settled[k]
    /\ pool' = [pool EXCEPT ![<<now, k[2]>>] = @ + amount]
    /\ held' = held + amount
    /\ contributed' = [contributed EXCEPT ![k] = @ + amount]
    /\ UNCHANGED <<now, roleVars, settled, prizes, claimed, carriedIn, retained>>

(* Any week that is not settled may be funded: a past, this or a future one. *)
Fund(k, amount) ==
    /\ amount > 0
    /\ ~settled[k]
    /\ pool' = [pool EXCEPT ![k] = @ + amount]
    /\ held' = held + amount
    /\ contributed' = [contributed EXCEPT ![k] = @ + amount]
    /\ UNCHANGED <<now, roleVars, settled, prizes, claimed, carriedIn, retained>>

(* What settlement leaves unpaid, in two parts: what travels and what stays. *)
Left(k, paid) == pool[k] - paid
Fresh(k) == pool[k] - carriedIn[k]

(* Slips: to carry what the week had inherited too, to retain nothing.     *)
CarriedWhole(k, paid) == Left(k, paid)
StaleLost(k, paid) == 0

Carried(k, paid) == IF Left(k, paid) < Fresh(k) THEN Left(k, paid) ELSE Fresh(k)
Stale(k, paid) == Left(k, paid) - Carried(k, paid)

Following(k) == <<k[1] + 1, k[2]>>

(* A slip: a week may be settled again. *)
CanSettleAgain(caller, k) ==
    /\ caller \in settlers
    /\ k[1] < now
    /\ pool[k] >= carriedIn[k]

CanSettle(caller, k) ==
    /\ caller \in settlers
    /\ k[1] < now
    /\ ~settled[k]
    /\ pool[k] >= carriedIn[k]      \* checked arithmetic: _rest reverts on underflow

(* `won' is the sum of `amounts' for every account in `winners'. *)
Settle(caller, k, won, paid) ==
    /\ CanSettle(caller, k)
    /\ paid <= pool[k]
    /\ prizes' = [prizes EXCEPT ![k] = [a \in Accounts |-> @[a] + won[a]]]
    /\ settled' = [settled EXCEPT ![k] = TRUE]
    /\ pool' = [pool EXCEPT ![k] = paid,
                            ![Following(k)] = @ + Carried(k, paid)]
    /\ carriedIn' = [carriedIn EXCEPT ![Following(k)] = @ + Carried(k, paid)]
    /\ retained' = retained + Stale(k, paid)
    /\ UNCHANGED <<now, roleVars, claimed, held, contributed>>

Claim(caller, k) ==
    /\ settled[k]
    /\ prizes[k][caller] > 0
    /\ caller \notin claimed[k]
    /\ held >= prizes[k][caller]    \* or the token reverts the transfer
    /\ claimed' = [claimed EXCEPT ![k] = @ \cup {caller}]
    /\ held' = held - prizes[k][caller]
    /\ UNCHANGED <<now, roleVars, pool, settled, prizes, carriedIn, retained, contributed>>

Sweep(caller) ==
    /\ caller = owner
    /\ retained > 0
    /\ held >= retained             \* or the token reverts the transfer
    /\ held' = held - retained
    /\ retained' = 0
    /\ UNCHANGED <<now, roleVars, pool, settled, prizes, claimed, carriedIn, contributed>>

(***************************************************************************)
(* The environment chooses the arguments.  The second conjunct of the      *)
(* funding bounds what is paid in, over the whole behaviour, by MaxAmount. *)
(***************************************************************************)
PaidIn == Total(contributed)

Next ==
    \/ NextWeek
    \/ \E caller, a \in Accounts, allowed \in BOOLEAN : SetSettler(caller, a, allowed)
    \/ \E caller, next \in Accounts : SetOwner(caller, next)
    \/ \E k \in Keys, amount \in 0 .. MaxAmount :
         PaidIn + amount <= MaxAmount /\ Fund(k, amount)
    \/ \E caller \in Accounts, k \in Keys :
         \E paid \in 0 .. pool[k], won \in [Accounts -> 0 .. pool[k]] :
            Total(won) = paid /\ Settle(caller, k, won, paid)
    \/ \E caller \in Accounts, k \in Keys : Claim(caller, k)
    \/ \E caller \in Accounts : Sweep(caller)

Spec == Init /\ [][Next]_vars

-----------------------------------------------------------------------------
(* Properties *)

TypeOK ==
    /\ now \in Weeks
    /\ owner \in Accounts
    /\ settlers \in SUBSET Accounts
    /\ pool \in [Keys -> Nat]
    /\ settled \in [Keys -> BOOLEAN]
    /\ prizes \in [Keys -> [Accounts -> Nat]]
    /\ claimed \in [Keys -> SUBSET Accounts]
    /\ carriedIn \in [Keys -> Nat]
    /\ retained \in Nat
    /\ held \in Nat
    /\ contributed \in [Keys -> Nat]

(***************************************************************************)
(* Until a week is settled its pool is what was paid in for it and what    *)
(* the week before left to it, and its winners are unwritten.  `_rest'     *)
(* relies on it: `available - carriedIn' must not underflow, or a pool     *)
(* could never be settled and its money never leave the contract.          *)
(***************************************************************************)
UnsettledPoolIsOwnPlusCarried ==
    \A k \in Keys : ~settled[k] =>
        /\ pool[k] = contributed[k] + carriedIn[k]
        /\ prizes[k] = NoPrizes
        /\ claimed[k] = {}

(***************************************************************************)
(* "Money is carried once": a week inherits nothing before the week before *)
(* it is settled, and then at most what was paid in for that very week,    *)
(* never what that week had itself inherited.                              *)
(***************************************************************************)
CarriedOnce ==
    \A k \in Keys : Following(k) \in Keys =>
        carriedIn[Following(k)] <= IF settled[k] THEN contributed[k] ELSE 0

Unclaimed(k) == Total([a \in Accounts \ claimed[k] |-> prizes[k][a]])

(* Owed by a pool: what it holds unallocated and what winners left there. *)
OwedBy(k) == pool[k] - Total(prizes[k]) + Unclaimed(k)

(***************************************************************************)
(* No unit is lost or paid twice: the contract's balance is exactly what   *)
(* is retained, what pools hold unallocated and what winners have not      *)
(* taken yet.  Hence no claim and no sweep can fail for want of tokens.    *)
(* "Nothing a winner can claim is ever part of" what the owner sweeps:     *)
(* with that gone, the prizes still owed are covered.                      *)
(***************************************************************************)
Conserved ==
    /\ held = retained + Total([k \in Keys |-> OwedBy(k)])
    /\ held - retained >= Total([k \in Keys |-> Unclaimed(k)])

(***************************************************************************)
(* "Once settled, nobody can take the money back or change who won": no    *)
(* step reopens a settled week, rewrites its prizes, takes money out of    *)
(* its pool or lets a wallet claim again.                                  *)
(***************************************************************************)
SettledIsFinal ==
    [][\A k \in Keys : settled[k] =>
          /\ settled'[k]
          /\ prizes'[k] = prizes[k]
          /\ pool'[k] >= pool[k]
          /\ claimed[k] \subseteq claimed'[k]]_vars

-----------------------------------------------------------------------------
(* What the indexer says of the contract *)

CarriedTo(k) == IF settled[k] THEN carriedIn[Following(k)] ELSE 0

(* The pool as its last funding or its last carry announced it; what       *)
(* arrives after the settlement comes on top of what was paid only.        *)
LastTotal(k) ==
    IF settled[k] /\ pool[k] = Total(prizes[k]) THEN contributed[k] + carriedIn[k] ELSE pool[k]

IsKnown(k) == settled[k] \/ contributed[k] + carriedIn[k] > 0

Taken(k) == Total(prizes[k]) - Unclaimed(k)

IndexTotals ==
    [funded |-> Total([k \in Keys |-> contributed[k] + carriedIn[k]]),
     paid |-> Total([k \in Keys |-> Total(prizes[k])]),
     claimed |-> Total([k \in Keys |-> Taken(k)]),
     pools |-> Cardinality({k \in Keys : IsKnown(k)}),
     settled |-> Cardinality({k \in Keys : settled[k]})]

IndexPools ==
    [k \in Keys |->
        [known |-> IsKnown(k), funded |-> LastTotal(k), settled |-> settled[k],
         carried |-> CarriedTo(k), claimed |-> Taken(k)]]

IndexPrizes ==
    [k \in Keys |-> [a \in Accounts |->
        [amount |-> prizes[k][a], claimed |-> a \in claimed[k]]]]

Index == INSTANCE PrizeIndex WITH
    Pools <- Keys, Wallets <- Accounts,
    totals <- IndexTotals, pools <- IndexPools, prizes <- IndexPrizes

(***************************************************************************)
(* The contract implements the indexer's fold: every call's events, taken  *)
(* in their order, bring rows and totals from what the storage said before *)
(* to what it says after, for weeks settled in any order.  In particular   *)
(* what is carried counts as funded a second time.                         *)
(***************************************************************************)
IndexFollows == Index!Spec
=============================================================================
