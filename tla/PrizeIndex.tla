------------------------------ MODULE PrizeIndex ------------------------------
(***************************************************************************)
(* indexers/prize-pool: what a dashboard reads about the prize pools, as a *)
(* fold over the contract's events.  The handlers judge nothing: they add, *)
(* and overwrite rows, in the order of the logs.  PrizePool implements     *)
(* this specification, with the rows read off the contract's storage: the  *)
(* events the contract emits are enough to keep the rows equal to it.      *)
(*                                                                         *)
(* Left out: the counts of fundings and of winners, ranks, times, hashes   *)
(* and the rows that list the events themselves.  A row that says nothing  *)
(* stands for one that does not exist.  A field of an event that goes into *)
(* a row as it is (a total, a prize) is read back from that row.           *)
(* A settlement names a winner once, as the platform's do, one row of the  *)
(* board each: a second mention would overwrite the Prize row, where the   *)
(* contract adds to the prize.                                             *)
(***************************************************************************)
EXTENDS Naturals, FiniteSetsExt

CONSTANTS
    Pools,          \* poolId: a week of a strategy
    Wallets

VARIABLES
    totals,         \* the Totals row
    pools,          \* the Pool rows
    prizes          \* the Prize rows

vars == <<totals, pools, prizes>>

NoPool == [known |-> FALSE, funded |-> 0, settled |-> FALSE, carried |-> 0, claimed |-> 0]
NoPrize == [amount |-> 0, claimed |-> FALSE]

Init ==
    /\ totals = [funded |-> 0, paid |-> 0, claimed |-> 0, pools |-> 0, settled |-> 0]
    /\ pools = [k \in Pools |-> NoPool]
    /\ prizes = [k \in Pools |-> [w \in Wallets |-> NoPrize]]

(* loadPool: a pool heard of for the first time is counted. *)
New(ks) == Cardinality({k \in ks : ~pools[k].known})

Funding(row, total) == [row EXCEPT !.known = TRUE, !.funded = total]

(* A slip: the row is written anew, without what it said before. *)
SettlingAnew(row, carried) ==
    [NoPool EXCEPT !.known = TRUE, !.settled = TRUE, !.carried = carried]

Settling(row, carried) == [row EXCEPT !.known = TRUE, !.settled = TRUE, !.carried = carried]

PoolsBut(ks) == \A k \in Pools \ ks : pools'[k] = pools[k]

Funded(k) ==
    /\ pools'[k] = Funding(pools[k], pools'[k].funded) /\ PoolsBut({k})
    /\ prizes' = prizes
    /\ \E amount \in 1 .. pools'[k].funded :
          totals' = [totals EXCEPT !.funded = @ + amount, !.pools = @ + New({k})]

(* A Prize row for every winner, whatever was there. *)
Rewritten(k, winners) ==
    /\ \A w \in winners : prizes'[k][w] = [NoPrize EXCEPT !.amount = prizes'[k][w].amount]
    /\ \A w \in Wallets \ winners : prizes'[k][w] = prizes[k][w]
    /\ \A j \in Pools \ {k} : prizes'[j] = prizes[j]

Total(p) == MapThenSumSet(LAMBDA a : p[a], DOMAIN p)
Paid(k, winners) == Total([w \in winners |-> prizes'[k][w].amount])

Settled(k, winners) ==
    /\ pools'[k] = Settling(pools[k], 0) /\ PoolsBut({k})
    /\ Rewritten(k, winners)
    /\ totals' = [totals EXCEPT !.paid = @ + Paid(k, winners),
                                !.settled = @ + 1, !.pools = @ + New({k})]

(* What a settlement carries is announced first, as a funding of the week  *)
(* it goes to.                                                             *)
SettledAndCarried(k, next, winners) ==
    LET carried == pools'[k].carried
    IN /\ carried > 0
       /\ pools'[k] = Settling(pools[k], carried)
       /\ pools'[next] = Funding(pools[next], pools'[next].funded)
       /\ PoolsBut({k, next})
       /\ Rewritten(k, winners)
       /\ totals' = [totals EXCEPT !.funded = @ + carried, !.paid = @ + Paid(k, winners),
                                   !.settled = @ + 1, !.pools = @ + New({k, next})]

(* Counted for the pool only where a Prize row is found. *)
Claimed(k, w) ==
    \E amount \in 1 .. prizes[k][w].amount :
        /\ prizes' = [prizes EXCEPT ![k][w].claimed = TRUE]
        /\ pools' = [pools EXCEPT ![k].claimed = @ + amount]
        /\ totals' = [totals EXCEPT !.claimed = @ + amount]

Next ==
    \E k \in Pools :
        \/ Funded(k)
        \/ \E winners \in SUBSET Wallets :
              \/ Settled(k, winners)
              \/ \E next \in Pools \ {k} : SettledAndCarried(k, next, winners)
        \/ \E w \in Wallets : Claimed(k, w)

Spec == Init /\ [][Next]_vars
=============================================================================
