----------------------------- MODULE PrizeService -----------------------------
(***************************************************************************)
(* services/internal/platform/prize.go: the platform as the settler of the *)
(* prize pool (PrizePool).  An operator confirms a finished week's fees,   *)
(* which funds and settles the week; a loop in the background sends what   *)
(* is still owed and settles last week where that did not go through.      *)
(*                                                                         *)
(* A worker is a goroutine: a receipt request or the loop.  Its calls to   *)
(* the store and the chain, and its critical sections, are its steps.  A   *)
(* transaction is mined while its sender waits, fails, or outlives the     *)
(* wait: then it stays with the node, in nonce order, mined or dropped     *)
(* later.  Claims and sweeps, which touch nothing read here, are left to   *)
(* PrizePool; nobody but the platform funds a pool.                        *)
(***************************************************************************)
EXTENDS Integers, Sequences, FiniteSetsExt

CONSTANTS
    Strategies, Accounts, Deployer, LastWeek, MaxAmount,    \* see PrizePool
    Requests,       \* receipt requests that may be served at the same time
    Loop,           \* the goroutine of Run
    Amounts,        \* amounts an operator may confirm
    Accruals,       \* what the journal may say a week earned each pool
    Boards,         \* the wallets a week's board may rank, best first
    MaxErrors,      \* bound: calls that fail
    MaxTimeouts,    \* bound: transactions that outlive the wait for them
    MaxCrashes      \* bound: restarts of the process

Workers == Requests \cup {Loop}
Settler == Deployer                 \* the key the platform signs with

ASSUME PrizeAssumption ==
    /\ Deployer \in Accounts
    /\ {LastWeek, MaxAmount} \subseteq Nat
    /\ Strategies # {}              \* the catalogue
    /\ IsFiniteSet(Strategies) /\ IsFiniteSet(Accounts) /\ IsFiniteSet(Requests)
    /\ Loop \notin Requests
    /\ Amounts \subseteq Nat
    /\ Accruals \subseteq [Strategies -> Nat]
    /\ Boards \subseteq UNION {[1 .. n -> Accounts] : n \in 0 .. 3}
    /\ {MaxErrors, MaxTimeouts, MaxCrashes} \subseteq Nat

VARIABLES
    now, owner, settlers, pool, settled, prizes, claimed, carriedIn, retained,
    held, contributed,              \* the contract's
    receipts,       \* store: week -> amount received, or NoReceipt
    funded,         \* store: the receipt's funded column, [week, strategy]
    listed,         \* store: the prizes table, [week, strategy] -> wallet -> prize
    due,            \* Prize.due: funding owed, not yet sent
    pc,             \* worker -> where it is
    week,           \* worker -> the week it settles
    batch,          \* worker -> what its flush took out of due
    todo,           \* worker -> strategies its settleWeek has not looked at
    at,             \* worker -> the strategy it is settling
    saw,            \* worker -> the pool it read for that strategy
    won,            \* worker -> the winners it published
    pending,        \* the node: transactions nobody waits for any more
    errors, timeouts, crashes       \* bounds

Pool == INSTANCE PrizePool

chainVars == <<now, owner, settlers, pool, settled, prizes, claimed, carriedIn, retained,
               held, contributed>>
storeVars == <<receipts, funded, listed>>
workerVars == <<pc, week, batch, todo, at, saw, won>>
boundVars == <<errors, timeouts, crashes>>
vars == <<chainVars, storeVars, due, workerVars, pending, boundVars>>

Keys == Pool!Keys
Weeks == Pool!Weeks
NoReceipt == [none |-> TRUE]
Nothing == [k \in Keys |-> 0]

Sum(f) == MapThenSumSet(LAMBDA x : f[x], DOMAIN f)

(* allocate: what each strategy accrued, or its share of what was received *)
(* when that is less.                                                      *)
Allocate(accrued, received) ==
    [s \in Strategies |->
        IF received >= Sum(accrued) THEN accrued[s]
        ELSE (accrued[s] * received) \div Sum(accrued)]

(* winners: 50, 30 and 20 percent of the pool to the first three. *)
Shares == <<50, 30, 20>>

Winners(board, money) ==
    [a \in Accounts |->
        Sum([i \in {j \in DOMAIN board : board[j] = a} |-> (money * Shares[i]) \div 100])]

Init ==
    /\ Pool!Init
    /\ settlers = {Settler}         \* NewPrize refuses to start otherwise
    /\ receipts = [w \in Weeks |-> NoReceipt]
    /\ funded = Nothing
    /\ listed = [k \in Keys |-> Pool!NoPrizes]
    /\ due = Nothing
    /\ pc = [w \in Workers |-> "idle"]
    /\ week = [w \in Workers |-> 0]
    /\ batch = [w \in Workers |-> Nothing]
    /\ todo = [w \in Workers |-> {}]
    /\ at = [w \in Workers |-> CHOOSE s \in Strategies : TRUE]
    /\ saw = [w \in Workers |-> 0]
    /\ won = [w \in Workers |-> Pool!NoPrizes]
    /\ pending = <<>>
    /\ errors = 0 /\ timeouts = 0 /\ crashes = 0

-----------------------------------------------------------------------------
(* Helpers *)

Goto(w, label) == pc' = [pc EXCEPT ![w] = label]
ChainUnchanged == UNCHANGED chainVars

(* A call to the store or the node fails. *)
Fails ==
    /\ errors < MaxErrors
    /\ errors' = errors + 1
    /\ UNCHANGED <<timeouts, pending>>

(* A transaction is with the node when its sender stops waiting for it. *)
Outlives(tx) ==
    /\ timeouts < MaxTimeouts
    /\ timeouts' = timeouts + 1
    /\ pending' = Append(pending, tx)
    /\ UNCHANGED errors

Sent == UNCHANGED <<errors, timeouts, pending>>

(* The calls to the contract, from the settler. *)
Fund(k, amount) == Pool!Fund(k, amount)
Publish(k, prize) == Pool!Settle(Settler, k, prize, Sum(prize))

-----------------------------------------------------------------------------
(* Receive *)

(* The week is over, its receipt is the first (the insert does nothing on  *)
(* a conflict), and every pool's share is written down with it.            *)
Receive(r, w, amount, accrued) ==
    /\ pc[r] = "idle"
    /\ w < now
    /\ receipts[w] = NoReceipt
    /\ receipts' = [receipts EXCEPT ![w] = [received |-> amount]]
    /\ funded' = [k \in Keys |-> IF k[1] = w THEN Allocate(accrued, amount)[k[2]] ELSE funded[k]]
    /\ week' = [week EXCEPT ![r] = w]
    /\ Goto(r, "owe")
    /\ ChainUnchanged
    /\ UNCHANGED <<listed, due, batch, todo, at, saw, won, pending, boundVars>>

Owe(r) ==
    /\ pc[r] = "owe"
    /\ due' = [k \in Keys |-> IF k[1] = week[r] THEN due[k] + funded[k] ELSE due[k]]
    /\ Goto(r, "flush")
    /\ ChainUnchanged
    /\ UNCHANGED <<storeVars, week, batch, todo, at, saw, won, pending, boundVars>>

-----------------------------------------------------------------------------
(* flush *)

(* A slip: what is taken stays due, for the next flush to take again. *)
TakeCopy(w) ==
    /\ pc[w] = "flush"
    /\ batch' = [batch EXCEPT ![w] = due]
    /\ Goto(w, "send")
    /\ ChainUnchanged
    /\ UNCHANGED <<storeVars, due, week, todo, at, saw, won, pending, boundVars>>

Take(w) ==
    /\ pc[w] = "flush"
    /\ batch' = [batch EXCEPT ![w] = due]
    /\ due' = Nothing
    /\ Goto(w, "send")
    /\ ChainUnchanged
    /\ UNCHANGED <<storeVars, week, todo, at, saw, won, pending, boundVars>>

(* A slip: what failed is forgotten. *)
PutBackNothing(w, k) == due' = due

(* "Put it back; the next flush tries again." *)
PutBack(w, k) == due' = [due EXCEPT ![k] = @ + batch[w][k]]

(* One fund transaction.  It is refused once the week is settled, and mined *)
(* in its turn, after what the node still holds of this sender.            *)
SendFund(w, k) ==
    /\ pc[w] = "send"
    /\ batch[w][k] > 0
    /\ \/ pending = <<>> /\ Fund(k, batch[w][k]) /\ Sent /\ UNCHANGED due
       \/ settled[k] /\ Sent /\ ChainUnchanged /\ PutBack(w, k)
       \/ Fails /\ ChainUnchanged /\ PutBack(w, k)
       \/ /\ Outlives([call |-> "fund", key |-> k, amount |-> batch[w][k]])
          /\ ChainUnchanged /\ PutBack(w, k)
    /\ batch' = [batch EXCEPT ![w][k] = 0]
    /\ UNCHANGED <<storeVars, pc, week, todo, at, saw, won, crashes>>

(* The batch is through: a receipt goes on to settle its week. *)
Flushed(w) ==
    /\ pc[w] = "send"
    /\ batch[w] = Nothing
    /\ Goto(w, IF w = Loop THEN "idle" ELSE "settle")
    /\ todo' = [todo EXCEPT ![w] = IF w = Loop THEN {} ELSE Strategies]
    /\ ChainUnchanged
    /\ UNCHANGED <<storeVars, due, week, batch, at, saw, won, pending, boundVars>>

-----------------------------------------------------------------------------
(* settleWeek *)

InPool(k) == pool[k]

(* A slip: a pool without money is settled like any other. *)
LookAnyway(w, s) ==
    LET k == <<week[w], s>>
    IN  /\ pc[w] = "settle"
        /\ s \in todo[w]
        /\ todo' = [todo EXCEPT ![w] = @ \ {s}]
        /\ ~settled[k] /\ Sent
        /\ at' = [at EXCEPT ![w] = s]
        /\ saw' = [saw EXCEPT ![w] = InPool(k)]
        /\ Goto(w, "publish")
        /\ ChainUnchanged
        /\ UNCHANGED <<storeVars, due, week, batch, won, crashes>>

Look(w, s) ==
    LET k == <<week[w], s>>
    IN  /\ pc[w] = "settle"
        /\ s \in todo[w]
        /\ todo' = [todo EXCEPT ![w] = @ \ {s}]
        /\ \/ (settled[k] \/ InPool(k) = 0) /\ Sent /\ UNCHANGED <<pc, at, saw>>
           \/ Fails /\ UNCHANGED <<pc, at, saw>>
           \/ /\ ~settled[k] /\ InPool(k) > 0 /\ Sent
              /\ at' = [at EXCEPT ![w] = s]
              /\ saw' = [saw EXCEPT ![w] = InPool(k)]
              /\ Goto(w, "publish")
        /\ ChainUnchanged
        /\ UNCHANGED <<storeVars, due, week, batch, won, crashes>>

(* The winners of the journal's board share the pool as it was read. *)
SendSettle(w, board) ==
    LET k == <<week[w], at[w]>>
        prize == Winners(board, saw[w])
    IN  /\ pc[w] = "publish"
        /\ \/ /\ pending = <<>> /\ Publish(k, prize) /\ Sent
              /\ won' = [won EXCEPT ![w] = prize]
              /\ Goto(w, "list")
           \/ /\ \/ settled[k] /\ Sent
                 \/ Fails
                 \/ Outlives([call |-> "settle", key |-> k, won |-> prize])
              /\ ChainUnchanged
              /\ Goto(w, "settle")
              /\ UNCHANGED won
        /\ saw' = [saw EXCEPT ![w] = 0]
        /\ UNCHANGED <<storeVars, due, week, batch, todo, at, crashes>>

(* SavePrize for every winner: a row there already stays as it is, and one  *)
(* that cannot be written is only logged.                                  *)
List(w) ==
    LET k == <<week[w], at[w]>>
    IN  /\ pc[w] = "list"
        /\ \E rows \in SUBSET Accounts :
             /\ (rows = Accounts /\ Sent) \/ (rows # Accounts /\ Fails)
             /\ listed' = [listed EXCEPT ![k] =
                             [a \in Accounts |-> IF a \in rows /\ @[a] = 0 THEN won[w][a] ELSE @[a]]]
        /\ won' = [won EXCEPT ![w] = Pool!NoPrizes]
        /\ Goto(w, "settle")
        /\ ChainUnchanged
        /\ UNCHANGED <<receipts, funded, due, week, batch, todo, at, saw, crashes>>

Settled(w) ==
    /\ pc[w] = "settle"
    /\ todo[w] = {}
    /\ Goto(w, "idle")
    /\ ChainUnchanged
    /\ UNCHANGED <<storeVars, due, week, batch, todo, at, saw, won, pending, boundVars>>

-----------------------------------------------------------------------------
(* Run, the chain and the process *)

SettleWeek(w, last) ==
    /\ week' = [week EXCEPT ![w] = last]
    /\ todo' = [todo EXCEPT ![w] = Strategies]
    /\ Goto(w, "settle")
    /\ ChainUnchanged
    /\ UNCHANGED <<storeVars, due, batch, at, saw, won, pending, boundVars>>

(* A slip: the running week is settled. *)
TickSettleNow == pc[Loop] = "idle" /\ now > 0 /\ SettleWeek(Loop, now)

(* The funding ticker, and the settlement ticker: last week, no other. *)
TickFund ==
    /\ pc[Loop] = "idle"
    /\ Goto(Loop, "flush")
    /\ ChainUnchanged
    /\ UNCHANGED <<storeVars, due, week, batch, todo, at, saw, won, pending, boundVars>>

TickSettle ==
    /\ pc[Loop] = "idle"
    /\ now > 0
    /\ SettleWeek(Loop, now - 1)

NextWeek ==
    /\ Pool!NextWeek
    /\ UNCHANGED <<storeVars, due, workerVars, pending, boundVars>>

(* The node's next transaction is mined, or it reverts or is dropped. *)
Mine ==
    /\ pending # <<>>
    /\ pending' = Tail(pending)
    /\ LET tx == Head(pending)
       IN  \/ tx.call = "fund" /\ Fund(tx.key, tx.amount)
           \/ tx.call = "settle" /\ Publish(tx.key, tx.won)
           \/ ChainUnchanged
    /\ UNCHANGED <<storeVars, due, workerVars, boundVars>>

(* What was owed is in memory, and goes with the process. *)
Crash ==
    /\ crashes < MaxCrashes
    /\ crashes' = crashes + 1
    /\ due' = Nothing
    /\ pc' = [w \in Workers |-> "idle"]
    /\ batch' = [w \in Workers |-> Nothing]
    /\ todo' = [w \in Workers |-> {}]
    /\ saw' = [w \in Workers |-> 0]
    /\ won' = [w \in Workers |-> Pool!NoPrizes]
    /\ ChainUnchanged
    /\ UNCHANGED <<storeVars, week, at, pending, errors, timeouts>>

Work(w) ==
    \/ Owe(w) \/ Take(w) \/ Flushed(w) \/ List(w) \/ Settled(w)
    \/ \E k \in Keys : SendFund(w, k)
    \/ \E s \in Strategies : Look(w, s)
    \/ \E board \in Boards : SendSettle(w, board)

Next ==
    \/ \E r \in Requests, w \in Weeks, amount \in Amounts, accrued \in Accruals :
         Receive(r, w, amount, accrued)
    \/ \E w \in Workers : Work(w)
    \/ TickFund
    \/ TickSettle
    \/ NextWeek
    \/ Mine
    \/ Crash

Spec == Init /\ [][Next]_vars

(***************************************************************************)
(* Goroutines run, both tickers of the loop tick, and the node mines.      *)
(* Nothing makes an operator confirm a week.                               *)
(***************************************************************************)
FairSpec ==
    /\ Spec
    /\ \A w \in Workers : WF_vars(Work(w))
    /\ SF_vars(TickFund) /\ SF_vars(TickSettle)
    /\ WF_vars(Mine)

-----------------------------------------------------------------------------
(* Properties *)

Amount(f) == f \in [Keys -> Nat]
Prizes == [Accounts -> Nat]
Transactions ==
    [call : {"fund"}, key : Keys, amount : Nat] \cup [call : {"settle"}, key : Keys, won : Prizes]
Labels == {"idle", "owe", "flush", "send", "settle", "publish", "list"}

TypeOK ==
    /\ Pool!TypeOK
    /\ receipts \in [Weeks -> {NoReceipt} \cup [received : Nat]]
    /\ Amount(funded) /\ Amount(due)
    /\ listed \in [Keys -> Prizes]
    /\ pc \in [Workers -> Labels]
    /\ week \in [Workers -> Weeks]
    /\ batch \in [Workers -> [Keys -> Nat]]
    /\ todo \in [Workers -> SUBSET Strategies]
    /\ at \in [Workers -> Strategies]
    /\ saw \in [Workers -> Nat]
    /\ won \in [Workers -> Prizes]
    /\ pending \in Seq(Transactions)
    /\ errors \in 0 .. MaxErrors /\ timeouts \in 0 .. MaxTimeouts /\ crashes \in 0 .. MaxCrashes

(* What a receipt allotted and the platform still means to send. *)
InBatches(k) == Sum([w \in Workers |-> batch[w][k]])

ToBeOwed(k) == Sum([r \in Requests |->
                      IF pc[r] = "owe" /\ week[r] = k[1] THEN funded[k] ELSE 0])

Owed(k) == due[k] + InBatches(k) + ToBeOwed(k)

(***************************************************************************)
(* The flush of a receipt and the loop's may run at the same time, each    *)
(* taking what is due and putting back what failed: until the process dies *)
(* or a transaction outlives its sender, nothing of an allotment is lost   *)
(* or sent twice between them.  (And every variable has its type: no pool, *)
(* no debt and no batch below zero, no week before the first.)             *)
(***************************************************************************)
NothingLostInFlush ==
    /\ TypeOK
    /\ crashes = 0 /\ timeouts = 0 =>
          \A k \in Keys : contributed[k] + Owed(k) = funded[k]

(***************************************************************************)
(* A settlement is computed from a pool read one or more calls earlier.    *)
(* The pool may have grown since, never shrunk, so what it promises is     *)
(* there to be promised, unless somebody else settled the week meanwhile.  *)
(***************************************************************************)
StaleReadStillFits ==
    \A w \in Workers : pc[w] = "publish" =>
        LET k == <<week[w], at[w]>> IN settled[k] \/ saw[w] <= pool[k]

(***************************************************************************)
(* The prizes table is what wallets are shown: a prize in it is one the    *)
(* wallet can claim, in that very amount.                                  *)
(***************************************************************************)
ListedIsClaimable ==
    \A k \in Keys, a \in Accounts :
        listed[k][a] > 0 => settled[k] /\ listed[k][a] = prizes[k][a]

Received(w) == IF receipts[w] = NoReceipt THEN 0 ELSE receipts[w].received

(***************************************************************************)
(* A receipt "funds each pool with what it accrued, never more than what   *)
(* arrived"; but a funding transaction that outlives its wait is sent once *)
(* more.  No other sequence of requests, retries, restarts and flushes     *)
(* sends anything twice: with no late one, no more than was received.      *)
(***************************************************************************)
OverfundedOnlyByLateOnes ==
    \A w \in Weeks :
        Sum([s \in Strategies |-> contributed[<<w, s>>]]) <= (1 + timeouts) * Received(w)

(***************************************************************************)
(* ADR 0006 has an unconfirmed week never settled.  It may be, but only    *)
(* with money the week before left to it, and a confirmed one only with    *)
(* money at all: no empty pool is closed before its receipt could fund it. *)
(***************************************************************************)
UnconfirmedSettlesOnlyCarried ==
    \A k \in Keys : settled[k] => contributed[k] + carriedIn[k] > 0

(***************************************************************************)
(* ADR 0006: "Each strategy's pool for that week is funded with its        *)
(* accrued share": what a receipt allotted reaches the pool.               *)
(***************************************************************************)
AllotmentReachesThePool ==
    \A k \in Keys : funded[k] > 0 ~> contributed[k] >= funded[k]

(***************************************************************************)
(* settleDue: "the safety net behind a receipt whose settlement did not go *)
(* through".  A funded week is settled in the end.                         *)
(***************************************************************************)
FundedWeekSettles ==
    \A k \in Keys : contributed[k] > 0 ~> settled[k]
=============================================================================
