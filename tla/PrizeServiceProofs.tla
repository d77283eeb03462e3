-------------------------- MODULE PrizeServiceProofs --------------------------
(***************************************************************************)
(* What the settler guarantees for any number of requests at once, any     *)
(* strategies, weeks, amounts and boards, and any bound on failures,       *)
(* transactions that outlive their wait, and restarts: nothing of an       *)
(* allotment is lost or sent twice by flushing it, no pool is funded with  *)
(* more than was received except by a late transaction, no pool without    *)
(* money is settled, and what wallets are shown they can claim.            *)
(***************************************************************************)
EXTENDS PrizeService, FiniteSetTheorems, TLAPS

(* The contract's invariant and the lemmas on sums are proved there. *)
Contract == INSTANCE PrizePoolProofs

-----------------------------------------------------------------------------
(* The inductive invariant *)

(* Nothing is allotted before the receipt that allots it, and then no more *)
(* than was received.                                                      *)
NothingBeforeReceipt ==
    \A k \in Keys : receipts[k[1]] = NoReceipt => funded[k] = 0

AllottedWithinReceipt ==
    \A w \in Weeks : Sum([s \in Strategies |-> funded[<<w, s>>]]) <= Received(w)

(* Only a request owes what its own receipt allotted. *)
OwesAReceipt ==
    /\ pc[Loop] # "owe"
    /\ \A r \in Requests : pc[r] = "owe" => receipts[week[r]] # NoReceipt

(* A batch is held while it is sent, and no longer. *)
BatchWhileSending == \A w \in Workers : pc[w] # "send" => batch[w] = Nothing

(* No more is owed than was allotted; and with no restart and no late      *)
(* transaction, exactly what has not arrived yet.                          *)
OwedWithinAllotment == \A k \in Keys : Owed(k) <= funded[k]

OwedIsWhatIsMissing ==
    crashes = 0 /\ timeouts = 0 => \A k \in Keys : contributed[k] + Owed(k) = funded[k]

(* Each transaction left with the node may send one allotment once more,   *)
(* and each that did was counted: what arrived and what is owed stay       *)
(* within one allotment and one more for every late transaction mined.     *)
Late == timeouts - Len(pending)

SentWithinAllotments ==
    \A k \in Keys : contributed[k] + Owed(k) <= (1 + Late) * funded[k]

LateOnesAreCounted ==
    /\ Len(pending) <= timeouts
    /\ \A i \in DOMAIN pending :
         LET tx == pending[i]
         IN  /\ tx.call = "fund" => tx.amount <= funded[tx.key]
             /\ tx.call = "settle" => settled[tx.key] \/ pool[tx.key] > 0

(* What a worker about to publish read was money, and is still there.      *)
ReadWasMoney == \A w \in Workers : pc[w] = "publish" => saw[w] > 0

(* What a worker is about to list is what the contract holds.              *)
ListsWhatItPublished ==
    \A w \in Workers : pc[w] = "list" =>
        LET k == <<week[w], at[w]>> IN settled[k] /\ won[w] = prizes[k]

(* Debts: what was allotted, what is owed and what arrived. *)
Debts ==
    /\ NothingBeforeReceipt
    /\ AllottedWithinReceipt
    /\ OwesAReceipt
    /\ BatchWhileSending
    /\ OwedWithinAllotment
    /\ OwedIsWhatIsMissing
    /\ SentWithinAllotments
    /\ LateOnesAreCounted

(* Settlements: what was read, published and listed. *)
Settlements ==
    /\ StaleReadStillFits
    /\ ReadWasMoney
    /\ ListsWhatItPublished
    /\ ListedIsClaimable
    /\ UnconfirmedSettlesOnlyCarried

IInv == TypeOK /\ Contract!IInv /\ Debts /\ Settlements

-----------------------------------------------------------------------------
(* Sums, allotments and prizes *)

(* The contract's own assumption holds here. *)
LEMMA ContractAssumption == ASSUME PrizeAssumption PROVE Contract!PoolAssumption
BY DEF PrizeAssumption, Contract!PoolAssumption, IsFiniteSet, Contract!IsFiniteSet

(* The sums of the two modules, and their finite sets, are the same.       *)
LEMMA SameSum == ASSUME NEW f PROVE Contract!Total(f) = Sum(f)
BY DEF Contract!Total, Sum, MapThenSumSet, MapThenFoldSet, Contract!MapThenSumSet,
       Contract!MapThenFoldSet

LEMMA SameFinite == ASSUME NEW S PROVE Contract!IsFiniteSet(S) = IsFiniteSet(S)
BY DEF Contract!IsFiniteSet, IsFiniteSet

(* There are finitely many workers. *)
LEMMA WorkersFinite == ASSUME PrizeAssumption PROVE IsFiniteSet(Workers)
BY FS_AddElement DEF PrizeAssumption, Workers

(* A sum follows a change of one of its terms. *)
LEMMA SumBump ==
    ASSUME PrizeAssumption, NEW D, IsFiniteSet(D), NEW f \in [D -> Nat], NEW e \in [D -> Nat],
           NEW x \in D, \A y \in D : y # x => e[y] = f[y]
    PROVE  Sum(e) = Sum(f) - f[x] + e[x]
<1>1. f \in [D -> Int] /\ e \in [D -> Int]
  OBVIOUS
<1> QED BY <1>1, ContractAssumption, SameSum, SameFinite, Contract!TotalBump

(* A sum of natural numbers is one, and no less than any of its terms. *)
LEMMA SumNat ==
    ASSUME PrizeAssumption, NEW D, IsFiniteSet(D), NEW f \in [D -> Nat]
    PROVE  Sum(f) \in Nat /\ \A x \in D : f[x] <= Sum(f)
BY ContractAssumption, SameSum, SameFinite, Contract!TotalNat

(* Larger terms make no smaller sum. *)
LEMMA SumMono ==
    ASSUME PrizeAssumption, NEW D, IsFiniteSet(D), NEW f \in [D -> Nat], NEW g \in [D -> Nat],
           \A x \in D : f[x] <= g[x]
    PROVE  Sum(f) <= Sum(g)
<1>1. f \in [D -> Int] /\ g \in [D -> Int]
  OBVIOUS
<1> QED BY <1>1, ContractAssumption, SameSum, SameFinite, Contract!TotalMono

(* The sum of zeros. *)
LEMMA SumZero ==
    ASSUME PrizeAssumption, NEW D, IsFiniteSet(D) PROVE Sum([x \in D |-> 0]) = 0
BY ContractAssumption, SameSum, SameFinite, Contract!TotalZero

(* Terms in a proportion keep it in their sums. *)
LEMMA SumScale ==
    ASSUME PrizeAssumption, NEW D, IsFiniteSet(D), NEW f \in [D -> Nat], NEW g \in [D -> Nat],
           NEW c \in Nat, NEW d \in Nat, \A x \in D : c * f[x] <= d * g[x]
    PROVE  c * Sum(f) <= d * Sum(g)
BY ContractAssumption, SameSum, SameFinite, Contract!TotalScale

(***************************************************************************)
(* allocate: what it gives the strategies are amounts, and together no     *)
(* more than was received.  A share is rounded down: times the total, the  *)
(* shares are no more than the accruals times what was received.           *)
(***************************************************************************)
LEMMA AllocateWithin ==
    ASSUME PrizeAssumption, NEW accrued \in [Strategies -> Nat], NEW received \in Nat
    PROVE  /\ Allocate(accrued, received) \in [Strategies -> Nat]
           /\ Sum(Allocate(accrued, received)) <= received
<1> DEFINE T == Sum(accrued)
           f == Allocate(accrued, received)
<1>1. T \in Nat /\ IsFiniteSet(Strategies)
  BY SumNat DEF PrizeAssumption
<1>2. CASE received >= T
  <2>1. f = accrued
    BY <1>2 DEF Allocate
  <2> QED BY <1>1, <1>2, <2>1
<1>3. CASE ~ (received >= T)
  <2>1. T > 0
    BY <1>1, <1>3
  <2>2. f = [s \in Strategies |-> (accrued[s] * received) \div T]
    BY <1>3 DEF Allocate
  <2> HIDE DEF T, f
  <2>3. \A a \in Nat : (a * received) \div T \in Nat /\ T * ((a * received) \div T) <= received * a
    BY <1>1, <2>1
  <2>4. f \in [Strategies -> Nat] /\ \A s \in Strategies : T * f[s] <= received * accrued[s]
    BY <2>2, <2>3
  <2>5. T * Sum(f) <= received * Sum(accrued)
    BY <1>1, <2>4, SumScale
  <2>6. Sum(f) \in Nat /\ T * Sum(f) <= T * received
    BY <1>1, <2>4, <2>5, SumNat, SMTT(30) DEF T
  <2>7. Sum(f) <= received
    BY <1>1, <2>1, <2>6
  <2> QED BY <2>4, <2>7 DEF f
<1> QED BY <1>2, <1>3

(* winners: prizes are amounts. *)
LEMMA WinnersType ==
    ASSUME PrizeAssumption, NEW board \in Boards, NEW money \in Nat
    PROVE  Winners(board, money) \in Prizes /\ Sum(Winners(board, money)) \in Nat
<1>1. PICK n \in 0 .. 3 : board \in [1 .. n -> Accounts]
  BY DEF PrizeAssumption
<1>2. \A i \in 1 .. 3 : Shares[i] \in Nat
  BY DEF Shares
<1>3. \A s \in Nat : (money * s) \div 100 \in Nat
  OBVIOUS
<1>4. ASSUME NEW a \in Accounts PROVE Winners(board, money)[a] \in Nat
  <2> DEFINE S == {j \in DOMAIN board : board[j] = a}
             f == [i \in S |-> (money * Shares[i]) \div 100]
  <2>1. S \subseteq 1 .. n /\ IsFiniteSet(1 .. n) /\ S \subseteq 1 .. 3
    <3>1. \A i, j \in Int : IsFiniteSet(i .. j)
      BY FS_Interval
    <3> QED BY <1>1, <3>1
  <2>2. IsFiniteSet(S)
    BY <2>1, FS_Subset
  <2>3. f \in [S -> Nat]
    BY <1>2, <1>3, <2>1
  <2> HIDE DEF S
  <2>4. Sum(f) \in Nat
    BY <2>2, <2>3, SumNat
  <2> QED BY <2>4 DEF Winners, S
<1>5. Winners(board, money) \in Prizes
  BY <1>4 DEF Winners, Prizes
<1> QED BY <1>5, SumNat DEF Prizes, PrizeAssumption

-----------------------------------------------------------------------------
(* What a step does to the contract *)

(* The two instances of the contract say the same. *)
LEMMA SameTypes == Pool!TypeOK <=> Contract!TypeOK
BY DEF Pool!TypeOK, Contract!TypeOK, Pool!Keys, Contract!Keys, Pool!Weeks, Contract!Weeks

LEMMA SameKeys == Keys = Contract!Keys /\ Keys = Weeks \X Strategies /\ Weeks = 0 .. LastWeek
BY DEF Keys, Weeks, Pool!Keys, Contract!Keys, Pool!Weeks, Contract!Weeks

(* Nothing, a new week, a funding, or the settlement of a pool with money. *)
Funding == \E k \in Keys, amount \in Nat : Fund(k, amount)
Publishing == \E k \in Keys, prize \in Prizes : pool[k] > 0 /\ Publish(k, prize)
ChainStep == ChainUnchanged \/ Pool!NextWeek \/ Funding \/ Publishing

(* No step reopens a week, rewrites its prizes, takes from a pool that is  *)
(* not settled, or takes back what was contributed or carried.             *)
ContractKeeps ==
    /\ \A k \in Keys : settled[k] => settled'[k] /\ prizes'[k] = prizes[k]
    /\ \A k \in Keys : ~settled'[k] => ~settled[k] /\ pool'[k] >= pool[k]
    /\ \A k \in Keys : contributed'[k] >= contributed[k] /\ carriedIn'[k] >= carriedIn[k]

(* One funding, in the contract's own terms. *)
LEMMA FundingIs ==
    ASSUME NEW k \in Keys, NEW amount \in Nat, Fund(k, amount) PROVE Contract!Fund(k, amount)
BY DEF Fund, Pool!Fund, Contract!Fund, Pool!roleVars, Contract!roleVars

(* One settlement, in the contract's own terms. *)
LEMMA PublishingIs ==
    ASSUME NEW k \in Keys, NEW prize \in Prizes, Publish(k, prize)
    PROVE  Contract!Settle(Settler, k, prize, Sum(prize))
BY DEF Publish, Pool!Settle, Contract!Settle, Pool!CanSettle, Contract!CanSettle,
       Pool!Following, Contract!Following, Pool!Carried, Contract!Carried, Pool!Left,
       Contract!Left, Pool!Fresh, Contract!Fresh, Pool!Stale, Contract!Stale,
       Pool!roleVars, Contract!roleVars

(* The contract's invariant survives every step of it. *)
LEMMA ChainInvariant ==
    ASSUME PrizeAssumption, Contract!IInv, ChainStep PROVE Contract!IInv'
<1>1. Contract!PoolAssumption
  BY ContractAssumption
<1>2. CASE ChainUnchanged
  BY <1>2 DEF ChainUnchanged, chainVars, Contract!IInv, Contract!TypeOK,
              Contract!UnsettledPoolIsOwnPlusCarried, Contract!CarriedOnce
<1>3. CASE Pool!NextWeek
  <2>1. Contract!NextWeek
    BY <1>3 DEF Pool!NextWeek, Contract!NextWeek, Pool!roleVars, Contract!roleVars,
                Pool!moneyVars, Contract!moneyVars
  <2> QED BY <1>1, <2>1, Contract!NextIInv DEF Contract!Next
<1>4. CASE Funding
  <2>1. PICK k \in Keys, amount \in Nat : Fund(k, amount)
    BY <1>4 DEF Funding
  <2> QED BY <1>1, <2>1, FundingIs, SameKeys, Contract!FundIInv
<1>5. CASE Publishing
  <2>1. PICK k \in Keys, prize \in Prizes : Publish(k, prize)
    BY <1>5 DEF Publishing
  <2>2. Contract!Settle(Settler, k, prize, Sum(prize))
    BY <2>1, PublishingIs
  <2>3. /\ Sum(prize) \in Nat /\ prize \in [Accounts -> Nat]
        /\ Settler \in Accounts /\ k \in Contract!Keys
    BY SumNat, SameKeys DEF Prizes, PrizeAssumption, Settler
  <2> QED BY <1>1, <2>2, <2>3, Contract!SettleIInv
<1> QED BY <1>2, <1>3, <1>4, <1>5 DEF ChainStep

(* What one funding does. *)
LEMMA FundingDoes ==
    ASSUME TypeOK, NEW k \in Keys, NEW amount \in Nat, Fund(k, amount)
    PROVE  /\ contributed' \in [Keys -> Nat]
           /\ contributed'[k] = contributed[k] + amount
           /\ \A j \in Keys : j # k => contributed'[j] = contributed[j]
           /\ \A j \in Keys : pool'[j] >= pool[j]
           /\ UNCHANGED <<now, settled, prizes, carriedIn>>
<1>1. pool \in [Keys -> Nat] /\ contributed \in [Keys -> Nat]
  BY DEF TypeOK, Pool!TypeOK, Keys
<1> QED BY <1>1 DEF Fund, Pool!Fund

(* What one settlement does. *)
LEMMA PublishingDoes ==
    ASSUME PrizeAssumption, TypeOK, NEW k \in Keys, NEW prize \in Prizes, Publish(k, prize)
    PROVE  /\ ~settled[k]
           /\ settled' = [settled EXCEPT ![k] = TRUE]
           /\ prizes'[k] = [a \in Accounts |-> prizes[k][a] + prize[a]]
           /\ \A j \in Keys : j # k => prizes'[j] = prizes[j] /\ pool'[j] >= pool[j]
           /\ \A j \in Keys : carriedIn'[j] >= carriedIn[j]
           /\ UNCHANGED <<now, contributed>>
<1>1. /\ pool \in [Keys -> Nat] /\ carriedIn \in [Keys -> Nat]
      /\ prizes \in [Keys -> [Accounts -> Nat]]
  BY DEF TypeOK, Pool!TypeOK, Keys
<1> DEFINE n == Pool!Following(k)
           c == Pool!Carried(k, Sum(prize))
<1>2. /\ ~settled[k] /\ Sum(prize) <= pool[k] /\ pool[k] >= carriedIn[k]
      /\ settled' = [settled EXCEPT ![k] = TRUE]
      /\ prizes' = [prizes EXCEPT ![k] = [a \in Accounts |-> @[a] + prize[a]]]
      /\ pool' = [pool EXCEPT ![k] = Sum(prize), ![n] = @ + c]
      /\ carriedIn' = [carriedIn EXCEPT ![n] = @ + c]
      /\ UNCHANGED <<now, contributed>>
  BY DEF Publish, Pool!Settle, Pool!CanSettle
<1>3. c \in Nat
  <2>1. Sum(prize) \in Nat
    BY SumNat DEF Prizes, PrizeAssumption
  <2> QED BY <1>1, <1>2, <2>1 DEF c, Pool!Carried, Pool!Left, Pool!Fresh
<1>4. n # k
  <2>1. k[1] \in Int
    BY SameKeys DEF PrizeAssumption
  <2> QED BY <2>1 DEF Pool!Following
<1> HIDE DEF n, c
<1>5. prizes'[k] = [a \in Accounts |-> prizes[k][a] + prize[a]]
  BY <1>1, <1>2
<1>6. \A j \in Keys : j # k => prizes'[j] = prizes[j] /\ pool'[j] >= pool[j]
  BY <1>1, <1>2, <1>3, <1>4
<1>7. \A j \in Keys : carriedIn'[j] >= carriedIn[j]
  BY <1>1, <1>2, <1>3
<1> QED BY <1>2, <1>5, <1>6, <1>7

(* Nothing is taken back. *)
LEMMA ChainKeeps == ASSUME PrizeAssumption, TypeOK, ChainStep PROVE ContractKeeps
<1>1. /\ pool \in [Keys -> Nat] /\ contributed \in [Keys -> Nat] /\ carriedIn \in [Keys -> Nat]
      /\ settled \in [Keys -> BOOLEAN]
  BY DEF TypeOK, Pool!TypeOK, Keys
<1>2. CASE ChainUnchanged
  BY <1>1, <1>2 DEF ChainUnchanged, chainVars, ContractKeeps
<1>3. CASE Pool!NextWeek
  BY <1>1, <1>3 DEF Pool!NextWeek, Pool!moneyVars, ContractKeeps
<1>4. CASE Funding
  <2>1. PICK k \in Keys, amount \in Nat : Fund(k, amount)
    BY <1>4 DEF Funding
  <2>2. /\ \A j \in Keys : contributed'[j] >= contributed[j]
        /\ \A j \in Keys : pool'[j] >= pool[j]
        /\ UNCHANGED <<settled, prizes, carriedIn>>
    <3>1. /\ contributed'[k] = contributed[k] + amount
          /\ \A j \in Keys : j # k => contributed'[j] = contributed[j]
          /\ \A j \in Keys : pool'[j] >= pool[j]
          /\ UNCHANGED <<settled, prizes, carriedIn>>
      BY <2>1, FundingDoes
    <3>2. \A j \in Keys : contributed'[j] >= contributed[j]
      <4>1. ASSUME NEW j \in Keys PROVE contributed'[j] >= contributed[j]
        <5>1. contributed[j] \in Nat
          BY <1>1
        <5>2. CASE j = k
          BY <3>1, <5>1, <5>2
        <5>3. CASE j # k
          BY <3>1, <5>1, <5>3
        <5> QED BY <5>2, <5>3
      <4> QED BY <4>1
    <3> QED BY <3>1, <3>2
  <2> QED BY <1>1, <2>2 DEF ContractKeeps
<1>5. CASE Publishing
  <2>1. PICK k \in Keys, prize \in Prizes : Publish(k, prize)
    BY <1>5 DEF Publishing
  <2>2. /\ ~settled[k]
        /\ settled' = [settled EXCEPT ![k] = TRUE]
        /\ \A j \in Keys : j # k => prizes'[j] = prizes[j] /\ pool'[j] >= pool[j]
        /\ \A j \in Keys : carriedIn'[j] >= carriedIn[j]
        /\ contributed' = contributed
    BY <2>1, PublishingDoes
  <2>3. \A j \in Keys : contributed'[j] >= contributed[j] /\ carriedIn'[j] >= carriedIn[j]
    BY <1>1, <2>2
  <2>4. \A j \in Keys : settled[j] => settled'[j] /\ prizes'[j] = prizes[j]
    BY <1>1, <2>2
  <2>5. \A j \in Keys : ~settled'[j] => ~settled[j] /\ pool'[j] >= pool[j]
    BY <1>1, <2>2
  <2> QED BY <2>3, <2>4, <2>5 DEF ContractKeeps
<1> QED BY <1>2, <1>3, <1>4, <1>5 DEF ChainStep

(* A pool that is settled had money of its own or left to it. *)
LEMMA ChainSettlesMoney ==
    ASSUME PrizeAssumption, TypeOK, Contract!IInv, UnconfirmedSettlesOnlyCarried, ChainStep
    PROVE  UnconfirmedSettlesOnlyCarried'
<1>1. Contract!IInv' /\ ContractKeeps
  BY ChainInvariant, ChainKeeps
<1>2. /\ contributed \in [Keys -> Nat] /\ carriedIn \in [Keys -> Nat]
      /\ contributed' \in [Keys -> Nat] /\ carriedIn' \in [Keys -> Nat]
      /\ settled \in [Keys -> BOOLEAN]
  BY <1>1, SameKeys DEF TypeOK, Pool!TypeOK, Keys, Contract!IInv, Contract!TypeOK
<1>3. ASSUME NEW k \in Keys, settled'[k] PROVE contributed'[k] + carriedIn'[k] > 0
  <2>1. CASE settled[k]
    <3>1. contributed[k] + carriedIn[k] > 0
      BY <2>1 DEF UnconfirmedSettlesOnlyCarried
    <3>2. contributed'[k] >= contributed[k] /\ carriedIn'[k] >= carriedIn[k]
      BY <1>1 DEF ContractKeeps
    <3> QED BY <1>2, <3>1, <3>2
  <2>2. CASE ~settled[k]
    <3>1. pool[k] = contributed[k] + carriedIn[k]
      BY <2>2, SameKeys DEF Contract!IInv, Contract!UnsettledPoolIsOwnPlusCarried
    <3>2. pool[k] > 0
      <4>1. CASE ChainUnchanged
        BY <1>3, <2>2, <4>1 DEF ChainUnchanged, chainVars
      <4>2. CASE Pool!NextWeek
        BY <1>3, <2>2, <4>2 DEF Pool!NextWeek, Pool!moneyVars
      <4>3. CASE Funding
        BY <1>3, <2>2, <4>3, FundingDoes DEF Funding
      <4>4. CASE Publishing
        <5>1. PICK j \in Keys, prize \in Prizes : pool[j] > 0 /\ Publish(j, prize)
          BY <4>4 DEF Publishing
        <5>2. j = k
          BY <1>2, <1>3, <2>2, <5>1, PublishingDoes, ZenonT(30)
        <5> QED BY <5>1, <5>2
      <4> QED BY <4>1, <4>2, <4>3, <4>4 DEF ChainStep
    <3>3. contributed'[k] >= contributed[k] /\ carriedIn'[k] >= carriedIn[k]
      BY <1>1 DEF ContractKeeps
    <3> QED BY <1>2, <3>1, <3>2, <3>3
  <2> QED BY <2>1, <2>2
<1> QED BY <1>3 DEF UnconfirmedSettlesOnlyCarried

-----------------------------------------------------------------------------
(* Every step takes at most one step of the contract, and keeps the types *)

(* The types of what is not the contract's, variable by variable. *)
StoreTypes ==
    /\ receipts \in [Weeks -> {NoReceipt} \cup [received : Nat]]
    /\ funded \in [Keys -> Nat]
    /\ listed \in [Keys -> Prizes]

WorkerTypes ==
    /\ due \in [Keys -> Nat]
    /\ pc \in [Workers -> Labels]
    /\ week \in [Workers -> Weeks]
    /\ batch \in [Workers -> [Keys -> Nat]]
    /\ todo \in [Workers -> SUBSET Strategies]
    /\ at \in [Workers -> Strategies]
    /\ saw \in [Workers -> Nat]
    /\ won \in [Workers -> Prizes]

NodeTypes ==
    /\ pending \in Seq(Transactions)
    /\ errors \in 0 .. MaxErrors /\ timeouts \in 0 .. MaxTimeouts /\ crashes \in 0 .. MaxCrashes

LEMMA TypesAre == TypeOK <=> Pool!TypeOK /\ StoreTypes /\ WorkerTypes /\ NodeTypes
BY DEF TypeOK, StoreTypes, WorkerTypes, NodeTypes, Amount

(* The request, its week and the strategy it is at make a key. *)
LEMMA KeyOf ==
    ASSUME NEW w \in Weeks, NEW s \in Strategies
    PROVE  <<w, s>> \in Keys /\ <<w, s>>[1] = w /\ <<w, s>>[2] = s
BY SameKeys

LEMMA PartsOf ==
    ASSUME NEW k \in Keys
    PROVE  k[1] \in Weeks /\ k[2] \in Strategies /\ k = <<k[1], k[2]>>
BY SameKeys

(* Bounded counters stay numbers. *)
LEMMA Counters ==
    ASSUME PrizeAssumption, NodeTypes
    PROVE  errors \in Nat /\ timeouts \in Nat /\ crashes \in Nat
BY DEF PrizeAssumption, NodeTypes

(* A failed call, a late transaction and one that went through. *)
LEMMA NodeTypesHold ==
    ASSUME PrizeAssumption, NodeTypes, UNCHANGED crashes, NEW tx \in Transactions,
           Sent \/ Fails \/ Outlives(tx)
    PROVE  NodeTypes'
<1>1. MaxErrors \in Nat /\ MaxTimeouts \in Nat
  BY DEF PrizeAssumption
<1>2. CASE Sent
  BY <1>2 DEF Sent, NodeTypes
<1>3. CASE Fails
  BY <1>1, <1>3 DEF Fails, NodeTypes
<1>4. CASE Outlives(tx)
  <2>1. pending' \in Seq(Transactions)
    BY <1>4 DEF Outlives, NodeTypes
  <2>2. timeouts' \in 0 .. MaxTimeouts /\ UNCHANGED <<errors, crashes>>
    BY <1>1, <1>4 DEF Outlives, NodeTypes
  <2> QED BY <2>1, <2>2 DEF NodeTypes
<1> QED BY <1>2, <1>3, <1>4

(* The types of the platform's own variables, after each kind of step.     *)
OwnTypes == StoreTypes /\ WorkerTypes /\ NodeTypes

LEMMA InitTypes == ASSUME PrizeAssumption, Init PROVE OwnTypes /\ Contract!Init
<1>1. 0 \in Weeks /\ 0 \in 0 .. MaxErrors /\ 0 \in 0 .. MaxTimeouts /\ 0 \in 0 .. MaxCrashes
  BY SameKeys DEF PrizeAssumption
<1>2. StoreTypes
  BY DEF Init, StoreTypes, Nothing, Prizes, Pool!NoPrizes
<1>3. WorkerTypes
  <2>1. (CHOOSE s \in Strategies : TRUE) \in Strategies
    BY DEF PrizeAssumption
  <2> QED BY <1>1, <2>1 DEF Init, WorkerTypes, Nothing, Prizes, Pool!NoPrizes, Labels
<1>4. NodeTypes
  BY <1>1 DEF Init, NodeTypes
<1>5. Contract!Init
  BY DEF Init, Pool!Init, Contract!Init, Pool!NoPrizes, Contract!NoPrizes, Pool!Keys,
         Contract!Keys, Pool!Weeks, Contract!Weeks
<1> QED BY <1>2, <1>3, <1>4, <1>5 DEF OwnTypes

LEMMA ReceiveTypes ==
    ASSUME PrizeAssumption, OwnTypes, NEW r \in Requests, NEW w \in Weeks,
           NEW amount \in Amounts, NEW accrued \in Accruals, Receive(r, w, amount, accrued)
    PROVE  OwnTypes' /\ ChainUnchanged
<1>1. amount \in Nat /\ accrued \in [Strategies -> Nat]
  BY DEF PrizeAssumption
<1>2. Allocate(accrued, amount) \in [Strategies -> Nat]
  BY <1>1, AllocateWithin
<1>3. funded' \in [Keys -> Nat]
  BY <1>2, PartsOf DEF Receive, OwnTypes, StoreTypes
<1>4. receipts' \in [Weeks -> {NoReceipt} \cup [received : Nat]]
  BY <1>1 DEF Receive, OwnTypes, StoreTypes
<1>5. StoreTypes'
  BY <1>3, <1>4 DEF Receive, OwnTypes, StoreTypes
<1>6. WorkerTypes'
  BY DEF Receive, OwnTypes, WorkerTypes, Goto, Labels, Workers
<1> QED BY <1>5, <1>6 DEF Receive, OwnTypes, NodeTypes, boundVars

LEMMA OweTypes ==
    ASSUME PrizeAssumption, OwnTypes, NEW w \in Workers, Owe(w)
    PROVE  OwnTypes' /\ ChainUnchanged
<1>1. due' \in [Keys -> Nat]
  BY DEF Owe, OwnTypes, StoreTypes, WorkerTypes
<1> QED BY <1>1 DEF Owe, OwnTypes, StoreTypes, WorkerTypes, NodeTypes, Goto, Labels, storeVars,
                    boundVars

LEMMA TakeTypes ==
    ASSUME PrizeAssumption, OwnTypes, NEW w \in Workers, Take(w)
    PROVE  OwnTypes' /\ ChainUnchanged
BY DEF Take, OwnTypes, StoreTypes, WorkerTypes, NodeTypes, Goto, Labels, storeVars, boundVars,
       Nothing

LEMMA FlushedTypes ==
    ASSUME PrizeAssumption, OwnTypes, NEW w \in Workers, Flushed(w)
    PROVE  OwnTypes' /\ ChainUnchanged
<1>1. pc' \in [Workers -> Labels]
  BY DEF Flushed, OwnTypes, WorkerTypes, Goto, Labels
<1>2. todo' \in [Workers -> SUBSET Strategies]
  BY DEF Flushed, OwnTypes, WorkerTypes
<1> QED BY <1>1, <1>2 DEF Flushed, OwnTypes, StoreTypes, WorkerTypes, NodeTypes, storeVars,
                          boundVars

LEMMA SettledTypes ==
    ASSUME PrizeAssumption, OwnTypes, NEW w \in Workers, Settled(w)
    PROVE  OwnTypes' /\ ChainUnchanged
BY DEF Settled, OwnTypes, StoreTypes, WorkerTypes, NodeTypes, Goto, Labels, storeVars, boundVars

LEMMA SendFundTypes ==
    ASSUME PrizeAssumption, OwnTypes, NEW w \in Workers, NEW k \in Keys, SendFund(w, k)
    PROVE  OwnTypes' /\ ChainStep
<1> DEFINE tx == [call |-> "fund", key |-> k, amount |-> batch[w][k]]
<1>1. batch[w][k] \in Nat
  BY DEF OwnTypes, WorkerTypes
<1>2. tx \in Transactions
  BY <1>1 DEF Transactions
<1>3. Sent \/ Fails \/ Outlives(tx)
  BY DEF SendFund
<1>4. UNCHANGED crashes
  BY DEF SendFund
<1> HIDE DEF tx
<1>5. NodeTypes'
  BY <1>2, <1>3, <1>4, NodeTypesHold DEF OwnTypes
<1>6. due' \in [Keys -> Nat]
  <2>1. due' = due \/ PutBack(w, k)
    BY DEF SendFund
  <2>2. due \in [Keys -> Nat] /\ due[k] + batch[w][k] \in Nat
    BY <1>1 DEF OwnTypes, WorkerTypes
  <2> QED BY <2>1, <2>2 DEF PutBack
<1>7. batch' \in [Workers -> [Keys -> Nat]]
  BY DEF SendFund, OwnTypes, WorkerTypes
<1>8. StoreTypes' /\ WorkerTypes'
  BY <1>6, <1>7 DEF SendFund, OwnTypes, StoreTypes, WorkerTypes, storeVars
<1>9. ChainStep
  <2>1. ChainUnchanged \/ Fund(k, batch[w][k])
    BY DEF SendFund
  <2> QED BY <1>1, <2>1 DEF ChainStep, Funding
<1> QED BY <1>5, <1>8, <1>9 DEF OwnTypes

LEMMA LookTypes ==
    ASSUME PrizeAssumption, Pool!TypeOK, OwnTypes, NEW w \in Workers, NEW s \in Strategies,
           Look(w, s)
    PROVE  OwnTypes' /\ ChainUnchanged
<1> DEFINE k == <<week[w], s>>
<1>1. k \in Keys /\ pool[k] \in Nat
  BY SameKeys DEF OwnTypes, WorkerTypes, Pool!TypeOK, Keys
<1>2. /\ ChainUnchanged /\ UNCHANGED <<storeVars, due, week, batch, won, crashes>>
      /\ todo' = [todo EXCEPT ![w] = @ \ {s}]
      /\ Sent \/ Fails
  BY DEF Look
<1>3. NodeTypes'
  <2>1. PICK prize : prize \in Prizes
    <3>1. [a \in Accounts |-> 0] \in Prizes
      BY DEF Prizes
    <3> QED BY <3>1
  <2>2. [call |-> "settle", key |-> k, won |-> prize] \in Transactions
    BY <1>1, <2>1 DEF Transactions
  <2> QED BY <1>2, <2>2, NodeTypesHold DEF OwnTypes
<1>4. \/ UNCHANGED <<pc, at, saw>>
      \/ /\ at' = [at EXCEPT ![w] = s]
         /\ saw' = [saw EXCEPT ![w] = pool[k]]
         /\ Goto(w, "publish")
  BY DEF Look, InPool
<1> HIDE DEF k
<1>5. at' \in [Workers -> Strategies] /\ saw' \in [Workers -> Nat] /\ pc' \in [Workers -> Labels]
  <2>1. "publish" \in Labels /\ pc \in [Workers -> Labels] /\ at \in [Workers -> Strategies]
        /\ saw \in [Workers -> Nat]
    BY DEF OwnTypes, WorkerTypes, Labels
  <2> QED BY <1>1, <1>4, <2>1, ZenonT(30) DEF Goto
<1>6. todo' \in [Workers -> SUBSET Strategies]
  BY <1>2 DEF OwnTypes, WorkerTypes
<1>7. StoreTypes' /\ WorkerTypes'
  BY <1>2, <1>5, <1>6 DEF OwnTypes, StoreTypes, WorkerTypes, storeVars
<1> QED BY <1>2, <1>3, <1>7 DEF OwnTypes

(* What is published was read from a pool with money, which is still there *)
(* unless the week was settled meanwhile; and then it is refused.          *)
LEMMA SendSettleTypes ==
    ASSUME PrizeAssumption, Pool!TypeOK, OwnTypes, Settlements, NEW w \in Workers,
           NEW board \in Boards, SendSettle(w, board)
    PROVE  OwnTypes' /\ ChainStep
<1> DEFINE k == <<week[w], at[w]>>
           prize == Winners(board, saw[w])
           tx == [call |-> "settle", key |-> k, won |-> prize]
<1>1. k \in Keys /\ saw[w] \in Nat /\ pool[k] \in Nat
  BY SameKeys DEF OwnTypes, WorkerTypes, Pool!TypeOK, Keys
<1>2. prize \in Prizes
  <2>1. ASSUME NEW m \in Nat PROVE Winners(board, m) \in Prizes
    BY WinnersType
  <2> QED BY <1>1, <2>1
<1>3. tx \in Transactions
  BY <1>1, <1>2 DEF Transactions
<1>4. /\ pc[w] = "publish"
      /\ \/ /\ Publish(k, prize) /\ Sent
            /\ won' = [won EXCEPT ![w] = prize]
            /\ Goto(w, "list")
         \/ /\ Sent \/ Fails \/ Outlives(tx)
            /\ ChainUnchanged
            /\ Goto(w, "settle")
            /\ UNCHANGED won
      /\ saw' = [saw EXCEPT ![w] = 0]
      /\ UNCHANGED <<storeVars, due, week, batch, todo, at, crashes>>
  BY DEF SendSettle
<1>5. settled[k] \/ (saw[w] <= pool[k] /\ saw[w] > 0)
  BY <1>4 DEF Settlements, StaleReadStillFits, ReadWasMoney
<1> HIDE DEF k, prize, tx
<1>6. NodeTypes'
  BY <1>3, <1>4, NodeTypesHold DEF OwnTypes
<1>7. pc' \in [Workers -> Labels] /\ won' \in [Workers -> Prizes] /\ saw' \in [Workers -> Nat]
  <2>1. /\ "list" \in Labels /\ "settle" \in Labels /\ pc \in [Workers -> Labels]
        /\ won \in [Workers -> Prizes] /\ saw \in [Workers -> Nat]
    BY DEF OwnTypes, WorkerTypes, Labels
  <2>2. saw' \in [Workers -> Nat]
    BY <1>4, <2>1
  <2>3. pc' \in [Workers -> Labels]
    BY <1>4, <2>1 DEF Goto
  <2>4. won' \in [Workers -> Prizes]
    BY <1>2, <1>4, <2>1
  <2> QED BY <2>2, <2>3, <2>4
<1>8. StoreTypes' /\ WorkerTypes'
  BY <1>4, <1>7 DEF OwnTypes, StoreTypes, WorkerTypes, storeVars
<1>9. ChainStep
  <2>1. CASE Publish(k, prize)
    <3>1. ~settled[k]
      BY <2>1 DEF Publish, Pool!Settle, Pool!CanSettle
    <3>2. pool[k] > 0
      BY <1>1, <1>5, <3>1
    <3> QED BY <1>1, <1>2, <2>1, <3>2 DEF ChainStep, Publishing
  <2> QED BY <1>4, <2>1 DEF ChainStep
<1> QED BY <1>6, <1>8, <1>9 DEF OwnTypes

LEMMA ListTypes ==
    ASSUME PrizeAssumption, OwnTypes, NEW w \in Workers, List(w)
    PROVE  OwnTypes' /\ ChainUnchanged
<1> DEFINE k == <<week[w], at[w]>>
<1>1. k \in Keys /\ won[w] \in Prizes
  BY SameKeys DEF OwnTypes, WorkerTypes
<1>2. PICK rows \in SUBSET Accounts :
         /\ Sent \/ Fails
         /\ listed' = [listed EXCEPT ![k] =
                         [a \in Accounts |-> IF a \in rows /\ @[a] = 0 THEN won[w][a] ELSE @[a]]]
  BY DEF List
<1>3. /\ won' = [won EXCEPT ![w] = Pool!NoPrizes]
      /\ Goto(w, "settle")
      /\ ChainUnchanged
      /\ UNCHANGED <<receipts, funded, due, week, batch, todo, at, saw, crashes>>
  BY DEF List
<1> HIDE DEF k
<1>4. listed' \in [Keys -> Prizes]
  BY <1>1, <1>2 DEF OwnTypes, StoreTypes, Prizes
<1>5. NodeTypes'
  <2>1. [call |-> "settle", key |-> k, won |-> won[w]] \in Transactions
    BY <1>1 DEF Transactions
  <2> QED BY <1>2, <1>3, <2>1, NodeTypesHold DEF OwnTypes
<1>6. won' \in [Workers -> Prizes] /\ pc' \in [Workers -> Labels]
  BY <1>3 DEF OwnTypes, WorkerTypes, Prizes, Pool!NoPrizes, Goto, Labels
<1> QED BY <1>3, <1>4, <1>5, <1>6 DEF OwnTypes, StoreTypes, WorkerTypes

LEMMA SettleWeekTypes ==
    ASSUME PrizeAssumption, OwnTypes, NEW w \in Workers, NEW last \in Weeks, SettleWeek(w, last)
    PROVE  OwnTypes' /\ ChainUnchanged
BY DEF SettleWeek, OwnTypes, StoreTypes, WorkerTypes, NodeTypes, Goto, Labels, storeVars,
       boundVars

LEMMA TickSettleIs ==
    ASSUME PrizeAssumption, Pool!TypeOK, TickSettle
    PROVE  now - 1 \in Weeks /\ pc[Loop] = "idle" /\ SettleWeek(Loop, now - 1) /\ Loop \in Workers
<1>1. now \in Weeks /\ now > 0
  BY SameKeys DEF TickSettle, Pool!TypeOK, Pool!Weeks, Weeks
<1>2. now - 1 \in Weeks
  BY <1>1, SameKeys DEF PrizeAssumption
<1> QED BY <1>2 DEF TickSettle, Workers

LEMMA TickFundTypes ==
    ASSUME PrizeAssumption, OwnTypes, TickFund
    PROVE  OwnTypes' /\ ChainUnchanged
BY DEF TickFund, OwnTypes, StoreTypes, WorkerTypes, NodeTypes, Goto, Labels, storeVars,
       boundVars, Workers

LEMMA MineTypes ==
    ASSUME PrizeAssumption, Pool!TypeOK, OwnTypes, Debts, Mine
    PROVE  OwnTypes' /\ ChainStep
<1> DEFINE tx == Head(pending)
<1>1. pending # <<>> /\ pending' = Tail(pending) /\ pending \in Seq(Transactions)
  BY DEF Mine, OwnTypes, NodeTypes
<1>2. tx \in Transactions /\ pending' \in Seq(Transactions) /\ tx = pending[1] /\ 1 \in DOMAIN pending
  BY <1>1
<1>3. \/ tx.call = "fund" /\ Fund(tx.key, tx.amount)
      \/ tx.call = "settle" /\ Publish(tx.key, tx.won)
      \/ ChainUnchanged
  BY DEF Mine
<1>4. tx.call = "settle" => settled[tx.key] \/ pool[tx.key] > 0
  BY <1>2 DEF Debts, LateOnesAreCounted
<1> HIDE DEF tx
<1>5. /\ tx.key \in Keys
      /\ tx.call = "fund" => tx.amount \in Nat
      /\ tx.call = "settle" => tx.won \in Prizes
  BY <1>2 DEF Transactions
<1>6. ChainStep
  <2>1. CASE tx.call = "settle" /\ Publish(tx.key, tx.won)
    <3>1. ~settled[tx.key]
      BY <2>1 DEF Publish, Pool!Settle, Pool!CanSettle
    <3> QED BY <1>4, <1>5, <2>1, <3>1 DEF ChainStep, Publishing
  <2> QED BY <1>3, <1>5, <2>1 DEF ChainStep, Funding
<1>7. UNCHANGED <<storeVars, due, workerVars, boundVars>>
  BY DEF Mine
<1> QED BY <1>2, <1>6, <1>7 DEF OwnTypes, StoreTypes, WorkerTypes, NodeTypes, storeVars,
                               workerVars, boundVars

LEMMA CrashTypes ==
    ASSUME PrizeAssumption, OwnTypes, Crash
    PROVE  OwnTypes' /\ ChainUnchanged
<1>1. MaxCrashes \in Nat
  BY DEF PrizeAssumption
<1>2. WorkerTypes'
  BY DEF Crash, OwnTypes, WorkerTypes, Nothing, Labels, Prizes, Pool!NoPrizes
<1>3. StoreTypes' /\ NodeTypes'
  BY <1>1 DEF Crash, OwnTypes, StoreTypes, NodeTypes, storeVars
<1> QED BY <1>2, <1>3 DEF Crash, OwnTypes

(* Where nothing of the platform moves, its types stay. *)
LEMMA StillTypes ==
    ASSUME OwnTypes, UNCHANGED <<storeVars, due, workerVars, pending, boundVars>>
    PROVE  OwnTypes'
BY DEF OwnTypes, StoreTypes, WorkerTypes, NodeTypes, storeVars, workerVars, boundVars

(***************************************************************************)
(* Every step takes at most one step of the contract, keeps the types and  *)
(* with them the contract's invariant.                                     *)
(***************************************************************************)
LEMMA StepTypes ==
    ASSUME PrizeAssumption, IInv, [Next]_vars
    PROVE  OwnTypes' /\ ChainStep
<1>1. Pool!TypeOK /\ OwnTypes /\ Debts /\ Settlements
  BY TypesAre DEF IInv, OwnTypes
<1>2. CASE \E r \in Requests, w \in Weeks, amount \in Amounts, accrued \in Accruals :
             Receive(r, w, amount, accrued)
  BY <1>1, <1>2, ReceiveTypes DEF ChainStep
<1>3. ASSUME NEW w \in Workers, Work(w) PROVE OwnTypes' /\ ChainStep
  <2>1. CASE Owe(w)
    BY <1>1, <2>1, OweTypes DEF ChainStep
  <2>2. CASE Take(w)
    BY <1>1, <2>2, TakeTypes DEF ChainStep
  <2>3. CASE Flushed(w)
    BY <1>1, <2>3, FlushedTypes DEF ChainStep
  <2>4. CASE List(w)
    BY <1>1, <2>4, ListTypes DEF ChainStep
  <2>5. CASE Settled(w)
    BY <1>1, <2>5, SettledTypes DEF ChainStep
  <2>6. CASE \E k \in Keys : SendFund(w, k)
    BY <1>1, <2>6, SendFundTypes
  <2>7. CASE \E s \in Strategies : Look(w, s)
    BY <1>1, <2>7, LookTypes DEF ChainStep
  <2>8. CASE \E board \in Boards : SendSettle(w, board)
    BY <1>1, <2>8, SendSettleTypes
  <2> QED BY <1>3, <2>1, <2>2, <2>3, <2>4, <2>5, <2>6, <2>7, <2>8 DEF Work
<1>4. CASE TickFund
  BY <1>1, <1>4, TickFundTypes DEF ChainStep
<1>5. CASE TickSettle
  BY <1>1, <1>5, TickSettleIs, SettleWeekTypes DEF ChainStep
<1>6. CASE NextWeek
  BY <1>1, <1>6, StillTypes DEF NextWeek, ChainStep
<1>7. CASE Mine
  BY <1>1, <1>7, MineTypes
<1>8. CASE Crash
  BY <1>1, <1>8, CrashTypes DEF ChainStep
<1>9. CASE UNCHANGED vars
  <2>1. UNCHANGED <<storeVars, due, workerVars, pending, boundVars>> /\ ChainUnchanged
    BY <1>9 DEF vars, ChainUnchanged
  <2> QED BY <1>1, <2>1, StillTypes DEF ChainStep
<1> QED BY <1>2, <1>3, <1>4, <1>5, <1>6, <1>7, <1>8, <1>9 DEF Next

LEMMA ContractHolds ==
    ASSUME PrizeAssumption, IInv, [Next]_vars
    PROVE  /\ TypeOK' /\ Contract!IInv' /\ ContractKeeps /\ UnconfirmedSettlesOnlyCarried'
<1>1. OwnTypes' /\ ChainStep
  BY StepTypes
<1>2. Contract!IInv' /\ ContractKeeps /\ UnconfirmedSettlesOnlyCarried'
  BY <1>1, ChainInvariant, ChainKeeps, ChainSettlesMoney DEF IInv, Settlements
<1>3. Contract!TypeOK'
  BY <1>2 DEF Contract!IInv
<1>4. (Pool!TypeOK <=> Contract!TypeOK)'
  BY SameTypes, PTL
<1>5. (TypeOK <=> Pool!TypeOK /\ StoreTypes /\ WorkerTypes /\ NodeTypes)'
  BY TypesAre, PTL
<1> QED BY <1>1, <1>2, <1>3, <1>4, <1>5 DEF OwnTypes

-----------------------------------------------------------------------------
(* What is owed *)

(* The terms of what is owed for a key. *)
BatchTerms(k) == [w \in Workers |-> batch[w][k]]
OweTerms(k) == [r \in Requests |-> IF pc[r] = "owe" /\ week[r] = k[1] THEN funded[k] ELSE 0]

LEMMA OwedIs ==
    \A k : /\ InBatches(k) = Sum(BatchTerms(k)) /\ ToBeOwed(k) = Sum(OweTerms(k))
           /\ Owed(k) = due[k] + InBatches(k) + ToBeOwed(k)
BY DEF InBatches, ToBeOwed, BatchTerms, OweTerms, Owed

(* What is owed is an amount, and so is every part of it. *)
OwedTypes ==
    \A k \in Keys :
        /\ BatchTerms(k) \in [Workers -> Nat] /\ OweTerms(k) \in [Requests -> Nat]
        /\ due[k] \in Nat /\ InBatches(k) \in Nat /\ ToBeOwed(k) \in Nat /\ Owed(k) \in Nat
        /\ \A w \in Workers : batch[w][k] <= Owed(k)

LEMMA OwedType == ASSUME PrizeAssumption PROVE OwnTypes => OwedTypes
<1> SUFFICES ASSUME OwnTypes, NEW k \in Keys
             PROVE  /\ BatchTerms(k) \in [Workers -> Nat] /\ OweTerms(k) \in [Requests -> Nat]
                    /\ due[k] \in Nat /\ InBatches(k) \in Nat /\ ToBeOwed(k) \in Nat
                    /\ Owed(k) \in Nat
                    /\ \A w \in Workers : batch[w][k] <= Owed(k)
  BY DEF OwedTypes
<1>1. BatchTerms(k) \in [Workers -> Nat] /\ OweTerms(k) \in [Requests -> Nat]
  BY DEF OwnTypes, StoreTypes, WorkerTypes, BatchTerms, OweTerms
<1>2. IsFiniteSet(Workers) /\ IsFiniteSet(Requests)
  BY WorkersFinite DEF PrizeAssumption
<1>3. /\ Sum(BatchTerms(k)) \in Nat /\ \A w \in Workers : BatchTerms(k)[w] <= Sum(BatchTerms(k))
      /\ Sum(OweTerms(k)) \in Nat
  BY <1>1, <1>2, SumNat
<1>4. due[k] \in Nat /\ \A w \in Workers : BatchTerms(k)[w] = batch[w][k] /\ batch[w][k] \in Nat
  BY DEF OwnTypes, WorkerTypes, BatchTerms
<1>5. /\ InBatches(k) = Sum(BatchTerms(k)) /\ ToBeOwed(k) = Sum(OweTerms(k))
      /\ Owed(k) = due[k] + InBatches(k) + ToBeOwed(k)
  BY OwedIs
<1>6. InBatches(k) \in Nat /\ ToBeOwed(k) \in Nat /\ Owed(k) \in Nat
  BY <1>3, <1>4, <1>5
<1>7. ASSUME NEW w \in Workers PROVE batch[w][k] <= Owed(k)
  BY <1>3, <1>4, <1>5, <1>6, SMTT(30)
<1> QED BY <1>1, <1>4, <1>6, <1>7

(* Of a sum a step changed at most one term. *)
LEMMA OneBatch ==
    ASSUME PrizeAssumption, OwnTypes, OwnTypes', NEW w \in Workers, NEW k \in Keys,
           \A v \in Workers : v # w => batch'[v][k] = batch[v][k]
    PROVE  InBatches(k)' = InBatches(k) - batch[w][k] + batch'[w][k]
<1>1. OwedTypes /\ OwedTypes' /\ IsFiniteSet(Workers)
  BY OwedType, WorkersFinite, PTL
<1>2. BatchTerms(k) \in [Workers -> Nat] /\ BatchTerms(k)' \in [Workers -> Nat]
  BY <1>1 DEF OwedTypes
<1>3. \A v \in Workers : BatchTerms(k)[v] = batch[v][k] /\ BatchTerms(k)'[v] = batch'[v][k]
  BY DEF BatchTerms
<1>4. \A v \in Workers : v # w => BatchTerms(k)'[v] = BatchTerms(k)[v]
  BY <1>3
<1>5. Sum(BatchTerms(k)') = Sum(BatchTerms(k)) - BatchTerms(k)[w] + BatchTerms(k)'[w]
  BY <1>1, <1>2, <1>4, SumBump, SMTT(30)
<1>6. InBatches(k) = Sum(BatchTerms(k)) /\ InBatches(k)' = Sum(BatchTerms(k)')
  BY DEF InBatches, BatchTerms
<1> QED BY <1>3, <1>5, <1>6

(* A debt of three parts: what moves to the first from another changes none. *)
LEMMA PutBackToOne ==
    ASSUME NEW d \in Nat, NEW b \in Nat, NEW t \in Nat, NEW x \in Nat
    PROVE  (d + x) + (b - x) + t = d + b + t
OBVIOUS

LEMMA Moved ==
    ASSUME NEW d \in Nat, NEW b \in Nat, NEW t \in Nat, NEW x \in Nat
    PROVE  (d + x) + b + (t - x) = d + b + t
OBVIOUS

LEMMA MovedOn ==
    ASSUME NEW c \in Nat, NEW o \in Nat, NEW x \in Nat
    PROVE  (c + x) + (o - x) = c + o /\ o - x <= o
OBVIOUS

(* Of the requests one changed what it will owe. *)
LEMMA OneRequest ==
    ASSUME PrizeAssumption, OwnTypes, OwnTypes', NEW r \in Requests, NEW k \in Keys,
           \A v \in Requests : v # r => OweTerms(k)'[v] = OweTerms(k)[v]
    PROVE  ToBeOwed(k)' = ToBeOwed(k) - OweTerms(k)[r] + OweTerms(k)'[r]
<1>1. OwedTypes /\ OwedTypes' /\ IsFiniteSet(Requests)
  BY OwedType, PTL DEF PrizeAssumption
<1>2. OweTerms(k) \in [Requests -> Nat] /\ OweTerms(k)' \in [Requests -> Nat]
  BY <1>1 DEF OwedTypes
<1>a. \A v \in Requests : v # r => OweTerms(k)'[v] = OweTerms(k)[v]
  OBVIOUS
<1>3. Sum(OweTerms(k)') = Sum(OweTerms(k)) - OweTerms(k)[r] + OweTerms(k)'[r]
  <2>1. IsFiniteSet(Requests)
    BY <1>1
  <2> QED BY <1>a, <1>2, <2>1, SumBump, SMTT(20)
<1>4. ToBeOwed(k) = Sum(OweTerms(k)) /\ ToBeOwed(k)' = Sum(OweTerms(k)')
  BY DEF ToBeOwed, OweTerms
<1> QED BY <1>3, <1>4

(* No batch, no request about to owe: the sums stay. *)
LEMMA SameBatches == ASSUME UNCHANGED batch PROVE \A k \in Keys : InBatches(k)' = InBatches(k)
BY DEF InBatches

LEMMA SameOwing ==
    ASSUME UNCHANGED funded,
           \A r \in Requests : /\ (pc'[r] = "owe") <=> (pc[r] = "owe")
                               /\ pc[r] = "owe" => week'[r] = week[r]
    PROVE  \A k \in Keys : ToBeOwed(k)' = ToBeOwed(k)
<1> SUFFICES ASSUME NEW k \in Keys PROVE ToBeOwed(k)' = ToBeOwed(k)
  OBVIOUS
<1>1. OweTerms(k)' = OweTerms(k)
  BY DEF OweTerms
<1>2. ToBeOwed(k) = Sum(OweTerms(k)) /\ ToBeOwed(k)' = Sum(OweTerms(k)')
  BY DEF ToBeOwed, OweTerms
<1> QED BY <1>1, <1>2

(***************************************************************************)
(* A step that lowers a debt only by what it contributes, and leaves late  *)
(* transactions as many as it counts, keeps the books of the debts.        *)
(***************************************************************************)
LEMMA DebtsMoved ==
    ASSUME PrizeAssumption, IInv, OwnTypes', TypeOK', UNCHANGED <<receipts, funded>>,
           OwesAReceipt', BatchWhileSending', LateOnesAreCounted',
           Late' = Late, timeouts' >= timeouts, crashes' >= crashes,
           \A k \in Keys : /\ contributed'[k] + Owed(k)' = contributed[k] + Owed(k)
                           /\ Owed(k)' <= Owed(k)
    PROVE  Debts'
<1>1. Debts /\ OwnTypes /\ TypeOK
  BY TypesAre DEF IInv, OwnTypes
<1>2. /\ \A k \in Keys : Owed(k) \in Nat /\ Owed(k)' \in Nat
      /\ \A k \in Keys : funded[k] \in Nat
  <2>1. OwedTypes /\ OwedTypes'
    BY <1>1, OwedType, PTL
  <2> QED BY <1>1, <2>1 DEF OwedTypes, OwnTypes, StoreTypes
<1>3. NothingBeforeReceipt' /\ AllottedWithinReceipt'
  BY <1>1 DEF Debts, NothingBeforeReceipt, AllottedWithinReceipt, Received
<1>4. OwedWithinAllotment'
  BY <1>1, <1>2 DEF Debts, OwedWithinAllotment
<1>5. OwedIsWhatIsMissing'
  <2>1. timeouts \in Nat /\ timeouts' \in Nat /\ crashes \in Nat /\ crashes' \in Nat
    <3>1. NodeTypes /\ NodeTypes'
      BY <1>1 DEF OwnTypes
    <3> QED BY <3>1 DEF NodeTypes, PrizeAssumption
  <2>2. crashes' = 0 /\ timeouts' = 0 => crashes = 0 /\ timeouts = 0
    BY <2>1
  <2> QED BY <1>1, <2>2 DEF Debts, OwedIsWhatIsMissing
<1>6. SentWithinAllotments'
  BY <1>1 DEF Debts, SentWithinAllotments
<1> QED BY <1>3, <1>4, <1>5, <1>6 DEF Debts

(* The node holds what it held, or one transaction more and one late more. *)
LEMMA LateOnesKept ==
    ASSUME PrizeAssumption, IInv, OwnTypes', TypeOK', ContractKeeps, UNCHANGED funded,
           NEW tx \in Transactions, Sent \/ Fails \/ Outlives(tx),
           tx.call = "fund" => tx.amount <= funded[tx.key],
           tx.call = "settle" => settled[tx.key] \/ pool[tx.key] > 0
    PROVE  LateOnesAreCounted' /\ Late' = Late /\ timeouts' >= timeouts
<1>1. /\ pending \in Seq(Transactions) /\ pending' \in Seq(Transactions) /\ timeouts \in Nat
      /\ LateOnesAreCounted /\ pool \in [Keys -> Nat] /\ pool' \in [Keys -> Nat]
  <2>1. Pool!TypeOK /\ NodeTypes /\ NodeTypes' /\ Pool!TypeOK'
    BY TypesAre DEF IInv, OwnTypes, TypeOK
  <2>2. pool \in [Keys -> Nat] /\ pool' \in [Keys -> Nat]
    BY <2>1 DEF Pool!TypeOK, Keys
  <2>3. pending \in Seq(Transactions) /\ pending' \in Seq(Transactions) /\ timeouts \in Nat
    BY <2>1 DEF NodeTypes, PrizeAssumption
  <2> QED BY <2>2, <2>3 DEF IInv, Debts
<1>2. \/ pending' = pending /\ timeouts' = timeouts
      \/ pending' = Append(pending, tx) /\ timeouts' = timeouts + 1
  BY DEF Sent, Fails, Outlives
<1>3. Late' = Late /\ timeouts' >= timeouts /\ Len(pending') <= timeouts'
  BY <1>1, <1>2 DEF Late, LateOnesAreCounted
<1>4. ASSUME NEW i \in DOMAIN pending'
      PROVE  /\ pending'[i].call = "fund" => pending'[i].amount <= funded[pending'[i].key]
             /\ pending'[i].call = "settle" => settled[pending'[i].key] \/ pool[pending'[i].key] > 0
             /\ pending'[i].key \in Keys
  <2>1. \A t \in Transactions : t.key \in Keys
    BY DEF Transactions
  <2>2. pending'[i] \in Transactions
    BY <1>1
  <2>3. (i \in DOMAIN pending /\ pending'[i] = pending[i]) \/ pending'[i] = tx
    <3>1. CASE pending' = pending
      BY <3>1
    <3>2. CASE pending' = Append(pending, tx)
      <4>1. Len(pending) \in Nat /\ DOMAIN pending = 1 .. Len(pending)
        BY <1>1
      <4>2. i \in 1 .. Len(pending) + 1
        BY <1>1, <3>2, <4>1
      <4>3. i = Len(pending) + 1 => pending'[i] = tx
        BY <1>1, <3>2, <4>1
      <4>4. i \in 1 .. Len(pending) => pending'[i] = pending[i]
        BY <1>1, <3>2, <4>1
      <4>5. i = Len(pending) + 1 \/ i \in 1 .. Len(pending)
        BY <4>1, <4>2
      <4> QED BY <4>1, <4>3, <4>4, <4>5
    <3> QED BY <1>2, <3>1, <3>2
  <2> QED BY <1>1, <2>1, <2>2, <2>3 DEF LateOnesAreCounted
<1>5. \A k \in Keys : settled[k] \/ pool[k] > 0 => settled'[k] \/ pool'[k] > 0
  <2>1. \A k \in Keys : pool[k] \in Nat /\ pool'[k] \in Nat
    BY <1>1
  <2>2. \A k \in Keys : settled[k] => settled'[k]
    BY DEF ContractKeeps
  <2>3. \A k \in Keys : ~settled'[k] => pool'[k] >= pool[k]
    BY DEF ContractKeeps
  <2> QED BY <2>1, <2>2, <2>3
<1> QED BY <1>3, <1>4, <1>5 DEF LateOnesAreCounted

-----------------------------------------------------------------------------
(* Every step keeps the debts *)

(* What every step gives. *)
After == OwnTypes' /\ TypeOK' /\ Contract!IInv' /\ ContractKeeps /\ UnconfirmedSettlesOnlyCarried'

LEMMA StepAfter == ASSUME PrizeAssumption, IInv, [Next]_vars PROVE After
BY StepTypes, ContractHolds DEF After

LEMMA Before == ASSUME IInv PROVE TypeOK /\ OwnTypes /\ Debts /\ Settlements
BY TypesAre DEF IInv, OwnTypes

(* A step that moves no debt. *)
LEMMA DebtsStill ==
    ASSUME PrizeAssumption, IInv, After,
           UNCHANGED <<receipts, funded, due, batch, contributed, crashes>>,
           Late' = Late, timeouts' >= timeouts, LateOnesAreCounted',
           \A w \in Workers : /\ (pc'[w] = "owe") <=> (pc[w] = "owe")
                              /\ pc[w] = "owe" => week'[w] = week[w]
                              /\ pc'[w] # "send" => batch[w] = Nothing
    PROVE  Debts'
<1>1. Debts /\ OwnTypes /\ Loop \in Workers /\ Requests \subseteq Workers
  BY Before DEF Workers
<1>2. OwesAReceipt'
  BY <1>1 DEF Debts, OwesAReceipt
<1>3. BatchWhileSending'
  BY DEF BatchWhileSending
<1>4. ASSUME NEW k \in Keys
      PROVE  contributed'[k] + Owed(k)' = contributed[k] + Owed(k) /\ Owed(k)' <= Owed(k)
  <2>1. InBatches(k)' = InBatches(k) /\ ToBeOwed(k)' = ToBeOwed(k)
    BY <1>1, SameBatches, SameOwing
  <2>2. Owed(k)' = Owed(k)
    BY <2>1 DEF Owed
  <2>3. Owed(k) \in Nat
    BY <1>1, OwedType DEF OwedTypes
  <2> QED BY <2>2, <2>3
<1>5. crashes' >= crashes
  BY <1>1 DEF OwnTypes, NodeTypes, PrizeAssumption
<1> QED BY <1>2, <1>3, <1>4, <1>5, DebtsMoved DEF After

(* The same where the node moves no more. *)
LEMMA DebtsQuiet ==
    ASSUME PrizeAssumption, IInv, After,
           UNCHANGED <<receipts, funded, due, batch, contributed, crashes, pending, timeouts>>,
           \A w \in Workers : /\ (pc'[w] = "owe") <=> (pc[w] = "owe")
                              /\ pc[w] = "owe" => week'[w] = week[w]
                              /\ pc'[w] # "send" => batch[w] = Nothing
    PROVE  Debts'
<1>1. OwnTypes /\ Debts /\ timeouts \in Nat /\ pending \in Seq(Transactions)
  BY Before DEF OwnTypes, NodeTypes, PrizeAssumption
<1>2. Late' = Late /\ timeouts' >= timeouts
  BY <1>1 DEF Late
<1>3. LateOnesAreCounted'
  <2>1. \A k \in Keys : settled[k] \/ pool[k] > 0 => settled'[k] \/ pool'[k] > 0
    <3>1. \A k \in Keys : pool[k] \in Nat /\ pool'[k] \in Nat
      BY Before DEF After, TypeOK, Pool!TypeOK, Keys
    <3> QED BY <3>1 DEF After, ContractKeeps
  <2>2. \A i \in DOMAIN pending : pending[i].key \in Keys
    <3>1. \A t \in Transactions : t.key \in Keys
      BY DEF Transactions
    <3> QED BY <1>1, <3>1
  <2> QED BY <1>1, <2>1, <2>2 DEF Debts, LateOnesAreCounted
<1> QED BY <1>2, <1>3, DebtsStill

(* flush moves what is due into a batch. *)
LEMMA TakeDebts ==
    ASSUME PrizeAssumption, IInv, After, NEW w \in Workers, Take(w) PROVE Debts'
<1>1. /\ Debts /\ OwnTypes /\ OwnTypes' /\ TypeOK' /\ Loop \in Workers /\ Requests \subseteq Workers
      /\ UNCHANGED <<receipts, funded, contributed, timeouts, pending, crashes, week>>
      /\ pc[w] = "flush" /\ pc' = [pc EXCEPT ![w] = "send"] /\ due' = Nothing
      /\ batch' = [batch EXCEPT ![w] = due]
  BY Before DEF Take, After, Goto, storeVars, boundVars, Workers, ChainUnchanged, chainVars
<1>2. /\ pc \in [Workers -> Labels] /\ batch \in [Workers -> [Keys -> Nat]] /\ due \in [Keys -> Nat]
      /\ timeouts \in Nat /\ crashes \in Nat /\ pending \in Seq(Transactions)
  BY <1>1 DEF OwnTypes, WorkerTypes, NodeTypes, PrizeAssumption
<1>3. OwesAReceipt'
  BY <1>1, <1>2 DEF Debts, OwesAReceipt
<1>4. BatchWhileSending'
  BY <1>1, <1>2 DEF Debts, BatchWhileSending
<1>5. ASSUME NEW k \in Keys
      PROVE  contributed'[k] + Owed(k)' = contributed[k] + Owed(k) /\ Owed(k)' <= Owed(k)
  <2>1. batch[w][k] = 0 /\ batch'[w][k] = due[k] /\ due'[k] = 0
    BY <1>1, <1>2 DEF Debts, BatchWhileSending, Nothing
  <2>2. InBatches(k)' = InBatches(k) - batch[w][k] + batch'[w][k]
    BY <1>1, <1>2, OneBatch
  <2>3. ToBeOwed(k)' = ToBeOwed(k)
    BY <1>1, <1>2, SameOwing
  <2>4. InBatches(k) \in Nat /\ due[k] \in Nat /\ ToBeOwed(k) \in Nat
    BY <1>1, OwedType DEF OwedTypes
  <2>5. Owed(k)' = Owed(k) /\ Owed(k) \in Nat
    BY <2>1, <2>2, <2>3, <2>4 DEF Owed
  <2> QED BY <1>1, <2>5
<1>6. Late' = Late /\ timeouts' >= timeouts /\ crashes' >= crashes
  BY <1>1, <1>2 DEF Late
<1>7. LateOnesAreCounted'
  BY <1>1 DEF Debts, LateOnesAreCounted, Take, ChainUnchanged, chainVars
<1> QED BY <1>1, <1>3, <1>4, <1>5, <1>6, <1>7, DebtsMoved

(* A request adds its allotment to what is due. *)
LEMMA OweDebts ==
    ASSUME PrizeAssumption, IInv, After, NEW w \in Workers, Owe(w) PROVE Debts'
<1>1. /\ Debts /\ OwnTypes /\ OwnTypes' /\ TypeOK' /\ Loop \in Workers /\ Requests \subseteq Workers
      /\ UNCHANGED <<receipts, funded, contributed, timeouts, pending, crashes, week, batch>>
      /\ pc[w] = "owe" /\ pc' = [pc EXCEPT ![w] = "flush"]
      /\ due' = [k \in Keys |-> IF k[1] = week[w] THEN due[k] + funded[k] ELSE due[k]]
  BY Before DEF Owe, After, Goto, storeVars, boundVars, Workers, ChainUnchanged, chainVars
<1>2. /\ pc \in [Workers -> Labels] /\ due \in [Keys -> Nat] /\ funded \in [Keys -> Nat]
      /\ timeouts \in Nat /\ crashes \in Nat /\ pending \in Seq(Transactions)
  BY <1>1 DEF OwnTypes, WorkerTypes, StoreTypes, NodeTypes, PrizeAssumption
<1>3. w \in Requests
  BY <1>1 DEF Debts, OwesAReceipt, Workers
<1>4. OwesAReceipt'
  BY <1>1, <1>2 DEF Debts, OwesAReceipt
<1>5. BatchWhileSending'
  BY <1>1, <1>2 DEF Debts, BatchWhileSending
<1>6. ASSUME NEW k \in Keys
      PROVE  contributed'[k] + Owed(k)' = contributed[k] + Owed(k) /\ Owed(k)' <= Owed(k)
  <2>1. /\ OweTerms(k)[w] = IF week[w] = k[1] THEN funded[k] ELSE 0
        /\ OweTerms(k)'[w] = 0
        /\ \A v \in Requests : v # w => OweTerms(k)'[v] = OweTerms(k)[v]
    BY <1>1, <1>2, <1>3 DEF OweTerms
  <2>2. ToBeOwed(k)' = ToBeOwed(k) - OweTerms(k)[w] + OweTerms(k)'[w]
    BY <1>1, <1>3, <2>1, OneRequest
  <2>3. InBatches(k)' = InBatches(k)
    BY <1>1, SameBatches
  <2>4. InBatches(k) \in Nat /\ due[k] \in Nat /\ ToBeOwed(k) \in Nat /\ funded[k] \in Nat
    BY <1>1, <1>2, OwedType DEF OwedTypes
  <2>5. due'[k] = due[k] + OweTerms(k)[w]
    BY <1>1, <2>1, <2>4
  <2>6. OweTerms(k)[w] \in Nat
    BY <2>1, <2>4
  <2>a. ToBeOwed(k)' = ToBeOwed(k) - OweTerms(k)[w]
    BY <2>1, <2>2, <2>4, <2>6
  <2>b. Owed(k)' = (due[k] + OweTerms(k)[w]) + InBatches(k) + (ToBeOwed(k) - OweTerms(k)[w])
    BY <2>3, <2>5, <2>a DEF Owed
  <2>c. (due[k] + OweTerms(k)[w]) + InBatches(k) + (ToBeOwed(k) - OweTerms(k)[w])
          = due[k] + InBatches(k) + ToBeOwed(k)
    BY <2>4, <2>6, Moved
  <2>d. Owed(k)' = Owed(k)
    BY <2>b, <2>c DEF Owed
  <2>7. Owed(k)' = Owed(k) /\ Owed(k) \in Nat
    BY <1>1, <2>d, OwedType DEF OwedTypes
  <2> QED BY <1>1, <2>7
<1>7. Late' = Late /\ timeouts' >= timeouts /\ crashes' >= crashes
  BY <1>1, <1>2 DEF Late
<1>8. LateOnesAreCounted'
  BY <1>1 DEF Debts, LateOnesAreCounted, Owe, ChainUnchanged, chainVars
<1> QED BY <1>1, <1>4, <1>5, <1>6, <1>7, <1>8, DebtsMoved

(* A funding arrives, or what failed is due again; one that outlives its   *)
(* sender is due again and left with the node.                             *)
LEMMA SendFundDebts ==
    ASSUME PrizeAssumption, IInv, After, NEW w \in Workers, NEW k \in Keys, SendFund(w, k)
    PROVE  Debts'
<1> DEFINE tx == [call |-> "fund", key |-> k, amount |-> batch[w][k]]
<1>1. /\ Debts /\ OwnTypes /\ OwnTypes' /\ TypeOK' /\ TypeOK /\ ContractKeeps
      /\ Loop \in Workers /\ Requests \subseteq Workers
      /\ UNCHANGED <<receipts, funded, pc, week, crashes>>
      /\ pc[w] = "send" /\ batch' = [batch EXCEPT ![w][k] = 0]
      /\ Sent \/ Fails \/ Outlives(tx)
  BY Before DEF SendFund, After, storeVars, Workers
<1>2. \/ Fund(k, batch[w][k]) /\ UNCHANGED due
      \/ ChainUnchanged /\ PutBack(w, k)
  BY DEF SendFund
<1>3. /\ pc \in [Workers -> Labels] /\ batch \in [Workers -> [Keys -> Nat]] /\ due \in [Keys -> Nat]
      /\ crashes \in Nat /\ contributed \in [Keys -> Nat]
  <2>1. WorkerTypes /\ NodeTypes /\ Pool!TypeOK
    BY <1>1 DEF OwnTypes, TypeOK
  <2>2. contributed \in [Keys -> Nat]
    BY <2>1 DEF Pool!TypeOK, Keys
  <2>3. crashes \in Nat
    BY <2>1 DEF NodeTypes, PrizeAssumption
  <2> QED BY <2>1, <2>2, <2>3 DEF WorkerTypes
<1>4. batch[w][k] \in Nat /\ batch[w][k] <= funded[k]
  <2>1. batch[w][k] <= Owed(k) /\ Owed(k) <= funded[k] /\ Owed(k) \in Nat
    BY <1>1, OwedType DEF OwedTypes, Debts, OwedWithinAllotment
  <2>2. funded[k] \in Nat /\ batch[w][k] \in Nat
    BY <1>1, <1>3 DEF OwnTypes, StoreTypes
  <2> QED BY <2>1, <2>2
<1>5. /\ tx \in Transactions
      /\ tx.call = "fund" => tx.amount <= funded[tx.key]
      /\ tx.call = "settle" => settled[tx.key] \/ pool[tx.key] > 0
  BY <1>4 DEF Transactions
<1> HIDE DEF tx
<1>6. LateOnesAreCounted' /\ Late' = Late /\ timeouts' >= timeouts
  BY <1>1, <1>5, LateOnesKept
<1>7. OwesAReceipt'
  BY <1>1 DEF Debts, OwesAReceipt
<1>8. BatchWhileSending'
  BY <1>1, <1>3 DEF Debts, BatchWhileSending
<1>9. ASSUME NEW j \in Keys
      PROVE  contributed'[j] + Owed(j)' = contributed[j] + Owed(j) /\ Owed(j)' <= Owed(j)
  <2>1. \A v \in Workers : v # w => batch'[v][j] = batch[v][j]
    BY <1>1, <1>3
  <2>2. InBatches(j)' = InBatches(j) - batch[w][j] + batch'[w][j]
    BY <1>1, <2>1, OneBatch
  <2>3. ToBeOwed(j)' = ToBeOwed(j)
    BY <1>1, SameOwing
  <2>4. InBatches(j) \in Nat /\ due[j] \in Nat /\ ToBeOwed(j) \in Nat /\ batch[w][j] \in Nat
    BY <1>1, <1>3, OwedType DEF OwedTypes
  <2>5. Owed(j) = due[j] + InBatches(j) + ToBeOwed(j) /\ Owed(j)' = due'[j] + InBatches(j)' + ToBeOwed(j)'
    BY DEF Owed
  <2>6. contributed[j] \in Nat
    BY <1>3
  <2>9. Owed(j) \in Nat
    BY <1>1, OwedType DEF OwedTypes
  <2>7. CASE j # k
    <3>1. batch'[w][j] = batch[w][j]
      BY <1>1, <1>3, <2>7
    <3>2. due'[j] = due[j]
      BY <1>2, <1>3, <2>7 DEF PutBack
    <3>3. contributed'[j] = contributed[j]
      BY <1>1, <1>2, <1>4, <2>7, FundingDoes DEF ChainUnchanged, chainVars
    <3>4. InBatches(j)' = InBatches(j)
      BY <2>2, <2>4, <3>1
    <3>5. Owed(j)' = Owed(j)
      BY <2>3, <2>5, <3>2, <3>4
    <3> QED BY <2>9, <3>3, <3>5
  <2>8. CASE j = k
    <3>1. batch'[w][j] = 0
      BY <1>1, <1>3, <2>8
    <3>2. CASE Fund(k, batch[w][k]) /\ UNCHANGED due
      <4>1. contributed'[j] = contributed[j] + batch[w][j]
        BY <1>1, <1>4, <2>8, <3>2, FundingDoes
      <4>2. due'[j] = due[j]
        BY <3>2
      <4>3. InBatches(j)' = InBatches(j) - batch[w][j]
        BY <2>2, <2>4, <3>1
      <4>4. Owed(j)' = Owed(j) - batch[w][j]
        <5>1. Owed(j)' = due[j] + (InBatches(j) - batch[w][j]) + ToBeOwed(j)
          BY <2>3, <2>5, <4>2, <4>3
        <5>2. due[j] + (InBatches(j) - batch[w][j]) + ToBeOwed(j)
                = (due[j] + InBatches(j) + ToBeOwed(j)) - batch[w][j]
          <6>1. due[j] \in Nat
            BY <2>4
          <6>2. InBatches(j) \in Nat
            BY <2>4
          <6>3. ToBeOwed(j) \in Nat
            BY <2>4
          <6>4. batch[w][j] \in Nat
            BY <2>4
          <6> QED BY <6>1, <6>2, <6>3, <6>4, SMTT(30)
        <5> QED BY <2>5, <5>1, <5>2
      <4>5. /\ (contributed[j] + batch[w][j]) + (Owed(j) - batch[w][j]) = contributed[j] + Owed(j)
            /\ Owed(j) - batch[w][j] <= Owed(j)
        BY <2>4, <2>6, <2>9, MovedOn
      <4> QED BY <4>1, <4>4, <4>5
    <3>3. CASE ChainUnchanged /\ PutBack(w, k)
      <4>1. contributed'[j] = contributed[j] /\ due'[j] = due[j] + batch[w][j]
        BY <1>3, <2>8, <3>3 DEF ChainUnchanged, chainVars, PutBack
      <4>2. InBatches(j)' = InBatches(j) - batch[w][j]
        BY <2>2, <2>4, <3>1
      <4>3. Owed(j)' = Owed(j)
        <5>1. Owed(j)' = (due[j] + batch[w][j]) + (InBatches(j) - batch[w][j]) + ToBeOwed(j)
          BY <2>3, <2>5, <4>1, <4>2
        <5>2. (due[j] + batch[w][j]) + (InBatches(j) - batch[w][j]) + ToBeOwed(j)
                = due[j] + InBatches(j) + ToBeOwed(j)
          BY <2>4, PutBackToOne
        <5> QED BY <2>5, <5>1, <5>2
      <4> QED BY <2>9, <4>1, <4>3
    <3> QED BY <1>2, <3>2, <3>3
  <2> QED BY <2>7, <2>8
<1>10. crashes' >= crashes
  BY <1>1, <1>3
<1> QED BY <1>1, <1>6, <1>7, <1>8, <1>9, <1>10, DebtsMoved

(* Publishing touches no debt; a late publication was of a pool with money. *)
LEMMA SendSettleDebts ==
    ASSUME PrizeAssumption, IInv, After, NEW w \in Workers, NEW board \in Boards,
           SendSettle(w, board)
    PROVE  Debts'
<1> DEFINE k == <<week[w], at[w]>>
           prize == Winners(board, saw[w])
           tx == [call |-> "settle", key |-> k, won |-> prize]
<1>1. /\ Debts /\ OwnTypes /\ OwnTypes' /\ TypeOK' /\ TypeOK /\ ContractKeeps /\ Settlements
      /\ UNCHANGED <<receipts, funded, due, week, batch, crashes>>
      /\ pc[w] = "publish" /\ (Goto(w, "list") \/ Goto(w, "settle"))
      /\ Sent \/ Fails \/ Outlives(tx)
  BY Before DEF SendSettle, After, storeVars
<1>2. /\ k \in Keys /\ saw[w] \in Nat /\ pool[k] \in Nat
      /\ pc \in [Workers -> Labels]
  BY <1>1, SameKeys DEF OwnTypes, WorkerTypes, TypeOK, Pool!TypeOK, Keys
<1>3. prize \in Prizes
  <2>1. ASSUME NEW m \in Nat PROVE Winners(board, m) \in Prizes
    BY WinnersType
  <2> QED BY <1>2, <2>1
<1>4. settled[k] \/ (saw[w] <= pool[k] /\ saw[w] > 0)
  BY <1>1 DEF Settlements, StaleReadStillFits, ReadWasMoney
<1>5. contributed' = contributed
  <2>1. ChainUnchanged \/ Publish(k, prize)
    BY DEF SendSettle
  <2> QED BY <1>1, <1>2, <1>3, <2>1, PublishingDoes DEF ChainUnchanged, chainVars
<1> HIDE DEF k, prize
<1>6. /\ tx \in Transactions
      /\ tx.call = "fund" => tx.amount <= funded[tx.key]
      /\ tx.call = "settle" => settled[tx.key] \/ pool[tx.key] > 0
  BY <1>2, <1>3, <1>4 DEF Transactions
<1> HIDE DEF tx
<1>7. LateOnesAreCounted' /\ Late' = Late /\ timeouts' >= timeouts
  BY <1>1, <1>6, LateOnesKept
<1>8. \A v \in Workers : /\ (pc'[v] = "owe") <=> (pc[v] = "owe")
                         /\ pc[v] = "owe" => week'[v] = week[v]
                         /\ pc'[v] # "send" => batch[v] = Nothing
  BY <1>1, <1>2 DEF Goto, Debts, BatchWhileSending
<1> QED BY <1>1, <1>5, <1>7, <1>8, DebtsStill

(* A look at a pool and the list of prizes move no debt, fail or not.      *)
LEMMA CallDebts ==
    ASSUME PrizeAssumption, IInv, After, NEW w \in Workers,
           UNCHANGED <<receipts, funded, due, week, batch, crashes>>, ChainUnchanged,
           Sent \/ Fails, pc[w] \in {"settle", "list"},
           UNCHANGED pc \/ Goto(w, "publish") \/ Goto(w, "settle")
    PROVE  Debts'
<1>1. Debts /\ OwnTypes /\ pc \in [Workers -> Labels]
  BY Before DEF OwnTypes, WorkerTypes
<1>2. UNCHANGED <<pending, timeouts, contributed>>
  BY DEF Sent, Fails, ChainUnchanged, chainVars
<1>3. \A v \in Workers : /\ (pc'[v] = "owe") <=> (pc[v] = "owe")
                         /\ pc[v] = "owe" => week'[v] = week[v]
                         /\ pc'[v] # "send" => batch[v] = Nothing
  BY <1>1 DEF Goto, Debts, BatchWhileSending
<1> QED BY <1>2, <1>3, DebtsQuiet

(* The receipt: it alone writes an allotment down, and nothing of it can   *)
(* have been sent or owed before.                                          *)
LEMMA ReceiveDebts ==
    ASSUME PrizeAssumption, IInv, After, NEW r \in Requests, NEW w \in Weeks,
           NEW amount \in Amounts, NEW accrued \in Accruals, Receive(r, w, amount, accrued)
    PROVE  Debts'
<1>1. /\ Debts /\ OwnTypes /\ OwnTypes' /\ TypeOK' /\ TypeOK
      /\ Loop \in Workers /\ Requests \subseteq Workers
  BY Before DEF After, Workers
<1>2. /\ pc[r] = "idle" /\ receipts[w] = NoReceipt
      /\ receipts' = [receipts EXCEPT ![w] = [received |-> amount]]
      /\ funded' = [k \in Keys |-> IF k[1] = w THEN Allocate(accrued, amount)[k[2]] ELSE funded[k]]
      /\ week' = [week EXCEPT ![r] = w] /\ pc' = [pc EXCEPT ![r] = "owe"]
      /\ UNCHANGED <<due, batch, pending, timeouts, crashes, contributed>>
  BY DEF Receive, Goto, ChainUnchanged, chainVars, boundVars
<1>3. /\ pc \in [Workers -> Labels] /\ week \in [Workers -> Weeks]
      /\ receipts \in [Weeks -> {NoReceipt} \cup [received : Nat]]
      /\ funded \in [Keys -> Nat] /\ funded' \in [Keys -> Nat] /\ contributed \in [Keys -> Nat]
      /\ timeouts \in Nat /\ pending \in Seq(Transactions) /\ amount \in Nat
  <2>1. WorkerTypes /\ StoreTypes /\ StoreTypes' /\ NodeTypes /\ Pool!TypeOK
    BY <1>1 DEF OwnTypes, TypeOK
  <2>2. contributed \in [Keys -> Nat]
    BY <2>1 DEF Pool!TypeOK, Keys
  <2>3. timeouts \in Nat /\ pending \in Seq(Transactions) /\ amount \in Nat
    BY <2>1 DEF NodeTypes, PrizeAssumption
  <2> QED BY <2>1, <2>2, <2>3 DEF WorkerTypes, StoreTypes
<1>4. Allocate(accrued, amount) \in [Strategies -> Nat] /\ Sum(Allocate(accrued, amount)) <= amount
  BY AllocateWithin DEF PrizeAssumption
<1>5. receipts'[w] = [received |-> amount] /\ receipts'[w] # NoReceipt /\ \A v \in Weeks : v # w => receipts'[v] = receipts[v]
  <2>1. [received |-> amount] # NoReceipt
    <3>1. DOMAIN [received |-> amount] = {"received"} /\ DOMAIN NoReceipt = {"none"}
      BY DEF NoReceipt
    <3> QED BY <3>1
  <2> QED BY <1>2, <1>3, <2>1
<1>6. NothingBeforeReceipt'
  <2>1. ASSUME NEW k \in Keys, receipts'[k[1]] = NoReceipt PROVE funded'[k] = 0
    <3>1. k[1] # w /\ k[1] \in Weeks
      BY <1>5, <2>1, PartsOf
    <3> QED BY <1>1, <1>2, <1>5, <2>1, <3>1 DEF Debts, NothingBeforeReceipt
  <2> QED BY <2>1 DEF NothingBeforeReceipt
<1>7. AllottedWithinReceipt'
  <2>1. ASSUME NEW v \in Weeks PROVE Sum([s \in Strategies |-> funded'[<<v, s>>]]) <= Received(v)'
    <3>1. CASE v = w
      <4>1. [s \in Strategies |-> funded'[<<v, s>>]] = Allocate(accrued, amount)
        BY <1>2, <1>4, <3>1, KeyOf
      <4>2. Received(v)' = amount
        BY <1>5, <3>1 DEF Received
      <4> QED BY <1>4, <4>1, <4>2
    <3>2. CASE v # w
      <4>1. [s \in Strategies |-> funded'[<<v, s>>]] = [s \in Strategies |-> funded[<<v, s>>]]
        BY <1>2, <3>2, KeyOf
      <4>2. Received(v)' = Received(v)
        BY <1>5, <3>2 DEF Received
      <4>3. Sum([s \in Strategies |-> funded[<<v, s>>]]) <= Received(v)
        BY <1>1 DEF Debts, AllottedWithinReceipt
      <4> QED BY <4>1, <4>2, <4>3
    <3> QED BY <3>1, <3>2
  <2> QED BY <2>1 DEF AllottedWithinReceipt
<1>8. OwesAReceipt'
  <2>1. pc'[Loop] # "owe"
    BY <1>1, <1>2, <1>3 DEF Debts, OwesAReceipt, PrizeAssumption
  <2>2. ASSUME NEW q \in Requests, pc'[q] = "owe" PROVE receipts'[week'[q]] # NoReceipt
    <3>1. CASE q = r
      BY <1>1, <1>2, <1>3, <1>5, <3>1
    <3>2. CASE q # r
      <4>1. pc[q] = "owe" /\ week'[q] = week[q] /\ week[q] \in Weeks
        BY <1>1, <1>2, <1>3, <2>2, <3>2
      <4> QED BY <1>1, <1>5, <4>1 DEF Debts, OwesAReceipt
    <3> QED BY <3>1, <3>2
  <2> QED BY <2>1, <2>2 DEF OwesAReceipt
<1>9. BatchWhileSending'
  BY <1>1, <1>2, <1>3 DEF Debts, BatchWhileSending
<1>10. ASSUME NEW k \in Keys, k[1] = w
       PROVE  contributed'[k] = 0 /\ Owed(k)' = funded'[k]
  <2>1. funded[k] = 0
    BY <1>1, <1>2, <1>10 DEF Debts, NothingBeforeReceipt
  <2>2. Owed(k) = 0
    <3>1. Owed(k) <= funded[k] /\ Owed(k) \in Nat
      BY <1>1, OwedType DEF Debts, OwedWithinAllotment, OwedTypes
    <3> QED BY <2>1, <3>1
  <2>3. contributed[k] = 0
    <3>1. contributed[k] + Owed(k) <= (1 + Late) * funded[k]
      BY <1>1 DEF Debts, SentWithinAllotments
    <3>2. Late \in Int /\ contributed[k] \in Nat
      BY <1>3 DEF Late
    <3>3. (1 + Late) * 0 = 0
      BY <3>2
    <3> QED BY <2>1, <2>2, <3>1, <3>2, <3>3
  <2>4. /\ due[k] \in Nat /\ InBatches(k) \in Nat /\ ToBeOwed(k) \in Nat
        /\ Owed(k) = due[k] + InBatches(k) + ToBeOwed(k)
        /\ Owed(k)' = due'[k] + InBatches(k)' + ToBeOwed(k)'
    BY <1>1, OwedType DEF OwedTypes, Owed
  <2>5. due[k] = 0 /\ InBatches(k) = 0 /\ ToBeOwed(k) = 0
    BY <2>2, <2>4
  <2>6. InBatches(k)' = 0 /\ due'[k] = 0
    BY <1>2, <2>5, SameBatches
  <2>7. /\ OweTerms(k)[r] = 0 /\ OweTerms(k)'[r] = funded'[k]
        /\ \A v \in Requests : v # r => OweTerms(k)'[v] = OweTerms(k)[v]
    <3>1. OweTerms(k)[r] = 0 /\ OweTerms(k)'[r] = funded'[k]
      BY <1>1, <1>2, <1>3, <1>10 DEF OweTerms
    <3>2. ASSUME NEW v \in Requests, v # r PROVE OweTerms(k)'[v] = OweTerms(k)[v]
      <4>1. pc'[v] = pc[v] /\ week'[v] = week[v]
        BY <1>1, <1>2, <1>3, <3>2
      <4>2. ~(pc[v] = "owe" /\ week[v] = w)
        BY <1>1, <1>2 DEF Debts, OwesAReceipt
      <4> QED BY <1>10, <4>1, <4>2 DEF OweTerms
    <3> QED BY <3>1, <3>2
  <2>8. ToBeOwed(k)' = ToBeOwed(k) - OweTerms(k)[r] + OweTerms(k)'[r]
    BY <1>1, <2>7, OneRequest
  <2>9. funded'[k] \in Nat
    BY <1>3
  <2> QED BY <1>2, <2>3, <2>4, <2>5, <2>6, <2>7, <2>8, <2>9
<1>11. ASSUME NEW k \in Keys, k[1] # w
       PROVE  contributed'[k] = contributed[k] /\ Owed(k)' = Owed(k) /\ funded'[k] = funded[k]
  <2>1. funded'[k] = funded[k]
    BY <1>2, <1>11
  <2>2. OweTerms(k)' = OweTerms(k)
    <3>1. ASSUME NEW v \in Requests PROVE OweTerms(k)'[v] = OweTerms(k)[v]
      BY <1>1, <1>2, <1>3, <1>11, <2>1 DEF OweTerms
    <3> QED BY <3>1 DEF OweTerms
  <2>3. ToBeOwed(k)' = ToBeOwed(k)
    <3>1. ToBeOwed(k) = Sum(OweTerms(k)) /\ ToBeOwed(k)' = Sum(OweTerms(k)')
      BY DEF ToBeOwed, OweTerms
    <3> QED BY <2>2, <3>1
  <2>4. InBatches(k)' = InBatches(k)
    BY <1>2, SameBatches
  <2> QED BY <1>2, <2>1, <2>3, <2>4 DEF Owed
<1>12. Late' = Late /\ Late \in Nat
  BY <1>1, <1>2, <1>3 DEF Late, Debts, LateOnesAreCounted
<1>13. OwedWithinAllotment' /\ OwedIsWhatIsMissing' /\ SentWithinAllotments'
  <2>1. ASSUME NEW k \in Keys
        PROVE  /\ Owed(k)' <= funded'[k]
               /\ crashes = 0 /\ timeouts = 0 => contributed'[k] + Owed(k)' = funded'[k]
               /\ contributed'[k] + Owed(k)' <= (1 + Late) * funded'[k]
    <3>1. CASE k[1] = w
      <4>1. contributed'[k] = 0 /\ Owed(k)' = funded'[k] /\ funded'[k] \in Nat
        BY <1>3, <1>10, <3>1
      <4>2. \A l, f \in Nat : f <= (1 + l) * f
        OBVIOUS
      <4>3. funded'[k] <= (1 + Late) * funded'[k]
        BY <1>12, <4>1, <4>2
      <4> QED BY <4>1, <4>3
    <3>2. CASE k[1] # w
      BY <1>1, <1>11, <3>2 DEF Debts, OwedWithinAllotment, OwedIsWhatIsMissing, SentWithinAllotments
    <3> QED BY <3>1, <3>2
  <2> QED BY <1>2, <1>12, <2>1 DEF OwedWithinAllotment, OwedIsWhatIsMissing, SentWithinAllotments
<1>14. LateOnesAreCounted'
  <2>1. \A k \in Keys : funded'[k] >= funded[k]
    <3>1. ASSUME NEW k \in Keys PROVE funded'[k] >= funded[k]
      <4>1. CASE k[1] = w
        BY <1>1, <1>2, <1>3, <4>1 DEF Debts, NothingBeforeReceipt
      <4>2. CASE k[1] # w
        BY <1>3, <1>11, <4>2
      <4> QED BY <4>1, <4>2
    <3> QED BY <3>1
  <2>2. UNCHANGED <<settled, pool>>
    BY DEF Receive, ChainUnchanged, chainVars
  <2>3. ASSUME NEW i \in DOMAIN pending
        PROVE  pending[i].call = "fund" => pending[i].amount <= funded'[pending[i].key]
    <3>1. pending[i] \in Transactions
      BY <1>3
    <3>2. pending[i].key \in Keys /\ (pending[i].call = "fund" => pending[i].amount \in Nat)
      BY <3>1 DEF Transactions
    <3>3. pending[i].call = "fund" => pending[i].amount <= funded[pending[i].key]
      BY <1>1 DEF Debts, LateOnesAreCounted
    <3>4. funded[pending[i].key] \in Nat /\ funded'[pending[i].key] \in Nat
      BY <1>3, <3>2
    <3>5. funded'[pending[i].key] >= funded[pending[i].key]
      BY <2>1, <3>2
    <3> QED BY <3>2, <3>3, <3>4, <3>5
  <2> QED BY <1>1, <1>2, <2>2, <2>3 DEF Debts, LateOnesAreCounted
<1> QED BY <1>6, <1>7, <1>8, <1>9, <1>13, <1>14 DEF Debts

(* The node's next transaction: what is late becomes one less, and with it *)
(* at most one more allotment arrives.                                     *)
LEMMA MineDebts == ASSUME PrizeAssumption, IInv, After, Mine PROVE Debts'
<1> DEFINE tx == Head(pending)
<1>1. /\ Debts /\ OwnTypes /\ OwnTypes' /\ TypeOK' /\ TypeOK /\ ContractKeeps /\ OwedTypes
      /\ pending # <<>> /\ pending' = Tail(pending)
      /\ UNCHANGED <<receipts, funded, due, batch, pc, week, timeouts, crashes>>
  BY Before, OwedType DEF After, Mine, storeVars, workerVars, boundVars
<1>2. /\ funded \in [Keys -> Nat] /\ timeouts \in Nat /\ pending \in Seq(Transactions)
      /\ contributed \in [Keys -> Nat] /\ pool \in [Keys -> Nat] /\ pool' \in [Keys -> Nat]
  <2>1. StoreTypes /\ NodeTypes /\ Pool!TypeOK /\ Pool!TypeOK'
    BY <1>1 DEF OwnTypes, TypeOK
  <2>2. contributed \in [Keys -> Nat] /\ pool \in [Keys -> Nat] /\ pool' \in [Keys -> Nat]
    BY <2>1 DEF Pool!TypeOK, Keys
  <2>3. timeouts \in Nat /\ pending \in Seq(Transactions)
    BY <2>1 DEF NodeTypes, PrizeAssumption
  <2> QED BY <2>1, <2>2, <2>3 DEF StoreTypes
<1>3. /\ Len(pending) \in Nat /\ Len(pending) > 0 /\ Len(pending') = Len(pending) - 1
      /\ tx = pending[1] /\ tx \in Transactions /\ 1 \in DOMAIN pending
      /\ \A i \in 1 .. Len(pending) - 1 : pending'[i] = pending[i + 1]
      /\ DOMAIN pending' = 1 .. Len(pending) - 1 /\ DOMAIN pending = 1 .. Len(pending)
  BY <1>1, <1>2
<1>4. \/ tx.call = "fund" /\ Fund(tx.key, tx.amount)
      \/ tx.call = "settle" /\ Publish(tx.key, tx.won)
      \/ ChainUnchanged
  BY DEF Mine
<1>5. tx.call = "fund" => tx.amount <= funded[tx.key]
  BY <1>1, <1>3 DEF Debts, LateOnesAreCounted
<1> HIDE DEF tx
<1>6. /\ tx.key \in Keys
      /\ tx.call = "fund" => tx.amount \in Nat
      /\ tx.call = "settle" => tx.won \in Prizes
  BY <1>3 DEF Transactions
<1>7. ASSUME NEW k \in Keys
      PROVE  /\ Owed(k)' = Owed(k) /\ Owed(k) \in Nat /\ contributed'[k] \in Nat
             /\ contributed'[k] <= contributed[k] + funded[k]
  <2>1. Owed(k)' = Owed(k) /\ Owed(k) \in Nat
    <3>1. InBatches(k)' = InBatches(k) /\ ToBeOwed(k)' = ToBeOwed(k)
      BY <1>1, SameBatches, SameOwing
    <3> QED BY <1>1, <3>1 DEF Owed, OwedTypes
  <2>2. contributed[k] \in Nat /\ funded[k] \in Nat
    BY <1>2
  <2>3. CASE tx.call = "fund" /\ Fund(tx.key, tx.amount)
    <3>1. /\ contributed'[tx.key] = contributed[tx.key] + tx.amount
          /\ \A j \in Keys : j # tx.key => contributed'[j] = contributed[j]
      BY <1>1, <1>6, <2>3, FundingDoes
    <3>2. tx.amount <= funded[tx.key] /\ tx.amount \in Nat
      BY <1>5, <1>6, <2>3
    <3>3. CASE k = tx.key
      BY <2>2, <3>1, <3>2, <3>3, <2>1
    <3>4. CASE k # tx.key
      BY <2>2, <3>1, <3>4, <2>1
    <3> QED BY <3>3, <3>4
  <2>4. CASE tx.call = "settle" /\ Publish(tx.key, tx.won)
    <3>1. contributed' = contributed
      BY <1>1, <1>6, <2>4, PublishingDoes
    <3> QED BY <2>1, <2>2, <3>1
  <2>5. CASE ChainUnchanged
    BY <2>1, <2>2, <2>5 DEF ChainUnchanged, chainVars
  <2> QED BY <1>4, <2>3, <2>4, <2>5
<1>8. NothingBeforeReceipt' /\ AllottedWithinReceipt'
  BY <1>1 DEF Debts, NothingBeforeReceipt, AllottedWithinReceipt, Received
<1>9. OwesAReceipt' /\ BatchWhileSending'
  BY <1>1 DEF Debts, OwesAReceipt, BatchWhileSending
<1>10. OwedWithinAllotment'
  BY <1>1, <1>7 DEF Debts, OwedWithinAllotment
<1>11. Len(pending) <= timeouts
  BY <1>1 DEF Debts, LateOnesAreCounted
<1>12. OwedIsWhatIsMissing'
  BY <1>1, <1>2, <1>3, <1>11 DEF OwedIsWhatIsMissing
<1>13. SentWithinAllotments'
  <2>1. Late' = Late + 1 /\ Late \in Nat
    BY <1>1, <1>2, <1>3, <1>11 DEF Late
  <2>2. ASSUME NEW k \in Keys PROVE contributed'[k] + Owed(k)' <= (1 + Late') * funded'[k]
    <3>1. contributed[k] + Owed(k) <= (1 + Late) * funded[k]
      BY <1>1 DEF Debts, SentWithinAllotments
    <3>2. \A l, f \in Nat : (1 + (l + 1)) * f = (1 + l) * f + f /\ (1 + l) * f \in Nat
      OBVIOUS
    <3>3. funded[k] \in Nat /\ funded'[k] = funded[k] /\ contributed[k] \in Nat
      BY <1>1, <1>2
    <3>4. (1 + Late') * funded[k] = (1 + Late) * funded[k] + funded[k] /\ (1 + Late) * funded[k] \in Nat
      BY <2>1, <3>2, <3>3
    <3> QED BY <1>7, <3>1, <3>3, <3>4
  <2> QED BY <2>2 DEF SentWithinAllotments
<1>14. LateOnesAreCounted'
  <2>1. Len(pending') <= timeouts'
    BY <1>1, <1>2, <1>3, <1>11
  <2>2. ASSUME NEW i \in DOMAIN pending'
        PROVE  /\ pending'[i].call = "fund" => pending'[i].amount <= funded'[pending'[i].key]
               /\ pending'[i].call = "settle" =>
                     settled'[pending'[i].key] \/ pool'[pending'[i].key] > 0
    <3>1. PICK t \in Transactions : t = pending'[i] /\ t = pending[i + 1] /\ i + 1 \in DOMAIN pending
      BY <1>2, <1>3
    <3>2. t.key \in Keys
      BY DEF Transactions
    <3>3. /\ t.call = "fund" => t.amount <= funded[t.key]
          /\ t.call = "settle" => settled[t.key] \/ pool[t.key] > 0
      BY <1>1, <3>1 DEF Debts, LateOnesAreCounted
    <3>4. settled[t.key] \/ pool[t.key] > 0 => settled'[t.key] \/ pool'[t.key] > 0
      BY <1>1, <1>2, <3>2 DEF ContractKeeps
    <3> QED BY <1>1, <3>1, <3>3, <3>4
  <2> QED BY <2>1, <2>2 DEF LateOnesAreCounted
<1> QED BY <1>8, <1>9, <1>10, <1>12, <1>13, <1>14 DEF Debts

(* A restart forgets what is owed: it may be too little from then on.      *)
LEMMA CrashDebts == ASSUME PrizeAssumption, IInv, After, Crash PROVE Debts'
<1>1. /\ Debts /\ OwnTypes /\ OwnTypes' /\ OwedTypes /\ OwedTypes'
      /\ UNCHANGED <<receipts, funded, timeouts, pending, contributed, settled, pool>>
      /\ crashes' = crashes + 1
      /\ due' = Nothing /\ pc' = [w \in Workers |-> "idle"]
      /\ batch' = [w \in Workers |-> Nothing]
  <2>1. OwedTypes /\ OwedTypes'
    BY Before, OwedType, PTL DEF After
  <2> QED BY <2>1, Before DEF After, Crash, storeVars, ChainUnchanged, chainVars
<1>2. crashes \in Nat /\ contributed \in [Keys -> Nat]
  <2>1. NodeTypes /\ Pool!TypeOK
    BY Before DEF OwnTypes, TypeOK
  <2> QED BY <2>1 DEF NodeTypes, PrizeAssumption, Pool!TypeOK, Keys
<1>3. ASSUME NEW k \in Keys PROVE Owed(k)' = 0
  <2>1. BatchTerms(k)' = [w \in Workers |-> 0] /\ OweTerms(k)' = [r \in Requests |-> 0]
    BY <1>1 DEF BatchTerms, OweTerms, Nothing, Workers
  <2>2. Sum(BatchTerms(k)') = 0 /\ Sum(OweTerms(k)') = 0
    <3>1. Sum([w \in Workers |-> 0]) = 0
      BY SumZero, WorkersFinite
    <3>2. Sum([r \in Requests |-> 0]) = 0
      BY SumZero DEF PrizeAssumption
    <3> QED BY <2>1, <3>1, <3>2
  <2>3. InBatches(k)' = Sum(BatchTerms(k)') /\ ToBeOwed(k)' = Sum(OweTerms(k)')
    BY DEF InBatches, BatchTerms, ToBeOwed, OweTerms
  <2>4. due'[k] = 0
    BY <1>1 DEF Nothing
  <2> QED BY <2>2, <2>3, <2>4 DEF Owed
<1>4. NothingBeforeReceipt' /\ AllottedWithinReceipt'
  BY <1>1 DEF Debts, NothingBeforeReceipt, AllottedWithinReceipt, Received
<1>5. OwesAReceipt' /\ BatchWhileSending'
  BY <1>1 DEF OwesAReceipt, BatchWhileSending, Workers
<1>6. OwedWithinAllotment'
  <2>1. \A k \in Keys : funded[k] \in Nat
    BY <1>1 DEF OwnTypes, StoreTypes
  <2> QED BY <1>1, <1>3, <2>1 DEF OwedWithinAllotment
<1>7. OwedIsWhatIsMissing'
  BY <1>1, <1>2 DEF OwedIsWhatIsMissing
<1>8. SentWithinAllotments'
  <2>1. ASSUME NEW k \in Keys PROVE contributed'[k] + Owed(k)' <= (1 + Late') * funded'[k]
    <3>1. Late' = Late /\ funded'[k] = funded[k] /\ contributed'[k] = contributed[k]
      BY <1>1 DEF Late
    <3>2. contributed[k] + Owed(k) <= (1 + Late) * funded[k]
      BY <1>1 DEF Debts, SentWithinAllotments
    <3>3. (1 + Late) * funded[k] \in Int /\ contributed[k] \in Nat /\ Owed(k) \in Nat
      <4>1. NodeTypes /\ StoreTypes
        BY <1>1 DEF OwnTypes
      <4>2. Late \in Int /\ funded[k] \in Nat
        BY <4>1 DEF Late, NodeTypes, StoreTypes
      <4>3. \A l, f \in Int : (1 + l) * f \in Int
        OBVIOUS
      <4>4. funded[k] \in Int
        BY <4>2
      <4> QED BY <1>1, <1>2, <4>2, <4>3, <4>4 DEF OwedTypes
    <3>4. contributed[k] + 0 <= (1 + Late) * funded[k]
      BY <3>2, <3>3
    <3> QED BY <1>3, <3>1, <3>4
  <2> QED BY <2>1 DEF SentWithinAllotments
<1>9. LateOnesAreCounted'
  BY <1>1 DEF Debts, LateOnesAreCounted
<1> QED BY <1>4, <1>5, <1>6, <1>7, <1>8, <1>9 DEF Debts

(* Nothing is owed at the start. *)
LEMMA InitDebts == ASSUME PrizeAssumption, Init PROVE Debts
<1>1. /\ due = Nothing /\ funded = Nothing /\ pending = <<>> /\ timeouts = 0 /\ crashes = 0
      /\ pc = [w \in Workers |-> "idle"] /\ batch = [w \in Workers |-> Nothing]
      /\ receipts = [w \in Weeks |-> NoReceipt]
  BY DEF Init
<1>2. \A k \in Keys : contributed[k] = 0 /\ funded[k] = 0 /\ due[k] = 0
  BY <1>1 DEF Init, Pool!Init, Nothing, Keys
<1>3. ASSUME NEW k \in Keys PROVE Owed(k) = 0
  <2>1. BatchTerms(k) = [w \in Workers |-> 0] /\ OweTerms(k) = [r \in Requests |-> 0]
    BY <1>1 DEF BatchTerms, OweTerms, Nothing, Workers
  <2>2. Sum([w \in Workers |-> 0]) = 0
    BY SumZero, WorkersFinite
  <2>3. Sum([r \in Requests |-> 0]) = 0
    BY SumZero DEF PrizeAssumption
  <2> QED BY <1>2, <2>1, <2>2, <2>3, OwedIs
<1>4. NothingBeforeReceipt /\ OwesAReceipt /\ BatchWhileSending
  BY <1>1, <1>2 DEF NothingBeforeReceipt, OwesAReceipt, BatchWhileSending, Workers
<1>5. AllottedWithinReceipt
  <2>1. ASSUME NEW w \in Weeks PROVE Sum([s \in Strategies |-> funded[<<w, s>>]]) <= Received(w)
    <3>1. [s \in Strategies |-> funded[<<w, s>>]] = [s \in Strategies |-> 0]
      BY <1>2, KeyOf
    <3>2. Sum([s \in Strategies |-> 0]) = 0
      BY SumZero DEF PrizeAssumption
    <3>3. Received(w) = 0
      BY <1>1 DEF Received
    <3>4. Sum([s \in Strategies |-> funded[<<w, s>>]]) = 0
      BY <3>1, <3>2
    <3> QED BY <3>3, <3>4
  <2> QED BY <2>1 DEF AllottedWithinReceipt
<1>6. OwedWithinAllotment /\ OwedIsWhatIsMissing
  BY <1>2, <1>3 DEF OwedWithinAllotment, OwedIsWhatIsMissing
<1>7. Len(pending) = 0 /\ DOMAIN pending = {} /\ Late = 0
  <2>1. Len(pending) = 0 /\ DOMAIN pending = 1 .. 0
    BY <1>1
  <2>2. 1 .. 0 = {}
    OBVIOUS
  <2>3. Late = 0
    <3>1. timeouts = 0 /\ 0 - 0 = 0
      BY <1>1
    <3>2. Late = timeouts - Len(pending)
      BY DEF Late
    <3> QED BY <2>1, <3>1, <3>2
  <2> QED BY <2>1, <2>2, <2>3
<1>8. SentWithinAllotments /\ LateOnesAreCounted
  BY <1>1, <1>2, <1>3, <1>7 DEF SentWithinAllotments, LateOnesAreCounted
<1> QED BY <1>4, <1>5, <1>6, <1>8 DEF Debts

-----------------------------------------------------------------------------
(* Every step keeps the settlements *)

(* What a worker is at the start of publishing and listing stays true: the *)
(* pool it read grows until its week is settled, and prizes are final.     *)
StillAt(w) ==
    /\ pc'[w] = "publish" =>
          pc[w] = "publish" /\ week'[w] = week[w] /\ at'[w] = at[w] /\ saw'[w] = saw[w]
    /\ pc'[w] = "list" =>
          pc[w] = "list" /\ week'[w] = week[w] /\ at'[w] = at[w] /\ won'[w] = won[w]

(* The same of the property of one worker. *)
WorkerFits(w) ==
    LET k == <<week[w], at[w]>>
    IN  /\ pc[w] = "publish" => saw[w] > 0 /\ (settled[k] \/ saw[w] <= pool[k])
        /\ pc[w] = "list" => settled[k] /\ won[w] = prizes[k]

LEMMA FitsAre ==
    StaleReadStillFits /\ ReadWasMoney /\ ListsWhatItPublished
        <=> \A w \in Workers : WorkerFits(w)
BY DEF StaleReadStillFits, ReadWasMoney, ListsWhatItPublished, WorkerFits

(* The same after a step. *)
LEMMA FitsAfter ==
    (StaleReadStillFits /\ ReadWasMoney /\ ListsWhatItPublished)'
        <=> \A w \in Workers : WorkerFits(w)'
<1>1. (StaleReadStillFits /\ ReadWasMoney /\ ListsWhatItPublished
          <=> \A w \in Workers : WorkerFits(w))'
  BY FitsAre, PTL
<1> QED BY <1>1

(* A worker that stays where it was, stays fit. *)
LEMMA FitsStill ==
    ASSUME PrizeAssumption, IInv, After, NEW w \in Workers, StillAt(w) PROVE WorkerFits(w)'
<1> DEFINE k == <<week[w], at[w]>>
<1>1. WorkerFits(w)
  BY Before, FitsAre DEF Settlements
<1>2. k \in Keys /\ saw[w] \in Nat
  BY Before, SameKeys DEF OwnTypes, WorkerTypes
<1>3. pool[k] \in Nat /\ pool'[k] \in Nat
  BY <1>2, Before DEF After, TypeOK, Pool!TypeOK, Keys
<1>4. /\ settled[k] => settled'[k] /\ prizes'[k] = prizes[k]
      /\ ~settled'[k] => ~settled[k] /\ pool'[k] >= pool[k]
  BY <1>2 DEF After, ContractKeeps
<1>5. /\ pc[w] = "publish" => saw[w] > 0 /\ (settled[k] \/ saw[w] <= pool[k])
      /\ pc[w] = "list" => settled[k] /\ won[w] = prizes[k]
  BY <1>1 DEF WorkerFits
<1>6. pc[w] = "publish" => saw[w] > 0 /\ (settled'[k] \/ saw[w] <= pool'[k])
  BY <1>2, <1>3, <1>4, <1>5
<1>7. pc[w] = "list" => settled'[k] /\ won[w] = prizes'[k]
  BY <1>4, <1>5
<1>8. (pc'[w] = "publish" \/ pc'[w] = "list") => <<week'[w], at'[w]>> = k
  BY DEF StillAt
<1> HIDE DEF k
<1>9. pc'[w] = "publish" => saw'[w] > 0 /\ (settled'[<<week'[w], at'[w]>>] \/ saw'[w] <= pool'[<<week'[w], at'[w]>>])
  BY <1>6, <1>8 DEF StillAt
<1>10. pc'[w] = "list" => settled'[<<week'[w], at'[w]>>] /\ won'[w] = prizes'[<<week'[w], at'[w]>>]
  BY <1>7, <1>8 DEF StillAt
<1> QED BY <1>9, <1>10 DEF WorkerFits

(* What is listed already stays claimable, whoever settles what. *)
LEMMA ListedStill ==
    ASSUME PrizeAssumption, IInv, After, UNCHANGED listed PROVE ListedIsClaimable'
BY Before DEF After, ContractKeeps, Settlements, ListedIsClaimable

(* A step that begins no publication and lists nothing.                    *)
LEMMA SettlementsStill ==
    ASSUME PrizeAssumption, IInv, After, UNCHANGED listed, \A w \in Workers : StillAt(w)
    PROVE  Settlements'
<1>1. \A w \in Workers : WorkerFits(w)'
  BY FitsStill
<1>2. (StaleReadStillFits /\ ReadWasMoney /\ ListsWhatItPublished)'
          <=> \A w \in Workers : WorkerFits(w)'
  BY FitsAfter
<1> QED BY <1>1, <1>2, ListedStill DEF Settlements, After

(* settleWeek reads a pool: what it read is there. *)
LEMMA LookSettlements ==
    ASSUME PrizeAssumption, IInv, After, NEW w \in Workers, NEW s \in Strategies, Look(w, s)
    PROVE  Settlements'
<1>1. /\ OwnTypes /\ TypeOK /\ ChainUnchanged /\ UNCHANGED <<listed, week, won>>
      /\ pc[w] = "settle"
      /\ \/ UNCHANGED <<pc, at, saw>>
         \/ /\ pool[<<week[w], s>>] > 0
            /\ at' = [at EXCEPT ![w] = s]
            /\ saw' = [saw EXCEPT ![w] = pool[<<week[w], s>>]]
            /\ pc' = [pc EXCEPT ![w] = "publish"]
  BY Before DEF Look, InPool, Goto, storeVars
<1>2. /\ pc \in [Workers -> Labels] /\ at \in [Workers -> Strategies] /\ saw \in [Workers -> Nat]
      /\ <<week[w], s>> \in Keys
  BY <1>1, SameKeys DEF OwnTypes, WorkerTypes
<1>3. pool[<<week[w], s>>] \in Nat
  BY <1>1, <1>2 DEF TypeOK, Pool!TypeOK, Keys
<1>4. ASSUME NEW v \in Workers PROVE WorkerFits(v)'
  <2>1. CASE UNCHANGED <<pc, at, saw>>
    <3>1. StillAt(v)
      BY <1>1, <2>1 DEF StillAt
    <3> QED BY <3>1, FitsStill
  <2>2. CASE ~ UNCHANGED <<pc, at, saw>> /\ v # w
    <3>1. StillAt(v)
      BY <1>1, <1>2, <2>2 DEF StillAt
    <3> QED BY <3>1, FitsStill
  <2>3. CASE ~ UNCHANGED <<pc, at, saw>> /\ v = w
    <3>1. /\ pc'[w] = "publish" /\ at'[w] = s /\ week'[w] = week[w]
          /\ saw'[w] = pool[<<week[w], s>>] /\ saw'[w] > 0 /\ pool' = pool
      BY <1>1, <1>2, <2>3 DEF ChainUnchanged, chainVars
    <3>2. saw'[w] <= pool'[<<week'[w], at'[w]>>]
      BY <1>3, <3>1
    <3> QED BY <2>3, <3>1, <3>2 DEF WorkerFits
  <2> QED BY <2>1, <2>2, <2>3
<1>5. (StaleReadStillFits /\ ReadWasMoney /\ ListsWhatItPublished)'
          <=> \A v \in Workers : WorkerFits(v)'
  BY FitsAfter
<1> QED BY <1>1, <1>4, <1>5, ListedStill DEF Settlements, After

(* A settlement that went through is what its worker goes on to list.      *)
LEMMA SendSettleSettlements ==
    ASSUME PrizeAssumption, IInv, After, NEW w \in Workers, NEW board \in Boards,
           SendSettle(w, board)
    PROVE  Settlements'
<1> DEFINE k == <<week[w], at[w]>>
           prize == Winners(board, saw[w])
<1>1. /\ OwnTypes /\ TypeOK /\ UNCHANGED <<listed, week, at>>
      /\ pc[w] = "publish" /\ saw' = [saw EXCEPT ![w] = 0]
      /\ \/ /\ Publish(k, prize) /\ won' = [won EXCEPT ![w] = prize]
            /\ pc' = [pc EXCEPT ![w] = "list"]
         \/ pc' = [pc EXCEPT ![w] = "settle"] /\ UNCHANGED won
  BY Before DEF SendSettle, Goto, storeVars
<1>2. /\ pc \in [Workers -> Labels] /\ won \in [Workers -> Prizes] /\ saw \in [Workers -> Nat]
      /\ k \in Keys
  BY <1>1, SameKeys DEF OwnTypes, WorkerTypes
<1>3. prize \in Prizes
  <2>1. ASSUME NEW m \in Nat PROVE Winners(board, m) \in Prizes
    BY WinnersType
  <2> QED BY <1>2, <2>1
<1>4. (~settled[k]) => prizes[k] = [a \in Accounts |-> 0]
  BY <1>2, SameKeys DEF IInv, Contract!IInv, Contract!UnsettledPoolIsOwnPlusCarried,
                        Contract!NoPrizes
<1> HIDE DEF k, prize
<1>5. ASSUME NEW v \in Workers, v # w PROVE WorkerFits(v)'
  <2>1. StillAt(v)
    BY <1>1, <1>2, <1>5 DEF StillAt
  <2> QED BY <2>1, FitsStill
<1>6. WorkerFits(w)'
  <2>1. CASE pc' = [pc EXCEPT ![w] = "settle"]
    BY <1>2, <2>1 DEF WorkerFits
  <2>2. CASE /\ Publish(k, prize) /\ won' = [won EXCEPT ![w] = prize]
             /\ pc' = [pc EXCEPT ![w] = "list"]
    <3>1. /\ ~settled[k] /\ settled' = [settled EXCEPT ![k] = TRUE]
          /\ prizes'[k] = [a \in Accounts |-> prizes[k][a] + prize[a]]
      BY <1>1, <1>2, <1>3, <2>2, PublishingDoes
    <3>2. settled'[k]
      BY <1>1, <1>2, <3>1 DEF TypeOK, Pool!TypeOK, Keys
    <3>3. prizes'[k] = prize
      <4>1. \A a \in Accounts : prizes[k][a] = 0 /\ prize[a] \in Nat
        BY <1>3, <1>4, <3>1 DEF Prizes
      <4>2. \A a \in Accounts : prizes[k][a] + prize[a] = prize[a]
        BY <4>1
      <4>3. prize = [a \in Accounts |-> prize[a]]
        BY <1>3 DEF Prizes
      <4> QED BY <3>1, <4>2, <4>3
    <3>4. pc'[w] = "list" /\ won'[w] = prize /\ <<week'[w], at'[w]>> = k
      BY <1>1, <1>2, <2>2 DEF k
    <3> QED BY <3>2, <3>3, <3>4 DEF WorkerFits
  <2> QED BY <1>1, <2>1, <2>2
<1>7. (StaleReadStillFits /\ ReadWasMoney /\ ListsWhatItPublished)'
          <=> \A v \in Workers : WorkerFits(v)'
  BY FitsAfter
<1> QED BY <1>1, <1>5, <1>6, <1>7, ListedStill DEF Settlements, After

(* SavePrize writes what was published, where nothing was written before.  *)
LEMMA ListSettlements ==
    ASSUME PrizeAssumption, IInv, After, NEW w \in Workers, List(w) PROVE Settlements'
<1> DEFINE k == <<week[w], at[w]>>
<1>1. /\ OwnTypes /\ Settlements /\ ChainUnchanged /\ UNCHANGED <<week, at, saw>>
      /\ pc[w] = "list" /\ pc' = [pc EXCEPT ![w] = "settle"]
      /\ won' = [won EXCEPT ![w] = Pool!NoPrizes]
  BY Before DEF List, Goto
<1>2. PICK rows \in SUBSET Accounts :
         listed' = [listed EXCEPT ![k] =
                      [a \in Accounts |-> IF a \in rows /\ @[a] = 0 THEN won[w][a] ELSE @[a]]]
  BY DEF List
<1>3. /\ pc \in [Workers -> Labels] /\ won \in [Workers -> Prizes] /\ k \in Keys
      /\ listed \in [Keys -> Prizes]
  BY <1>1, SameKeys DEF OwnTypes, WorkerTypes, StoreTypes
<1>4. settled[k] /\ won[w] = prizes[k]
  BY <1>1 DEF Settlements, ListsWhatItPublished
<1> HIDE DEF k
<1>5. ListedIsClaimable'
  <2>1. ASSUME NEW j \in Keys, NEW a \in Accounts, listed'[j][a] > 0
        PROVE  settled[j] /\ listed'[j][a] = prizes[j][a]
    <3>1. CASE j = k
      <4>1. listed'[k][a] = won[w][a] \/ listed'[k][a] = listed[k][a]
        BY <1>2, <1>3
      <4> QED BY <1>1, <1>4, <2>1, <3>1, <4>1 DEF Settlements, ListedIsClaimable
    <3>2. CASE j # k
      <4>1. listed'[j] = listed[j]
        BY <1>2, <1>3, <3>2
      <4> QED BY <1>1, <2>1, <4>1 DEF Settlements, ListedIsClaimable
    <3> QED BY <3>1, <3>2
  <2>2. UNCHANGED <<settled, prizes>>
    BY <1>1 DEF ChainUnchanged, chainVars
  <2> QED BY <2>1, <2>2 DEF ListedIsClaimable
<1>6. ASSUME NEW v \in Workers PROVE WorkerFits(v)'
  <2>1. StillAt(v)
    BY <1>1, <1>3 DEF StillAt
  <2> QED BY <2>1, FitsStill
<1>7. (StaleReadStillFits /\ ReadWasMoney /\ ListsWhatItPublished)'
          <=> \A v \in Workers : WorkerFits(v)'
  BY FitsAfter
<1> QED BY <1>5, <1>6, <1>7 DEF Settlements, After

-----------------------------------------------------------------------------
(* The theorems *)

LEMMA InitIInv == ASSUME PrizeAssumption, Init PROVE IInv
<1>1. OwnTypes /\ Contract!IInv
  BY InitTypes, ContractAssumption, Contract!InitIInv
<1>2. TypeOK
  <2>1. Pool!TypeOK
    BY <1>1, SameTypes DEF Contract!IInv
  <2> QED BY <1>1, <2>1, TypesAre DEF OwnTypes
<1>3. Settlements
  <2>1. /\ pc = [w \in Workers |-> "idle"] /\ settled = [k \in Keys |-> FALSE]
        /\ listed = [k \in Keys |-> Pool!NoPrizes]
    BY DEF Init, Pool!Init, Keys
  <2> QED BY <2>1 DEF Settlements, StaleReadStillFits, ReadWasMoney, ListsWhatItPublished,
                      ListedIsClaimable, UnconfirmedSettlesOnlyCarried, Pool!NoPrizes
<1> QED BY <1>1, <1>2, <1>3, InitDebts DEF IInv

(* A worker's step keeps debts and settlements. *)
LEMMA WorkKeeps ==
    ASSUME PrizeAssumption, IInv, After, NEW w \in Workers, Work(w)
    PROVE  Debts' /\ Settlements'
<1>1. pc \in [Workers -> Labels] /\ OwnTypes /\ Debts
  BY Before DEF OwnTypes, WorkerTypes
<1>2. CASE Owe(w)
  <2>1. /\ UNCHANGED <<listed, week, at, saw, won>> /\ pc' = [pc EXCEPT ![w] = "flush"]
    BY <1>2 DEF Owe, Goto, storeVars
  <2>2. \A v \in Workers : StillAt(v)
    BY <1>1, <2>1 DEF StillAt
  <2> QED BY <1>2, <2>1, <2>2, OweDebts, SettlementsStill
<1>3. CASE Take(w)
  <2>1. /\ UNCHANGED <<listed, week, at, saw, won>> /\ pc' = [pc EXCEPT ![w] = "send"]
    BY <1>3 DEF Take, Goto, storeVars
  <2>2. \A v \in Workers : StillAt(v)
    BY <1>1, <2>1 DEF StillAt
  <2> QED BY <1>3, <2>1, <2>2, TakeDebts, SettlementsStill
<1>4. CASE Flushed(w)
  <2>1. /\ UNCHANGED <<storeVars, due, week, batch, at, saw, won, pending, boundVars>>
        /\ ChainUnchanged /\ batch[w] = Nothing /\ pc[w] = "send"
        /\ pc' = [pc EXCEPT ![w] = "idle"] \/ pc' = [pc EXCEPT ![w] = "settle"]
    BY <1>4 DEF Flushed, Goto
  <2>2. \A v \in Workers : StillAt(v)
    BY <1>1, <2>1 DEF StillAt
  <2>3. \A v \in Workers : /\ (pc'[v] = "owe") <=> (pc[v] = "owe")
                           /\ pc[v] = "owe" => week'[v] = week[v]
                           /\ pc'[v] # "send" => batch[v] = Nothing
    BY <1>1, <2>1 DEF Debts, BatchWhileSending
  <2>4. Debts'
    BY <2>1, <2>3, DebtsQuiet DEF storeVars, boundVars, ChainUnchanged, chainVars
  <2> QED BY <2>1, <2>2, <2>4, SettlementsStill DEF storeVars
<1>5. CASE List(w)
  <2>1. /\ UNCHANGED <<receipts, funded, due, week, batch, crashes>> /\ ChainUnchanged
        /\ Sent \/ Fails
        /\ pc[w] = "list" /\ Goto(w, "settle")
    BY <1>5 DEF List
  <2> QED BY <1>5, <2>1, CallDebts, ListSettlements
<1>6. CASE Settled(w)
  <2>1. /\ UNCHANGED <<storeVars, due, week, batch, at, saw, won, pending, boundVars>>
        /\ ChainUnchanged /\ pc[w] = "settle" /\ pc' = [pc EXCEPT ![w] = "idle"]
    BY <1>6 DEF Settled, Goto
  <2>2. \A v \in Workers : StillAt(v)
    BY <1>1, <2>1 DEF StillAt
  <2>3. \A v \in Workers : /\ (pc'[v] = "owe") <=> (pc[v] = "owe")
                           /\ pc[v] = "owe" => week'[v] = week[v]
                           /\ pc'[v] # "send" => batch[v] = Nothing
    BY <1>1, <2>1 DEF Debts, BatchWhileSending
  <2>4. Debts'
    BY <2>1, <2>3, DebtsQuiet DEF storeVars, boundVars, ChainUnchanged, chainVars
  <2> QED BY <2>1, <2>2, <2>4, SettlementsStill DEF storeVars
<1>7. CASE \E k \in Keys : SendFund(w, k)
  <2>1. PICK k \in Keys : SendFund(w, k)
    BY <1>7
  <2>2. UNCHANGED <<storeVars, pc, week, at, saw, won>>
    BY <2>1 DEF SendFund
  <2>3. \A v \in Workers : StillAt(v)
    BY <2>2 DEF StillAt
  <2> QED BY <2>1, <2>2, <2>3, SendFundDebts, SettlementsStill DEF storeVars
<1>8. CASE \E s \in Strategies : Look(w, s)
  <2>1. PICK s \in Strategies : Look(w, s)
    BY <1>8
  <2>2. /\ UNCHANGED <<receipts, funded, due, week, batch, crashes>> /\ ChainUnchanged
        /\ Sent \/ Fails
        /\ pc[w] = "settle" /\ (UNCHANGED pc \/ Goto(w, "publish"))
    BY <2>1 DEF Look, storeVars
  <2> QED BY <2>1, <2>2, CallDebts, LookSettlements
<1>9. CASE \E board \in Boards : SendSettle(w, board)
  BY <1>9, SendSettleDebts, SendSettleSettlements
<1> QED BY <1>2, <1>3, <1>4, <1>5, <1>6, <1>7, <1>8, <1>9 DEF Work

(* The week a worker goes to settle, a tick and a step of the world.       *)
LEMMA QuietKeeps ==
    ASSUME PrizeAssumption, IInv, After,
           UNCHANGED <<storeVars, due, batch, at, saw, won, pending, boundVars, contributed>>,
           \A v \in Workers : \/ pc'[v] = pc[v] /\ week'[v] = week[v]
                              \/ pc[v] = "idle" /\ pc'[v] \in {"settle", "flush"}
    PROVE  Debts' /\ Settlements'
<1>1. Debts
  BY Before
<1>2. \A v \in Workers : StillAt(v)
  BY DEF StillAt
<1>3. \A v \in Workers : /\ (pc'[v] = "owe") <=> (pc[v] = "owe")
                         /\ pc[v] = "owe" => week'[v] = week[v]
                         /\ pc'[v] # "send" => batch[v] = Nothing
  BY <1>1 DEF Debts, BatchWhileSending
<1>4. Debts'
  BY <1>3, DebtsQuiet DEF storeVars, boundVars
<1> QED BY <1>2, <1>4, SettlementsStill DEF storeVars

LEMMA NextIInv == ASSUME PrizeAssumption, IInv, [Next]_vars PROVE IInv'
<1>1. After /\ pc \in [Workers -> Labels] /\ week \in [Workers -> Weeks] /\ Loop \in Workers
  BY StepAfter, Before DEF OwnTypes, WorkerTypes, Workers
<1> SUFFICES Debts' /\ Settlements'
  BY <1>1 DEF IInv, After
<1>2. CASE \E r \in Requests, w \in Weeks, amount \in Amounts, accrued \in Accruals :
             Receive(r, w, amount, accrued)
  <2>1. PICK r \in Requests, w \in Weeks, amount \in Amounts, accrued \in Accruals :
          Receive(r, w, amount, accrued)
    BY <1>2
  <2>2. /\ UNCHANGED <<listed, at, saw, won>> /\ pc' = [pc EXCEPT ![r] = "owe"]
        /\ week' = [week EXCEPT ![r] = w]
    BY <2>1 DEF Receive, Goto
  <2>3. \A v \in Workers : StillAt(v)
    BY <1>1, <2>2 DEF StillAt
  <2> QED BY <1>1, <2>1, <2>2, <2>3, ReceiveDebts, SettlementsStill
<1>3. CASE \E w \in Workers : Work(w)
  BY <1>1, <1>3, WorkKeeps
<1>4. CASE TickFund
  <2>1. /\ UNCHANGED <<storeVars, due, batch, at, saw, won, pending, boundVars, contributed>>
        /\ \A v \in Workers : \/ pc'[v] = pc[v] /\ week'[v] = week[v]
                              \/ pc[v] = "idle" /\ pc'[v] \in {"settle", "flush"}
    BY <1>1, <1>4 DEF TickFund, Goto, ChainUnchanged, chainVars
  <2> QED BY <1>1, <2>1, QuietKeeps
<1>5. CASE TickSettle
  <2>1. pc[Loop] = "idle" /\ SettleWeek(Loop, now - 1)
    BY <1>5 DEF TickSettle
  <2>2. /\ UNCHANGED <<storeVars, due, batch, at, saw, won, pending, boundVars, contributed>>
        /\ \A v \in Workers : \/ pc'[v] = pc[v] /\ week'[v] = week[v]
                              \/ pc[v] = "idle" /\ pc'[v] \in {"settle", "flush"}
    BY <1>1, <2>1 DEF SettleWeek, Goto, ChainUnchanged, chainVars
  <2> QED BY <1>1, <2>2, QuietKeeps
<1>6. CASE NextWeek
  <2>1. /\ UNCHANGED <<storeVars, due, batch, at, saw, won, pending, boundVars, contributed>>
        /\ UNCHANGED <<pc, week>>
    BY <1>6 DEF NextWeek, workerVars, Pool!NextWeek, Pool!moneyVars
  <2> QED BY <1>1, <2>1, QuietKeeps
<1>7. CASE Mine
  <2>1. UNCHANGED <<listed, pc, week, at, saw, won>>
    BY <1>7 DEF Mine, workerVars, storeVars
  <2>2. \A v \in Workers : StillAt(v)
    BY <2>1 DEF StillAt
  <2> QED BY <1>1, <1>7, <2>1, <2>2, MineDebts, SettlementsStill
<1>8. CASE Crash
  <2>1. UNCHANGED listed /\ pc' = [w \in Workers |-> "idle"]
    BY <1>8 DEF Crash, storeVars
  <2>2. \A v \in Workers : StillAt(v)
    BY <2>1 DEF StillAt
  <2> QED BY <1>1, <1>8, <2>1, <2>2, CrashDebts, SettlementsStill
<1>9. CASE UNCHANGED vars
  <2>1. /\ UNCHANGED <<storeVars, due, batch, at, saw, won, pending, boundVars, contributed>>
        /\ UNCHANGED <<pc, week>>
    BY <1>9 DEF vars, workerVars, chainVars
  <2> QED BY <1>1, <2>1, QuietKeeps
<1> QED BY <1>2, <1>3, <1>4, <1>5, <1>6, <1>7, <1>8, <1>9 DEF Next

(* Every reachable state of the settler satisfies the invariant. *)
THEOREM AlwaysIInv == ASSUME PrizeAssumption PROVE Spec => []IInv
<1>1. Init => IInv
  BY InitIInv
<1>2. IInv /\ [Next]_vars => IInv'
  BY NextIInv
<1> QED BY <1>1, <1>2, PTL DEF Spec

(***************************************************************************)
(* Until the process dies or a transaction outlives its sender, what was   *)
(* allotted is what arrived and what is still owed: flushes that overlap   *)
(* lose nothing of Prize.due and send nothing of it twice.                 *)
(***************************************************************************)
THEOREM FlushesLoseNothing == ASSUME PrizeAssumption PROVE Spec => []NothingLostInFlush
<1>1. IInv => NothingLostInFlush
  BY DEF IInv, Debts, OwedIsWhatIsMissing, NothingLostInFlush
<1> QED BY <1>1, AlwaysIInv, PTL

(***************************************************************************)
(* Receive funds a week's pools with no more than what was received, but   *)
(* for one allotment more with every transaction that outlived its wait,   *)
(* through any retries, restarts and flushes.                              *)
(***************************************************************************)
THEOREM NoMoreThanReceived == ASSUME PrizeAssumption PROVE Spec => []OverfundedOnlyByLateOnes
<1>1. IInv => OverfundedOnlyByLateOnes
  <2> SUFFICES ASSUME IInv, NEW w \in Weeks
               PROVE  Sum([s \in Strategies |-> contributed[<<w, s>>]])
                          <= (1 + timeouts) * Received(w)
    BY DEF OverfundedOnlyByLateOnes
  <2> DEFINE paid == [s \in Strategies |-> contributed[<<w, s>>]]
             allotted == [s \in Strategies |-> funded[<<w, s>>]]
  <2>1. Debts /\ TypeOK /\ OwnTypes /\ OwedTypes
    BY Before, OwedType
  <2>2. /\ timeouts \in Nat /\ Len(pending) \in Nat /\ Len(pending) <= timeouts
        /\ funded \in [Keys -> Nat] /\ contributed \in [Keys -> Nat]
    <3>1. StoreTypes /\ NodeTypes /\ Pool!TypeOK
      BY <2>1 DEF OwnTypes, TypeOK
    <3>2. timeouts \in Nat /\ pending \in Seq(Transactions)
      BY <3>1 DEF NodeTypes, PrizeAssumption
    <3>3. funded \in [Keys -> Nat] /\ contributed \in [Keys -> Nat]
      BY <3>1 DEF StoreTypes, Pool!TypeOK, Keys
    <3> QED BY <2>1, <3>2, <3>3 DEF Debts, LateOnesAreCounted
  <2>3. paid \in [Strategies -> Nat] /\ allotted \in [Strategies -> Nat]
    BY <2>2, KeyOf
  <2>4. ASSUME NEW s \in Strategies PROVE 1 * paid[s] <= (1 + timeouts) * allotted[s]
    <3> DEFINE k == <<w, s>>
    <3>1. k \in Keys /\ paid[s] = contributed[k] /\ allotted[s] = funded[k]
      BY KeyOf
    <3> HIDE DEF k
    <3>2. contributed[k] + Owed(k) <= (1 + Late) * funded[k] /\ Owed(k) \in Nat
      BY <2>1, <3>1 DEF Debts, SentWithinAllotments, OwedTypes
    <3>3. contributed[k] \in Nat /\ funded[k] \in Nat
      BY <2>2, <3>1
    <3>4. Late \in Nat /\ Late <= timeouts
      BY <2>2 DEF Late
    <3>5. \A l, t, f \in Nat : l <= t => (1 + l) * f <= (1 + t) * f /\ (1 + l) * f \in Nat /\ (1 + t) * f \in Nat
      OBVIOUS
    <3>6. /\ (1 + Late) * funded[k] <= (1 + timeouts) * funded[k]
          /\ (1 + Late) * funded[k] \in Nat /\ (1 + timeouts) * funded[k] \in Nat
      BY <2>2, <3>3, <3>4, <3>5
    <3>7. contributed[k] <= (1 + timeouts) * funded[k]
      BY <3>2, <3>3, <3>6
    <3> QED BY <3>1, <3>3, <3>7
  <2>5. 1 * Sum(paid) <= (1 + timeouts) * Sum(allotted)
    <3> HIDE DEF paid, allotted
    <3>1. 1 \in Nat /\ 1 + timeouts \in Nat /\ IsFiniteSet(Strategies)
      BY <2>2 DEF PrizeAssumption
    <3> QED BY <2>3, <2>4, <3>1, SumScale
  <2>6. Sum(allotted) <= Received(w)
    BY <2>1 DEF Debts, AllottedWithinReceipt
  <2>7. Sum(paid) \in Nat /\ Sum(allotted) \in Nat
    <3> HIDE DEF paid, allotted
    <3> QED BY <2>3, SumNat DEF PrizeAssumption
  <2>8. Received(w) \in Nat
    <3>1. receipts \in [Weeks -> {NoReceipt} \cup [received : Nat]]
      BY <2>1 DEF OwnTypes, StoreTypes
    <3> QED BY <3>1 DEF Received
  <2> HIDE DEF paid, allotted
  <2>9. \A t, a, b \in Nat : a <= b => (1 + t) * a <= (1 + t) * b /\ (1 + t) * a \in Nat /\ (1 + t) * b \in Nat
    OBVIOUS
  <2>10. /\ (1 + timeouts) * Sum(allotted) <= (1 + timeouts) * Received(w)
         /\ (1 + timeouts) * Sum(allotted) \in Nat /\ (1 + timeouts) * Received(w) \in Nat
    BY <2>2, <2>6, <2>7, <2>8, <2>9
  <2>11. Sum(paid) <= (1 + timeouts) * Received(w)
    BY <2>5, <2>7, <2>10
  <2> QED BY <2>11 DEF paid
<1> QED BY <1>1, AlwaysIInv, PTL

(* No pool is closed before it ever held money, by the loop or a receipt.  *)
THEOREM OnlyMoneyIsSettled == ASSUME PrizeAssumption PROVE Spec => []UnconfirmedSettlesOnlyCarried
<1>1. IInv => UnconfirmedSettlesOnlyCarried
  BY DEF IInv, Settlements
<1> QED BY <1>1, AlwaysIInv, PTL

(* What settleWeek read of a pool is still in it when it publishes, unless *)
(* the week was settled by somebody else.                                  *)
THEOREM StaleReadsFit == ASSUME PrizeAssumption PROVE Spec => []StaleReadStillFits
<1>1. IInv => StaleReadStillFits
  BY DEF IInv, Settlements
<1> QED BY <1>1, AlwaysIInv, PTL

(* Every prize in the prizes table can be claimed, in that amount, after   *)
(* any restarts, late settlements and repeated listings.                   *)
THEOREM ShownPrizesCanBeClaimed == ASSUME PrizeAssumption PROVE Spec => []ListedIsClaimable
<1>1. IInv => ListedIsClaimable
  BY DEF IInv, Settlements
<1> QED BY <1>1, AlwaysIInv, PTL
=============================================================================
