-------------------------- MODULE PolicyEngineProofs --------------------------
(***************************************************************************)
(* What the policy engine guarantees for any accounts, callers, limits and *)
(* requests: its types, that an account counted flat has no exposure, and  *)
(* how far concurrent callers can overshoot the cap on open positions.     *)
(***************************************************************************)
EXTENDS PolicyEngine, FiniteSetTheorems, TLAPS

(* An account without limits has no service, so nobody opens for it.  This *)
(* is what makes Connect, which replaces the count, safe for the overshoot *)
(* bound.                                                                  *)
NobodyTradesUnconnected ==
    \A a \in Accounts : limits[a] = None => Opening(a) = {}

(* The inductive invariant of the counters. *)
IInv == TypeOK /\ FlatMeansFlat /\ NobodyTradesUnconnected /\ OvershootBounded

(* The day's loss as Restore would read it. *)
SavedLoss(a) == IF saved.dayStart[a] < today THEN 0 ELSE saved.realizedLoss[a]

(* The inductive invariant of the store: a row whose last write was not    *)
(* lost says what the memory says (the day it counts from may be older,    *)
(* since a look at the state rolls the day in memory only), and nothing is *)
(* dated in the future.                                                    *)
StoreFollows ==
    /\ \A a \in Accounts \ behind : saved.lastOpen[a] = lastOpen[a] /\ SavedLoss(a) = DayLoss(a)
    /\ KillRow \notin behind => saved.kill = killSwitch
    /\ \A a \in Accounts : /\ lastOpen[a] <= now /\ saved.lastOpen[a] <= now
                          /\ dayStart[a] <= today /\ saved.dayStart[a] <= today

(* A request and a set of limits are what their types say, and not None.   *)
LEMMA RequestTypes ==
    ASSUME EngineAssumption, TypeOK, NEW c \in Callers, inFlight[c] # None
    PROVE  /\ inFlight[c] \in Requests
           /\ inFlight[c].account \in Accounts
           /\ inFlight[c].notional \in Nat
           /\ inFlight[c].reduce \in BOOLEAN
<1>1. inFlight[c] \in Requests
  BY DEF TypeOK
<1>. QED
  BY <1>1 DEF EngineAssumption, Request

(* The engine starts with no account, and nobody in flight.                *)
LEMMA InitIInv == ASSUME EngineAssumption, Init PROVE IInv
<1>1. TypeOK
  <2>1. saved \in [kill : BOOLEAN, lastOpen : [Accounts -> Nat \cup {NeverOpened}],
                   dayStart : [Accounts -> Nat], realizedLoss : [Accounts -> Int]]
    <3>1. saved.lastOpen = lastOpen /\ lastOpen \in [Accounts -> Nat \cup {NeverOpened}]
      BY DEF Init
    <3>2. saved.dayStart = dayStart /\ dayStart \in [Accounts -> Nat]
      BY DEF Init
    <3>3. saved.realizedLoss = realizedLoss /\ realizedLoss \in [Accounts -> Int]
      BY DEF Init
    <3>. QED
      BY <3>1, <3>2, <3>3 DEF Init
  <2>. QED
    BY <2>1 DEF Init, TypeOK
<1>2. FlatMeansFlat
  BY DEF Init, FlatMeansFlat
<1>3. \A a \in Accounts : Opening(a) = {}
  BY DEF Init, Opening
<1>. QED
  BY <1>1, <1>2, <1>3 DEF IInv, NobodyTradesUnconnected, OvershootBounded, Init

(* rollDayLocked keeps the day's types.                                    *)
LEMMA RollDayTypes ==
    ASSUME TypeOK, NEW a \in Accounts, RollDay(a)
    PROVE  dayStart' \in [Accounts -> Nat] /\ realizedLoss' \in [Accounts -> Int]
  BY DEF TypeOK, RollDay, DayLoss

(* What a write through leaves in the store has the store's type.          *)
LEMMA PersistTypes ==
    ASSUME TypeOK, NEW a \in Accounts, PersistAccount(a),
           lastOpen' \in [Accounts -> Nat \cup {NeverOpened}],
           dayStart' \in [Accounts -> Nat], realizedLoss' \in [Accounts -> Int]
    PROVE  /\ saved' \in [kill : BOOLEAN, lastOpen : [Accounts -> Nat \cup {NeverOpened}],
                          dayStart : [Accounts -> Nat], realizedLoss : [Accounts -> Int]]
           /\ behind' \subseteq Accounts \cup {KillRow}
  BY DEF TypeOK, PersistAccount

(* Every method keeps the types.                                           *)
LEMMA NextTypeOK == ASSUME EngineAssumption, TypeOK, [Next]_vars PROVE TypeOK'
<1>1. ASSUME NEW a \in Accounts, NEW l \in LimitChoices, SetLimits(a, l)
      PROVE  TypeOK'
  BY <1>1 DEF TypeOK, SetLimits, accountVars, clock
<1>2. CASE Kill \/ Revive
  BY <1>2 DEF TypeOK, Kill, Revive, PersistKill, accountVars, clock
<1>3. ASSUME NEW c \in Callers, NEW r \in Requests, Authorize(c, r)
      PROVE  TypeOK'
  <2>1. r.account \in Accounts
    BY DEF EngineAssumption, Request
  <2>2. dayStart' \in [Accounts -> Nat] /\ realizedLoss' \in [Accounts -> Int]
    BY <1>3, <2>1, RollDayTypes DEF Authorize, TypeOK
  <2>. QED
    BY <1>3, <2>2 DEF TypeOK, Authorize, clock
<1>4. ASSUME NEW c \in Callers, Drop(c)
      PROVE  TypeOK'
  BY <1>4 DEF TypeOK, Drop, accountVars, clock
<1>5. ASSUME NEW c \in Callers, NEW slip \in Slips, RecordOpen(c, slip)
      PROVE  TypeOK'
  <2>. DEFINE a == inFlight[c].account
  <2>1. inFlight[c] # None /\ slip \in Int
    BY <1>5 DEF RecordOpen, EngineAssumption
  <2>2. a \in Accounts /\ inFlight[c].notional \in Nat
    BY <2>1, RequestTypes
  <2>3. dayStart' \in [Accounts -> Nat] /\ realizedLoss' \in [Accounts -> Int]
    BY <1>5, <2>2, RollDayTypes DEF RecordOpen
  <2>4. lastOpen' \in [Accounts -> Nat \cup {NeverOpened}]
    BY <1>5, <2>2 DEF TypeOK, RecordOpen
  <2>5. exposure' \in [Accounts -> Nat]
    BY <1>5, <2>1, <2>2 DEF TypeOK, RecordOpen
  <2>6. openPositions' \in [Accounts -> Nat] /\ inFlight' \in [Callers -> Requests \cup {None}]
    BY <1>5, <2>2 DEF TypeOK, RecordOpen
  <2>7. PersistAccount(a)
    BY <1>5 DEF RecordOpen
  <2>8. /\ saved' \in [kill : BOOLEAN, lastOpen : [Accounts -> Nat \cup {NeverOpened}],
                       dayStart : [Accounts -> Nat], realizedLoss : [Accounts -> Int]]
        /\ behind' \subseteq Accounts \cup {KillRow}
    BY <2>2, <2>3, <2>4, <2>7, PersistTypes
  <2>9. UNCHANGED <<killSwitch, limits, now, today, reported>>
    BY <1>5 DEF RecordOpen, clock
  <2>. QED
    BY <2>3, <2>4, <2>5, <2>6, <2>8, <2>9 DEF TypeOK
<1>6. ASSUME NEW c \in Callers, NEW slip \in Slips, NEW pnl \in PnLs,
             RecordClose(c, slip, pnl)
      PROVE  TypeOK'
  <2>. DEFINE a == inFlight[c].account
  <2>1. inFlight[c] # None /\ slip \in Int /\ pnl \in Int
    BY <1>6 DEF RecordClose, EngineAssumption
  <2>2. a \in Accounts /\ inFlight[c].notional \in Nat
    BY <2>1, RequestTypes
  <2>3. dayStart' \in [Accounts -> Nat]
    BY <1>6, <2>2 DEF TypeOK, RecordClose
  <2>4. DayLoss(a) \in Int
    BY <2>2 DEF TypeOK, DayLoss
  <2>5. realizedLoss' \in [Accounts -> Int]
    BY <1>6, <2>1, <2>2, <2>4 DEF TypeOK, RecordClose
  <2>6. openPositions' \in [Accounts -> Nat]
    BY <1>6, <2>2 DEF TypeOK, RecordClose, OneFewer
  <2>7. exposure' \in [Accounts -> Nat]
    BY <1>6, <2>1, <2>2 DEF TypeOK, RecordClose, ExposureAfter
  <2>8. inFlight' \in [Callers -> Requests \cup {None}]
    BY <1>6 DEF TypeOK, RecordClose
  <2>9. PersistAccount(a) /\ UNCHANGED <<lastOpen, killSwitch, limits, now, today, reported>>
    BY <1>6 DEF RecordClose, clock
  <2>10. lastOpen' \in [Accounts -> Nat \cup {NeverOpened}]
    BY <2>9 DEF TypeOK
  <2>11. /\ saved' \in [kill : BOOLEAN, lastOpen : [Accounts -> Nat \cup {NeverOpened}],
                        dayStart : [Accounts -> Nat], realizedLoss : [Accounts -> Int]]
         /\ behind' \subseteq Accounts \cup {KillRow}
    BY <2>2, <2>3, <2>5, <2>9, <2>10, PersistTypes
  <2>. QED
    BY <2>3, <2>5, <2>6, <2>7, <2>8, <2>9, <2>10, <2>11 DEF TypeOK
<1>7. ASSUME NEW a \in Accounts, NEW l \in LimitChoices, NEW b \in Books, Connect(a, l, b)
      PROVE  TypeOK'
  <2>1. b.count \in Nat /\ b.exposure \in Nat
    BY DEF EngineAssumption
  <2>2. dayStart' \in [Accounts -> Nat] /\ realizedLoss' \in [Accounts -> Int]
    BY <1>7, RollDayTypes DEF Connect
  <2>3. PersistAccount(a) /\ UNCHANGED <<lastOpen, killSwitch, inFlight, now, today>>
    BY <1>7 DEF Connect, clock
  <2>4. lastOpen' \in [Accounts -> Nat \cup {NeverOpened}]
    BY <2>3 DEF TypeOK
  <2>5. /\ saved' \in [kill : BOOLEAN, lastOpen : [Accounts -> Nat \cup {NeverOpened}],
                       dayStart : [Accounts -> Nat], realizedLoss : [Accounts -> Int]]
        /\ behind' \subseteq Accounts \cup {KillRow}
    BY <2>2, <2>3, <2>4, PersistTypes
  <2>. QED
    BY <1>7, <2>1, <2>2, <2>3, <2>4, <2>5 DEF TypeOK, Connect
<1>8. CASE Restart
  BY <1>8 DEF TypeOK, Restart, clock
<1>9. CASE Tick
  BY <1>9 DEF TypeOK, Tick, accountVars
<1>10. CASE UNCHANGED vars
  BY <1>10 DEF TypeOK, vars
<1>11. ASSUME NEW a \in Accounts, Snapshot(a)
       PROVE  TypeOK'
  <2>1. dayStart' \in [Accounts -> Nat] /\ realizedLoss' \in [Accounts -> Int]
    BY <1>11, RollDayTypes DEF Snapshot
  <2>. QED
    BY <1>11, <2>1 DEF TypeOK, Snapshot, clock
<1>. QED
  BY <1>1, <1>2, <1>3, <1>4, <1>5, <1>6, <1>7, <1>8, <1>9, <1>10, <1>11 DEF Next

(* Flat means flat: an open makes the count positive, a close that brings  *)
(* it to zero takes the exposure along, and a venue that reports no        *)
(* positions reports no exposure.                                          *)
LEMMA NextFlatMeansFlat ==
    ASSUME EngineAssumption, TypeOK, FlatMeansFlat, [Next]_vars
    PROVE  FlatMeansFlat'
<1>1. ASSUME UNCHANGED <<openPositions, exposure>> PROVE FlatMeansFlat'
  BY <1>1 DEF FlatMeansFlat
<1>2. ASSUME NEW c \in Callers, NEW slip \in Slips, RecordOpen(c, slip)
      PROVE  FlatMeansFlat'
  <2>1. inFlight[c].account \in Accounts
    BY <1>2, RequestTypes DEF RecordOpen
  <2>. QED
    BY <1>2, <2>1 DEF TypeOK, FlatMeansFlat, RecordOpen
<1>3. ASSUME NEW c \in Callers, NEW slip \in Slips, NEW pnl \in PnLs,
             RecordClose(c, slip, pnl)
      PROVE  FlatMeansFlat'
  <2>1. inFlight[c].account \in Accounts
    BY <1>3, RequestTypes DEF RecordClose
  <2>. QED
    BY <1>3, <2>1 DEF TypeOK, FlatMeansFlat, RecordClose, OneFewer, ExposureAfter
<1>4. ASSUME NEW a \in Accounts, NEW l \in LimitChoices, NEW b \in Books, Connect(a, l, b)
      PROVE  FlatMeansFlat'
  BY <1>4 DEF EngineAssumption, TypeOK, FlatMeansFlat, Connect
<1>5. CASE Restart
  BY <1>5 DEF FlatMeansFlat, Restart
<1>. QED
  BY <1>1, <1>2, <1>3, <1>4, <1>5
     DEF Next, vars, SetLimits, Kill, Revive, Authorize, Snapshot, Drop, Tick, accountVars

(* Who is opening for an account is a finite set, no larger than the       *)
(* callers, and it shrinks by one when one of them is done.                *)
LEMMA OpeningBounds ==
    ASSUME EngineAssumption, NEW a \in Accounts
    PROVE  /\ IsFiniteSet(Opening(a))
           /\ Cardinality(Opening(a)) \in Nat
           /\ Cardinality(Callers) \in Nat
           /\ Cardinality(Opening(a)) <= Cardinality(Callers)
<1>1. IsFiniteSet(Callers) /\ Opening(a) \subseteq Callers
  BY DEF EngineAssumption, Opening
<1>2. IsFiniteSet(Opening(a)) /\ Cardinality(Opening(a)) <= Cardinality(Callers)
  BY <1>1, FS_Subset
<1>. QED
  BY <1>1, <1>2, FS_CardinalityType

(* Where nothing the bound counts grows, it holds on.                      *)
LEMMA NothingGrows ==
    ASSUME EngineAssumption, TypeOK, OvershootBounded,
           NEW a \in Accounts, Opening(a)' \subseteq Opening(a),
           openPositions'[a] \in Nat, openPositions'[a] <= openPositions[a],
           reported'[a] = reported[a]
    PROVE  \/ openPositions'[a] <= reported'[a] /\ Opening(a)' = {}
           \/ \E m \in MostOpen :
                openPositions'[a] + Cardinality(Opening(a)') < m + Cardinality(Callers)
<1>1. /\ IsFiniteSet(Opening(a)) /\ Cardinality(Opening(a)) \in Nat
      /\ Cardinality(Callers) \in Nat
  BY OpeningBounds
<1>2. Cardinality(Opening(a)') \in Nat /\ Cardinality(Opening(a)') <= Cardinality(Opening(a))
  BY <1>1, FS_Subset, FS_CardinalityType
<1>3. openPositions[a] \in Nat /\ reported[a] \in Nat
  BY DEF TypeOK
<1>4. CASE openPositions[a] <= reported[a] /\ Opening(a) = {}
  BY <1>3, <1>4
<1>5. CASE \E m \in MostOpen :
              openPositions[a] + Cardinality(Opening(a)) < m + Cardinality(Callers)
  <2>1. PICK m \in MostOpen :
               openPositions[a] + Cardinality(Opening(a)) < m + Cardinality(Callers)
    BY <1>5
  <2>2. m \in Nat
    BY DEF MostOpen, EngineAssumption, Limits
  <2>3. openPositions'[a] + Cardinality(Opening(a)') < m + Cardinality(Callers)
    BY <1>1, <1>2, <1>3, <2>1, <2>2
  <2>. QED
    BY <2>3
<1>. QED
  BY <1>4, <1>5 DEF OvershootBounded

(* Only Authorize lets somebody open, only Connect and RecordOpen raise a  *)
(* count: the three steps the bound has to survive.                        *)
LEMMA NextOvershoot ==
    ASSUME EngineAssumption, IInv, [Next]_vars
    PROVE  NobodyTradesUnconnected' /\ OvershootBounded'
<1>. USE DEF IInv
<1>1. TypeOK'
  BY NextTypeOK
<1>2. ASSUME \A a \in Accounts : /\ Opening(a)' \subseteq Opening(a)
                                 /\ openPositions'[a] <= openPositions[a]
                                 /\ reported'[a] = reported[a]
                                 /\ limits'[a] = None => limits[a] = None
      PROVE  NobodyTradesUnconnected' /\ OvershootBounded'
  <2>1. \A a \in Accounts : openPositions'[a] \in Nat
    BY <1>1 DEF TypeOK
  <2>2. NobodyTradesUnconnected'
    BY <1>2 DEF NobodyTradesUnconnected
  <2>3. OvershootBounded'
    BY <1>2, <2>1, NothingGrows DEF OvershootBounded, MostOpen
  <2>. QED
    BY <2>2, <2>3
<1>3. CASE \/ \E a \in Accounts, l \in LimitChoices : SetLimits(a, l)
           \/ \E a \in Accounts : Snapshot(a)
           \/ Kill \/ Revive \/ Tick \/ UNCHANGED vars
  <2>1. UNCHANGED <<inFlight, openPositions, reported>>
    BY <1>3 DEF SetLimits, Snapshot, Kill, Revive, Tick, vars, accountVars
  <2>2. \A a \in Accounts : limits'[a] = None => limits[a] = None
    BY <1>3 DEF SetLimits, Snapshot, Kill, Revive, Tick, vars, TypeOK, EngineAssumption
  <2>3. \A a \in Accounts : Opening(a)' = Opening(a)
    BY <2>1 DEF Opening
  <2>4. \A a \in Accounts : openPositions[a] \in Nat
    BY DEF TypeOK
  <2>. QED
    BY <1>2, <2>1, <2>2, <2>3, <2>4
<1>4. ASSUME NEW c \in Callers, NEW r \in Requests, Authorize(c, r)
      PROVE  NobodyTradesUnconnected' /\ OvershootBounded'
  <2>1. UNCHANGED <<limits, openPositions, reported>> /\ inFlight[c] = None
    BY <1>4 DEF Authorize
  <2>2. \A a \in Accounts : openPositions[a] \in Nat
    BY DEF TypeOK
  <2>3. CASE inFlight' = inFlight
    <3>1. \A a \in Accounts : Opening(a)' = Opening(a)
      BY <2>3 DEF Opening
    <3>. QED
      BY <1>2, <2>1, <2>2, <3>1
  <2>4. CASE r.reduce /\ inFlight' = [inFlight EXCEPT ![c] = r]
    <3>1. \A a \in Accounts : Opening(a)' \subseteq Opening(a)
      BY <2>4 DEF Opening, TypeOK
    <3>. QED
      BY <1>2, <2>1, <2>2, <3>1
  <2>5. CASE /\ FitsTheLimits(r, limits[r.account]) /\ FitsTheDay(r, limits[r.account])
             /\ inFlight' = [inFlight EXCEPT ![c] = r]
    <3>. DEFINE b == r.account
    <3>1. b \in Accounts /\ limits[b] # None
      BY <2>5 DEF EngineAssumption, Request, FitsTheLimits
    <3>2. \A a \in Accounts \ {b} : Opening(a)' \subseteq Opening(a)
      BY <2>1, <2>5 DEF Opening, TypeOK
    <3>3. NobodyTradesUnconnected'
      BY <2>1, <3>1, <3>2 DEF NobodyTradesUnconnected
    <3>4. limits[b] \in LimitChoices /\ limits[b].open \in MostOpen /\ limits[b].open \in Nat
      BY <3>1 DEF TypeOK, MostOpen, EngineAssumption, Limits
    <3>5. openPositions'[b] < limits[b].open
      BY <2>1, <2>5 DEF FitsTheDay
    <3>6. /\ Cardinality(Opening(b)') \in Nat /\ Cardinality(Callers) \in Nat
          /\ Cardinality(Opening(b)') <= Cardinality(Callers)
      <4>1. IsFiniteSet(Callers) /\ Opening(b)' \subseteq Callers
        BY DEF EngineAssumption, Opening
      <4>. QED
        BY <4>1, FS_Subset, FS_CardinalityType
    <3>7. openPositions'[b] + Cardinality(Opening(b)') < limits[b].open + Cardinality(Callers)
      BY <2>1, <2>2, <3>1, <3>4, <3>5, <3>6
    <3>8. OvershootBounded'
      <4>. SUFFICES ASSUME NEW a \in Accounts
                    PROVE \/ openPositions'[a] <= reported'[a] /\ Opening(a)' = {}
                          \/ \E m \in MostOpen :
                               openPositions'[a] + Cardinality(Opening(a)') < m + Cardinality(Callers)
        BY DEF OvershootBounded, MostOpen
      <4>1. CASE a = b
        BY <3>4, <3>7, <4>1
      <4>2. CASE a # b
        BY <2>1, <2>2, <3>2, <4>2, NothingGrows
      <4>. QED
        BY <4>1, <4>2
    <3>. QED
      BY <3>3, <3>8
  <2>. QED
    BY <1>4, <2>3, <2>4, <2>5 DEF Authorize
<1>5. ASSUME NEW c \in Callers, NEW slip \in Slips, NEW pnl \in PnLs,
             RecordClose(c, slip, pnl)
      PROVE  NobodyTradesUnconnected' /\ OvershootBounded'
  <2>1. /\ inFlight[c] # None /\ inFlight' = [inFlight EXCEPT ![c] = None]
        /\ UNCHANGED <<limits, reported>>
    BY <1>5 DEF RecordClose
  <2>2. \A a \in Accounts : Opening(a)' \subseteq Opening(a)
    BY <2>1 DEF Opening, TypeOK
  <2>3. \A a \in Accounts : openPositions'[a] <= openPositions[a]
    BY <1>5 DEF RecordClose, OneFewer, TypeOK
  <2>. QED
    BY <1>2, <2>1, <2>2, <2>3
<1>6. ASSUME NEW c \in Callers, Drop(c)
      PROVE  NobodyTradesUnconnected' /\ OvershootBounded'
  <2>1. /\ inFlight' = [inFlight EXCEPT ![c] = None]
        /\ UNCHANGED <<limits, reported, openPositions>>
    BY <1>6 DEF Drop, accountVars
  <2>2. \A a \in Accounts : Opening(a)' \subseteq Opening(a)
    BY <2>1 DEF Opening, TypeOK
  <2>3. \A a \in Accounts : openPositions'[a] <= openPositions[a]
    BY <2>1 DEF TypeOK
  <2>. QED
    BY <1>2, <2>1, <2>2, <2>3
<1>7. ASSUME NEW c \in Callers, NEW slip \in Slips, RecordOpen(c, slip)
      PROVE  NobodyTradesUnconnected' /\ OvershootBounded'
  <2>1. inFlight[c] # None /\ ~inFlight[c].reduce
    BY <1>7 DEF RecordOpen
  <2>2. PICK b \in Accounts : b = inFlight[c].account
    BY <2>1, RequestTypes
  <2>3. /\ inFlight' = [inFlight EXCEPT ![c] = None]
        /\ openPositions' = [openPositions EXCEPT ![b] = @ + 1]
        /\ UNCHANGED <<limits, reported>>
    BY <1>7, <2>2 DEF RecordOpen
  <2>4. \A a \in Accounts : openPositions[a] \in Nat
    BY DEF TypeOK
  <2>5. \A a \in Accounts : Opening(a)' = Opening(a) \ {c}
    BY <2>3, <2>1 DEF Opening, TypeOK
  <2>6. c \in Opening(b)
    BY <2>1, <2>2 DEF Opening
  <2>7. NobodyTradesUnconnected'
    BY <2>3, <2>5 DEF NobodyTradesUnconnected
  <2>8. PICK m \in MostOpen :
               openPositions[b] + Cardinality(Opening(b)) < m + Cardinality(Callers)
    BY <2>2, <2>6 DEF OvershootBounded
  <2>9. /\ Cardinality(Opening(b)') = Cardinality(Opening(b)) - 1
        /\ Cardinality(Opening(b)) \in Nat /\ Cardinality(Callers) \in Nat
    BY <2>2, <2>5, <2>6, OpeningBounds, FS_RemoveElement
  <2>10. m \in Nat
    BY DEF MostOpen, EngineAssumption, Limits
  <2>11. openPositions'[b] = openPositions[b] + 1
    BY <2>3, <2>2 DEF TypeOK
  <2>12. openPositions'[b] + Cardinality(Opening(b)') < m + Cardinality(Callers)
    BY <2>2, <2>4, <2>8, <2>9, <2>10, <2>11
  <2>13. OvershootBounded'
    <3>. SUFFICES ASSUME NEW a \in Accounts
                  PROVE \/ openPositions'[a] <= reported'[a] /\ Opening(a)' = {}
                        \/ \E n \in MostOpen :
                             openPositions'[a] + Cardinality(Opening(a)') < n + Cardinality(Callers)
      BY DEF OvershootBounded, MostOpen
    <3>1. CASE a = b
      BY <2>12, <3>1
    <3>2. CASE a # b
      <4>1. openPositions'[a] = openPositions[a] /\ Opening(a)' \subseteq Opening(a)
        BY <2>3, <2>5, <3>2 DEF TypeOK
      <4>. QED
        BY <2>3, <2>4, <4>1, NothingGrows
    <3>. QED
      BY <3>1, <3>2
  <2>. QED
    BY <2>7, <2>13
<1>8. ASSUME NEW b \in Accounts, NEW l \in LimitChoices, NEW book \in Books, Connect(b, l, book)
      PROVE  NobodyTradesUnconnected' /\ OvershootBounded'
  <2>1. /\ limits[b] = None /\ limits' = [limits EXCEPT ![b] = l]
        /\ openPositions' = [openPositions EXCEPT ![b] = book.count]
        /\ reported' = [reported EXCEPT ![b] = book.count]
        /\ inFlight' = inFlight
    BY <1>8 DEF Connect
  <2>2. \A a \in Accounts : Opening(a)' = Opening(a)
    BY <2>1 DEF Opening
  <2>3. Opening(b) = {}
    BY <2>1 DEF NobodyTradesUnconnected
  <2>4. NobodyTradesUnconnected'
    BY <2>1, <2>2 DEF NobodyTradesUnconnected, TypeOK, EngineAssumption
  <2>5. book.count \in Nat
    BY DEF EngineAssumption
  <2>6. OvershootBounded'
    <3>. SUFFICES ASSUME NEW a \in Accounts
                  PROVE \/ openPositions'[a] <= reported'[a] /\ Opening(a)' = {}
                        \/ \E n \in MostOpen :
                             openPositions'[a] + Cardinality(Opening(a)') < n + Cardinality(Callers)
      BY DEF OvershootBounded, MostOpen
    <3>1. CASE a = b
      <4>1. openPositions'[a] = book.count /\ reported'[a] = book.count
        BY <2>1, <3>1 DEF TypeOK
      <4>. QED
        BY <2>2, <2>3, <2>5, <3>1, <4>1
    <3>2. CASE a # b
      <4>1. /\ openPositions'[a] = openPositions[a] /\ openPositions[a] \in Nat
            /\ reported'[a] = reported[a]
        BY <2>1, <3>2 DEF TypeOK
      <4>. QED
        BY <2>2, <4>1, NothingGrows
    <3>. QED
      BY <3>1, <3>2
  <2>. QED
    BY <2>4, <2>6
<1>9. CASE Restart
  <2>1. \A a \in Accounts : Opening(a)' = {}
    BY <1>9 DEF Restart, Opening
  <2>2. \A a \in Accounts : openPositions'[a] = 0 /\ reported'[a] = 0
    BY <1>9 DEF Restart
  <2>. QED
    BY <2>1, <2>2 DEF NobodyTradesUnconnected, OvershootBounded
<1>. QED
  BY <1>3, <1>4, <1>5, <1>6, <1>7, <1>8, <1>9 DEF Next

(* Every reachable state of the engine satisfies the invariant.            *)
THEOREM AlwaysIInv == ASSUME EngineAssumption PROVE Spec => []IInv
<1>1. Init => IInv
  BY InitIInv
<1>2. IInv /\ [Next]_vars => IInv'
  BY NextTypeOK, NextFlatMeansFlat, NextOvershoot DEF IInv
<1>. QED
  BY <1>1, <1>2, PTL DEF Spec

(* The engine's counters keep their types: neither the count of positions  *)
(* nor the exposure ever goes negative.                                    *)
THEOREM TypeCorrect == ASSUME EngineAssumption PROVE Spec => []TypeOK
<1>1. IInv => TypeOK
  BY DEF IInv
<1>. QED
  BY <1>1, AlwaysIInv, PTL

(* Rounding dust never becomes a phantom exposure of a flat account.       *)
THEOREM FlatHasNoExposure == ASSUME EngineAssumption PROVE Spec => []FlatMeansFlat
<1>1. IInv => FlatMeansFlat
  BY DEF IInv
<1>. QED
  BY <1>1, AlwaysIInv, PTL

(* Concurrent callers overshoot the cap by fewer than there are of them.   *)
THEOREM CapOvershootBounded == ASSUME EngineAssumption PROVE Spec => []OvershootBounded
<1>1. IInv => OvershootBounded
  BY DEF IInv
<1>. QED
  BY <1>1, AlwaysIInv, PTL
-----------------------------------------------------------------------------
(* What the store remembers. *)

(* A write through leaves the row of the account, and no other, as the     *)
(* memory has it; a write that is lost is a row behind.                    *)
LEMMA PersistFollows ==
    ASSUME EngineAssumption, TypeOK, StoreFollows, NEW a \in Accounts, PersistAccount(a),
           lastOpen' \in [Accounts -> Nat \cup {NeverOpened}],
           UNCHANGED <<killSwitch, now, today>>,
           lastOpen'[a] <= now, dayStart'[a] = today,
           \A b \in Accounts \ {a} : /\ lastOpen'[b] = lastOpen[b] /\ dayStart'[b] = dayStart[b]
                                     /\ realizedLoss'[b] = realizedLoss[b]
    PROVE  StoreFollows'
<1>1. CASE saved' = saved /\ behind' = behind \cup {a}
  <2>1. \A b \in Accounts \ behind' : b # a /\ b \notin behind
    BY <1>1
  <2>. QED
    BY <1>1, <2>1 DEF StoreFollows, SavedLoss, DayLoss, TypeOK
<1>2. CASE /\ saved' = [kill |-> saved.kill,
                        lastOpen |-> [saved.lastOpen EXCEPT ![a] = lastOpen'[a]],
                        dayStart |-> [saved.dayStart EXCEPT ![a] = dayStart'[a]],
                        realizedLoss |-> [saved.realizedLoss EXCEPT ![a] = realizedLoss'[a]]]
           /\ behind' = behind \ {a}
  <2>1. /\ saved.lastOpen \in [Accounts -> Nat \cup {NeverOpened}]
        /\ saved.dayStart \in [Accounts -> Nat]
        /\ saved.realizedLoss \in [Accounts -> Int]
    BY DEF TypeOK
  <2>2. \A b \in Accounts \ {a} : /\ saved'.lastOpen[b] = saved.lastOpen[b]
                                  /\ saved'.dayStart[b] = saved.dayStart[b]
                                  /\ saved'.realizedLoss[b] = saved.realizedLoss[b]
    BY <1>2, <2>1
  <2>3. /\ saved'.lastOpen[a] = lastOpen'[a]
        /\ saved'.dayStart[a] = dayStart'[a]
        /\ saved'.realizedLoss[a] = realizedLoss'[a]
        /\ saved'.kill = saved.kill
    BY <1>2, <2>1
  <2>4. KillRow \notin behind' => KillRow \notin behind
    BY <1>2 DEF EngineAssumption
  <2>5. \A b \in Accounts \ behind' :
            saved'.lastOpen[b] = lastOpen'[b] /\ SavedLoss(b)' = DayLoss(b)'
    <3>1. SavedLoss(a)' = DayLoss(a)'
      BY <2>3 DEF SavedLoss, DayLoss
    <3>2. \A b \in Accounts \ {a} : SavedLoss(b)' = SavedLoss(b) /\ DayLoss(b)' = DayLoss(b)
      BY <2>2 DEF SavedLoss, DayLoss
    <3>. QED
      BY <1>2, <2>2, <2>3, <3>1, <3>2 DEF StoreFollows
  <2>6. \A b \in Accounts : /\ lastOpen'[b] <= now' /\ saved'.lastOpen[b] <= now'
                            /\ dayStart'[b] <= today' /\ saved'.dayStart[b] <= today'
    BY <2>2, <2>3 DEF StoreFollows, TypeOK
  <2>. QED
    BY <2>3, <2>4, <2>5, <2>6 DEF StoreFollows
<1>. QED
  BY <1>1, <1>2 DEF PersistAccount

(* A look at the day changes neither its loss nor what the store says of   *)
(* it.                                                                     *)
LEMMA RollDayKeeps ==
    ASSUME TypeOK, StoreFollows, NEW a \in Accounts, RollDay(a), UNCHANGED today
    PROVE  /\ dayStart'[a] = today
           /\ \A b \in Accounts : DayLoss(b)' = DayLoss(b) /\ dayStart'[b] <= today'
           /\ \A b \in Accounts \ {a} : /\ dayStart'[b] = dayStart[b]
                                        /\ realizedLoss'[b] = realizedLoss[b]
  BY DEF TypeOK, StoreFollows, RollDay, DayLoss

(* The engine starts with nothing to lose.                                 *)
LEMMA InitStoreFollows == ASSUME Init PROVE StoreFollows
<1>1. /\ saved.kill = killSwitch /\ saved.lastOpen = lastOpen
      /\ saved.dayStart = dayStart /\ saved.realizedLoss = realizedLoss
      /\ now = 0 /\ today = 0 /\ killSwitch = FALSE
  BY DEF Init
<1>2. \A a \in Accounts : lastOpen[a] = -1 /\ dayStart[a] = 0
  BY DEF Init, NeverOpened
<1>. QED
  BY <1>1, <1>2 DEF StoreFollows, SavedLoss, DayLoss

(* Every method leaves the store as good as it found it.                   *)
LEMMA NextStoreFollows ==
    ASSUME EngineAssumption, TypeOK, StoreFollows, [Next]_vars
    PROVE  StoreFollows'
<1>1. TypeOK'
  BY NextTypeOK
<1>2. ASSUME UNCHANGED <<killSwitch, lastOpen, saved, behind, now, today>>,
             \A a \in Accounts : DayLoss(a)' = DayLoss(a) /\ dayStart'[a] <= today'
      PROVE  StoreFollows'
  BY <1>2 DEF StoreFollows, SavedLoss
<1>3. CASE \/ \E a \in Accounts, l \in LimitChoices : SetLimits(a, l)
           \/ \E c \in Callers : Drop(c)
           \/ UNCHANGED vars
  <2>1. UNCHANGED <<killSwitch, lastOpen, saved, behind, now, today, dayStart, realizedLoss>>
    BY <1>3 DEF SetLimits, Drop, vars, accountVars, clock
  <2>2. \A a \in Accounts : DayLoss(a)' = DayLoss(a) /\ dayStart'[a] <= today'
    BY <2>1 DEF DayLoss, StoreFollows
  <2>. QED
    BY <1>2, <2>1, <2>2
<1>4. CASE Kill \/ Revive
  <2>1. UNCHANGED <<lastOpen, dayStart, realizedLoss, now, today>> /\ PersistKill
    BY <1>4 DEF Kill, Revive, accountVars, clock
  <2>2. /\ saved'.lastOpen = saved.lastOpen /\ saved'.dayStart = saved.dayStart
        /\ saved'.realizedLoss = saved.realizedLoss
        /\ \A a \in Accounts : a \in behind <=> a \in behind'
        /\ KillRow \notin behind' => saved'.kill = killSwitch'
    BY <2>1 DEF PersistKill, TypeOK, EngineAssumption
  <2>. QED
    BY <2>1, <2>2 DEF StoreFollows, SavedLoss, DayLoss
<1>5. ASSUME NEW c \in Callers, NEW r \in Requests, Authorize(c, r)
      PROVE  StoreFollows'
  <2>1. r.account \in Accounts
    BY DEF EngineAssumption, Request
  <2>2. UNCHANGED <<killSwitch, lastOpen, saved, behind, now, today>>
    BY <1>5 DEF Authorize, clock
  <2>3. \A a \in Accounts : DayLoss(a)' = DayLoss(a) /\ dayStart'[a] <= today'
    <3>1. CASE RollDay(r.account)
      BY <2>1, <2>2, <3>1, RollDayKeeps
    <3>2. CASE UNCHANGED <<dayStart, realizedLoss>>
      BY <2>2, <3>2 DEF DayLoss, StoreFollows
    <3>. QED
      BY <1>5, <3>1, <3>2 DEF Authorize
  <2>. QED
    BY <1>2, <2>2, <2>3
<1>6. ASSUME NEW a \in Accounts, Snapshot(a)
      PROVE  StoreFollows'
  <2>1. UNCHANGED <<killSwitch, lastOpen, saved, behind, now, today>> /\ RollDay(a)
    BY <1>6 DEF Snapshot, clock
  <2>. QED
    BY <1>2, <2>1, RollDayKeeps
<1>7. ASSUME NEW c \in Callers, NEW slip \in Slips, RecordOpen(c, slip)
      PROVE  StoreFollows'
  <2>1. PICK a \in Accounts : a = inFlight[c].account
    BY <1>7, RequestTypes DEF RecordOpen
  <2>2. /\ lastOpen' = [lastOpen EXCEPT ![a] = now]
        /\ RollDay(a) /\ PersistAccount(a)
        /\ UNCHANGED <<killSwitch, now, today>>
    BY <1>7, <2>1 DEF RecordOpen, clock
  <2>3. /\ lastOpen'[a] <= now /\ lastOpen' \in [Accounts -> Nat \cup {NeverOpened}]
        /\ \A b \in Accounts \ {a} : lastOpen'[b] = lastOpen[b]
    BY <2>2 DEF TypeOK
  <2>. QED
    BY <2>2, <2>3, RollDayKeeps, PersistFollows
<1>8. ASSUME NEW c \in Callers, NEW slip \in Slips, NEW pnl \in PnLs,
             RecordClose(c, slip, pnl)
      PROVE  StoreFollows'
  <2>1. PICK a \in Accounts : a = inFlight[c].account
    BY <1>8, RequestTypes DEF RecordClose
  <2>2. /\ dayStart' = [dayStart EXCEPT ![a] = IF @ < today THEN today ELSE @]
        /\ realizedLoss' = [realizedLoss EXCEPT ![a] = DayLoss(a) - pnl]
        /\ PersistAccount(a)
        /\ UNCHANGED <<lastOpen, killSwitch, now, today>>
    BY <1>8, <2>1 DEF RecordClose, clock
  <2>3. dayStart'[a] = today
    BY <2>2 DEF TypeOK, StoreFollows
  <2>4. lastOpen'[a] <= now /\ lastOpen' \in [Accounts -> Nat \cup {NeverOpened}]
    BY <2>2 DEF TypeOK, StoreFollows
  <2>5. \A b \in Accounts \ {a} : /\ lastOpen'[b] = lastOpen[b] /\ dayStart'[b] = dayStart[b]
                                  /\ realizedLoss'[b] = realizedLoss[b]
    BY <2>2 DEF TypeOK
  <2>. QED
    BY <2>2, <2>3, <2>4, <2>5, PersistFollows
<1>9. ASSUME NEW a \in Accounts, NEW l \in LimitChoices, NEW b \in Books, Connect(a, l, b)
      PROVE  StoreFollows'
  <2>1. /\ UNCHANGED <<lastOpen, killSwitch, now, today>>
        /\ RollDay(a) /\ PersistAccount(a)
    BY <1>9 DEF Connect, clock
  <2>2. lastOpen'[a] <= now /\ lastOpen' \in [Accounts -> Nat \cup {NeverOpened}]
    BY <2>1 DEF TypeOK, StoreFollows
  <2>. QED
    BY <2>1, <2>2, RollDayKeeps, PersistFollows
<1>10. CASE Restart
  BY <1>10 DEF Restart, clock, StoreFollows, SavedLoss, DayLoss, TypeOK
<1>11. CASE Tick
  <2>1. /\ now' = now + 1 /\ today' \in {today, today + 1}
        /\ UNCHANGED <<killSwitch, lastOpen, saved, behind, dayStart, realizedLoss>>
    BY <1>11 DEF Tick, accountVars
  <2>2. \A a \in Accounts : SavedLoss(a) = DayLoss(a) => SavedLoss(a)' = DayLoss(a)'
    BY <2>1 DEF SavedLoss, DayLoss, StoreFollows, TypeOK
  <2>3. \A a \in Accounts : /\ lastOpen'[a] <= now' /\ saved'.lastOpen[a] <= now'
                            /\ dayStart'[a] <= today' /\ saved'.dayStart[a] <= today'
    BY <2>1 DEF StoreFollows, TypeOK, NeverOpened
  <2>. QED
    BY <2>1, <2>2, <2>3 DEF StoreFollows
<1>. QED
  BY <1>3, <1>4, <1>5, <1>6, <1>7, <1>8, <1>9, <1>10, <1>11 DEF Next

(* Nothing the engine forgets in a crash was ever only in memory: every    *)
(* row whose last write was not lost is in the store as the memory has it. *)
THEOREM AlwaysStoreFollows == ASSUME EngineAssumption PROVE Spec => []StoreFollows
<1>1. Init => StoreFollows
  BY InitStoreFollows
<1>2. TypeOK /\ StoreFollows /\ [Next]_vars => StoreFollows'
  BY NextStoreFollows
<1>. QED
  BY <1>1, <1>2, TypeCorrect, PTL DEF Spec

(* A step that leaves an account's row where it was, or the whole day.     *)
LEMMA DayMoves ==
    ASSUME EngineAssumption, TypeOK, StoreFollows, [Next]_vars,
           NEW a \in Accounts \ behind, DayLoss(a)' # DayLoss(a)
    PROVE  \/ today' # today
           \/ \E c \in Callers : /\ inFlight[c] # None /\ inFlight'[c] = None
                                 /\ inFlight[c].account = a /\ inFlight[c].reduce
<1>1. ASSUME UNCHANGED <<dayStart, realizedLoss, today>> PROVE FALSE
  BY <1>1 DEF DayLoss
<1>2. ASSUME NEW b \in Accounts, RollDay(b), UNCHANGED today PROVE FALSE
  BY <1>2, RollDayKeeps
<1>3. ASSUME NEW c \in Callers, NEW r \in Requests, Authorize(c, r) PROVE FALSE
  <2>1. r.account \in Accounts
    BY DEF EngineAssumption, Request
  <2>. QED
    BY <1>1, <1>2, <1>3, <2>1 DEF Authorize, clock
<1>4. ASSUME NEW c \in Callers, NEW slip \in Slips, RecordOpen(c, slip) PROVE FALSE
  <2>1. inFlight[c].account \in Accounts
    BY <1>4, RequestTypes DEF RecordOpen
  <2>. QED
    BY <1>2, <1>4, <2>1 DEF RecordOpen, clock
<1>5. ASSUME NEW c \in Callers, NEW slip \in Slips, NEW pnl \in PnLs,
             RecordClose(c, slip, pnl)
      PROVE  /\ inFlight[c] # None /\ inFlight'[c] = None
             /\ inFlight[c].account = a /\ inFlight[c].reduce
  <2>1. /\ inFlight[c] # None /\ inFlight[c].reduce /\ inFlight'[c] = None
        /\ UNCHANGED today
    BY <1>5 DEF RecordClose, TypeOK, clock
  <2>2. PICK b \in Accounts : b = inFlight[c].account
    BY <2>1, RequestTypes
  <2>3. ASSUME a # b PROVE FALSE
    <3>1. dayStart'[a] = dayStart[a] /\ realizedLoss'[a] = realizedLoss[a]
      BY <1>5, <2>2, <2>3 DEF RecordClose, TypeOK
    <3>. QED
      BY <2>1, <3>1 DEF DayLoss
  <2>. QED
    BY <2>1, <2>2, <2>3
<1>6. ASSUME Restart PROVE FALSE
  <2>1. DayLoss(a)' = SavedLoss(a)
    BY <1>6 DEF Restart, clock, DayLoss, SavedLoss, TypeOK
  <2>. QED
    BY <2>1 DEF StoreFollows
<1>7. ASSUME NEW b \in Accounts, NEW l \in LimitChoices, NEW k \in Books, Connect(b, l, k)
      PROVE  FALSE
  BY <1>2, <1>7 DEF Connect, clock
<1>8. ASSUME NEW b \in Accounts, Snapshot(b) PROVE FALSE
  BY <1>2, <1>8 DEF Snapshot, clock
<1>9. ASSUME \/ \E b \in Accounts, l \in LimitChoices : SetLimits(b, l)
             \/ \E c \in Callers : Drop(c)
             \/ Kill \/ Revive \/ UNCHANGED vars
      PROVE  FALSE
  BY <1>1, <1>9 DEF SetLimits, Drop, Kill, Revive, vars, accountVars, clock
<1>10. ASSUME Tick PROVE today' # today
  BY <1>1, <1>10 DEF Tick, accountVars
<1>. QED
  BY <1>3, <1>4, <1>5, <1>6, <1>7, <1>8, <1>9, <1>10 DEF Next

(* A day's result belongs to the day: only a recorded close and midnight   *)
(* change it, whatever is refused, opened, reconfigured or restarted.      *)
THEOREM LossBelongsToTheDay == ASSUME EngineAssumption PROVE Spec => LossMovesOnlyByCloses
<1>1. TypeOK /\ StoreFollows /\ [Next]_vars =>
          [\A a \in Accounts \ behind : DayLoss(a)' # DayLoss(a) =>
             \/ today' # today
             \/ \E c \in Callers : /\ inFlight[c] # None /\ inFlight'[c] = None
                                   /\ inFlight[c].account = a /\ inFlight[c].reduce]_vars
  BY DayMoves
<1>. QED
  BY <1>1, TypeCorrect, AlwaysStoreFollows, PTL DEF Spec, LossMovesOnlyByCloses

(* The last open moves forward or stays: an open is recorded now, a        *)
(* restart finds it in the store, and nothing else writes it.              *)
LEMMA LastOpenMovesForward ==
    ASSUME EngineAssumption, TypeOK, StoreFollows, [Next]_vars, NEW a \in Accounts \ behind
    PROVE  lastOpen[a] <= lastOpen'[a]
<1>1. lastOpen[a] \in Int /\ lastOpen[a] <= now
  BY DEF TypeOK, StoreFollows, NeverOpened
<1>2. CASE UNCHANGED lastOpen
  BY <1>1, <1>2
<1>3. ASSUME NEW c \in Callers, NEW slip \in Slips, RecordOpen(c, slip)
      PROVE  lastOpen[a] <= lastOpen'[a]
  BY <1>1, <1>3 DEF RecordOpen, TypeOK
<1>4. CASE Restart
  BY <1>1, <1>4 DEF Restart, StoreFollows
<1>. QED
  BY <1>2, <1>3, <1>4
     DEF Next, vars, SetLimits, Kill, Revive, Authorize, Snapshot, Drop, RecordClose,
         Connect, Tick, accountVars

(* The pause before the next open outlives the process.                    *)
THEOREM CooldownOutlivesTheProcess ==
    ASSUME EngineAssumption PROVE Spec => CooldownNeverForgotten
<1>1. TypeOK /\ StoreFollows /\ [Next]_vars =>
          [\A a \in Accounts \ behind : lastOpen[a] <= lastOpen'[a]]_vars
  BY LastOpenMovesForward
<1>. QED
  BY <1>1, TypeCorrect, AlwaysStoreFollows, PTL DEF Spec, CooldownNeverForgotten

(* While the kill switch holds nobody new may open, and only an operator   *)
(* lifts it: a restart finds it in the store.                              *)
LEMMA KillHolds ==
    ASSUME EngineAssumption, TypeOK, StoreFollows, [Next]_vars,
           killSwitch, KillRow \notin behind
    PROVE  /\ killSwitch' \/ Revive
           /\ \A a \in Accounts : Opening(a)' \subseteq Opening(a)
<1>1. killSwitch' \/ Revive
  <2>1. CASE Restart
    BY <2>1 DEF Restart, StoreFollows
  <2>. QED
    BY <2>1 DEF Next, vars, SetLimits, Kill, Authorize, Snapshot, Drop, RecordOpen,
                RecordClose, Connect, Tick
<1>2. \A a \in Accounts : Opening(a)' \subseteq Opening(a)
  <2>1. ASSUME \A c \in Callers : inFlight'[c] \in {inFlight[c], None}
        PROVE  \A a \in Accounts : Opening(a)' \subseteq Opening(a)
    BY <2>1 DEF Opening
  <2>2. ASSUME NEW c \in Callers, NEW r \in Requests, Authorize(c, r)
        PROVE  \A a \in Accounts : Opening(a)' \subseteq Opening(a)
    <3>1. CASE inFlight' = inFlight
      BY <3>1 DEF Opening
    <3>2. CASE inFlight' = [inFlight EXCEPT ![c] = r] /\ r.reduce
      BY <3>2 DEF Opening, TypeOK
    <3>. QED
      BY <2>2, <3>1, <3>2 DEF Authorize, FitsTheLimits
  <2>3. ASSUME NEW c \in Callers,
               Drop(c) \/ (\E slip \in Slips : RecordOpen(c, slip))
                       \/ (\E slip \in Slips, pnl \in PnLs : RecordClose(c, slip, pnl))
        PROVE  \A a \in Accounts : Opening(a)' \subseteq Opening(a)
    <3>1. inFlight' = [inFlight EXCEPT ![c] = None]
      BY <2>3 DEF Drop, RecordOpen, RecordClose
    <3>. QED
      BY <2>1, <3>1 DEF TypeOK
  <2>4. CASE Restart
    BY <2>1, <2>4 DEF Restart
  <2>5. CASE inFlight' = inFlight
    BY <2>1, <2>5
  <2>. QED
    BY <2>2, <2>3, <2>4, <2>5
       DEF Next, vars, SetLimits, Kill, Revive, Snapshot, Connect, Tick
<1>. QED
  BY <1>1, <1>2

(* A kill holds until an operator revives the engine, across restarts.     *)
THEOREM KillOutlivesTheProcess ==
    ASSUME EngineAssumption PROVE Spec => KillHoldsUntilRevived
<1>1. TypeOK /\ StoreFollows /\ [Next]_vars =>
          [killSwitch /\ KillRow \notin behind =>
              /\ killSwitch' \/ Revive
              /\ \A a \in Accounts : Opening(a)' \subseteq Opening(a)]_vars
  BY KillHolds
<1>. QED
  BY <1>1, TypeCorrect, AlwaysStoreFollows, PTL DEF Spec, KillHoldsUntilRevived
=============================================================================
